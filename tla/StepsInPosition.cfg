\* The comment that every counted step reached its frame.
SPECIFICATION Spec
CONSTANTS
  Scripts <- MCScripts
  EndpointCap = 2
  MaxSteps = 2
  MaxPolls = 2
  MaxSessions = 2
INVARIANT StepsInPosition
CHECK_DEADLOCK FALSE
