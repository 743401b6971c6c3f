\* The wall-clock cap on the poll loop.
SPECIFICATION Spec
CONSTANTS
  Scripts <- MCScripts
  EndpointCap = 2
  MaxSteps = 2
  MaxPolls = 2
  MaxSessions = 2
PROPERTY LimitRespected
CHECK_DEADLOCK FALSE
