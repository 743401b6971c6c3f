\* Two sessions of at most two steps of at most two polls.
SPECIFICATION Spec
CONSTANTS
  Scripts <- MCScripts
  EndpointCap = 2
  MaxSteps = 2
  MaxPolls = 2
  MaxSessions = 2
INVARIANTS
  TypeOK
  InStep
  StatusTrusted
  MotorStopped
PROPERTY Terminates
CHECK_DEADLOCK FALSE
