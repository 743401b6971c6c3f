\* Two tools on one scanner.
SPECIFICATION Spec
CONSTANTS
  FwScripts <- MCFwScripts
  MaxPolls = 2
  EndpointCap = 3
  Config <- MCConfig
  Preludes <- MCPreludes
  RawPackets <- MCRawPackets
  NChunks = 1
  MaxSessions = 2
  MaxCycles = 1
INVARIANTS
  TypeOK
  Balanced
  IdleMeansInStep
  ConfigLands
  LoadedMeansOurs
PROPERTY Terminates
CHECK_DEADLOCK FALSE
