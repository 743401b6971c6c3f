\* The replayed scan, two sessions one after the other, at most one transfer
\* error in each.
SPECIFICATION Spec
CONSTANTS
  Scripts <- MCScripts
  Chunks <- MCChunks
  TrailWhite = 2
  MaxSessions = 2
  MaxErrs = 1
  FifoCap = 1
  FileCap = 6
INVARIANTS
  TypeOK
  EnginesStopped
  DetectorExact
PROPERTIES
  Terminates
  RefinesRoll
CHECK_DEADLOCK FALSE
