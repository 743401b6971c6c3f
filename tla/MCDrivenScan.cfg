\* The driven scan: two sessions, at most one transfer error in each, streams
\* recorded up to five chunks, a safety cap that bites and none.
SPECIFICATION Spec
CONSTANTS
  Scripts <- MCScripts
  Chunks <- MCChunks
  TrailWhite = 2
  TakeoverReads = 1
  LoadWait = 3
  MaxEmpty = 2
  Caps = {0, 3}
  MaxSessions = 2
  MaxErrs = 1
  FifoCap = 1
  FileCap = 5
INVARIANTS
  TypeOK
  EnginesStopped
  LoopExact
PROPERTIES
  Terminates
  RefinesRoll
CHECK_DEADLOCK FALSE
