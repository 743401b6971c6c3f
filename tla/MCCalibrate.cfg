SPECIFICATION Spec
CONSTANTS
  Channels = {r, g}
  Means <- MCMeans
  Peaks <- MCPeaks
  DarkIters = 3
  GainIters = 2
  NLines = 2
  MaxEmpties = 2
  MaxLost = 2
INVARIANTS
  TypeOK
  ReportedGain
  InBandApplied
  NoDataNoConvergence
PROPERTY Terminates
CHECK_DEADLOCK FALSE
