SPECIFICATION FairSpec
CONSTANTS
  Key = {k1, k2}
  SessMax = 2
  SessTimeout = 3
  DelTimeout = 2
  MaxRuns = 2
  LastMsg = 3
  MaxLag = 1
  NDay = 12
  OneMinute = 1
  HashMax = 9
  StartTime = 1
  MaxTime = 10
  MaxId = 3
  FarUpdates = FALSE
PROPERTY EverySessionEnds
CHECK_DEADLOCK FALSE
