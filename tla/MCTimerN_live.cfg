SPECIFICATION FairSpec
CONSTANTS
  NDay = 3
  OneMinute = 1
  HashMax = 2
  StartTime = 1
  MaxTime = 5
  MaxId = 3
  MaxDepth = 2
  FarUpdates = TRUE
PROPERTIES
  TimerRuns
