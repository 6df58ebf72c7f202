SPECIFICATION FairSpec
CONSTANTS
  Key = {k1, k2}
  SessMax = 2
  SessTimeout = 3
  DelTimeout = 2
  MaxRuns = 2
  LastMsg = 4
  MaxLag = 2
  NDay = 5
  OneMinute = 1
  HashMax = 9
  StartTime = 1
  MaxTime = 11
  MaxId = 4
  FarUpdates = TRUE
INVARIANTS
  TypeOK
  SessionHasTimer
  OneTimerEach
  IInv
PROPERTIES
  SessionEnds
  NoDanglingFree
CHECK_DEADLOCK FALSE
