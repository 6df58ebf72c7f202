SPECIFICATION FairSpec
CONSTANTS
  Client = {c1, c2}
  Collector = {g1}
  TotCnt = 1
  Past = 1
  CntMod = 1
  OwnersPrompt = FALSE
PROPERTIES
  WaiterServed
  LeakReclaimed
