SPECIFICATION Spec
CONSTANTS
  Client = {c1, c2}
  Collector = {g1}
  TotCnt = 3
  Past = 1
  CntMod = 1
  OwnersPrompt = TRUE
SYMMETRY ClientSymmetry
INVARIANTS
  SemaphoreSafe
  ExclusiveOwnership
  NoSpuriousFailure
  IInv
PROPERTIES
  LeavesByDeathOnly
  GcFreesOnlyExpired
  ImplementsPool
