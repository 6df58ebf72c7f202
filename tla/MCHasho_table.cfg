SPECIFICATION FairSpec
CONSTANTS
  k1 = k1
  k2 = k2
  k3 = k3
  Key <- ThreeKeys
  Bucket <- TwoBuckets
  hasho_func <- Collide
  TotCnt = 3
  Past = 1
  Torn = FALSE
  MaxDeaths = 2
INVARIANTS
  ChainsSound
  IInv
PROPERTIES
  LeavesByDeathOnly
  CallEnds
  ImplementsTable
