SPECIFICATION Spec
CONSTANTS
  Times = {m1}
  Tmsis = {t1, t2}
  Imsis = {i1, i2}
  Ips = {a1, a2}
  Empty = Empty
  TotCnt <- SmallIp
  MaxDeaths = 1
SYMMETRY Alike
INVARIANTS
  TypeOK
  LogsAgree
  LatestSaid
  IInv
