SPECIFICATION Spec
CONSTANTS
  NDay = 3
  OneMinute = 1
  HashMax = 2
  StartTime = 1
  MaxTime = 6
  MaxId = 4
  MaxDepth = 2
  FarUpdates = FALSE
INVARIANTS
  TypeOK
  WheelOrdered
  IInv
PROPERTIES
  FiresWhenDue
  ImplementsTimers
