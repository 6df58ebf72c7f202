SPECIFICATION Spec
CONSTANTS
  Proc = {p1, p2}
  Node = {n1, n2, n3}
  NULL = NULL
  QMax = 1
  Prompt = TRUE
SYMMETRY Alike
INVARIANTS
  OneHolder
  RingsSound
  IInv
PROPERTIES
  AcceptedIsValid
  ImplementsMessages
