SPECIFICATION FairSpec
CONSTANTS
  NIFO_SIZE = 2
  TLV_SIZE = 2
  BODY_SIZE = 7
  Lens <- AllLens
  MaxTlv = 3
  MaxNodes = 6
INVARIANTS
  FullButLast
  ReadsInOrder
  GetsAll
  IInv
PROPERTY ReadEnds
