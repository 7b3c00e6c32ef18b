SPECIFICATION Spec
CONSTANTS
  SeqSpace = 32
  BufSize = 8
  Entries = 3
  Offset = 13
  MaxSent = 48
  Delay = 5
CHECK_DEADLOCK FALSE
INVARIANTS
  TypeOK
  OwnNumber
PROPERTIES
  InOrder
  GapFilledBeforeWrap
