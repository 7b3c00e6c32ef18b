SPECIFICATION LineSpec
CONSTANTS
  SeqSpace = 16
  BufSize = 4
  Entries = 2
  Offset = 7
  MaxSent = 20
  Delay = 0
CHECK_DEADLOCK FALSE
PROPERTIES
  GapFilled
