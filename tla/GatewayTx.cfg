SPECIFICATION GwSpec
CONSTANTS
  NONE = NONE
  QLen = 11
  MaxLen = 2
  StartLevel = 1
  BufLen = 7
  MinBits = 12
  Octets <- MCOctets
  MaxSignals = 2
  MaxFrames = 2
  MaxPieces = 2
  MaxData = 8
  MaxLost = 2
INVARIANTS GwTypeOK RowsHeldBack OctetsInOrder GoodFcs FramesInOrder OwnModem
CHECK_DEADLOCK FALSE
PROPERTIES Drains
