SPECIFICATION FecSpec
CONSTANTS
  SeqSpace = 64
  BufSize = 8
  Entries = 2
  Span = 2
  Offset = 12
  MaxSent = 9
  Delay = 1
  Size <- TwoSizes
  Indicators <- SomeIndicators
  Radix = 16
  MaxRefused = 1
CHECK_DEADLOCK FALSE
INVARIANTS
  FecTypeOK
  TakenIsOriginal
PROPERTIES
  WireSound
  FecImplementsIfpStream
