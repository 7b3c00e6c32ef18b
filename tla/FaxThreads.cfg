SPECIFICATION FairSpec
CONSTANTS
  k1 = k1  k2 = k2
  NULL = NULL
  Calls <- MCCalls
  Addr <- MCAddr
  Calloc <- NearLowest
INVARIANTS
  TypeOK
  SoundWhileUp
  OnePassLate
  NothingLeft
  MainSound
PROPERTIES
  ThreadEnds
