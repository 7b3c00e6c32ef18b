SPECIFICATION SigSpec
CONSTANTS
  c1 = c1  c2 = c2
  s1 = s1  s2 = s2  s3 = s3  s4 = s4  s5 = s5
  NULL = NULL
  CallIds <- MCCallIds
  Sess <- ThreeSess
  Fds <- ThreeFds
  Calloc <- LowestAddress
  MaxSessions = 6
  PortCount = 6
  IdsPerDir = 4
  Faults = {}
  PortSpace = 16
  IntSpace = 64
  NoHost = "N"
  Messages <- MCMessages
  OddTexts <- MCOddTexts
  Rests <- MCRests
  Stacks <- MCStacks
  LocalIp = "L"
  PortStart = 1
INVARIANTS
  TypeOK
  TableConsistent
  PeersPaired
  CompactAtCommand
  RemoteIsAsked
  AnswerUnderstood
  CommandUnderstood
PROPERTIES
  ImplementsCallTable
