SPECIFICATION FairSpec
CONSTANTS
  c1 = c1  c2 = c2
  s1 = s1  s2 = s2  s3 = s3  s4 = s4  s5 = s5
  NULL = NULL
  CallIds <- OneCallId
  Sess <- ThreeSess
  Fds <- TwoFds
  Calloc <- LowestAddress
  MaxSessions = 4
  PortCount = 4
  IdsPerDir = 3
  Faults = {"calloc", "listener", "fax", "pthread", "send", "heap"}
INVARIANTS
  IInv
  ResourcesAccounted
PROPERTIES
  SignalStops
  HolesCollected
