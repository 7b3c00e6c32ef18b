SPECIFICATION Spec
CONSTANTS
  c1 = c1  c2 = c2
  s1 = s1  s2 = s2  s3 = s3  s4 = s4  s5 = s5
  NULL = NULL
  CallIds <- MCCallIds
  Sess <- ThreeSess
  Fds <- TwoFds
  Calloc <- LowestAddress
  MaxSessions = 4
  PortCount = 5
  IdsPerDir = 3
  Faults = {}
INVARIANTS
  SessionCntFits
