SPECIFICATION Spec
CONSTANTS
  Proc = {p1, p2, p3}
  NoProc = NoProc
  TTL = 4
  RenewEvery = 1
  RenewLag = 3
  MinJitter = 1
  MaxJitter = 2
  MaxAttempts = 2
  MaxFence = 2
SYMMETRY Symmetric
INVARIANTS TypeOK WorkersExclusive HolderKeepsLease
PROPERTIES ImplementsMutex
CHECK_DEADLOCK FALSE
