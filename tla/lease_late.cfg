SPECIFICATION FairSpec
CONSTANTS
  Proc = {p1, p2}
  NoProc = NoProc
  TTL = 2
  RenewEvery = 1
  RenewLag = 4
  MinJitter = 1
  MaxJitter = 2
  MaxAttempts = 2
  MaxFence = 2
INVARIANTS LostIsLost
PROPERTIES LiveRowIsOwners DisplacedLearns AcquireEnds
CHECK_DEADLOCK FALSE
