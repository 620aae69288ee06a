SPECIFICATION FairSpec
CONSTANTS
  Jobs = {j1, j2}
  Workers = {w1, w2}
  Attempts = 2
  Concurrency = 2
  MaxStalls = 1
  MaxDisruptions = 3
  Thrown = {"TIMEOUT"}
  None = None
INVARIANTS
  TypeOK
  FailedForAReason
  OverlapNeedsExpiredLock
  ExecutionsBounded
PROPERTIES
  ImplementsBoard
CHECK_DEADLOCK FALSE
