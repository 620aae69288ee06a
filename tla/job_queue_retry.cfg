SPECIFICATION Spec
CONSTANTS
  Jobs = {j1, j2}
  Workers = {w1, w2}
  Attempts = 2
  Concurrency = 1
  MaxStalls = 1
  MaxDisruptions = 2
  Thrown = {"CONTRACT_VIOLATION"}
  None = None
INVARIANTS
  NonRetryableNotRetried
CHECK_DEADLOCK FALSE
