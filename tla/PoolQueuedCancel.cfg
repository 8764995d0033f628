SPECIFICATION Spec
CONSTANTS
  Ids = {j1, j2}
  Cancelers = {c1}
  MaxParallel = 2
  InitParallel = 1
  ChanCap = 1
  RingCap = 2
  None = None
INVARIANTS
  QueuedCancelNeverRuns
CHECK_DEADLOCK FALSE
