SPECIFICATION Spec
CONSTANTS
  Ids = {j1, j2}
  Cancelers = {}
  MaxParallel = 2
  InitParallel = 1
  ChanCap = 1
  RingCap = 2
  None = None
PROPERTIES
  ResizeSparesJobs
CHECK_DEADLOCK FALSE
