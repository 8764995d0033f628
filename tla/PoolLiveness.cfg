SPECIFICATION Spec
CONSTANTS
  Ids = {j1, j2}
  Cancelers = {}
  MaxParallel = 2
  InitParallel = 1
  ChanCap = 1
  RingCap = 1
  None = None
PROPERTIES
  JobsSettle
  CancelStopsRun
  ResizeCompletes
  ShutdownCompletes
CHECK_DEADLOCK FALSE
