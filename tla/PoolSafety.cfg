SPECIFICATION Spec
CONSTANTS
  Ids = {j1, j2}
  Cancelers = {c1}
  MaxParallel = 2
  InitParallel = 1
  ChanCap = 1
  RingCap = 1
  None = None
SYMMETRY Symmetry
INVARIANTS
  TypeOK
  JobsAccounted
  NoTerminalLeak
  ParallelLimit
  RunsAreCancelable
  StoppedMeansReaped
PROPERTIES
  ImplementsLifecycle
CHECK_DEADLOCK FALSE
