SPECIFICATION Spec
CONSTANTS
  Ids = {j1, j2}
  Workers = {w1, w2}
  MaxLimit = 2
  MaxUpsets = 1
  None = None
SYMMETRY Symmetry
INVARIANTS
  TypeOK
  QueueMirrored
  PendingTracked
  UploadsCancelable
  NoFileLost
  QueueServed
CHECK_DEADLOCK FALSE
