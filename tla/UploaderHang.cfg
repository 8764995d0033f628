SPECIFICATION Spec
CONSTANTS
  Ids = {j1}
  Workers = {w1, w2}
  MaxLimit = 2
  MaxUpsets = 0
  None = None
PROPERTIES
  SpawnReturns
CHECK_DEADLOCK FALSE
