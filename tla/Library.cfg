SPECIFICATION Spec
CONSTANTS
  Jobs = {j1, j2, j3}
  Old = {j1, j2}
  Contents = {a, b}
  Plain = plain
  Workers = {w1, w2}
  Requests = {r1, r2}
  MaxInputs = 3
  MaxNodes = 2
  None = None
SYMMETRY Symmetry
INVARIANTS
  TypeOK
CHECK_DEADLOCK FALSE
PROPERTY LastCopyStays
HashNamesFile
NodeStays
