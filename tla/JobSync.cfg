SPECIFICATION Spec
CONSTANTS
  Ids = {j1}
  Other = Other
  BusCap = 2
  MaxFaults = 2
INVARIANTS
  TypeOK
  RowsMirror
  NoStaleRow
PROPERTIES
  CompletedIsFinal
  RowsSettle
CHECK_DEADLOCK FALSE
