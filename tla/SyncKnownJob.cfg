SPECIFICATION Spec
CONSTANTS
  Ids = {j1}
  Other = Other
  BusCap = 2
  MaxFaults = 2
PROPERTIES
  OnlyUnknownFail
CHECK_DEADLOCK FALSE
