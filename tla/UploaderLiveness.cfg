SPECIFICATION Spec
CONSTANTS
  Ids = {j1}
  Workers = {w1, w2}
  MaxLimit = 2
  MaxUpsets = 2
  None = None
PROPERTIES
  ImplementsUploads
  UploadsSettle
  LimitHonoured
CHECK_DEADLOCK FALSE
