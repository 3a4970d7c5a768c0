SPECIFICATION FairSpec
CONSTANTS
  Ids = {i1}
  MaxQueue = 1
  MaxRestarts = 0
  DiskFails = FALSE
PROPERTY ExpiryStopsChildren
CHECK_DEADLOCK FALSE
