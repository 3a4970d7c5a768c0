SPECIFICATION FairSpec
CONSTANTS
  Ids = {i1}
  MaxQueue = 1
  MaxRestarts = 1
  DiskFails = FALSE
PROPERTIES ChildrenAreStopped StatusIsFinal
CHECK_DEADLOCK FALSE
