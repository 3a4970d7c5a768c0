SPECIFICATION Spec
CONSTANTS
  Ids = {i1}
  MaxQueue = 2
  MaxRestarts = 2
  DiskFails = TRUE
INVARIANT TypeOK
PROPERTY ImplementsWorker
CHECK_DEADLOCK FALSE
