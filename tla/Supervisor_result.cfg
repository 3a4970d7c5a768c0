SPECIFICATION Spec
CONSTANTS
  Ids = {i1}
  MaxQueue = 1
  MaxRestarts = 0
  DiskFails = FALSE
INVARIANT ExitedHasResult
CHECK_DEADLOCK FALSE
