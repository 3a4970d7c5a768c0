SPECIFICATION PageSpec
CONSTANTS
  PageSize = 1
  MaxPages = 2
  MaxVersion = 5
  MaxTrouble = 4
INVARIANT NoEventIsSkipped
CHECK_DEADLOCK FALSE
