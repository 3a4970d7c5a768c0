SPECIFICATION FairPageSpec
CONSTANTS
  PageSize = 1
  MaxPages = 2
  MaxVersion = 5
  MaxTrouble = 4
INVARIANTS PageTypeOK CursorIsEarned
PROPERTIES NeverGoesBack CatchesUp
CHECK_DEADLOCK FALSE
