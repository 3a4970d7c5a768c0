CONSTANTS
  Runs = {r1, r2}
  Intents = {i1, i2}
  Kinds = {"complete"}
  Capacity = 2
  None = None
SYMMETRY Symmetry
SPECIFICATION Spec
INVARIANTS TypeOK OneProcessPerIntent WritesAreTrue SyncedIsComplete ReviewedIsLast EndedIsQuiet
CHECK_DEADLOCK FALSE
