CONSTANTS
  Runs = {r1}
  Intents = {i1}
  Kinds = {"complete"}
  Capacity = 2
  None = None
SPECIFICATION Spec
INVARIANTS CompletionIsNoCancellation
CHECK_DEADLOCK FALSE
