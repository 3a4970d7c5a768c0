CONSTANTS
  MaxEpoch = 2
  MaxInstances = 1
  MaxPods = 1
  LatePods = FALSE
SPECIFICATION MCSpec
INVARIANT CancelEndsCancelled
