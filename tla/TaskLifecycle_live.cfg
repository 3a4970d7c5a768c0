CONSTANTS
  MaxEpoch = 2
  MaxInstances = 1
  MaxPods = 1
  LatePods = TRUE
SPECIFICATION FairSpec
PROPERTY StopTerminates
