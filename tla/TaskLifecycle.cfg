CONSTANTS
  MaxEpoch = 2
  MaxInstances = 2
  MaxPods = 2
  LatePods = FALSE
SPECIFICATION Spec
INVARIANTS TypeOK EpochFence AskedAtMostOnce RunningIsEquipped NothingOutlivesTheTask
PROPERTY ImplementsLicence
