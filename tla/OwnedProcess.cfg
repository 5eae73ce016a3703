SPECIFICATION FairSpec
CONSTANTS
  WorkerInJob = TRUE
  MaxAttempts = 3
CHECK_DEADLOCK FALSE
INVARIANTS
  IInv
PROPERTIES
  TouchesOwnWindows
  ImplementsProcessLife
  TreeEnds
  ActivationEnds
