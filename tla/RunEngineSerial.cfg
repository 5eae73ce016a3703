SPECIFICATION TaskSpec
CONSTANTS
  Runs <- MCRuns2
  NoRun = NoRun
  w1 = w1
  w2 = w2
  Workers = {w1, w2}
  NoWorker = NoWorker
  Limited <- MCRuns2
  Isolation = "serializable"
  Faults <- MCAllFaults
  MaxClock = 1
INVARIANTS
  IInv
  SupervisionInv
PROPERTIES
  FifoClaims
  ImplementsLifecycle
  LeftoversSettle
  QueueServed
