SPECIFICATION Spec
CONSTANTS
  Runs <- MCRuns2
  NoRun = NoRun
  w1 = w1
  w2 = w2
  Workers = {w1, w2}
  NoWorker = NoWorker
  Limited <- MCLimitedFirst
  Isolation = "read_committed"
  Faults <- MCAllFaults
  MaxClock = 1
SYMMETRY WorkerSymmetry
INVARIANTS
  AtMostOneAlive
  CompletedMeansExitZero
PROPERTIES
  ImplementsProcessLife
