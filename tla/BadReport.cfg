SPECIFICATION Spec
CONSTANTS
  Runs <- MCRuns1
  NoRun = NoRun
  w1 = w1
  Workers = {w1}
  NoWorker = NoWorker
  Limited <- MCLimitedNone
  Isolation = "serializable"
  Faults <- MCReport
  MaxClock = 0
SYMMETRY WorkerSymmetry
INVARIANTS
  NothingAbandoned
