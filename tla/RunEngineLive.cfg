SPECIFICATION FairSpec
CONSTANTS
  Runs <- MCRuns2
  NoRun = NoRun
  w1 = w1
  w2 = w2
  Workers = {w1, w2}
  NoWorker = NoWorker
  Limited <- MCLimitedFirst
  Isolation = "serializable"
  Faults <- MCNoFaults
  MaxClock = 0
INVARIANTS
  NothingAbandoned
PROPERTIES
  LimitedRunsSettle
  RunningCancelHonoured
