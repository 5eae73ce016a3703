SPECIFICATION FairSpec
CONSTANTS
  Runs <- MCRuns1
  NoRun = NoRun
  w1 = w1
  Workers = {w1}
  NoWorker = NoWorker
  Limited <- MCLimitedNone
  Isolation = "serializable"
  Faults <- MCNoFaults
  MaxClock = 0
PROPERTIES
  CancelHonoured
