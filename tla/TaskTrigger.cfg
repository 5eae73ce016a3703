SPECIFICATION Spec
CONSTANTS
  Threads = {t1, t2}
  Intervals = {1, 5}
  OldDefault = 5
  Default = 1
  MaxFailures = 1
SYMMETRY Symmetry
INVARIANT IInv
PROPERTIES
  MigrationKeepsTrigger
  ReportsAreTrue
