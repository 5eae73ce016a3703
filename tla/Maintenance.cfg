SPECIFICATION Spec
CONSTANTS
  b1 = b1
  Robots = {b1}
  x1 = x1
  x2 = x2
  Runs = {x1, x2}
  RobotOf <- MCRobotOf
  HeadRev = 2
  Menus <- MCMenus
  OldBackups <- MCOldBackups
  Faults <- MCPassingFaults
SYMMETRY RunSymmetry
INVARIANTS
  IInv
  IdleAtHead
  NoSecondLaunch
PROPERTIES
  RunsUndisturbed
  RowKeepsLogs
  LimitsAccounted
  FailedRestoreKeepsRows
  CopyBeforeMigration
