SPECIFICATION Spec
CONSTANTS
  b1 = b1
  Robots = {b1}
  x1 = x1
  Runs = {x1}
  RobotOf <- MCRobotOf
  HeadRev = 2
  Menus <- MCFilesOnly
  OldBackups <- MCOldBackups
  Faults <- MCSafety
INVARIANTS
  ValidatedDatabase
