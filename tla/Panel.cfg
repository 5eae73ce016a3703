SPECIFICATION FairSpec
CONSTANTS
  Robots = {b1}
  NoRobot = NoRobot
  Runs <- MCRuns
  RobotOf <- MCRobotOf
  HeadRev = 1
  PageSize = 1
  Jobs = {j1, j2}
  Menus <- MCMenus
  Faults = {"refresh", "session"}
CHECK_DEADLOCK FALSE
INVARIANTS
  IInv
  PageInRange
PROPERTIES
  LimitsStayLifted
  ButtonReturns
