SPECIFICATION Spec
CONSTANTS
  Schedules = {s1, s2}
  Robots = {b1}
  b1 = b1
  s1 = s1
  s2 = s2
  robot_of <- MCOneRobot
  Calendars <- MCDaily
  DayLength = 1
  Isolation = "read_committed"
  MayAbort = TRUE
  MaxClock = 2
INVARIANTS
  IInv
  NoStaleFiring
SYMMETRY ScheduleSymmetry
