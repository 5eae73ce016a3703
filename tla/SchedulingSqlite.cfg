SPECIFICATION TaskSpec
CONSTANTS
  Schedules = {s1}
  Robots = {b1}
  b1 = b1
  s1 = s1
  s2 = s2
  robot_of <- MCOneRobot
  Calendars <- MCAllCalendars
  DayLength = 2
  Isolation = "serializable"
  MayAbort = TRUE
  MaxClock = 14
INVARIANTS
  FirstChosenSlot
  Coalesced
PROPERTIES
  InactiveNotEnqueued
  DueServed
