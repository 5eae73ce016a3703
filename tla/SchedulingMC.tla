---------------------------- MODULE SchedulingMC ----------------------------
(***************************************************************************)
(* Instances of Scheduling for TLC. A day has two instants, so that most   *)
(* of the calendar lies between occurrences, or one, so that every instant *)
(* is an occurrence of the daily schedule.                                 *)
(***************************************************************************)
EXTENDS Scheduling, TLC

MCOneRobot == [s \in Schedules |-> CHOOSE b \in Robots : TRUE]

Daily == [frequency |-> "daily", time_of_day |-> 0, days |-> Weekdays]
Tuesdays == [frequency |-> "weekly", time_of_day |-> 1, days |-> {1}]
Weekend == [frequency |-> "custom", time_of_day |-> 1, days |-> {0, 6}]

MCAllCalendars == {Daily, Tuesdays, Weekend}
MCDaily == {Daily}

ScheduleSymmetry == Permutations(Schedules)
=============================================================================
