--------------------------- MODULE NextOccurrence ---------------------------
(***************************************************************************)
(* When a schedule fires next: next_occurrence of scheduler.py and the     *)
(* weekday mask it reads.  Time is a natural number of instants; a day has *)
(* DayLength of them, instant 0 begins a Monday, and no day is lengthened  *)
(* or shortened (changes of daylight saving time are left out).            *)
(*                                                                         *)
(* A calendar is what the operator chose: a frequency, a time of day and   *)
(* the set of days.  Every day is chosen when the frequency is daily, one  *)
(* when it is weekly.                                                      *)
(***************************************************************************)
EXTENDS Integers

CONSTANT DayLength      \* instants in a day

ASSUME DayLengthAssumption == DayLength \in Nat \ {0}

Weekdays == 0..6
Instants == 0..(DayLength - 1)

\* The days between two dates and the day of the week of a date.
Date(t) == t \div DayLength
Weekday(date) == date % 7

\* 1 << day
Bit == [day \in Weekdays |-> <<1, 2, 4, 8, 16, 32, 64>>[day + 1]]

\* Mutant: the bit of Sunday is lost.
weekday_mask_SixDays(days) ==
  LET bit(day) == IF day \in days THEN Bit[day] ELSE 0
  IN  bit(0) + bit(1) + bit(2) + bit(3) + bit(4) + bit(5)

\* One bit per chosen day, and the days back from the bits.
weekday_mask(days) ==
  LET bit(day) == IF day \in days THEN Bit[day] ELSE 0
  IN  bit(0) + bit(1) + bit(2) + bit(3) + bit(4) + bit(5) + bit(6)

weekdays_from_mask(mask) == {day \in Weekdays : (mask \div Bit[day]) % 2 = 1}

\* The days next_occurrence allows; those of a custom calendar went through the
\* column weekday as a mask.
Allowed(c) ==
  IF c.frequency = "custom" THEN weekdays_from_mask(weekday_mask(c.days)) ELSE c.days

\* A calendar next_occurrence does not reject with ValueError.
Valid(c) ==
  /\ c.time_of_day \in Instants
  /\ c.frequency \in {"daily", "weekly", "custom"}
  /\ c.frequency = "weekly" => \E d \in Weekdays : c.days = {d}
  /\ c.frequency = "daily" => c.days = Weekdays
  /\ c.frequency = "custom" => c.days \subseteq Weekdays
  /\ Allowed(c) # {}

\* The time of day on the date that is k days after the one of `after`.
Candidate(time_of_day, after, k) == (Date(after) + k) * DayLength + time_of_day

\* The offsets that pass the tests of the loop over eight days.
Offsets(days, time_of_day, after) ==
  {k \in 0..7 : Candidate(time_of_day, after, k) > after /\ Weekday(Date(after) + k) \in days}

\* The loop returns at the first of them.
FirstAfter(days, time_of_day, after) ==
  LET offsets == Offsets(days, time_of_day, after)
  IN  Candidate(time_of_day, after, CHOOSE k \in offsets : \A j \in offsets : k <= j)

next_occurrence(c, after) == FirstAfter(Allowed(c), c.time_of_day, after)
-----------------------------------------------------------------------------
\* What the operator asked for, said without a loop or a mask: the instants at
\* the chosen time of a chosen day.
IsSlot(days, time_of_day, t) ==
  t % DayLength = time_of_day /\ Weekday(Date(t)) \in days

IsFirstSlotAfter(days, time_of_day, after, t) ==
  /\ t > after
  /\ IsSlot(days, time_of_day, t)
  /\ \A u \in (after + 1)..(t - 1) : ~IsSlot(days, time_of_day, u)
=============================================================================
