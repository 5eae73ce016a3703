-------------------------- MODULE SchedulingProofs --------------------------
(***************************************************************************)
(* Theorems about Scheduling, for all sets of schedules, robots and        *)
(* calendars and for every length of the day.                              *)
(***************************************************************************)
EXTENDS Scheduling, TLAPS

(* next_occurrence, for every length of the day, set of days and instant. *)

\* An instant is its date and its time of day.
LEMMA Decompose ==
  ASSUME NEW t \in Nat
  PROVE  /\ Date(t) \in Nat
         /\ t % DayLength \in Instants
         /\ t = Date(t) * DayLength + (t % DayLength)
BY DayLengthAssumption, Z3 DEF Date, Instants

\* Instants are ordered by their dates first.
LEMMA LaterDate ==
  ASSUME NEW a \in Int, NEW b \in Int, NEW r \in Instants, NEW s \in Instants, a < b
  PROVE  a * DayLength + r < b * DayLength + s
<1>1. DayLength \in Nat /\ r \in Int /\ s \in Int /\ r < DayLength /\ 0 <= s
  BY DayLengthAssumption DEF Instants
<1>2. PICK n \in Nat : b = a + 1 + n
  <2>1. b - a - 1 \in Nat /\ b = a + 1 + (b - a - 1)
    OBVIOUS
  <2> QED BY <2>1
<1>3. b * DayLength = a * DayLength + DayLength + n * DayLength
  BY <1>1, <1>2, Z3
<1>4. n * DayLength \in Nat
  BY <1>1, <1>2, Z3
<1> QED BY <1>1, <1>3, <1>4, Z3

\* The date and the time of day of a candidate.
LEMMA Recompose ==
  ASSUME NEW date \in Nat, NEW r \in Instants
  PROVE  /\ date * DayLength + r \in Nat
         /\ Date(date * DayLength + r) = date
         /\ (date * DayLength + r) % DayLength = r
<1> DEFINE t == date * DayLength + r
<1>1. t \in Nat
  BY DayLengthAssumption, Z3 DEF Instants
<1>2. /\ Date(t) \in Nat /\ t % DayLength \in Instants
      /\ t = Date(t) * DayLength + (t % DayLength)
  BY <1>1, Decompose
<1>3. Date(t) = date
  <2>1. ~(Date(t) < date)
    BY <1>1, <1>2, LaterDate
  <2>2. ~(date < Date(t))
    BY <1>1, <1>2, LaterDate
  <2> QED BY <2>1, <2>2, <1>2
<1>4. t % DayLength = r
  BY <1>1, <1>2, <1>3, DayLengthAssumption, Z3 DEF Instants
<1> QED BY <1>1, <1>3, <1>4

\* A set of offsets that is not empty has a first one.
LEMMA FirstOffset ==
  ASSUME NEW S \in SUBSET (0..7), S # {}
  PROVE  \E k \in S : \A j \in S : k <= j
<1>1. \A j \in S : j \in Int /\ 0 <= j /\ j <= 7
  OBVIOUS
<1>2. CASE 0 \in S
  BY <1>1, <1>2
<1>3. CASE 0 \notin S /\ 1 \in S
  BY <1>1, <1>3
<1>4. CASE 0 \notin S /\ 1 \notin S /\ 2 \in S
  BY <1>1, <1>4
<1>5. CASE 0 \notin S /\ 1 \notin S /\ 2 \notin S /\ 3 \in S
  BY <1>1, <1>5
<1>6. CASE 0 \notin S /\ 1 \notin S /\ 2 \notin S /\ 3 \notin S /\ 4 \in S
  BY <1>1, <1>6
<1>7. CASE \A j \in S : j \in {5, 6, 7}
  <2>1. CASE 5 \in S
    BY <1>7, <2>1
  <2>2. CASE 5 \notin S /\ 6 \in S
    BY <1>7, <2>2
  <2>3. CASE \A j \in S : j = 7
    <3>1. PICK j \in S : j = 7
      BY <2>3
    <3> QED BY <2>3, <3>1
  <2> QED BY <1>7, <2>1, <2>2, <2>3
<1>8. \A j \in S : j \in {0, 1, 2, 3, 4, 5, 6, 7}
  BY <1>1
<1> QED BY <1>2, <1>3, <1>4, <1>5, <1>6, <1>7, <1>8

\* The loop always finds a day: the seven dates after the present one bear every
\* weekday, and their candidates are all later.
LEMMA OffsetExists ==
  ASSUME NEW days \in SUBSET Weekdays, days # {},
         NEW time_of_day \in Instants, NEW after \in Nat
  PROVE  Offsets(days, time_of_day, after) # {}
<1>1. PICK d \in days : d \in 0..6
  BY DEF Weekdays
<1>2. /\ Date(after) \in Nat /\ after % DayLength \in Instants
      /\ after = Date(after) * DayLength + (after % DayLength)
  BY Decompose
<1>3. PICK k \in 1..7 : (Date(after) + k) % 7 = d
  <2>1. PICK q \in Nat, r \in 0..6 : Date(after) = 7 * q + r
    <3>1. /\ Date(after) \div 7 \in Nat /\ Date(after) % 7 \in 0..6
          /\ Date(after) = 7 * (Date(after) \div 7) + (Date(after) % 7)
      BY <1>2, Z3
    <3> QED BY <3>1
  <2>2. CASE d > r
    BY <1>1, <2>1, <2>2, d - r \in 1..7, (Date(after) + (d - r)) % 7 = d
  <2>3. CASE d <= r
    BY <1>1, <2>1, <2>3, d - r + 7 \in 1..7, (Date(after) + (d - r + 7)) % 7 = d
  <2> QED BY <1>1, <2>1, <2>2, <2>3
<1>4. Candidate(time_of_day, after, k) > after
  <2>1. Date(after) * DayLength + (after % DayLength)
          < (Date(after) + k) * DayLength + time_of_day
    BY <1>2, LaterDate, Date(after) + k \in Int, Date(after) < Date(after) + k
  <2> QED BY <2>1, <1>2, DayLengthAssumption DEF Candidate, Instants
<1>5. k \in Offsets(days, time_of_day, after)
  BY <1>1, <1>3, <1>4 DEF Offsets, Weekday
<1> QED BY <1>5

\* next_occurrence, before the days went through a mask: the result is a chosen
\* time of a chosen day, later than `after`, and no such time lies between.
THEOREM FirstAfterCorrect ==
  ASSUME NEW days \in SUBSET Weekdays, days # {},
         NEW time_of_day \in Instants, NEW after \in Nat
  PROVE  /\ FirstAfter(days, time_of_day, after) \in Nat
         /\ IsFirstSlotAfter(days, time_of_day, after, FirstAfter(days, time_of_day, after))
<1> DEFINE offsets == Offsets(days, time_of_day, after)
           k == CHOOSE i \in offsets : \A j \in offsets : i <= j
           t == FirstAfter(days, time_of_day, after)
<1>1. offsets \in SUBSET (0..7) /\ offsets # {}
  BY OffsetExists DEF Offsets
<1>2. k \in offsets /\ \A j \in offsets : k <= j
  <2>1. \E i \in offsets : \A j \in offsets : i <= j
    BY <1>1, FirstOffset
  <2> QED BY <2>1
<1>3. t = Candidate(time_of_day, after, k)
  BY DEF FirstAfter
<1>4. k \in 0..7 /\ t > after /\ Weekday(Date(after) + k) \in days
  BY <1>2, <1>3 DEF Offsets
<1> HIDE DEF k, offsets, t
<1>5. Date(after) \in Nat
  BY Decompose
<1>6. t \in Nat /\ Date(t) = Date(after) + k /\ t % DayLength = time_of_day
  BY <1>3, <1>4, <1>5, Recompose DEF Candidate
<1>7. IsSlot(days, time_of_day, t)
  BY <1>4, <1>6 DEF IsSlot
<1>8. ASSUME NEW u \in (after + 1)..(t - 1), IsSlot(days, time_of_day, u)
      PROVE  FALSE
  <2>1. u \in Nat /\ u > after /\ u < t
    BY <1>6
  <2>2. Date(u) \in Nat /\ u = Date(u) * DayLength + time_of_day
    BY <1>8, <2>1, Decompose DEF IsSlot
  <2>3. Date(u) >= Date(after)
    <3>1. after = Date(after) * DayLength + (after % DayLength) /\ after % DayLength \in Instants
      BY Decompose
    <3>2. SUFFICES ASSUME Date(u) < Date(after) PROVE FALSE
      BY <1>5, <2>2
    <3>3. u < after
      BY <3>1, <3>2, <2>2, <1>5, LaterDate
    <3> QED BY <3>3, <2>1
  <2>4. Date(u) < Date(after) + k
    <3>1. t = (Date(after) + k) * DayLength + time_of_day
      BY <1>3 DEF Candidate
    <3>2. CASE Date(after) + k < Date(u)
      <4>1. t < u
        BY <3>1, <3>2, <2>2, <1>4, <1>5, LaterDate
      <4> QED BY <4>1, <2>1, <1>6
    <3>3. CASE Date(after) + k = Date(u)
      BY <3>1, <3>3, <2>1, <2>2, <1>6
    <3> QED BY <3>2, <3>3, <2>2, <1>4, <1>5
  <2>5. PICK j \in 0..7 : j = Date(u) - Date(after)
    BY <2>2, <2>3, <2>4, <1>4, <1>5
  <2>6. Date(after) + j = Date(u)
    BY <2>5, <2>2, <1>5
  <2>7. j \in offsets
    BY <2>1, <2>2, <2>6, <1>8 DEF offsets, Offsets, Candidate, IsSlot
  <2>8. j < k
    BY <2>4, <2>5, <2>2, <1>4, <1>5
  <2> QED BY <2>7, <2>8, <1>2, <1>4
<1> QED BY <1>4, <1>6, <1>7, <1>8 DEF t, IsFirstSlotAfter

\* The result lies within eight days.
LEMMA FirstAfterBound ==
  ASSUME NEW days \in SUBSET Weekdays, days # {},
         NEW time_of_day \in Instants, NEW after \in Nat
  PROVE  FirstAfter(days, time_of_day, after) <= after + 8 * DayLength
<1> DEFINE offsets == Offsets(days, time_of_day, after)
           k == CHOOSE i \in offsets : \A j \in offsets : i <= j
<1>1. k \in 0..7
  <2>1. \E i \in offsets : \A j \in offsets : i <= j
    BY OffsetExists, FirstOffset DEF Offsets
  <2>2. k \in offsets
    BY <2>1
  <2> QED BY <2>2 DEF Offsets
<1>2. FirstAfter(days, time_of_day, after) = (Date(after) + k) * DayLength + time_of_day
  BY DEF FirstAfter, Candidate
<1> HIDE DEF k
<1>3. Date(after) \in Nat /\ Date(after) * DayLength <= after
  <2>1. /\ Date(after) \in Nat /\ after % DayLength \in Instants
        /\ after = Date(after) * DayLength + (after % DayLength)
    BY Decompose
  <2>2. Date(after) * DayLength \in Nat
    BY <2>1, DayLengthAssumption
  <2>3. after % DayLength \in Nat
    BY <2>1, DayLengthAssumption DEF Instants
  <2> QED BY <2>1, <2>2, <2>3
<1>4. (Date(after) + k) * DayLength + time_of_day <= Date(after) * DayLength + 8 * DayLength
  <2>1. (Date(after) + k) * DayLength = Date(after) * DayLength + k * DayLength
    BY <1>1, <1>3, DayLengthAssumption, Z3
  <2>2. k * DayLength <= 7 * DayLength
    BY <1>1, DayLengthAssumption
  <2> QED BY <1>1, <1>3, <2>1, <2>2, DayLengthAssumption DEF Instants
<1> QED BY <1>1, <1>2, <1>3, <1>4, DayLengthAssumption DEF Instants

\* Writing the days as a mask and reading the mask gives the days.
THEOREM MaskRoundTrip ==
  ASSUME NEW days \in SUBSET Weekdays
  PROVE  weekdays_from_mask(weekday_mask(days)) = days
<1> DEFINE bit(day) == IF day \in days THEN Bit[day] ELSE 0
           mask == weekday_mask(days)
<1>1. /\ Bit[0] = 1 /\ Bit[1] = 2 /\ Bit[2] = 4 /\ Bit[3] = 8
      /\ Bit[4] = 16 /\ Bit[5] = 32 /\ Bit[6] = 64
  BY DEF Bit, Weekdays
<1>2. mask = bit(0) + bit(1) + bit(2) + bit(3) + bit(4) + bit(5) + bit(6)
  BY DEF weekday_mask
<1>3. /\ bit(0) \in {0, 1} /\ bit(1) \in {0, 2} /\ bit(2) \in {0, 4} /\ bit(3) \in {0, 8}
      /\ bit(4) \in {0, 16} /\ bit(5) \in {0, 32} /\ bit(6) \in {0, 64}
      /\ (bit(0) = 1) <=> (0 \in days)
      /\ (bit(1) = 2) <=> (1 \in days)
      /\ (bit(2) = 4) <=> (2 \in days)
      /\ (bit(3) = 8) <=> (3 \in days)
      /\ (bit(4) = 16) <=> (4 \in days)
      /\ (bit(5) = 32) <=> (5 \in days)
      /\ (bit(6) = 64) <=> (6 \in days)
  BY <1>1
<1> HIDE DEF bit, mask
<1>4. mask \in Nat
  BY <1>2, <1>3
<1>5. ((mask \div 1) % 2 = 1) <=> (0 \in days)
  BY <1>2, <1>3
<1>6. ((mask \div 2) % 2 = 1) <=> (1 \in days)
  BY <1>2, <1>3
<1>7. ((mask \div 4) % 2 = 1) <=> (2 \in days)
  BY <1>2, <1>3
<1>8. ((mask \div 8) % 2 = 1) <=> (3 \in days)
  BY <1>2, <1>3
<1>9. ((mask \div 16) % 2 = 1) <=> (4 \in days)
  BY <1>2, <1>3
<1>10. ((mask \div 32) % 2 = 1) <=> (5 \in days)
  BY <1>2, <1>3
<1>11. ((mask \div 64) % 2 = 1) <=> (6 \in days)
  BY <1>2, <1>3
<1>12. \A day \in Weekdays : ((mask \div Bit[day]) % 2 = 1) <=> (day \in days)
  BY <1>1, <1>5, <1>6, <1>7, <1>8, <1>9, <1>10, <1>11 DEF Weekdays
<1> QED BY <1>12 DEF weekdays_from_mask, mask

\* next_occurrence on every calendar it accepts, the mask included: it returns
\* the first time the operator chose after `after`.
THEOREM NextOccurrenceCorrect ==
  ASSUME NEW c, Valid(c), NEW after \in Nat
  PROVE  /\ next_occurrence(c, after) \in Nat
         /\ next_occurrence(c, after) <= after + 8 * DayLength
         /\ IsFirstSlotAfter(c.days, c.time_of_day, after, next_occurrence(c, after))
<1>1. c.days \in SUBSET Weekdays
  BY DEF Valid
<1>2. Allowed(c) = c.days
  BY <1>1, MaskRoundTrip DEF Allowed
<1>3. c.days # {} /\ c.time_of_day \in Instants
  BY <1>2 DEF Valid
<1> QED BY <1>1, <1>2, <1>3, FirstAfterCorrect, FirstAfterBound DEF next_occurrence
-----------------------------------------------------------------------------
(* The schedules. *)

\* The next occurrence of a row is later than the time it is counted from, and
\* inside the horizon.
LEMMA NextIsLater ==
  ASSUME NEW c \in Calendars, NEW after \in Moments
  PROVE  /\ next_occurrence(c, after) \in Horizon
         /\ next_occurrence(c, after) > after
         /\ IsFirstSlotAfter(c.days, c.time_of_day, after, next_occurrence(c, after))
<1>1. Valid(c) /\ after \in Nat /\ after <= MaxClock
  BY ConstantsAssumption DEF Moments
<1>2. /\ next_occurrence(c, after) \in Nat
      /\ next_occurrence(c, after) <= after + 8 * DayLength
      /\ IsFirstSlotAfter(c.days, c.time_of_day, after, next_occurrence(c, after))
  BY <1>1, NextOccurrenceCorrect
<1>3. next_occurrence(c, after) > after
  BY <1>2 DEF IsFirstSlotAfter
<1>4. 8 * DayLength \in Nat /\ MaxClock \in Nat
  BY DayLengthAssumption, ConstantsAssumption
<1>5. next_occurrence(c, after) \in Horizon
  BY <1>1, <1>2, <1>4 DEF Horizon
<1> QED BY <1>2, <1>3, <1>5

LEMMA InitInvariant == Init => IInv
<1> SUFFICES ASSUME Init PROVE IInv
  OBVIOUS
<1>1. AnyCalendar \in Calendars /\ 0 \in Moments
  BY ConstantsAssumption DEF AnyCalendar, Moments
<1>2. TypeOK
  BY <1>1 DEF Init, TypeOK, NoEdit
<1>3. TickInv
  BY DEF Init, TickInv
<1>4. SinceInv
  BY DEF Init, SinceInv
<1> QED BY <1>2, <1>3, <1>4 DEF IInv

\* The steps of the operator.
LEMMA OperatorInvariant ==
  ASSUME IInv, NEW s \in Schedules,
         \/ \E c \in Calendars : Add(s, c)
         \/ Pause(s) \/ Activate(s) \/ ActivateRead(s) \/ ActivateWrite(s) \/ Remove(s)
  PROVE  IInv'
<1> USE DEF IInv
<1>0. clock \in 0..MaxClock /\ clock \in Moments /\ 0 \in Moments /\ MaxClock \in Nat
  BY ConstantsAssumption DEF TypeOK, Moments
<1>1. ASSUME NEW c \in Calendars, Add(s, c) PROVE IInv'
  <2>1. next_occurrence(c, clock) \in Horizon /\ next_occurrence(c, clock) > clock
    BY <1>0, NextIsLater
  <2> HIDE DEF next_occurrence
  <2>2. TypeOK'
    BY <1>0, <1>1, <2>1 DEF Add, TypeOK, schedule, tick
  <2>3. TickInv'
    BY <1>1 DEF Add, Writable, TypeOK, TickInv, tick
  <2>4. SinceInv'
    BY <1>0, <1>1, <2>1 DEF Add, TypeOK, SinceInv
  <2> QED BY <2>2, <2>3, <2>4
<1>2. CASE Pause(s)
  <2>1. TypeOK'
    BY <1>2 DEF Pause, TypeOK, tick
  <2>2. TickInv'
    BY <1>2 DEF Pause, Writable, TypeOK, TickInv, tick
  <2>3. SinceInv'
    BY <1>2 DEF Pause, TypeOK, SinceInv
  <2> QED BY <2>1, <2>2, <2>3
<1>3. CASE Activate(s)
  <2>1. cal[s] \in Calendars
    BY DEF TypeOK
  <2>2. next_occurrence(cal[s], clock) \in Horizon /\ next_occurrence(cal[s], clock) > clock
    BY <1>0, <2>1, NextIsLater
  <2>3. next_run_at' = [next_run_at EXCEPT ![s] = next_occurrence(cal[s], clock)]
    BY <1>3 DEF Activate, Activated, Row, TypeOK
  <2>4. TypeOK'
    BY <1>0, <1>3, <2>2, <2>3 DEF Activate, Activated, TypeOK, tick
  <2>5. TickInv'
    BY <1>3, <2>3 DEF Activate, Activated, Existing, Writable, TypeOK, TickInv, tick
  <2>6. edit[s] = NoEdit
    BY <1>3 DEF Activate, SinceInv
  <2>7. SinceInv'
    BY <1>0, <1>3, <2>2, <2>3, <2>6 DEF Activate, Activated, Existing, TypeOK, SinceInv
  <2> QED BY <2>4, <2>5, <2>7
<1>4. CASE ActivateRead(s)
  <2>1. Row(s) \in [status : {"active", "paused", "none"}, next : Horizon \cup {Never},
                    at : Moments \cup {Never}]
    BY <1>0, <1>4 DEF ActivateRead, Existing, Row, TypeOK
  <2>2. TypeOK'
    BY <1>4, <2>1 DEF ActivateRead, TypeOK, schedule, tick
  <2>3. TickInv'
    BY <1>4 DEF ActivateRead, TickInv, schedule, tick
  <2>4. next_run_at[s] \in Int
    BY ConstantsAssumption, DayLengthAssumption DEF TypeOK, Horizon, Never
  <2>5. SinceInv'
    BY <1>0, <1>4, <2>4 DEF ActivateRead, Existing, Row, TypeOK, SinceInv, schedule
  <2> QED BY <2>2, <2>3, <2>5
<1>5. CASE ActivateWrite(s) /\ Existing(s)
  <2> DEFINE at == edit[s].at
             following == next_occurrence(cal[s], at)
  <2>1. cal[s] \in Calendars /\ at \in 0..clock /\ at \in Moments
    BY <1>0, <1>5 DEF ActivateWrite, TypeOK, SinceInv, Moments
  <2>2. following \in Horizon /\ following > at
    BY <2>1, NextIsLater
  <2>3. /\ next_run_at' = [next_run_at EXCEPT ![s] = IF following # edit[s].next THEN following ELSE @]
        /\ since' = [since EXCEPT ![s] = at]
        /\ status' = [status EXCEPT ![s] = IF edit[s].status = "paused" THEN "active" ELSE @]
        /\ edit' = [edit EXCEPT ![s] = NoEdit]
        /\ s \notin staged
        /\ UNCHANGED <<clock, cal, last_run_at, served, robot, unfinished, tick>>
    BY <1>5 DEF ActivateWrite, Activated, Writable
  <2>4. next_run_at[s] \in Int /\ edit[s].next \in Int
    BY ConstantsAssumption, DayLengthAssumption DEF TypeOK, Horizon, Never
  <2>5. edit[s].next <= next_run_at[s] \/ edit[s].next <= at
    BY <1>5 DEF ActivateWrite, SinceInv
  <2> HIDE DEF following, at
  <2>6. next_run_at'[s] \in Horizon \cup {Never} /\ next_run_at'[s] > at
    BY <2>1, <2>2, <2>3, <2>4, <2>5 DEF TypeOK, Horizon
  <2>7. TypeOK'
    BY <2>1, <2>3, <2>6 DEF TypeOK, NoEdit, tick
  <2>8. TickInv'
    BY <1>5, <2>3 DEF Existing, TypeOK, TickInv, tick
  <2>9. SinceInv'
    BY <1>5, <2>1, <2>3, <2>6 DEF Existing, TypeOK, SinceInv
  <2> QED BY <2>7, <2>8, <2>9
<1>6. CASE ActivateWrite(s) /\ ~Existing(s)
  <2>1. TypeOK'
    BY <1>6 DEF ActivateWrite, TypeOK, NoEdit, tick
  <2>2. TickInv'
    BY <1>6 DEF ActivateWrite, TickInv, tick
  <2>3. SinceInv'
    BY <1>6 DEF ActivateWrite, TypeOK, SinceInv
  <2> QED BY <2>1, <2>2, <2>3
<1>7. CASE Remove(s)
  <2>1. TypeOK'
    BY <1>7 DEF Remove, TypeOK, tick
  <2>2. TickInv'
    BY <1>7 DEF Remove, Writable, TypeOK, TickInv, tick
  <2>3. SinceInv'
    BY <1>7 DEF Remove, Existing, TypeOK, SinceInv
  <2> QED BY <2>1, <2>2, <2>3
<1> QED BY <1>1, <1>2, <1>3, <1>4, <1>5, <1>6, <1>7

\* The steps on robots and the clock.
LEMMA RobotInvariant ==
  ASSUME IInv,
         \/ Tick
         \/ \E b \in Robots :
              \/ \E value \in {"active", "inactive"} : SetRobotActive(b, value)
              \/ RemoveRobot(b) \/ RunsSettle(b)
  PROVE  IInv'
<1> USE DEF IInv
<1>1. ASSUME NEW b \in Robots, NEW value \in {"active", "inactive"}, SetRobotActive(b, value)
      PROVE  IInv'
  BY <1>1 DEF SetRobotActive, TypeOK, TickInv, SinceInv, schedule, tick
<1>2. ASSUME NEW b \in Robots, RemoveRobot(b) PROVE IInv'
  <2>1. TypeOK'
    BY <1>2 DEF RemoveRobot, TypeOK, tick
  <2>2. TickInv'
    BY <1>2 DEF RemoveRobot, TypeOK, TickInv, tick
  <2>3. SinceInv'
    BY <1>2 DEF RemoveRobot, Existing, TypeOK, SinceInv
  <2> QED BY <2>1, <2>2, <2>3
<1>3. ASSUME NEW b \in Robots, RunsSettle(b) PROVE IInv'
  BY <1>3 DEF RunsSettle, TypeOK, TickInv, SinceInv, schedule, tick
<1>4. CASE Tick
  <2>1. TypeOK'
    BY <1>4, ConstantsAssumption DEF Tick, TypeOK, Moments, schedule, tick
  <2>2. now \in Nat /\ clock \in Nat /\ clock' = clock + 1
    BY <1>4, ConstantsAssumption DEF Tick, TypeOK, Moments
  <2>3. TickInv'
    BY <1>4, <2>2 DEF Tick, TickInv, schedule, tick
  <2>4. SinceInv'
    BY <1>4, <2>2 DEF Tick, SinceInv, schedule
  <2> QED BY <2>1, <2>3, <2>4
<1> QED BY <1>1, <1>2, <1>3, <1>4

\* The transaction of the due schedules.
LEMMA TransactionInvariant ==
  ASSUME IInv, Transaction \/ Rollback
  PROVE  IInv'
<1> USE DEF IInv
<1>0. 0 \in Moments /\ clock \in Nat /\ now \in Nat
  BY ConstantsAssumption DEF TypeOK, Moments
<1>1. CASE DueRead
  <2>1. ASSUME NEW s \in Schedules, Due(s, clock)
        PROVE  next_run_at[s] \in 0..clock /\ next_run_at[s] \in Moments /\ status[s] # "none"
    BY <1>0, <2>1, ConstantsAssumption, DayLengthAssumption
       DEF Due, TypeOK, SinceInv, Moments, Horizon, Never
  <2>2. /\ staged' = {} /\ now' = clock
        /\ todo' = {s \in Schedules : Due(s, clock)}
        /\ expected' = [s \in Schedules |-> IF Due(s, clock) THEN next_run_at[s] ELSE Never]
        /\ open' = TRUE
        /\ UNCHANGED <<clock, schedule, robot, unfinished, edit>>
    BY <1>1 DEF DueRead, TickInv
  <2> HIDE DEF Due
  <2>3. TypeOK'
    BY <2>1, <2>2 DEF TypeOK, schedule
  <2>4. TickInv'
    BY <1>0, <2>1, <2>2 DEF TypeOK, TickInv, schedule
  <2>5. SinceInv'
    BY <2>2 DEF SinceInv, schedule
  <2> QED BY <2>3, <2>4, <2>5
<1>2. ASSUME NEW s \in Schedules, Claim(s) PROVE IInv'
  <2>1. TypeOK'
    BY <1>2 DEF Claim, TypeOK, schedule
  <2>2. TickInv'
    BY <1>2 DEF Claim, Unmoved, TypeOK, TickInv, schedule
  <2>3. SinceInv'
    BY <1>2 DEF Claim, SinceInv, schedule
  <2> QED BY <2>1, <2>2, <2>3
<1>3. ASSUME NEW s \in Schedules, Pass(s) PROVE IInv'
  <2>1. TypeOK'
    BY <1>3 DEF Pass, TypeOK, schedule
  <2>2. s \notin staged
    BY <1>3 DEF Pass, Unmoved, TickInv
  <2>3. TickInv'
    BY <1>3, <2>2 DEF Pass, TypeOK, TickInv, schedule
  <2>4. SinceInv'
    BY <1>3 DEF Pass, SinceInv, schedule
  <2> QED BY <2>1, <2>3, <2>4
<1>4. CASE Commit
  <2>1. ASSUME NEW s \in staged
        PROVE  /\ Following(s) \in Horizon /\ Following(s) > now
               /\ expected[s] \in Moments /\ next_run_at[s] \in 0..now
    <3>1. s \in Schedules /\ cal[s] \in Calendars /\ now \in Moments
      BY DEF TypeOK
    <3>2. Following(s) \in Horizon /\ Following(s) > now
      BY <3>1, NextIsLater DEF Following
    <3>3. next_run_at[s] = expected[s] /\ expected[s] \in 0..now
      BY DEF TickInv
    <3>4. expected[s] \in Moments
      BY <3>1, <3>3, ConstantsAssumption DEF Moments
    <3> QED BY <3>2, <3>3, <3>4
  <2> HIDE DEF Following
  <2>2. TypeOK'
    BY <1>0, <1>4, <2>1 DEF Commit, Close, TypeOK
  <2>3. TickInv'
    BY <1>0, <1>4 DEF Commit, Close, TickInv
  <2>4. ASSUME NEW s \in Schedules
        PROVE  next_run_at[s] \in Int /\ next_run_at'[s] \in Int /\ next_run_at[s] <= next_run_at'[s]
    <3>1. next_run_at[s] \in Int
      BY ConstantsAssumption, DayLengthAssumption DEF TypeOK, Horizon, Never
    <3>2. CASE s \in staged
      BY <1>0, <1>4, <2>1, <3>2, ConstantsAssumption, DayLengthAssumption DEF Commit, Horizon
    <3>3. CASE s \notin staged
      BY <1>4, <3>1, <3>3 DEF Commit
    <3> QED BY <3>2, <3>3
  <2>5. SinceInv'
    <3>1. UNCHANGED <<clock, status, since, edit>>
      BY <1>4 DEF Commit
    <3>2. ASSUME NEW s \in Schedules, status[s] # "none"
          PROVE  since[s] \in 0..clock /\ since[s] < next_run_at'[s]
      BY <1>0, <2>4, <3>2 DEF SinceInv
    <3>3. ASSUME NEW s \in Schedules, edit[s] # NoEdit
          PROVE  edit[s].next <= next_run_at'[s] \/ edit[s].next <= edit[s].at
      <4>1. edit[s].next \in Int
        BY ConstantsAssumption, DayLengthAssumption DEF TypeOK, Horizon, Never
      <4> QED BY <2>4, <3>3, <4>1 DEF SinceInv
    <3> QED BY <3>1, <3>2, <3>3 DEF SinceInv
  <2> QED BY <2>2, <2>3, <2>5
<1>5. CASE Rollback
  <2>1. TypeOK'
    BY <1>0, <1>5 DEF Rollback, Close, TypeOK, schedule
  <2>2. TickInv'
    BY <1>0, <1>5 DEF Rollback, Close, TickInv
  <2>3. SinceInv'
    BY <1>5 DEF Rollback, Close, SinceInv, schedule
  <2> QED BY <2>1, <2>2, <2>3
<1> QED BY <1>1, <1>2, <1>3, <1>4, <1>5 DEF Transaction

\* Whatever the isolation and whatever fails, the invariant of the schedules
\* holds: a claimed row stays as it was read, and the next occurrence of a row is
\* later than its activation.
THEOREM Invariance == Spec => []IInv
<1>1. IInv /\ [Next]_vars => IInv'
  <2> SUFFICES ASSUME IInv, [Next]_vars PROVE IInv'
    OBVIOUS
  <2>1. CASE Next
    BY <2>1, OperatorInvariant, RobotInvariant, TransactionInvariant DEF Next
  <2>2. CASE UNCHANGED vars
    BY <2>2 DEF vars, schedule, tick, IInv, TypeOK, TickInv, SinceInv
  <2> QED BY <2>1, <2>2
<1> QED BY InitInvariant, <1>1, PTL DEF Spec

\* A pause or a reactivation takes effect at once: what a session claims became
\* due after the schedule was last activated.
THEOREM NothingStale == Spec => []NoStaleFiring
<1>1. IInv => NoStaleFiring
  BY DEF IInv, TypeOK, TickInv, SinceInv, NoStaleFiring
<1> QED BY Invariance, <1>1, PTL
-----------------------------------------------------------------------------
(* What serializable transactions add. *)

Serializable == Isolation = "serializable"

\* The numbers that the order of the columns is about.
LEMMA ColumnsAreNumbers ==
  ASSUME IInv
  PROVE  /\ clock \in Nat /\ now \in Nat /\ now <= clock
         /\ \A s \in Schedules : since[s] \in Int /\ served[s] \in Int /\ last_run_at[s] \in Int
<1>1. Moments \subseteq Nat
  BY ConstantsAssumption DEF Moments
<1>2. clock \in Moments /\ now \in Moments /\ now <= clock
  BY DEF IInv, TypeOK, TickInv
<1>3. Moments \cup {Never} \subseteq Int
  BY <1>1 DEF Never
<1>4. ASSUME NEW s \in Schedules
      PROVE  since[s] \in Int /\ served[s] \in Int /\ last_run_at[s] \in Int
  BY <1>3 DEF IInv, TypeOK
<1> QED BY <1>1, <1>2, <1>4

\* Rows that keep their columns keep their slots.
LEMMA SlotsKept ==
  ASSUME FirstChosenSlot, NEW S \in SUBSET Schedules,
         \A s \in S : /\ status'[s] # "none" => status[s] # "none"
                      /\ cal'[s] = cal[s] /\ since'[s] = since[s] /\ served'[s] = served[s]
                      /\ next_run_at'[s] = next_run_at[s],
         \A s \in Schedules \ S :
           status'[s] # "none" =>
             IsFirstSlotAfter(cal'[s].days, cal'[s].time_of_day, Latest(s)', next_run_at'[s])
  PROVE  FirstChosenSlot'
<1>1. ASSUME NEW s \in S, status'[s] # "none"
      PROVE  IsFirstSlotAfter(cal'[s].days, cal'[s].time_of_day, Latest(s)', next_run_at'[s])
  <2>1. Latest(s)' = Latest(s)
    BY DEF Latest
  <2>2. IsFirstSlotAfter(cal[s].days, cal[s].time_of_day, Latest(s), next_run_at[s])
    BY <1>1 DEF FirstChosenSlot
  <2> QED BY <2>1, <2>2
<1> QED BY <1>1 DEF FirstChosenSlot

LEMMA OperatorSerial ==
  ASSUME Serializable, IInv, SerialInv, NEW s \in Schedules,
         \/ \E c \in Calendars : Add(s, c)
         \/ Pause(s) \/ Activate(s) \/ ActivateRead(s) \/ ActivateWrite(s) \/ Remove(s)
  PROVE  SerialInv'
<1> DEFINE Rest == /\ \A r \in Schedules :
                        /\ last_run_at[r] <= served[r] /\ served[r] <= clock
                        /\ status[r] = "none" => since[r] = Never /\ served[r] = Never
                        /\ open => since[r] <= now /\ served[r] <= now
                   /\ \A r \in todo \cup staged : robot[robot_of[r]] = "active"
<1>0. /\ clock \in Moments /\ clock \in Nat /\ FirstChosenSlot /\ Rest
      /\ \A r \in Schedules : since[r] \in Int /\ served[r] \in Int
  BY ColumnsAreNumbers DEF IInv, TypeOK, SerialInv
<1> SUFFICES FirstChosenSlot' /\ Rest'
  BY DEF SerialInv
<1>1. ASSUME NEW c \in Calendars, Add(s, c) PROVE FirstChosenSlot' /\ Rest'
  <2>1. IsFirstSlotAfter(c.days, c.time_of_day, clock, next_occurrence(c, clock))
    BY <1>0, NextIsLater
  <2> HIDE DEF next_occurrence, IsFirstSlotAfter
  <2>2. /\ cal' = [cal EXCEPT ![s] = c] /\ status' = [status EXCEPT ![s] = "active"]
        /\ next_run_at' = [next_run_at EXCEPT ![s] = next_occurrence(c, clock)]
        /\ since' = [since EXCEPT ![s] = clock]
        /\ status[s] = "none" /\ ~open
        /\ UNCHANGED <<clock, last_run_at, served, robot, tick>>
    BY <1>1 DEF Add, Serializable, Writable
  <2>3. Latest(s)' = clock
    BY <1>0, <2>2 DEF Latest, Never, IInv, TypeOK
  <2>4. /\ cal'[s] = c /\ next_run_at'[s] = next_occurrence(c, clock)
    BY <2>2 DEF IInv, TypeOK
  <2>5. IsFirstSlotAfter(cal'[s].days, cal'[s].time_of_day, Latest(s)', next_run_at'[s])
    BY <2>1, <2>3, <2>4
  <2>6. \A r \in Schedules \ {s} :
           /\ status'[r] = status[r] /\ cal'[r] = cal[r] /\ since'[r] = since[r]
           /\ served'[r] = served[r] /\ next_run_at'[r] = next_run_at[r]
    BY <2>2 DEF IInv, TypeOK
  <2>7. FirstChosenSlot'
    BY <1>0, <2>5, <2>6, SlotsKept
  <2>8. Rest'
    BY <1>0, <2>2 DEF IInv, TypeOK, tick
  <2> QED BY <2>7, <2>8
<1>2. CASE Pause(s) \/ Remove(s)
  <2>1. /\ status' = [status EXCEPT ![s] = "paused"] \/ status' = [status EXCEPT ![s] = "removed"]
        /\ status[s] # "none"
        /\ UNCHANGED <<clock, cal, next_run_at, last_run_at, since, served, robot, tick>>
    BY <1>2 DEF Pause, Remove, Existing
  <2>2. \A r \in Schedules : (status'[r] = "none") <=> (status[r] = "none")
    BY <2>1 DEF IInv, TypeOK
  <2>3. FirstChosenSlot'
    BY <1>0, <2>1, <2>2, SlotsKept
  <2>4. Rest'
    BY <1>0, <2>1, <2>2 DEF tick
  <2> QED BY <2>3, <2>4
<1>3. CASE Activate(s)
  <2> DEFINE following == next_occurrence(cal[s], clock)
  <2>1. IsFirstSlotAfter(cal[s].days, cal[s].time_of_day, clock, following)
    BY <1>0, NextIsLater DEF IInv, TypeOK
  <2>2. /\ next_run_at' = [next_run_at EXCEPT ![s] = following]
        /\ since' = [since EXCEPT ![s] = clock]
        /\ status' = [status EXCEPT ![s] = IF status[s] = "paused" THEN "active" ELSE @]
        /\ status[s] \in {"active", "paused"} /\ ~open
        /\ UNCHANGED <<clock, cal, last_run_at, served, robot, tick>>
    BY <1>3 DEF Activate, Activated, Existing, Writable, Serializable, Row, IInv, TypeOK
  <2> HIDE DEF following, IsFirstSlotAfter
  <2>3. Latest(s)' = clock
    BY <1>0, <2>2 DEF Latest, IInv, TypeOK
  <2>4. next_run_at'[s] = following
    BY <2>2 DEF IInv, TypeOK
  <2>5. IsFirstSlotAfter(cal'[s].days, cal'[s].time_of_day, Latest(s)', next_run_at'[s])
    BY <2>1, <2>2, <2>3, <2>4
  <2>6. \A r \in Schedules \ {s} :
           /\ status'[r] = status[r] /\ cal'[r] = cal[r] /\ since'[r] = since[r]
           /\ served'[r] = served[r] /\ next_run_at'[r] = next_run_at[r]
    BY <2>2 DEF IInv, TypeOK
  <2>7. FirstChosenSlot'
    BY <1>0, <2>5, <2>6, SlotsKept
  <2>8. \A r \in Schedules : (status'[r] = "none") <=> (status[r] = "none")
    BY <2>2 DEF IInv, TypeOK
  <2>9. Rest'
    BY <1>0, <2>2, <2>8 DEF IInv, TypeOK, tick
  <2> QED BY <2>7, <2>9
<1>4. ~ActivateRead(s) /\ ~ActivateWrite(s)
  BY DEF ActivateRead, ActivateWrite, Serializable, IInv, SinceInv
<1> QED BY <1>1, <1>2, <1>3, <1>4

LEMMA RobotSerial ==
  ASSUME Serializable, IInv, SerialInv,
         \/ Tick
         \/ \E b \in Robots :
              \/ \E value \in {"active", "inactive"} : SetRobotActive(b, value)
              \/ RemoveRobot(b) \/ RunsSettle(b)
  PROVE  SerialInv'
<1>0. /\ FirstChosenSlot /\ clock \in Nat
      /\ \A r \in Schedules : served[r] \in Int
  BY ColumnsAreNumbers DEF SerialInv
<1>1. CASE Tick
  <2>1. clock' = clock + 1 /\ UNCHANGED <<schedule, robot, tick>>
    BY <1>1 DEF Tick
  <2>2. FirstChosenSlot'
    BY <1>0, <2>1, SlotsKept DEF schedule
  <2> QED BY <1>0, <2>1, <2>2 DEF SerialInv, schedule, tick
<1>2. ASSUME NEW b \in Robots, NEW value \in {"active", "inactive"}, SetRobotActive(b, value)
      PROVE  SerialInv'
  <2>1. ~open /\ todo = {} /\ staged = {} /\ UNCHANGED <<clock, schedule, tick>>
    BY <1>2 DEF SetRobotActive, RobotWritable, Serializable, IInv, TickInv
  <2>2. FirstChosenSlot'
    BY <1>0, <2>1, SlotsKept DEF schedule
  <2> QED BY <2>1, <2>2 DEF SerialInv, schedule, tick
<1>3. ASSUME NEW b \in Robots, RemoveRobot(b) PROVE SerialInv'
  <2>1. /\ ~open /\ todo = {} /\ staged = {}
        /\ UNCHANGED <<clock, cal, next_run_at, last_run_at, since, served, tick>>
        /\ \A r \in Schedules : (status'[r] = "none") <=> (status[r] = "none")
    BY <1>3 DEF RemoveRobot, RobotWritable, Serializable, Existing, IInv, TickInv
  <2>2. FirstChosenSlot'
    BY <1>0, <2>1, SlotsKept
  <2> QED BY <2>1, <2>2 DEF SerialInv, tick
<1>4. ASSUME NEW b \in Robots, RunsSettle(b) PROVE SerialInv'
  <2>1. UNCHANGED <<clock, schedule, robot, tick>>
    BY <1>4 DEF RunsSettle
  <2>2. FirstChosenSlot'
    BY <1>0, <2>1, SlotsKept DEF schedule
  <2> QED BY <2>1, <2>2 DEF SerialInv, schedule, tick
<1> QED BY <1>1, <1>2, <1>3, <1>4

LEMMA TransactionSerial ==
  ASSUME Serializable, IInv, SerialInv, Transaction \/ Rollback
  PROVE  SerialInv'
<1>0. /\ FirstChosenSlot /\ clock \in Nat /\ now \in Nat /\ now <= clock
      /\ \A r \in Schedules : since[r] \in Int /\ served[r] \in Int
  BY ColumnsAreNumbers DEF SerialInv
<1>1. CASE DueRead
  <2>1. /\ UNCHANGED <<clock, schedule, robot>> /\ now' = clock
        /\ todo' = {s \in Schedules : Due(s, clock)} /\ staged' = {}
    BY <1>1 DEF DueRead, IInv, TickInv
  <2>2. FirstChosenSlot'
    BY <1>0, <2>1, SlotsKept DEF schedule
  <2>3. \A r \in Schedules : since[r] <= clock
    BY <1>0 DEF IInv, SinceInv, SerialInv, Never
  <2> QED BY <2>1, <2>2, <2>3 DEF SerialInv, Due, schedule
<1>2. ASSUME NEW s \in Schedules, Claim(s) \/ Pass(s) PROVE SerialInv'
  <2>1. /\ UNCHANGED <<clock, schedule, robot, open, now>>
        /\ todo' \cup staged' \subseteq todo \cup staged
    BY <1>2 DEF Claim, Pass
  <2>2. FirstChosenSlot'
    BY <1>0, <2>1, SlotsKept DEF schedule
  <2> QED BY <2>1, <2>2 DEF SerialInv, schedule
<1>3. CASE Commit
  <2>1. /\ UNCHANGED <<clock, status, cal, since, robot>>
        /\ last_run_at' = [r \in Schedules |-> IF r \in staged THEN expected[r] ELSE last_run_at[r]]
        /\ next_run_at' = [r \in Schedules |-> IF r \in staged THEN Following(r) ELSE next_run_at[r]]
        /\ served' = [r \in Schedules |-> IF r \in staged THEN now ELSE served[r]]
        /\ open /\ ~open' /\ todo' = {} /\ staged' = {} /\ staged \subseteq Schedules
    BY <1>3 DEF Commit, Close, IInv, TypeOK
  <2>2. ASSUME NEW s \in staged
        PROVE  IsFirstSlotAfter(cal'[s].days, cal'[s].time_of_day, Latest(s)', next_run_at'[s])
    <3>1. s \in Schedules /\ cal[s] \in Calendars /\ now \in Moments
      BY DEF IInv, TypeOK
    <3>2. IsFirstSlotAfter(cal[s].days, cal[s].time_of_day, now, Following(s))
      BY <3>1, NextIsLater DEF Following
    <3>3. since[s] <= now /\ since[s] \in Int
      BY <1>0, <2>1, <3>1 DEF SerialInv
    <3>4. Latest(s)' = now
      BY <1>0, <2>1, <3>1, <3>3 DEF Latest
    <3> QED BY <2>1, <3>1, <3>2, <3>4
  <2> HIDE DEF Following
  <2>3. \A r \in Schedules \ staged :
           /\ status'[r] = status[r] /\ cal'[r] = cal[r] /\ since'[r] = since[r]
           /\ served'[r] = served[r] /\ next_run_at'[r] = next_run_at[r]
    BY <2>1
  <2>4. FirstChosenSlot'
    <3>1. \A s \in Schedules \ (Schedules \ staged) : s \in staged
      OBVIOUS
    <3> HIDE DEF IsFirstSlotAfter
    <3> QED BY <1>0, <2>2, <2>3, <3>1, SlotsKept
  <2>5. \A s \in staged : expected[s] <= now /\ status[s] # "none"
    BY DEF IInv, TickInv
  <2>6. \A r \in Schedules :
           /\ last_run_at'[r] <= served'[r] /\ served'[r] <= clock'
           /\ status'[r] = "none" => since'[r] = Never /\ served'[r] = Never
    BY <1>0, <2>1, <2>5 DEF SerialInv
  <2> QED BY <2>1, <2>4, <2>6 DEF SerialInv
<1>4. CASE Rollback
  <2>1. UNCHANGED <<clock, schedule, robot>> /\ ~open' /\ todo' = {} /\ staged' = {}
    BY <1>4 DEF Rollback, Close
  <2>2. FirstChosenSlot'
    BY <1>0, <2>1, SlotsKept DEF schedule
  <2> QED BY <2>1, <2>2 DEF SerialInv, schedule
<1> QED BY <1>1, <1>2, <1>3, <1>4 DEF Transaction

\* On SQLite every row is where the calendar that was chosen puts it, mask,
\* backlog, pauses and failures notwithstanding, and what a session has read
\* stays true until it commits.
THEOREM SerialInvariance ==
  ASSUME Serializable
  PROVE  Spec => []SerialInv
<1>1. Init => SerialInv
  BY DEF Init, SerialInv, FirstChosenSlot, Never
<1>2. IInv /\ SerialInv /\ [Next]_vars => SerialInv'
  <2> SUFFICES ASSUME IInv, SerialInv, [Next]_vars PROVE SerialInv'
    OBVIOUS
  <2>1. CASE Next
    BY <2>1, OperatorSerial, RobotSerial, TransactionSerial DEF Next
  <2>2. CASE UNCHANGED vars
    BY <2>2 DEF vars, schedule, tick, SerialInv, FirstChosenSlot, Latest
  <2> QED BY <2>1, <2>2
<1> QED BY Invariance, <1>1, <1>2, PTL DEF Spec

\* No occurrence is skipped, moved or made up.
THEOREM RowsFollowCalendars ==
  ASSUME Serializable
  PROVE  Spec => []FirstChosenSlot
<1>1. SerialInv => FirstChosenSlot
  BY DEF SerialInv
<1> QED BY SerialInvariance, <1>1, PTL

\* The next occurrence of a row is later than the session that last fired it.
LEMMA NextAfterServed ==
  ASSUME IInv, SerialInv, NEW s \in staged
  PROVE  served[s] < expected[s] /\ last_run_at[s] < expected[s]
<1>1. s \in Schedules /\ status[s] # "none" /\ next_run_at[s] = expected[s]
  BY DEF IInv, TypeOK, TickInv
<1>2. expected[s] \in Int /\ served[s] \in Int /\ last_run_at[s] \in Int /\ since[s] \in Int
  BY <1>1, ColumnsAreNumbers, ConstantsAssumption DEF IInv, TypeOK, Moments, Never
<1>3. Latest(s) < expected[s]
  BY <1>1 DEF SerialInv, FirstChosenSlot, IsFirstSlotAfter
<1>4. served[s] <= Latest(s)
  BY <1>2 DEF Latest
<1>5. last_run_at[s] <= served[s]
  BY <1>1 DEF SerialInv
<1> QED BY <1>2, <1>3, <1>4, <1>5 DEF Latest

\* An occurrence makes one run at most.
THEOREM AtMostOneRun ==
  ASSUME Serializable
  PROVE  Spec => []OncePerOccurrence
<1>1. IInv /\ SerialInv => OncePerOccurrence
  BY NextAfterServed DEF OncePerOccurrence
<1> QED BY Invariance, SerialInvariance, <1>1, PTL

\* A backlog makes one run.
THEOREM OneRunForABacklog ==
  ASSUME Serializable
  PROVE  Spec => []Coalesced
<1>1. IInv /\ SerialInv => Coalesced
  BY NextAfterServed DEF Coalesced
<1> QED BY Invariance, SerialInvariance, <1>1, PTL

\* Only an active robot is given a run.
THEOREM ActiveOnly ==
  ASSUME Serializable
  PROVE  Spec => InactiveNotEnqueued
<1> DEFINE Given == \A b \in Robots : ~unfinished[b] /\ unfinished'[b] => robot[b] = "active"
<1>1. IInv /\ SerialInv /\ [Next]_vars => [Given]_vars
  <2> SUFFICES ASSUME IInv, SerialInv, Next PROVE Given
    OBVIOUS
  <2>1. CASE Commit
    <3>1. unfinished' = [b \in Robots |-> unfinished[b] \/ \E s \in staged : robot_of[s] = b]
      BY <2>1 DEF Commit
    <3> QED BY <3>1 DEF SerialInv
  <2>2. ASSUME NEW b \in Robots, RunsSettle(b) PROVE Given
    BY <2>2 DEF RunsSettle, IInv, TypeOK
  <2>3. CASE UNCHANGED unfinished
    BY <2>3
  <2> QED BY <2>1, <2>2, <2>3
       DEF Next, Transaction, Add, Pause, Activate, ActivateRead, ActivateWrite, Remove,
           SetRobotActive, RemoveRobot, DueRead, Claim, Pass, Rollback, Tick
<1> QED BY Invariance, SerialInvariance, <1>1, PTL DEF Spec, InactiveNotEnqueued
=============================================================================
