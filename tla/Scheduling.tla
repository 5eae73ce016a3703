----------------------------- MODULE Scheduling -----------------------------
(***************************************************************************)
(* The local schedules: the rows of the table schedules, the transaction   *)
(* in which an engine session turns the due ones into queued runs          *)
(* (enqueue_due_schedules) and the operator who adds, pauses, reactivates  *)
(* and removes schedules and robots meanwhile.                             *)
(*                                                                         *)
(* A session holds the installation mutex (RunEngine), so one such         *)
(* transaction is open at a time.  It is several steps here; with          *)
(* serializable transactions nobody else writes while it is open.          *)
(***************************************************************************)
EXTENDS NextOccurrence

CONSTANTS
  Schedules,   \* identifiers of schedules
  Robots,      \* identifiers of robots
  robot_of,    \* robot_of[s]: column Schedule.robot_id
  Calendars,   \* the calendars an operator may choose
  Isolation,   \* "serializable" (SQLite) or "read_committed" (PostgreSQL)
  MayAbort,    \* whether the transaction of a session may fail or its process die
  MaxClock     \* bound: the last instant told apart

ASSUME ConstantsAssumption ==
  /\ robot_of \in [Schedules -> Robots]
  /\ Calendars # {} /\ \A c \in Calendars : Valid(c)
  /\ Isolation \in {"serializable", "read_committed"}
  /\ MayAbort \in BOOLEAN
  /\ MaxClock \in Nat

VARIABLES
  clock,       \* time.time(), in instants
  status,      \* status[s]: "none" before the row, else its column active, "removed" after it
  cal,         \* cal[s]: the columns frequency, time_of_day and weekday
  next_run_at, \* next_run_at[s]: the column
  last_run_at, \* last_run_at[s]: the column, Never for NULL
  robot,       \* robot[b]: Robot.active, or "removed"
  unfinished,  \* unfinished[b]: b has a run that is queued or supervised
  edit,        \* edit[s]: what an open set_schedule_active(s, True) has read and computed
  open,        \* a transaction of enqueue_due_schedules is open
  now,         \* its argument now
  todo,        \* the schedules of `due` its loop has not reached
  expected,    \* expected[s]: expected_run_at, Never outside the transaction
  staged,      \* the schedules it has claimed and not yet committed
  since,       \* history: when s was last activated
  served       \* history: the `now` of the transaction that last fired s

schedule == <<status, cal, next_run_at, last_run_at, since, served>>
tick == <<open, now, todo, expected, staged>>
vars == <<clock, schedule, robot, unfinished, edit, tick>>

Never == -1
Moments == 0..MaxClock
NoEdit == [status |-> "none", next |-> Never, at |-> Never]
AnyCalendar == CHOOSE c \in Calendars : TRUE

Init ==
  /\ clock = 0
  /\ status = [s \in Schedules |-> "none"]
  /\ cal = [s \in Schedules |-> AnyCalendar]
  /\ next_run_at = [s \in Schedules |-> Never]
  /\ last_run_at = [s \in Schedules |-> Never]
  /\ robot = [b \in Robots |-> "active"]
  /\ unfinished = [b \in Robots |-> FALSE]
  /\ edit = [s \in Schedules |-> NoEdit]
  /\ open = FALSE /\ now = 0
  /\ todo = {} /\ staged = {}
  /\ expected = [s \in Schedules |-> Never]
  /\ since = [s \in Schedules |-> Never]
  /\ served = [s \in Schedules |-> Never]
-----------------------------------------------------------------------------
(* The operator. *)

\* Another transaction can write: with serializable transactions not while the
\* one of a session is open, and never a row that it has claimed.
Writable(s) ==
  /\ Isolation = "serializable" => ~open
  /\ s \notin staged

RobotWritable(b) == Isolation = "serializable" => ~open

\* add_schedule
Add(s, c) ==
  /\ status[s] = "none" /\ Writable(s)
  /\ robot[robot_of[s]] = "active"
  /\ status' = [status EXCEPT ![s] = "active"]
  /\ cal' = [cal EXCEPT ![s] = c]
  /\ next_run_at' = [next_run_at EXCEPT ![s] = next_occurrence(c, clock)]
  /\ since' = [since EXCEPT ![s] = clock]
  /\ UNCHANGED <<clock, last_run_at, served, robot, unfinished, edit, tick>>

\* set_schedule_active(s, False)
Pause(s) ==
  /\ status[s] = "active" /\ Writable(s)
  /\ status' = [status EXCEPT ![s] = "paused"]
  /\ UNCHANGED <<clock, cal, next_run_at, last_run_at, since, served, robot, unfinished, edit, tick>>

\* Mutant: the old next_run_at is kept.
Activated_Keep(s, read, at) ==
  /\ status' = [status EXCEPT ![s] = IF read.status = "paused" THEN "active" ELSE @]
  /\ since' = [since EXCEPT ![s] = at]
  /\ UNCHANGED next_run_at

\* What set_schedule_active(s, True) writes: the columns that differ from the
\* row as it was read, with the next occurrence counted from the time `at`.
Activated(s, read, at) ==
  /\ status' = [status EXCEPT ![s] = IF read.status = "paused" THEN "active" ELSE @]
  /\ next_run_at' = [next_run_at EXCEPT ![s] =
       IF next_occurrence(cal[s], at) # read.next THEN next_occurrence(cal[s], at) ELSE @]
  /\ since' = [since EXCEPT ![s] = at]

Existing(s) == status[s] \in {"active", "paused"}

Row(s) == [status |-> status[s], next |-> next_run_at[s], at |-> clock]

\* set_schedule_active(s, True) as one step. The row may be active already: the
\* panel acts on a list it read earlier.
Activate(s) ==
  /\ Isolation = "serializable"
  /\ Existing(s) /\ Writable(s)
  /\ Activated(s, Row(s), clock)
  /\ UNCHANGED <<clock, cal, last_run_at, served, robot, unfinished, edit, tick>>

\* The same under READ COMMITTED: session.get and time.time() ...
ActivateRead(s) ==
  /\ Isolation = "read_committed"
  /\ Existing(s) /\ edit[s] = NoEdit
  /\ edit' = [edit EXCEPT ![s] = Row(s)]
  /\ UNCHANGED <<clock, schedule, robot, unfinished, tick>>

\* ... and the UPDATE by id, StaleDataError when the row is gone.
ActivateWrite(s) ==
  /\ edit[s] # NoEdit /\ Writable(s)
  /\ edit' = [edit EXCEPT ![s] = NoEdit]
  /\ IF Existing(s) THEN Activated(s, edit[s], edit[s].at)
                    ELSE UNCHANGED <<status, next_run_at, since>>
  /\ UNCHANGED <<clock, cal, last_run_at, served, robot, unfinished, tick>>

\* remove_schedule
Remove(s) ==
  /\ Existing(s) /\ Writable(s)
  /\ status' = [status EXCEPT ![s] = "removed"]
  /\ UNCHANGED <<clock, cal, next_run_at, last_run_at, since, served, robot, unfinished, edit, tick>>

\* set_robot_active: a robot with a run that is not settled is not deactivated.
SetRobotActive(b, value) ==
  /\ robot[b] \in {"active", "inactive"} /\ RobotWritable(b)
  /\ value = "inactive" => ~unfinished[b]
  /\ robot' = [robot EXCEPT ![b] = value]
  /\ UNCHANGED <<clock, schedule, unfinished, edit, tick>>

\* remove_robot; ON DELETE CASCADE takes its schedules and waits for the claimed ones.
RemoveRobot(b) ==
  /\ robot[b] = "active" /\ ~unfinished[b] /\ RobotWritable(b)
  /\ \A s \in staged : robot_of[s] # b
  /\ robot' = [robot EXCEPT ![b] = "removed"]
  /\ status' = [s \in Schedules |->
                  IF robot_of[s] = b /\ Existing(s) THEN "removed" ELSE status[s]]
  /\ UNCHANGED <<clock, cal, next_run_at, last_run_at, since, served, unfinished, edit, tick>>
-----------------------------------------------------------------------------
(* enqueue_due_schedules, called by a session under the mutex. *)

\* Mutant: the activity of the robot is not looked at.
Due_AnyRobot(s, t) == status[s] = "active" /\ next_run_at[s] <= t

\* The WHERE of the first SELECT.
Due(s, t) ==
  /\ status[s] = "active"
  /\ robot[robot_of[s]] = "active"
  /\ next_run_at[s] <= t

DueRead ==
  /\ ~open
  /\ open' = TRUE
  /\ now' = clock
  /\ todo' = {s \in Schedules : Due(s, clock)}
  /\ expected' = [s \in Schedules |-> IF Due(s, clock) THEN next_run_at[s] ELSE Never]
  /\ UNCHANGED <<clock, schedule, robot, unfinished, edit, staged>>

\* Mutants: the row is claimed whatever happened to it, or compared with the
\* present time.
Unmoved_Any(s) == TRUE
Unmoved_Now(s) == status[s] = "active" /\ next_run_at[s] = now

\* The WHERE of the conditional UPDATE.
Unmoved(s) == status[s] = "active" /\ next_run_at[s] = expected[s]

\* The UPDATE returned the id: the row is locked and its run added.
Claim(s) ==
  /\ s \in todo /\ Unmoved(s)
  /\ todo' = todo \ {s}
  /\ staged' = staged \cup {s}
  /\ UNCHANGED <<clock, schedule, robot, unfinished, edit, open, now, expected>>

\* The UPDATE matched no row.
Pass(s) ==
  /\ s \in todo /\ ~Unmoved(s)
  /\ todo' = todo \ {s}
  /\ expected' = [expected EXCEPT ![s] = Never]
  /\ UNCHANGED <<clock, schedule, robot, unfinished, edit, open, now, staged>>

Close ==
  /\ open' = FALSE /\ now' = 0
  /\ todo' = {} /\ staged' = {}
  /\ expected' = [s \in Schedules |-> Never]

\* Mutant: the next occurrence is counted from the one that fires.
Following_FromExpected(s) == next_occurrence(cal[s], expected[s])

\* One run however many occurrences were missed: the next one is after `now`.
Following(s) == next_occurrence(cal[s], now)

Commit ==
  /\ open /\ todo = {}
  /\ last_run_at' = [s \in Schedules |-> IF s \in staged THEN expected[s] ELSE last_run_at[s]]
  /\ next_run_at' = [s \in Schedules |-> IF s \in staged THEN Following(s) ELSE next_run_at[s]]
  /\ served' = [s \in Schedules |-> IF s \in staged THEN now ELSE served[s]]
  /\ unfinished' = [b \in Robots |-> unfinished[b] \/ \E s \in staged : robot_of[s] = b]
  /\ Close
  /\ UNCHANGED <<clock, status, cal, since, robot, edit>>

\* The transaction is rolled back: the database raises, the process dies, or
\* session.get finds no row any more and the loop raises AttributeError.
Rollback ==
  /\ open
  /\ MayAbort \/ \E s \in todo : status[s] = "removed"
  /\ Close
  /\ UNCHANGED <<clock, schedule, robot, unfinished, edit>>
-----------------------------------------------------------------------------
\* The runs of b are settled by the engine (RunEngine).
RunsSettle(b) ==
  /\ unfinished[b]
  /\ unfinished' = [unfinished EXCEPT ![b] = FALSE]
  /\ UNCHANGED <<clock, schedule, robot, edit, tick>>

Tick ==
  /\ clock < MaxClock
  /\ clock' = clock + 1
  /\ UNCHANGED <<schedule, robot, unfinished, edit, tick>>

Transaction == DueRead \/ Commit \/ \E s \in Schedules : Claim(s) \/ Pass(s)

Next ==
  \/ \E s \in Schedules :
       \/ \E c \in Calendars : Add(s, c)
       \/ Pause(s) \/ Activate(s) \/ ActivateRead(s) \/ ActivateWrite(s) \/ Remove(s)
  \/ \E b \in Robots :
       \/ \E value \in {"active", "inactive"} : SetRobotActive(b, value)
       \/ RemoveRobot(b) \/ RunsSettle(b)
  \/ Transaction \/ Rollback
  \/ Tick

Spec == Init /\ [][Next]_vars

\* The Windows task keeps starting sessions, and failures stop one day. (A
\* rollback of an empty transaction looks like its commit.)
TaskSpec == Spec /\ WF_vars(Transaction) /\ <>[][~(Rollback /\ ~Commit)]_vars
-----------------------------------------------------------------------------
Horizon == 0..(MaxClock + 8 * DayLength)    \* how far next_run_at can be

TypeOK ==
  /\ clock \in Moments
  /\ status \in [Schedules -> {"none", "active", "paused", "removed"}]
  /\ cal \in [Schedules -> Calendars]
  /\ next_run_at \in [Schedules -> Horizon \cup {Never}]
  /\ last_run_at \in [Schedules -> Moments \cup {Never}]
  /\ robot \in [Robots -> {"active", "inactive", "removed"}]
  /\ unfinished \in [Robots -> BOOLEAN]
  /\ edit \in [Schedules -> [status : {"active", "paused", "none"},
                             next : Horizon \cup {Never}, at : Moments \cup {Never}]]
  /\ open \in BOOLEAN
  /\ now \in Moments
  /\ todo \in SUBSET Schedules
  /\ expected \in [Schedules -> Moments \cup {Never}]
  /\ staged \in SUBSET Schedules
  /\ since \in [Schedules -> Moments \cup {Never}]
  /\ served \in [Schedules -> Moments \cup {Never}]

\* Outside the transaction nothing is staged; inside, what was read is overdue
\* and a claimed row stays as it was read.
TickInv ==
  /\ ~open => todo = {} /\ staged = {}
  /\ now <= clock
  /\ \A s \in todo \cup staged : expected[s] \in 0..now
  /\ \A s \in todo \cup staged : status[s] # "none"
  /\ \A s \in staged : status[s] = "active" /\ next_run_at[s] = expected[s]

\* A row's next occurrence is later than its activation, and an activation
\* that found nothing to change has not been overtaken.
SinceInv ==
  \A s \in Schedules :
    /\ status[s] # "none" => since[s] \in 0..clock /\ since[s] < next_run_at[s]
    /\ edit[s] # NoEdit =>
         /\ Isolation = "read_committed"
         /\ status[s] # "none"
         /\ edit[s].at \in 0..clock
         /\ edit[s].next <= next_run_at[s] \/ edit[s].next <= edit[s].at

IInv == TypeOK /\ TickInv /\ SinceInv

\* With serializable transactions, moreover: a row is where the calendar puts it
\* and what a transaction has read stays as it was.
Latest(s) == IF since[s] < served[s] THEN served[s] ELSE since[s]

\* What the row promises is what the operator chose: its next occurrence is the
\* first chosen time of a chosen day after the schedule was last activated or
\* fired; none is skipped, and the mask lost no day.
FirstChosenSlot ==
  \A s \in Schedules :
    status[s] # "none" =>
      IsFirstSlotAfter(cal[s].days, cal[s].time_of_day, Latest(s), next_run_at[s])

SerialInv ==
  /\ FirstChosenSlot
  /\ \A s \in Schedules :
       /\ last_run_at[s] <= served[s] /\ served[s] <= clock
       /\ status[s] = "none" => since[s] = Never /\ served[s] = Never
       /\ open => since[s] <= now /\ served[s] <= now
  /\ \A s \in todo \cup staged : robot[robot_of[s]] = "active"
-----------------------------------------------------------------------------
(* Safety. *)

\* An occurrence that passed before the schedule was added or reactivated never
\* makes a run, whichever transaction read it before the operator acted.
NoStaleFiring == \A s \in staged : since[s] < expected[s]

\* An occurrence makes one run at most: what is claimed is later than what
\* fired before (tests/test_scheduler.py:65).
OncePerOccurrence == \A s \in staged : last_run_at[s] < expected[s]

\* Missed occurrences are coalesced: what is claimed had not passed yet when
\* the schedule fired the time before.
Coalesced == \A s \in staged : served[s] < expected[s]

\* A deactivated robot gets no new run (docs/MANUAL-USUARIO.md:72).
InactiveNotEnqueued ==
  [][\A b \in Robots : ~unfinished[b] /\ unfinished'[b] => robot[b] = "active"]_vars
-----------------------------------------------------------------------------
\* With the Windows task installed, what is due is fired or withdrawn.
DueServed == \A s \in Schedules : Due(s, clock) ~> ~Due(s, clock)
=============================================================================
