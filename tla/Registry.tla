------------------------------ MODULE Registry ------------------------------
(***************************************************************************)
(* What the database of Zanella Orchestrator holds, and what its           *)
(* transactions make of it: registered automations ("robots"), runs, and   *)
(* the schema revision.  Operators only; Maintenance and Panel say who     *)
(* applies them and when.                                                  *)
(*                                                                         *)
(* A contents value is a whole database file, so that a copy of it (a      *)
(* backup, the safety copy of a restore) is the value itself.              *)
(***************************************************************************)
EXTENDS Naturals

CONSTANTS
  Robots,   \* slots for rows of robots
  Runs,     \* identifiers of runs
  RobotOf,  \* RobotOf[x]: the automation that run x is of
  HeadRev   \* the newest schema revision; 0 is an empty file

ASSUME RegistryAssumption ==
  /\ RobotOf \in [Runs -> Robots]
  /\ HeadRev \in Nat \ {0}

Active == {"queued", "running", "cancelling"}  \* "starting" counts as running
RunStates == Active \cup {"absent", "final"}
RobotStates == {"absent", "active", "inactive"}

Contents ==
  [revision : 0..HeadRev,
   robot : [Robots -> RobotStates],
   limited : SUBSET Robots,          \* Robot.timeout IS NOT NULL
   state : [Runs -> RunStates],
   capped : SUBSET Runs]             \* Run.configuration["timeout"] is not null

Blank ==
  [revision |-> 0,
   robot |-> [b \in Robots |-> "absent"],
   limited |-> {},
   state |-> [x \in Runs |-> "absent"],
   capped |-> {}]

Rows(d) == {x \in Runs : d.state[x] # "absent"}
RowsIn(d, S) == {x \in Runs : d.state[x] \in S}
Registered(d) == {b \in Robots : d.robot[b] # "absent"}

\* has_active_run of one automation, and of any.
Busy(d, b) == \E x \in Runs : RobotOf[x] = b /\ d.state[x] \in Active
AnyActive(d) == \E x \in Runs : d.state[x] \in Active

\* Mutant: robot_id is not a foreign key.
ReferencesHold_Unchecked(d) == d.revision \in Nat

\* Run.robot_id references a row of robots.
ReferencesHold(d) == \A x \in Rows(d) : RobotOf[x] \in Registered(d)

\* Before revision 0006 (here: HeadRev) the column timeout may not be null.
LimitAccepted(d, limit) == limit \/ d.revision = HeadRev

WithLimit(S, e, limit) == IF limit THEN S \cup {e} ELSE S \ {e}

\* Row b with this state and this limit.
WithRobot(d, b, s, limit) ==
  [d EXCEPT !.robot = [@ EXCEPT ![b] = s], !.limited = WithLimit(@, b, limit)]

WithRun(d, x, cap) ==
  [d EXCEPT !.state = [@ EXCEPT ![x] = "queued"], !.capped = WithLimit(@, x, cap)]

InState(d, x, s) == [d EXCEPT !.state = [@ EXCEPT ![x] = s]]

Without(d, S, B) ==
  [d EXCEPT !.state = [x \in Runs |-> IF x \in S THEN "absent" ELSE @[x]],
            !.capped = @ \ S,
            !.robot = [b \in Robots |-> IF b \in B THEN "absent" ELSE @[b]],
            !.limited = @ \ B]

\* cancel(): a queued run leaves the queue, a supervised one waits for its engine.
Cancellable == {"queued", "running"}
Cancelled(s) == IF s = "queued" THEN "final" ELSE "cancelling"
CancelOf(d, x) == InState(d, x, Cancelled(d.state[x]))

\* reconcile(): what a dead session left becomes "interrupted".
Reconciled(d) ==
  [d EXCEPT !.state = [x \in Runs |-> IF @[x] \in {"running", "cancelling"} THEN "final" ELSE @[x]]]

\* remove_execution_limits: every automation, and the queued runs of S.
Unlimited(d, S) == [d EXCEPT !.limited = {}, !.capped = @ \ S]
=============================================================================
