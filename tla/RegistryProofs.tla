--------------------------- MODULE RegistryProofs ---------------------------
(***************************************************************************)
(* What the transactions of Registry make of a database, stated once for   *)
(* the modules that apply them.                                            *)
(***************************************************************************)
EXTENDS Registry, TLAPS

\* An empty database.
LEMMA BlankIs ==
  Blank \in Contents /\ Blank.revision = 0 /\ Rows(Blank) = {}
BY RegistryAssumption DEF Blank, Contents, RobotStates, RunStates, Rows

\* Adding to, or taking out of, a set.
LEMMA WithLimitIs ==
  ASSUME NEW S, NEW e, NEW limit \in BOOLEAN
  PROVE  /\ \A T : S \subseteq T /\ e \in T => WithLimit(S, e, limit) \subseteq T
         /\ \A c : c # e => (c \in WithLimit(S, e, limit) <=> c \in S)
BY DEF WithLimit

\* A row of robots.
LEMMA WithRobotIs ==
  ASSUME NEW d \in Contents, NEW b \in Robots, NEW s \in RobotStates, NEW limit \in BOOLEAN
  PROVE  /\ WithRobot(d, b, s, limit) \in Contents
         /\ WithRobot(d, b, s, limit).revision = d.revision
         /\ WithRobot(d, b, s, limit).robot = [d.robot EXCEPT ![b] = s]
         /\ WithRobot(d, b, s, limit).state = d.state
         /\ WithRobot(d, b, s, limit).capped = d.capped
         /\ \A c \in Robots \ {b} : c \in WithRobot(d, b, s, limit).limited <=> c \in d.limited
<1> DEFINE L == WithLimit(d.limited, b, limit)
<1>1. L \subseteq Robots /\ \A c \in Robots \ {b} : c \in L <=> c \in d.limited
  BY WithLimitIs DEF Contents
<1>2. WithRobot(d, b, s, limit) = [d EXCEPT !.robot = [d.robot EXCEPT ![b] = s], !.limited = L]
  BY DEF WithRobot
<1> HIDE DEF L
<1> QED BY <1>1, <1>2 DEF Contents

\* A row of runs.
LEMMA WithRunIs ==
  ASSUME NEW d \in Contents, NEW x \in Runs, NEW cap \in BOOLEAN
  PROVE  /\ WithRun(d, x, cap) \in Contents
         /\ WithRun(d, x, cap).revision = d.revision
         /\ WithRun(d, x, cap).robot = d.robot
         /\ WithRun(d, x, cap).limited = d.limited
         /\ WithRun(d, x, cap).state = [d.state EXCEPT ![x] = "queued"]
         /\ \A y \in Runs \ {x} : y \in WithRun(d, x, cap).capped <=> y \in d.capped
<1> DEFINE L == WithLimit(d.capped, x, cap)
<1>1. L \subseteq Runs /\ \A y \in Runs \ {x} : y \in L <=> y \in d.capped
  BY WithLimitIs DEF Contents
<1>2. WithRun(d, x, cap) = [d EXCEPT !.state = [d.state EXCEPT ![x] = "queued"], !.capped = L]
  BY DEF WithRun
<1>3. [d.state EXCEPT ![x] = "queued"] \in [Runs -> RunStates]
  BY DEF Contents, RunStates, Active
<1> HIDE DEF L
<1> QED BY <1>1, <1>2, <1>3 DEF Contents

\* The state of one run.
LEMMA InStateIs ==
  ASSUME NEW d \in Contents, NEW x \in Runs, NEW s \in RunStates
  PROVE  /\ InState(d, x, s) \in Contents
         /\ InState(d, x, s).revision = d.revision
         /\ InState(d, x, s).robot = d.robot
         /\ InState(d, x, s).limited = d.limited
         /\ InState(d, x, s).state = [d.state EXCEPT ![x] = s]
         /\ InState(d, x, s).capped = d.capped
BY DEF InState, Contents

\* What a dead session left is settled; the queue and the rows stay.
LEMMA ReconciledIs ==
  ASSUME NEW d \in Contents
  PROVE  /\ Reconciled(d) \in Contents
         /\ Reconciled(d).revision = d.revision
         /\ Reconciled(d).robot = d.robot
         /\ Reconciled(d).limited = d.limited
         /\ Reconciled(d).capped = d.capped
         /\ \A x \in Runs : Reconciled(d).state[x] =
              IF d.state[x] \in {"running", "cancelling"} THEN "final" ELSE d.state[x]
<1> DEFINE S == [x \in Runs |-> IF d.state[x] \in {"running", "cancelling"} THEN "final" ELSE d.state[x]]
<1>1. S \in [Runs -> RunStates]
  BY DEF Contents, RunStates
<1>2. Reconciled(d) = [d EXCEPT !.state = S]
  BY DEF Reconciled
<1>3. \A x \in Runs : S[x] = IF d.state[x] \in {"running", "cancelling"} THEN "final" ELSE d.state[x]
  OBVIOUS
<1> HIDE DEF S
<1> QED BY <1>1, <1>2, <1>3 DEF Contents

\* Removal of the runs S and the automations B.
LEMMA WithoutIs ==
  ASSUME NEW d \in Contents, NEW S \in SUBSET Runs, NEW B \in SUBSET Robots
  PROVE  /\ Without(d, S, B) \in Contents
         /\ Without(d, S, B).revision = d.revision
         /\ \A x \in Runs : Without(d, S, B).state[x] = IF x \in S THEN "absent" ELSE d.state[x]
         /\ \A b \in Robots : Without(d, S, B).robot[b] = IF b \in B THEN "absent" ELSE d.robot[b]
         /\ Without(d, S, B).limited = d.limited \ B
<1> DEFINE T == [x \in Runs |-> IF x \in S THEN "absent" ELSE d.state[x]]
           R == [b \in Robots |-> IF b \in B THEN "absent" ELSE d.robot[b]]
<1>1. T \in [Runs -> RunStates] /\ R \in [Robots -> RobotStates]
  BY DEF Contents, RunStates, RobotStates
<1>2. Without(d, S, B) = [d EXCEPT !.state = T, !.capped = d.capped \ S, !.robot = R, !.limited = d.limited \ B]
  BY DEF Without
<1>3. /\ \A x \in Runs : T[x] = IF x \in S THEN "absent" ELSE d.state[x]
      /\ \A b \in Robots : R[b] = IF b \in B THEN "absent" ELSE d.robot[b]
  OBVIOUS
<1> HIDE DEF T, R
<1> QED BY <1>1, <1>2, <1>3 DEF Contents

\* Removal of the limits.
LEMMA UnlimitedIs ==
  ASSUME NEW d \in Contents, NEW S \in SUBSET Runs
  PROVE  /\ Unlimited(d, S) \in Contents
         /\ Unlimited(d, S).revision = d.revision
         /\ Unlimited(d, S).robot = d.robot
         /\ Unlimited(d, S).state = d.state
         /\ Unlimited(d, S).limited = {}
         /\ Unlimited(d, S).capped = d.capped \ S
BY DEF Unlimited, Contents

\* A migration.
LEMMA RevisionIs ==
  ASSUME NEW d \in Contents, NEW n \in 0..HeadRev
  PROVE  /\ [d EXCEPT !.revision = n] \in Contents
         /\ [d EXCEPT !.revision = n].revision = n
         /\ [d EXCEPT !.revision = n].robot = d.robot
         /\ [d EXCEPT !.revision = n].state = d.state
BY DEF Contents

\* The references, without the sets of rows.
LEMMA ReferencesAre ==
  ASSUME NEW d
  PROVE  ReferencesHold(d) <=>
           \A x \in Runs : d.state[x] # "absent" => d.robot[RobotOf[x]] # "absent"
BY RegistryAssumption DEF ReferencesHold, Rows, Registered

\* No reference is lost when no run appears and no automation goes.
LEMMA KeepsReferences ==
  ASSUME NEW d, NEW e, ReferencesHold(d),
         \A x \in Runs : e.state[x] # "absent" => d.state[x] # "absent",
         \A b \in Robots : d.robot[b] # "absent" => e.robot[b] # "absent"
  PROVE  ReferencesHold(e)
BY ReferencesAre, RegistryAssumption
=============================================================================
