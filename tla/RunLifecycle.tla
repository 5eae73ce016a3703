---------------------------- MODULE RunLifecycle ----------------------------
(***************************************************************************)
(* What the run table promises an operator, whoever executes it: the life  *)
(* of a run (MVP.md, "Estados de execução"), as the writers of Run.state   *)
(* in service.py, store.py, scheduler.py and engine.py take part in it.    *)
(* RunEngine is the detailed system and implements this specification.     *)
(***************************************************************************)
CONSTANT Runs               \* the run identifiers

VARIABLE state              \* state[r]: column Run.state of r

\* "fresh": no row yet; "removed": the row was deleted.
Supervised == {"starting", "running", "cancelling"}
Final == {"completed", "failed", "cancelled", "timed_out", "interrupted"}
RowStates == {"fresh", "queued", "removed"} \cup Supervised \cup Final

Init == state = [r \in Runs |-> "fresh"]

\* Rows are inserted by an operator or by the schedules that are due.
Enqueue(S) ==
  /\ S \subseteq {r \in Runs : state[r] = "fresh"}
  /\ state' = [r \in Runs |-> IF r \in S THEN "queued" ELSE state[r]]

\* A queued run is taken out of the queue without having been executed.
Withdraw(r) ==
  /\ state[r] = "queued"
  /\ state' = [state EXCEPT ![r] = "cancelled"]

\* The heart of the promise: a run is claimed only when none is supervised.
Claim(r) ==
  /\ state[r] = "queued"
  /\ \A s \in Runs : state[s] \notin Supervised
  /\ state' = [state EXCEPT ![r] = "starting"]

\* The robot's process exists. The engine writes "running" whatever it finds:
\* a cancellation asked for while the run was starting is overwritten.
Start(r) ==
  /\ state[r] \in {"starting", "cancelling"}
  /\ state' = [state EXCEPT ![r] = "running"]

RequestCancel(r) ==
  /\ state[r] \in {"starting", "running"}
  /\ state' = [state EXCEPT ![r] = "cancelling"]

\* The supervisor, or the reconciliation after it, settles the run.
Settle(r, s) ==
  /\ state[r] \in Supervised
  /\ state' = [state EXCEPT ![r] = s]

Remove(r) ==
  /\ state[r] \in Final
  /\ state' = [state EXCEPT ![r] = "removed"]

Next ==
  \/ \E S \in SUBSET Runs : Enqueue(S)
  \/ \E r \in Runs : Withdraw(r) \/ Claim(r) \/ Start(r) \/ RequestCancel(r) \/ Remove(r)
  \/ \E r \in Runs, s \in Final : Settle(r, s)

Spec == Init /\ [][Next]_state
-----------------------------------------------------------------------------
TypeOK == state \in [Runs -> RowStates]

\* At most one run of the installation is ever supervised (README.md, "FIFO
\* queue", one automation at a time).
AtMostOneSupervised ==
  \A r, s \in Runs : state[r] \in Supervised /\ state[s] \in Supervised => r = s

\* A final state is only ever followed by the removal of the row (MVP.md:49),
\* so a settled run is neither claimed nor settled again.
FinalIsImmutable ==
  [][\A r \in Runs : state[r] \in Final => state'[r] \in {state[r], "removed"}]_state
=============================================================================
