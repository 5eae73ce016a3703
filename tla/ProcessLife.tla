---------------------------- MODULE ProcessLife ----------------------------
(***************************************************************************)
(* What the rest of the program may believe of the root process of a run:  *)
(* it is created suspended, it is resumed or discarded, it exits by itself *)
(* or is told to end and is killed, and whatever ended stays ended.        *)
(*                                                                         *)
(* OwnedProcess (the class ProcessTree with its failures) and RunEngine    *)
(* (the engine that uses it) both implement this specification.            *)
(***************************************************************************)
CONSTANT Trees  \* the process trees

VARIABLE life

Lives == {"none", "suspended", "alive", "dying", "ok", "error", "killed"}

Init == life = [t \in Trees |-> "none"]

Becomes(t, from, to) == life[t] = from /\ life' = [life EXCEPT ![t] = to]

Create(t) == Becomes(t, "none", "suspended")
Resume(t) == Becomes(t, "suspended", "alive")
Discard(t) == Becomes(t, "suspended", "dying")
Exit(t) == Becomes(t, "alive", "ok") \/ Becomes(t, "alive", "error")
Doom(t) == Becomes(t, "alive", "dying")
Kill(t) == Becomes(t, "dying", "killed")

Next ==
  \E t \in Trees : Create(t) \/ Resume(t) \/ Discard(t) \/ Exit(t) \/ Doom(t) \/ Kill(t)

Spec == Init /\ [][Next]_life
=============================================================================
