--------------------------- MODULE TaskTriggerMC ---------------------------
(***************************************************************************)
(* The instance of TaskTrigger for TLC: two calls at a time, two           *)
(* intervals, one failure. The calls are interchangeable.                  *)
(***************************************************************************)
EXTENDS TaskTrigger, TLC

Symmetry == Permutations(Threads)
=============================================================================
