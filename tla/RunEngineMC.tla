---------------------------- MODULE RunEngineMC ----------------------------
(***************************************************************************)
(* Instances of RunEngine for TLC. Runs are numbers, so only the workers   *)
(* are interchangeable.                                                    *)
(***************************************************************************)
EXTENDS RunEngine, TLC

MCRuns1 == {1}
MCRuns2 == {1, 2}
MCLimitedNone == {}
MCLimitedFirst == {1}
MCNoFaults == {}
MCReport == {"report"}
MCAllFaults == FaultKinds

WorkerSymmetry == Permutations(Workers)
=============================================================================
