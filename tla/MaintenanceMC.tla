--------------------------- MODULE MaintenanceMC ---------------------------
(***************************************************************************)
(* Instances of Maintenance for TLC: one automation and its runs, and a    *)
(* backup of an older version with one run in each of the states that a    *)
(* session treats differently.                                             *)
(***************************************************************************)
EXTENDS Maintenance, TLC

MCRobotOf == [x \in Runs |-> CHOOSE b \in Robots : TRUE]

OldBackup(x, s) ==
  [Blank EXCEPT !.revision = 1, !.robot = [b \in Robots |-> "active"], !.limited = Robots,
                !.state = [@ EXCEPT ![x] = s], !.capped = {x}]

MCOldBackups == {OldBackup(x, s) : x \in Runs, s \in {"queued", "running"}}

MCRegistry == {"configure", "remove", "retain", "import", "limits"}
MCRemovals == {"remove", "restore"}
MCFiles == {"backup", "restore"}
MCMenus == [b \in Backends |-> IF b = "sqlite" THEN {MCRegistry, MCRemovals, MCFiles} ELSE {MCRegistry}]
MCFilesOnly == [b \in Backends |-> IF b = "sqlite" THEN {MCFiles} ELSE {}]

MCPassingFaults == {"crash", "create", "replace", "migrate", "putback"}

RunSymmetry == Permutations(Runs)
MCSafety == {"safety"}
=============================================================================
