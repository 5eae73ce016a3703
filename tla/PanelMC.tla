------------------------------ MODULE PanelMC ------------------------------
(***************************************************************************)
(* Instances of Panel for TLC: one automation, two runs, and pages of     *)
(* one row.                                                                *)
(***************************************************************************)
EXTENDS Panel

MCRuns == 1..2
MCRobotOf == [x \in Runs |-> CHOOSE b \in Robots : TRUE]
MCMenus ==
  {{"history", "removals", "runs"}, {"forms", "runs"}, {"sessions", "runs", "task"},
   {"sessions", "history"}}
=============================================================================
