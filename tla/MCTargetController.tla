------------------------- MODULE MCTargetController -------------------------
(* Symmetry for the safety runs of TargetController.                       *)
EXTENDS TargetController, TLC

Symmetry == Permutations(Manager) \cup Permutations(WorkspaceType)
=============================================================================
