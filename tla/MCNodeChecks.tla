---------------------------- MODULE MCNodeChecks ----------------------------
(***************************************************************************)
(* Instances of NodeChecks for TLC: one slot, so that tasks and batch      *)
(* workers wait for each other, and one handler between its read and its   *)
(* use of it, which edits and everything else can overtake.                *)
(***************************************************************************)
EXTENDS NodeChecks, TLC

Symmetry == Permutations(Nodes) \cup Permutations(Configs)
=============================================================================
