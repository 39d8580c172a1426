---------------------------- MODULE MCWorkspace ----------------------------
(* A small instance of Workspace.                                          *)
EXTENDS Workspace, TLC

Symmetry == Permutations(Flows) \cup Permutations(Keys) \cup Permutations(Contracts)
=============================================================================
