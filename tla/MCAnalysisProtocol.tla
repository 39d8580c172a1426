-------------------------- MODULE MCAnalysisProtocol --------------------------
(* Small instances of AnalysisProtocol for TLC.                             *)
EXTENDS AnalysisProtocol, TLC

\* Requests and processes are interchangeable: no definition tells them apart.
Symmetry == Permutations(Analyses) \cup Permutations(Processes)
=============================================================================
