---------------------------- MODULE MCVectorIndex ----------------------------
(* Small instances of VectorIndex for TLC.                                  *)
EXTENDS VectorIndex, TLC

\* Requests, models and variants are interchangeable within their sets.
Symmetry ==
  Permutations(Searches) \cup Permutations(Analyses) \cup Permutations(Models)
    \cup Permutations(Variants)
=============================================================================
