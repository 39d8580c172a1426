--------------------------- MODULE MCContractReads ---------------------------
(* Small instances of ContractReads for TLC.                                *)
EXTENDS ContractReads, TLC

\* Tenants are interchangeable, and so are parts.
Symmetry == Permutations(Tenants) \cup Permutations(Parts)
=============================================================================
