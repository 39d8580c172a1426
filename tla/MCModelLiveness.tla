--------------------------- MODULE MCModelLiveness ---------------------------
(* ModelRequests alone, with a single slot, for its liveness.               *)
EXTENDS ModelRequests
=============================================================================
