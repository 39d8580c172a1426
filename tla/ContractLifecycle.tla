-------------------------- MODULE ContractLifecycle --------------------------
(***************************************************************************)
(* What the database promises about one contract, whatever the workers,    *)
(* the recoveries and the connections behind it do: a contract is claimed  *)
(* by one attempt at a time, an attempt either publishes its whole result  *)
(* set in one step or leaves nothing behind, and a completed contract      *)
(* never changes again.  AnalysisProtocol implements this module.          *)
(***************************************************************************)
CONSTANTS
  Analyses,   \* attempts: one per POST /contracts/{id}/analyze
  Parts,      \* the parts of a result set an attempt writes
  NoOne       \* no attempt

VARIABLES
  status,     \* Contract.status
  claimant,   \* Contract.analysis_attempt_id
  results     \* for each part, the attempt whose output is stored

vars == <<status, claimant, results>>

NoResults == [p \in Parts |-> NoOne]

\* New, or claimed by nobody who is known.
Init ==
  /\ status \in {"pending", "processing"}
  /\ claimant = NoOne
  /\ results = NoResults

\* An attempt claims a contract that is pending or failed.
Begin(a) ==
  /\ status \in {"pending", "failed"}
  /\ status' = "processing"
  /\ claimant' = a
  /\ UNCHANGED results

\* The claimant publishes all its results together.
Publish(a) ==
  /\ status = "processing"
  /\ claimant = a
  /\ status' = "completed"
  /\ claimant' = NoOne
  /\ results' = [p \in Parts |-> a]

\* A claim ends without results: its attempt failed, or a reviewer released it.
Abandon ==
  /\ status = "processing"
  /\ status' = "failed"
  /\ claimant' = NoOne
  /\ UNCHANGED results

Next ==
  \/ \E a \in Analyses : Begin(a) \/ Publish(a)
  \/ Abandon

Spec == Init /\ [][Next]_vars

=============================================================================
