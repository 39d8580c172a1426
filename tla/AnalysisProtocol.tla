--------------------------- MODULE AnalysisProtocol ---------------------------
(***************************************************************************)
(* One contract, the POST /contracts/{id}/analyze and .../recover requests *)
(* made for it, the API processes that serve them and the row of the       *)
(* contracts table they share.                                             *)
(*                                                                         *)
(* PostgreSQL (external) is modelled at READ COMMITTED: `row' is the last  *)
(* committed version of the contract together with its results, `lock' the *)
(* transaction holding the row lock and `work' the version that            *)
(* transaction has written so far.  An UPDATE whose WHERE clause is false  *)
(* on the committed row affects no row at once; one whose clause is true   *)
(* waits for the lock.  Everyone who writes holds the lock, so there is    *)
(* one uncommitted version at most.                                        *)
(*                                                                         *)
(* uuid4 attempt ids are fresh for every request, so an attempt id is the  *)
(* request itself.  updated_at is only ever read for a processing row, to  *)
(* tell whether its claim is older than the recovery delay: it is kept as  *)
(* an age that stops growing one tick past the delay.                      *)
(***************************************************************************)
EXTENDS Naturals, FiniteSets

CONSTANTS
  Analyses,         \* analyze requests, one attempt id each
  Recoveries,       \* recover requests; one that has ended may be sent again
  Processes,        \* API processes
  NoOne,            \* no request, no process
  Capacity,         \* MAX_CONCURRENT_MODEL_REQUESTS of a process
  RecoveryDelay,    \* ANALYSIS_RECOVERY_SECONDS, in ticks
  MaxFaults         \* bound: crashes, lost connections and database errors

ASSUME SetsAssumption ==
  /\ Analyses \cap Recoveries = {}
  /\ NoOne \notin Analyses \cup Recoveries \cup Processes
  /\ IsFiniteSet(Analyses)

ASSUME NumbersAssumption ==
  /\ Capacity \in Nat \ {0}
  /\ RecoveryDelay \in Nat
  /\ MaxFaults \in Nat

Requests == Analyses \cup Recoveries

\* What an attempt stores in the database; the vector index is a file.
Parts == {"metadata", "obligations", "clauses", "risks"}
Stages == Parts \cup {"index", "finish"}

VARIABLES
  row,      \* the committed contract: status, attempt, age of updated_at, results
  work,     \* the contract as the lock holder's transaction sees it
  lock,     \* the request whose transaction holds the row lock
  pc,       \* where each request is
  home,     \* the process serving each request
  slots,    \* free model slots of each process (model_capacity)
  waited,   \* ticks a claim may have waited since it read the clock
  answer,   \* what each request was answered
  faults    \* faults so far, at most MaxFaults

vars == <<row, work, lock, pc, home, slots, waited, answer, faults>>

Ages == 0 .. RecoveryDelay + 1
Older(n) == IF n > RecoveryDelay THEN n ELSE n + 1

NoResults == [p \in Parts |-> NoOne]

Contracts ==
  [status : {"pending", "processing", "failed", "completed"},
   attempt : Analyses \cup {NoOne},
   age : Ages,
   results : [Parts -> Analyses \cup {NoOne}]]

\* The rows each UPDATE or SELECT of the code matches, and what it writes.
StaleAtOnce(c) == c.status = "processing"                  \* mutant of Stale
Claimable(c) == c.status \in {"pending", "failed"}
OwnedBy(c, a) == c.status = "processing" /\ c.attempt = a
Stale(c) == c.status = "processing" /\ c.age > RecoveryDelay

Claimed(c, a, age) ==
  [c EXCEPT !.status = "processing", !.attempt = a, !.age = age]
Failed(c) == [c EXCEPT !.status = "failed", !.attempt = NoOne, !.age = 0]
FinishedStillClaimed(c) ==                                 \* mutant of Finished
  [c EXCEPT !.status = "completed", !.age = 0]
Finished(c) == [c EXCEPT !.status = "completed", !.attempt = NoOne, !.age = 0]

\* A new contract, or one whose claim is older than the column of attempt ids
\* and so nobody's, left to the recovery.
FirstRows ==
  [status : {"pending", "processing"}, attempt : {NoOne}, age : {0}, results : {NoResults}]

Init ==
  /\ row \in FirstRows
  /\ work = row
  /\ lock = NoOne
  /\ pc = [r \in Requests |-> "idle"]
  /\ home = [r \in Requests |-> NoOne]
  /\ slots = [p \in Processes |-> Capacity]
  /\ waited = [a \in Analyses |-> 0]
  /\ answer = [r \in Requests |-> "none"]
  /\ faults = 0

-----------------------------------------------------------------------------
\* Control flow and transactions.

Goto(r, label) == pc' = [pc EXCEPT ![r] = label]

Reply(r, kind) ==
  /\ Goto(r, "answered")
  /\ answer' = [answer EXCEPT ![r] = kind]

\* Ending r's transaction: without effect, or with everything r wrote.
Rolledback(r) ==
  /\ IF lock = r THEN lock' = NoOne /\ work' = row ELSE UNCHANGED <<lock, work>>
  /\ UNCHANGED row

Committed(r) ==
  /\ lock = r
  /\ lock' = NoOne
  /\ row' = work
  /\ UNCHANGED work

\* A write to the row by r, which must be free for r to write.
Lock(r, version) ==
  /\ lock = NoOne
  /\ lock' = r
  /\ work' = version
  /\ UNCHANGED row

\* The parts of the state that a step of a handler leaves alone.
NoWrite == UNCHANGED <<row, work, lock>>
Quiet == UNCHANGED <<home, slots, waited, answer, faults>>
Serving == UNCHANGED <<home, slots, waited, faults>>

-----------------------------------------------------------------------------
\* A request reaches a process.  An analysis takes a model slot for its whole
\* duration, whatever it will do, and is refused when none is free.

Arrive(a, p) ==
  /\ pc[a] = "idle"
  /\ home' = [home EXCEPT ![a] = p]
  /\ \/ /\ slots[p] > 0
        /\ slots' = [slots EXCEPT ![p] = @ - 1]
        /\ Goto(a, "lookup")
        /\ UNCHANGED answer
     \/ /\ slots[p] = 0
        /\ Reply(a, "busy")
        /\ UNCHANGED slots
  /\ NoWrite /\ UNCHANGED <<waited, faults>>

ArriveRecovery(r, p) ==
  /\ pc[r] = "idle"
  /\ home' = [home EXCEPT ![r] = p]
  /\ Goto(r, "select")
  /\ NoWrite /\ UNCHANGED <<slots, waited, answer, faults>>

\* The dependencies are torn down: the session closes, an admitted analysis
\* gives its slot back.
HoldsSlot(r) ==
  /\ r \in Analyses
  /\ pc[r] \notin {"idle", "gone"}
  /\ answer[r] # "busy"

\* Mutant of Leave: the slot is returned without a finally, on success only.
LeaveOnSuccess(r) ==
  /\ pc[r] = "answered"
  /\ Goto(r, "gone")
  /\ home' = [home EXCEPT ![r] = NoOne]
  /\ slots' = IF HoldsSlot(r) /\ answer[r] \in {"analyzed", "reused"}
              THEN [slots EXCEPT ![home[r]] = @ + 1] ELSE slots
  /\ NoWrite /\ UNCHANGED <<waited, answer, faults>>

Leave(r) ==
  /\ pc[r] = "answered"
  /\ Goto(r, "gone")
  /\ home' = [home EXCEPT ![r] = NoOne]
  /\ slots' = IF HoldsSlot(r) THEN [slots EXCEPT ![home[r]] = @ + 1] ELSE slots
  /\ NoWrite /\ UNCHANGED <<waited, answer, faults>>

\* The reviewer asks for a recovery again once the previous request has ended
\* and the database has noticed.
AskAgain(r) ==
  /\ pc[r] = "gone"
  /\ lock # r
  /\ Goto(r, "idle")
  /\ answer' = [answer EXCEPT ![r] = "none"]
  /\ NoWrite /\ Serving

-----------------------------------------------------------------------------
\* run_contract_analysis up to the durable claim.

Lookup(a) ==
  /\ pc[a] = "lookup"
  /\ \/ row.status = "completed" /\ Reply(a, "reused")
     \/ row.status = "processing" /\ Reply(a, "conflict")
     \/ row.status \in {"pending", "failed"} /\ Goto(a, "claim") /\ UNCHANGED answer
  /\ NoWrite /\ Serving

\* updated_at is read off the clock before the statement waits for the lock.
Claim(a) ==
  /\ pc[a] = "claim"
  /\ \/ /\ Claimable(row)
        /\ \E age \in 0 .. waited[a] : Lock(a, Claimed(row, a, age))
        /\ Goto(a, "commit_claim")
     \/ /\ ~ Claimable(row)
        /\ Goto(a, "reread")
        /\ NoWrite
  /\ waited' = [waited EXCEPT ![a] = 0]
  /\ UNCHANGED <<home, slots, answer, faults>>

\* Mutant of Reread: losing the claim race is taken for someone else's success.
RereadOptimistic(a) ==
  /\ pc[a] = "reread"
  /\ Reply(a, "reused")
  /\ NoWrite /\ Serving

Reread(a) ==
  /\ pc[a] = "reread"
  /\ \/ row.status = "completed" /\ Reply(a, "reused")
     \/ row.status # "completed" /\ Reply(a, "conflict")
  /\ NoWrite /\ Serving

CommitClaim(a) ==
  /\ pc[a] = "commit_claim"
  /\ Committed(a)
  /\ Goto(a, "fence")
  /\ Quiet

\* Mutant of Fence: the WHERE clause does not compare the attempt id.
FenceByStatus(a) ==
  /\ pc[a] = "fence"
  /\ \/ /\ row.status = "processing"
        /\ Lock(a, [row EXCEPT !.age = 0])
        /\ Goto(a, "index")
     \/ /\ row.status # "processing"
        /\ Goto(a, "rollback")
        /\ NoWrite
  /\ Quiet

\* The try block: fence the attempt, keep the row lock, produce the results.
Fence(a) ==
  /\ pc[a] = "fence"
  /\ \/ /\ OwnedBy(row, a)
        /\ Lock(a, [row EXCEPT !.age = 0])
        /\ Goto(a, "index")
     \/ /\ ~ OwnedBy(row, a)
        /\ Goto(a, "rollback")
        /\ NoWrite
  /\ Quiet

StageAfter(stage) ==
  CASE stage = "index" -> "metadata"
    [] stage = "metadata" -> "obligations"
    [] stage = "obligations" -> "clauses"
    [] stage = "clauses" -> "risks"
    [] stage = "risks" -> "finish"
    [] stage = "finish" -> "publish"

StageResult(a, stage) ==
  CASE stage \in Parts -> [work EXCEPT !.results[stage] = a]
    [] stage = "finish" -> Finished(work)
    [] OTHER -> work

\* Mutant of RunStage: a stage commits its output instead of flushing it.
RunStageCommitting(a) ==
  /\ pc[a] \in Stages
  /\ lock = a
  /\ work' = StageResult(a, pc[a])
  /\ row' = work'
  /\ Goto(a, StageAfter(pc[a]))
  /\ UNCHANGED lock /\ Quiet

\* Each stage flushes its output into the open transaction.
RunStage(a) ==
  /\ pc[a] \in Stages
  /\ lock = a
  /\ work' = StageResult(a, pc[a])
  /\ Goto(a, StageAfter(pc[a]))
  /\ UNCHANGED <<row, lock>> /\ Quiet

Publish(a) ==
  /\ pc[a] = "publish"
  /\ Committed(a)
  /\ Goto(a, "reload")
  /\ Quiet

Reload(r) ==
  /\ pc[r] = "reload"
  /\ Reply(r, IF r \in Analyses THEN "analyzed" ELSE "recovered")
  /\ NoWrite /\ Serving

\* Any exception in the try block: the model, its evidence, the vector index or
\* the database.  A worker whose connection is gone meets it at its next query.
AttemptFails(a) ==
  /\ pc[a] \in Stages \cup {"fence", "publish"}
  /\ Goto(a, "rollback")
  /\ NoWrite /\ Quiet

\* Mutant of Rollback: the failure is recorded while the attempt's transaction
\* is still open.
RollbackForgotten(a) ==
  /\ pc[a] = "rollback"
  /\ Goto(a, "fail")
  /\ NoWrite /\ Quiet

Rollback(a) ==
  /\ pc[a] = "rollback"
  /\ Rolledback(a)
  /\ Goto(a, "fail")
  /\ Quiet

\* Mutant of Fail: nothing is written.
FailUnrecorded(a) ==
  /\ pc[a] = "fail"
  /\ Reply(a, "failed")
  /\ NoWrite /\ Serving

\* The except block gives the claim back, if it is still the attempt's own.
Fail(a) ==
  /\ pc[a] = "fail"
  /\ \/ /\ OwnedBy(row, a)
        /\ Lock(a, Failed(row))
        /\ Goto(a, "commit_fail")
        /\ UNCHANGED answer
     \/ /\ ~ OwnedBy(row, a)
        /\ Reply(a, "failed")
        /\ NoWrite
  /\ Serving

CommitFail(a) ==
  /\ pc[a] = "commit_fail"
  /\ Committed(a)
  /\ Reply(a, "failed")
  /\ Serving

-----------------------------------------------------------------------------
\* recover_contract_analysis.

\* SELECT ... FOR UPDATE NOWAIT
SelectForUpdate(r) ==
  /\ pc[r] = "select"
  /\ \/ /\ Lock(r, row)
        /\ Goto(r, "recover")
        /\ UNCHANGED answer
     \/ /\ lock # NoOne
        /\ Reply(r, "conflict")
        /\ NoWrite
  /\ Serving

Recover(r) ==
  /\ pc[r] = "recover"
  /\ \/ /\ lock = r
        /\ Stale(row)
        /\ work' = Failed(row)
        /\ Goto(r, "commit_recovery")
        /\ UNCHANGED <<row, lock, answer>>
     \/ /\ ~ (lock = r /\ Stale(row))
        /\ Rolledback(r)
        /\ Reply(r, "conflict")
  /\ Serving

\* Mutant of CommitRecovery: the session is closed without a commit.
CommitRecoveryForgotten(r) ==
  /\ pc[r] = "commit_recovery"
  /\ Rolledback(r)
  /\ Goto(r, "reload")
  /\ Quiet

CommitRecovery(r) ==
  /\ pc[r] = "commit_recovery"
  /\ Committed(r)
  /\ Goto(r, "reload")
  /\ Quiet

-----------------------------------------------------------------------------
\* What goes wrong around the handlers.

Committing == {"commit_claim", "commit_fail", "commit_recovery"}

\* A commit on a connection that PostgreSQL has already ended.
Disconnected(r) ==
  /\ pc[r] \in Committing
  /\ lock # r
  /\ Reply(r, "error")
  /\ NoWrite /\ Serving

Fault ==
  /\ faults < MaxFaults
  /\ faults' = faults + 1

\* A database error that no handler catches: the request answers 500 and its
\* session is closed.  While a claim is being recovered, the operational ones are
\* caught, and answered by 409 instead.
DatabaseError(r) ==
  /\ Fault
  /\ pc[r] \in {"lookup", "claim", "reread", "fail", "reload", "select", "recover"}
                 \cup Committing
  /\ Rolledback(r)
  /\ \/ Reply(r, "error")
     \/ pc[r] \in {"select", "recover"} /\ Reply(r, "conflict")
  /\ waited' = [a \in Analyses |-> IF a = r THEN 0 ELSE waited[a]]
  /\ UNCHANGED <<home, slots>>

\* PostgreSQL commits, but the connection breaks before the client hears of it.
LostReply(r) ==
  /\ Fault
  /\ pc[r] \in Committing \cup {"publish"}
  /\ Committed(r)
  /\ IF pc[r] = "publish"
     THEN Goto(r, "rollback") /\ UNCHANGED answer
     ELSE Reply(r, "error")
  /\ UNCHANGED <<home, slots, waited>>

\* The process stops, with every request it serves; it restarts with all slots.
Crash(p) ==
  /\ Fault
  /\ pc' = [r \in Requests |-> IF home[r] = p THEN "gone" ELSE pc[r]]
  /\ home' = [r \in Requests |-> IF home[r] = p THEN NoOne ELSE home[r]]
  /\ waited' = [a \in Analyses |-> IF home[a] = p THEN 0 ELSE waited[a]]
  /\ slots' = [slots EXCEPT ![p] = Capacity]
  /\ NoWrite /\ UNCHANGED answer

\* PostgreSQL ends the lock holder's session: the holder is gone (Reap), or is
\* alive and does not know (LoseConnection).
EndSession ==
  /\ lock # NoOne
  /\ lock' = NoOne
  /\ work' = row
  /\ UNCHANGED <<row, pc, home, slots, waited, answer>>

Reap ==
  /\ lock \in Requests /\ pc[lock] = "gone"
  /\ EndSession
  /\ UNCHANGED faults

LoseConnection ==
  /\ Fault
  /\ lock \in Requests /\ pc[lock] # "gone"
  /\ EndSession

\* One tick of the clock.
Aged(c) == IF c.status = "processing" THEN [c EXCEPT !.age = Older(@)] ELSE c

Tick ==
  /\ row' = Aged(row)
  /\ work' = Aged(work)
  /\ waited' = [a \in Analyses |->
                  IF pc[a] = "claim" THEN Older(waited[a]) ELSE waited[a]]
  /\ UNCHANGED <<lock, pc, home, slots, answer, faults>>

-----------------------------------------------------------------------------
\* The handlers' own steps; those of an analysis that may have to wait for the
\* row lock are in AwaitLock.
AnalysisStep(a) ==
  \/ Lookup(a) \/ Reread(a) \/ CommitClaim(a)
  \/ RunStage(a) \/ Publish(a)
  \/ AttemptFails(a) \/ Rollback(a) \/ CommitFail(a)

AwaitLock(a) == Claim(a) \/ Fence(a) \/ Fail(a)

RecoveryStep(r) == SelectForUpdate(r) \/ Recover(r) \/ CommitRecovery(r)

Respond(r) == Reload(r) \/ Disconnected(r) \/ Leave(r)

Environment ==
  \/ \E p \in Processes : Crash(p)
  \/ \E r \in Requests : DatabaseError(r) \/ LostReply(r)
  \/ LoseConnection \/ Reap \/ Tick

Next ==
  \/ \E a \in Analyses, p \in Processes : Arrive(a, p)
  \/ \E r \in Recoveries, p \in Processes : ArriveRecovery(r, p)
  \/ \E a \in Analyses : AnalysisStep(a) \/ AwaitLock(a)
  \/ \E r \in Recoveries : RecoveryStep(r) \/ AskAgain(r)
  \/ \E r \in Requests : Respond(r)
  \/ Environment

\* Handlers run, PostgreSQL grants the row lock to a waiter in its turn, and it
\* ends the sessions of processes that are gone.
Fairness ==
  /\ \A a \in Analyses :
       WF_vars(AnalysisStep(a) \/ Respond(a)) /\ SF_vars(AwaitLock(a))
  /\ \A r \in Recoveries : WF_vars(RecoveryStep(r) \/ Respond(r))
  /\ WF_vars(Reap)

\* A reviewer who keeps asking for a recovery, and time that passes.
Persistence ==
  /\ \A r \in Recoveries :
       WF_vars(AskAgain(r) \/ \E p \in Processes : ArriveRecovery(r, p))
  /\ WF_vars(Tick)

Spec == Init /\ [][Next]_vars
FairSpec == Spec /\ Fairness
PersistentSpec == FairSpec /\ Persistence

-----------------------------------------------------------------------------
\* Properties.

Labels ==
  {"idle", "lookup", "claim", "commit_claim", "reread", "fence", "publish",
   "reload", "rollback", "fail", "commit_fail", "select", "recover",
   "commit_recovery", "answered", "gone"} \cup Stages

Answers ==
  {"none", "busy", "reused", "conflict", "analyzed", "failed", "recovered",
   "error"}

(* Every variable keeps its type.                                          *)
TypeOK ==
  /\ row \in Contracts
  /\ work \in Contracts
  /\ lock \in Requests \cup {NoOne}
  /\ pc \in [Requests -> Labels]
  /\ home \in [Requests -> Processes \cup {NoOne}]
  /\ slots \in [Processes -> Nat]
  /\ waited \in [Analyses -> Ages]
  /\ answer \in [Requests -> Answers]
  /\ faults \in 0 .. MaxFaults

(* The fence works: results that are not yet committed belong to the       *)
(* attempt named by the durable claim, which holds the row lock, however   *)
(* many older attempts are still running (run_contract_analysis's UPDATE   *)
(* before its first stage).                                                *)
OnlyTheClaimantWrites ==
  work.results # row.results =>
    /\ OwnedBy(row, lock)
    /\ \A p \in Parts : work.results[p] \in {lock, row.results[p]}

(* At every point of a handler the transaction that holds the row lock has *)
(* written exactly what the code up to that point writes, on the committed *)
(* row that the handler last checked: no other request changed it behind   *)
(* its back.                                                               *)
Written(label) ==
  CASE label = "obligations" -> {"metadata"}
    [] label = "clauses" -> {"metadata", "obligations"}
    [] label = "risks" -> {"metadata", "obligations", "clauses"}
    [] label \in {"finish", "publish"} -> Parts
    [] OTHER -> {}

HolderAt(labels) == lock \in Requests /\ pc[lock] \in labels

Holding == Stages \cup Committing \cup {"publish", "rollback", "recover", "gone"}

TransactionInv ==
  /\ lock = NoOne => work = row
  /\ lock # NoOne => HolderAt(Holding)
  /\ HolderAt({"commit_claim"}) =>
       /\ Claimable(row)
       /\ OwnedBy(work, lock)
       /\ work.results = row.results
  /\ HolderAt(Stages) => OwnedBy(row, lock) /\ OwnedBy(work, lock)
  /\ HolderAt({"publish"}) =>
       /\ OwnedBy(row, lock)
       /\ work.status = "completed" /\ work.attempt = NoOne
  /\ HolderAt(Stages \cup {"publish"}) =>
       \A p \in Parts :
         work.results[p] = IF p \in Written(pc[lock]) THEN lock ELSE row.results[p]
  /\ HolderAt({"commit_fail"}) => OwnedBy(row, lock) /\ work = Failed(row)
  /\ HolderAt({"recover"}) => work = row
  /\ HolderAt({"commit_recovery"}) => Stale(row) /\ work = Failed(row)

(* A contract shows no results until it is completed, and then those of    *)
(* one attempt, never a mixture left by a failed, superseded or crashed    *)
(* worker.                                                                 *)
WholeResults ==
  IF row.status = "completed"
  THEN \E a \in Analyses : row.results = [p \in Parts |-> a]
  ELSE row.results = NoResults

(* What a request was answered, or is about to be, agrees with where it is. *)
ControlInv ==
  /\ \A a \in Analyses : pc[a] \notin {"select", "recover", "commit_recovery"}
  /\ \A r \in Recoveries :
       pc[r] \in {"idle", "select", "recover", "commit_recovery", "reload",
                  "answered", "gone"}
  /\ \A r \in Requests : answer[r] # "none" => pc[r] \in {"answered", "gone"}
  /\ \A a \in Analyses :
       pc[a] = "reload" =>
         row.status = "completed" /\ row.results = [p \in Parts |-> a]
  /\ row.status # "processing" => row.attempt = NoOne

(* What makes these invariants survive every step.                         *)
InductiveInv ==
  TypeOK /\ TransactionInv /\ ControlInv /\ OnlyTheClaimantWrites /\ WholeResults

(* An answer keeps being true: "analyzed" means that the stored results    *)
(* are this request's, "reused" that a completed contract was there to     *)
(* return, and at most one request is ever told that it analyzed.          *)
TruthfulAnswers ==
  \A a \in Analyses :
    /\ answer[a] = "reused" => row.status = "completed"
    /\ answer[a] = "analyzed" =>
         row.status = "completed" /\ row.results = [p \in Parts |-> a]

(* A 502 means that the attempt's claim has been given back, so that the   *)
(* client may retry at once instead of waiting for the recovery delay: the *)
(* except block commits before it raises.                                  *)
FailureReleasesClaim ==
  \A a \in Analyses : answer[a] = "failed" => row.attempt # a

(* Every model slot that is not free is held by a request being served,    *)
(* on every path through get_llm_service, failures and restarts included.  *)
Held(p) == {a \in Analyses : home[a] = p /\ HoldsSlot(a)}

SlotsAccountedFor ==
  \A p \in Processes : slots[p] + Cardinality(Held(p)) = Capacity

(* Between any two steps of any handlers: what the transactions have       *)
(* written, where the requests are and which slots they hold agree.        *)
ProtocolInv == InductiveInv /\ SlotsAccountedFor

(* A completed contract is never reopened, failed or rewritten, whoever    *)
(* read it before it was completed.                                        *)
CompletedIsFinal == [][row.status = "completed" => UNCHANGED row]_vars

(* A durable claim ends only by its own attempt's transaction or by a      *)
(* recovery after the recovery delay; no retry takes it over.              *)
ClaimEndsProperly ==
  [][(row.status = "processing" /\
         (row'.status # "processing" \/ row'.attempt # row.attempt)) =>
       \/ lock \in Analyses /\ lock = row.attempt
       \/ lock \in Recoveries /\ row.age > RecoveryDelay]_vars

(* Every request that a process has taken up ends, answered or with its    *)
(* process: no one waits for the row lock forever.                         *)
EveryRequestEnds ==
  \A r \in Requests : pc[r] # "idle" ~> pc[r] = "gone"

\* A claim without an attempt id.
NobodysClaim == row.status = "processing" /\ row.attempt = NoOne

(* However an attempt was lost (crash, lost connection, an error while the *)
(* failure is recorded), its claim does not stay forever if someone keeps  *)
(* asking for its recovery; nor does a claim without an attempt id, which  *)
(* no worker answers for.                                                  *)
ClaimsAreReleased ==
  /\ \A a \in Analyses : row.attempt = a ~> row.attempt # a
  /\ NobodysClaim ~> ~ NobodysClaim

(* The contract, seen from outside, behaves as ContractLifecycle says.     *)
Lifecycle == INSTANCE ContractLifecycle WITH
               status <- row.status, claimant <- row.attempt, results <- row.results

ImplementsLifecycle == Lifecycle!Spec

(* README.md: "PostgreSQL row locking prevents recovery while a real       *)
(* worker is still active".  Between the commit of the claim and the fence *)
(* a worker holds no lock (analysis_service.py:142-148).                   *)
Working == Stages \cup {"fence", "publish"}
RecoverySparesActiveWorkers ==
  [][\A a \in Analyses :
       (row.attempt = a /\ row'.attempt # a /\ lock \in Recoveries)
         => pc[a] \notin Working]_vars
=============================================================================
