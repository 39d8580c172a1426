---------------------------- MODULE AnalysisProofs ----------------------------
(***************************************************************************)
(* Theorems about AnalysisProtocol, for any number of requests, processes, *)
(* faults and any recovery delay.                                          *)
(***************************************************************************)
EXTENDS AnalysisProtocol, FiniteSetTheorems, TLAPS

(* A claim starts at age 0.                                                *)
LEMMA ZeroAge == 0 \in Ages
  BY NumbersAssumption DEF Ages

(* Time does not carry an age out of its bounds.                           *)
LEMMA AgeTypes ==
  ASSUME NEW n \in Ages
  PROVE  Older(n) \in Ages /\ \A m \in 0 .. n : m \in Ages
  BY NumbersAssumption DEF Ages, Older

(* The operators that change a contract keep its type.                     *)
LEMMA ContractTypes ==
  ASSUME NEW c \in Contracts
  PROVE  /\ Failed(c) \in Contracts /\ Finished(c) \in Contracts
         /\ Aged(c) \in Contracts /\ [c EXCEPT !.age = 0] \in Contracts
         /\ \A a \in Analyses, n \in Ages : Claimed(c, a, n) \in Contracts
  <1>1. 0 \in Ages
    BY ZeroAge
  <1>2. \A n \in Ages : Older(n) \in Ages
    BY AgeTypes
  <1> QED
    BY <1>1, <1>2 DEF Contracts, Failed, Finished, Aged, Claimed

(* So does a stage, which leads to another label.                          *)
LEMMA StageTypes ==
  ASSUME NEW a \in Analyses, NEW stage \in Stages, work \in Contracts
  PROVE  StageAfter(stage) \in Labels /\ StageResult(a, stage) \in Contracts
  <1>1. StageAfter(stage) \in Labels
    BY DEF Stages, Parts, Labels, StageAfter
  <1>2. StageResult(a, stage) \in Contracts
    BY ContractTypes DEF Stages, Parts, StageResult, Contracts
  <1> QED
    BY <1>1, <1>2

(* A step keeps every variable in its type.                                *)
LEMMA TypeStep ==
  ASSUME TypeOK, [Next]_vars
  PROVE  TypeOK'
  <1> USE SetsAssumption, NumbersAssumption
  <1> USE DEF TypeOK, Requests, Goto, Reply, NoWrite, Quiet, Serving
  <1>1. ASSUME NEW a \in Analyses, NEW p \in Processes, Arrive(a, p)
        PROVE  TypeOK'
    BY <1>1 DEF Arrive, Labels, Answers
  <1>2. ASSUME NEW r \in Recoveries, NEW p \in Processes, ArriveRecovery(r, p)
        PROVE  TypeOK'
    BY <1>2 DEF ArriveRecovery, Labels
  <1>3. ASSUME NEW a \in Analyses, AnalysisStep(a)
        PROVE  TypeOK'
    <2>1. CASE Lookup(a) \/ Reread(a) \/ AttemptFails(a)
      BY <2>1 DEF Lookup, Reread, AttemptFails, Labels, Answers
    <2>2. CASE CommitClaim(a) \/ Publish(a) \/ CommitFail(a)
      BY <2>2 DEF CommitClaim, Publish, CommitFail, Committed, Labels, Answers
    <2>3. CASE RunStage(a)
      <3>1. lock = a /\ pc[a] \in Stages
        BY <2>3 DEF RunStage
      <3> QED
        BY <2>3, <3>1, StageTypes DEF RunStage
    <2>4. CASE Rollback(a)
      BY <2>4 DEF Rollback, Rolledback, Labels
    <2> QED
      BY <1>3, <2>1, <2>2, <2>3, <2>4 DEF AnalysisStep
  <1>4. ASSUME NEW a \in Analyses, AwaitLock(a)
        PROVE  TypeOK'
    <2>1. CASE Claim(a)
      <3>1. \A n \in 0 .. waited[a] : Claimed(row, a, n) \in Contracts
        BY ContractTypes, AgeTypes
      <3>2. waited' \in [Analyses -> Ages]
        BY <2>1, ZeroAge DEF Claim
      <3> QED
        BY <2>1, <3>1, <3>2 DEF Claim, Lock, Labels
    <2>2. CASE Fence(a)
      BY <2>2, ContractTypes DEF Fence, Lock, Labels, Stages
    <2>3. CASE Fail(a)
      BY <2>3, ContractTypes DEF Fail, Lock, Labels, Answers
    <2> QED
      BY <1>4, <2>1, <2>2, <2>3 DEF AwaitLock
  <1>10. ASSUME NEW r \in Recoveries, RecoveryStep(r) \/ AskAgain(r)
         PROVE  TypeOK'
    BY <1>10, ContractTypes
    DEF RecoveryStep, SelectForUpdate, Recover, CommitRecovery, AskAgain,
        Rolledback, Committed, Lock, Labels, Answers
  <1>11. ASSUME NEW r \in Requests, Respond(r)
         PROVE  TypeOK'
    <2>1. CASE Reload(r) \/ Disconnected(r)
      BY <2>1 DEF Reload, Disconnected, Labels, Answers
    <2>2. CASE Leave(r)
      <3>1. slots' \in [Processes -> Nat]
        <4>1. CASE home[r] \in Processes
          <5>1. slots[home[r]] + 1 \in Nat
            BY <4>1
          <5> QED
            BY <2>2, <5>1 DEF Leave
        <4>2. CASE home[r] \notin Processes
          <5>1. slots' = slots
            BY <2>2, <4>2 DEF Leave
          <5> QED
            BY <5>1
        <4> QED
          BY <4>1, <4>2
      <3> QED
        BY <2>2, <3>1 DEF Leave, Labels
    <2> QED
      BY <1>11, <2>1, <2>2 DEF Respond
  <1>5. ASSUME NEW p \in Processes, Crash(p)
        PROVE  TypeOK'
    BY <1>5, ZeroAge DEF Crash, Fault, Labels
  <1>6. ASSUME NEW r \in Requests, DatabaseError(r) \/ LostReply(r)
        PROVE  TypeOK'
    <2>1. CASE DatabaseError(r)
      <3>1. waited' \in [Analyses -> Ages]
        BY <2>1, ZeroAge DEF DatabaseError
      <3> QED
        BY <2>1, <3>1 DEF DatabaseError, Fault, Rolledback, Labels, Answers
    <2>2. CASE LostReply(r)
      BY <2>2 DEF LostReply, Fault, Committed, Labels, Answers
    <2> QED
      BY <1>6, <2>1, <2>2
  <1>7. CASE LoseConnection \/ Reap
    BY <1>7 DEF LoseConnection, Reap, EndSession, Fault
  <1>8. CASE Tick
    BY <1>8, ContractTypes, AgeTypes DEF Tick
  <1>9. CASE UNCHANGED vars
    BY <1>9 DEF vars
  <1> QED
    BY <1>1, <1>2, <1>3, <1>4, <1>5, <1>6, <1>7, <1>8, <1>9, <1>10, <1>11 DEF Next, Environment

(* Every reachable state is well typed.                                    *)
THEOREM Typing == Spec => []TypeOK
  <1>1. Init => TypeOK
    BY NumbersAssumption, SetsAssumption
    DEF Init, FirstRows, TypeOK, Contracts, Ages, NoResults, Labels, Answers, Requests
  <1>2. TypeOK /\ [Next]_vars => TypeOK'
    BY TypeStep
  <1>3. QED
    BY <1>1, <1>2, PTL DEF Spec

-----------------------------------------------------------------------------
(* A step that writes nothing and moves a request that does not hold the   *)
(* row lock cannot disturb the holder's transaction.                       *)
LEMMA BystanderStep ==
  ASSUME InductiveInv, NEW r \in Requests, lock # r, NoWrite,
         NEW label, pc' = [pc EXCEPT ![r] = label]
  PROVE  TransactionInv' /\ OnlyTheClaimantWrites' /\ WholeResults'
  <1>1. \A labels : HolderAt(labels)' = HolderAt(labels)
    BY SetsAssumption DEF HolderAt, InductiveInv, TypeOK, NoWrite, Requests
  <1>2. lock \in Requests => pc'[lock] = pc[lock]
    BY DEF InductiveInv, TypeOK
  <1> QED
    BY <1>1, <1>2 DEF InductiveInv, TransactionInv, OnlyTheClaimantWrites, WholeResults, NoWrite

(* What the lock holder is about to commit is a contract without results,  *)
(* or with its own whole result set; the committed one is not completed.   *)
LEMMA CommitFacts ==
  ASSUME InductiveInv, NEW r \in Requests, lock = r,
         pc[r] \in Committing \cup {"publish"}
  PROVE  /\ row.status # "completed"
         /\ work.status # "completed" => work.results = NoResults
         /\ work.status = "completed" <=> pc[r] = "publish"
         /\ pc[r] = "publish" =>
              r \in Analyses /\ work.results = [p \in Parts |-> r]
         /\ work.status # "processing" => work.attempt = NoOne
         /\ work.attempt # row.attempt => work.attempt \in {r, NoOne}
  <1> USE SetsAssumption DEF InductiveInv, HolderAt
  <1>1. CASE pc[r] = "commit_claim"
    BY <1>1 DEF TransactionInv, WholeResults, Claimable, OwnedBy, TypeOK, Contracts, NoResults, ControlInv
  <1>2. CASE pc[r] \in {"commit_fail", "commit_recovery"}
    BY <1>2 DEF TransactionInv, WholeResults, OwnedBy, Stale, Failed, TypeOK, Contracts
  <1>3. CASE pc[r] = "publish"
    <2>1. OwnedBy(row, r) /\ work.status = "completed" /\ work.attempt = NoOne
      BY <1>3 DEF TransactionInv
    <2>2. r \in Analyses
      BY <2>1 DEF OwnedBy, TypeOK, Contracts, Requests
    <2>3. \A p \in Parts : work.results[p] = r
      BY <1>3 DEF TransactionInv, Written
    <2>4. work.results = [p \in Parts |-> r]
      BY <2>3 DEF TypeOK, Contracts
    <2> QED
      BY <1>3, <2>1, <2>2, <2>4 DEF OwnedBy
  <1> QED
    BY <1>1, <1>2, <1>3 DEF Committing

(* Committing the holder's transaction leaves a whole contract and no      *)
(* transaction.                                                            *)
LEMMA CommitStep ==
  ASSUME InductiveInv, NEW r \in Requests, Committed(r),
         pc[r] \in Committing \cup {"publish"}
  PROVE  TransactionInv' /\ OnlyTheClaimantWrites' /\ WholeResults'
  <1>1. lock' = NoOne /\ row' = work /\ work' = work
    BY DEF Committed
  <1>2. ~ (lock' \in Requests)
    BY <1>1, SetsAssumption DEF Requests
  <1>3. WholeResults'
    BY <1>1, CommitFacts DEF WholeResults, Committed, NoResults
  <1>4. TransactionInv'
    BY <1>1, <1>2 DEF TransactionInv, HolderAt
  <1>5. OnlyTheClaimantWrites'
    BY <1>1 DEF OnlyTheClaimantWrites
  <1> QED
    BY <1>3, <1>4, <1>5

(* Ending a transaction without effect leaves the committed contract.      *)
LEMMA RollbackStep ==
  ASSUME InductiveInv, lock' = NoOne, work' = row, row' = row
  PROVE  TransactionInv' /\ OnlyTheClaimantWrites' /\ WholeResults'
  <1>1. ~ (lock' \in Requests)
    BY SetsAssumption DEF Requests
  <1> QED
    BY <1>1 DEF InductiveInv, TransactionInv, HolderAt, OnlyTheClaimantWrites, WholeResults

(* Taking the free row lock for a version that fits the label reached.     *)
LEMMA LockStep ==
  ASSUME InductiveInv, NEW r \in Requests, NEW version \in Contracts,
         NEW label \in Labels, Lock(r, version), Goto(r, label),
         \/ /\ label = "commit_claim"
            /\ Claimable(row) /\ OwnedBy(version, r)
         \/ /\ label = "index"
            /\ OwnedBy(row, r) /\ OwnedBy(version, r)
         \/ /\ label = "commit_fail"
            /\ OwnedBy(row, r) /\ version = Failed(row)
         \/ /\ label = "recover"
            /\ version = row,
         version.results = row.results
  PROVE  TransactionInv' /\ OnlyTheClaimantWrites' /\ WholeResults'
  <1>1. lock' = r /\ row' = row /\ work' = version /\ pc'[r] = label /\ r # NoOne
    BY SetsAssumption DEF Lock, Goto, InductiveInv, TypeOK, Requests
  <1>2. \A labels : HolderAt(labels)' <=> label \in labels
    BY <1>1 DEF HolderAt
  <1>3. OnlyTheClaimantWrites' /\ WholeResults'
    BY <1>1 DEF InductiveInv, OnlyTheClaimantWrites, WholeResults
  <1>4. TransactionInv'
    BY <1>1, <1>2 DEF TransactionInv, Holding, Stages, Parts, Committing, Written, Failed
  <1> QED
    BY <1>3, <1>4

(* The holder leaves its handler's normal path (or stays where it is): the *)
(* transaction remains as it is.                                           *)
LEMMA AbandonedStep ==
  ASSUME InductiveInv, UNCHANGED <<row, work, lock>>,
         lock \in Requests => pc'[lock] \in {"rollback", "gone", pc[lock]}
  PROVE  TransactionInv' /\ OnlyTheClaimantWrites' /\ WholeResults'
  <1>1. OnlyTheClaimantWrites' /\ WholeResults'
    BY DEF InductiveInv, OnlyTheClaimantWrites, WholeResults
  <1>2. CASE lock \in Requests /\ pc'[lock] \in {"rollback", "gone"}
    <2>1. \A labels : HolderAt(labels)' <=> pc'[lock] \in labels
      BY <1>2 DEF HolderAt
    <2>2. lock # NoOne
      BY <1>2, SetsAssumption DEF Requests
    <2> QED
      BY <1>1, <1>2, <2>1, <2>2 DEF TransactionInv, Holding, Stages, Parts, Committing
  <1>3. CASE lock \in Requests => pc'[lock] = pc[lock]
    <2>1. \A labels : HolderAt(labels)' <=> HolderAt(labels)
      BY <1>3 DEF HolderAt
    <2> QED
      BY <1>1, <1>3, <2>1 DEF InductiveInv, TransactionInv, HolderAt
  <1> QED
    BY <1>2, <1>3

(* A stage adds its own part to the claimant's uncommitted results.        *)
LEMMA StageStep ==
  ASSUME InductiveInv, NEW a \in Analyses, RunStage(a)
  PROVE  TransactionInv' /\ OnlyTheClaimantWrites' /\ WholeResults'
  <1>1. /\ lock = a /\ lock' = a /\ row' = row /\ a \in Requests /\ a # NoOne
        /\ pc[a] \in Stages /\ pc'[a] = StageAfter(pc[a])
        /\ work' = StageResult(a, pc[a])
    BY SetsAssumption DEF RunStage, Goto, InductiveInv, TypeOK, Requests
  <1>2. /\ OwnedBy(row, a) /\ OwnedBy(work, a)
        /\ \A p \in Parts :
             work.results[p] = IF p \in Written(pc[a]) THEN a ELSE row.results[p]
    BY <1>1 DEF InductiveInv, TransactionInv, HolderAt
  <1>3. work \in Contracts /\ row \in Contracts
    BY DEF InductiveInv, TypeOK
  <1>4. \A labels : HolderAt(labels)' <=> pc'[a] \in labels
    BY <1>1 DEF HolderAt
  <1>5. /\ pc'[a] # "publish" => pc'[a] \in Stages /\ OwnedBy(work', a)
        /\ pc'[a] = "publish" => work'.status = "completed" /\ work'.attempt = NoOne
    BY <1>1, <1>2, <1>3
    DEF StageAfter, StageResult, Stages, Parts, Finished, OwnedBy, Contracts
  <1>6. \A p \in Parts :
          work'.results[p] = IF p \in Written(pc'[a]) THEN a ELSE row.results[p]
    BY <1>1, <1>2, <1>3
    DEF StageAfter, StageResult, Stages, Parts, Finished, Written, Contracts
  <1>7. TransactionInv'
    BY <1>1, <1>2, <1>4, <1>5, <1>6 DEF TransactionInv, Holding, Stages, Parts, Committing
  <1>8. OnlyTheClaimantWrites' /\ WholeResults'
    BY <1>1, <1>2, <1>6 DEF InductiveInv, OnlyTheClaimantWrites, WholeResults
  <1> QED
    BY <1>7, <1>8

(* Time changes nothing but ages, and a stale claim stays stale.           *)
LEMMA TickStep ==
  ASSUME InductiveInv, Tick
  PROVE  TransactionInv' /\ OnlyTheClaimantWrites' /\ WholeResults'
  <1>1. /\ row' = Aged(row) /\ work' = Aged(work) /\ lock' = lock
        /\ row \in Contracts /\ work \in Contracts
    BY DEF Tick, InductiveInv, TypeOK
  <1>2. \A labels : HolderAt(labels)' <=> HolderAt(labels)
    BY DEF HolderAt, Tick
  <1>3. \A c \in Contracts :
          /\ Aged(c).status = c.status /\ Aged(c).attempt = c.attempt
          /\ Aged(c).results = c.results
          /\ \A a : OwnedBy(Aged(c), a) <=> OwnedBy(c, a)
          /\ Claimable(Aged(c)) <=> Claimable(c)
          /\ Stale(c) => Stale(Aged(c))
          /\ c.status = "processing" => Aged(Failed(c)) = Failed(Aged(c))
    BY NumbersAssumption
    DEF Aged, Contracts, OwnedBy, Claimable, Stale, Failed, Older, Ages
  <1>4. OnlyTheClaimantWrites' /\ WholeResults'
    BY <1>1, <1>3 DEF InductiveInv, OnlyTheClaimantWrites, WholeResults, NoResults
  <1>5. TransactionInv'
    BY <1>1, <1>2, <1>3
    DEF InductiveInv, TransactionInv, Tick, OwnedBy, Stale
  <1> QED
    BY <1>4, <1>5

(* The requests' control flow agrees with the contract after every step.   *)
LEMMA ControlStep ==
  ASSUME InductiveInv, [Next]_vars
  PROVE  ControlInv'
  <1> USE SetsAssumption DEF InductiveInv, ControlInv, TypeOK, Requests, Goto, Reply, NoWrite,
          Quiet, Serving
  <1>1. ASSUME NEW a \in Analyses, NEW p \in Processes, Arrive(a, p)
        PROVE  ControlInv'
    BY <1>1 DEF Arrive
  <1>2. ASSUME NEW r \in Recoveries, NEW p \in Processes, ArriveRecovery(r, p)
        PROVE  ControlInv'
    BY <1>2 DEF ArriveRecovery
  <1>3. ASSUME NEW a \in Analyses, AnalysisStep(a)
        PROVE  ControlInv'
    <2>1. CASE Lookup(a) \/ Reread(a) \/ AttemptFails(a)
      BY <2>1 DEF Lookup, Reread, AttemptFails, Stages, Parts
    <2>2. CASE CommitClaim(a) \/ Publish(a) \/ CommitFail(a)
      BY <2>2, CommitFacts
      DEF CommitClaim, Publish, CommitFail, Committed, Committing
    <2>3. CASE RunStage(a)
      BY <2>3 DEF RunStage, StageAfter, Stages, Parts
    <2>4. CASE Rollback(a)
      BY <2>4 DEF Rollback, Rolledback
    <2> QED
      BY <1>3, <2>1, <2>2, <2>3, <2>4 DEF AnalysisStep
  <1>4. ASSUME NEW a \in Analyses, AwaitLock(a)
        PROVE  ControlInv'
    BY <1>4 DEF AwaitLock, Claim, Fence, Fail, Lock
  <1>5. ASSUME NEW r \in Recoveries, RecoveryStep(r) \/ AskAgain(r)
        PROVE  ControlInv'
    BY <1>5, CommitFacts
    DEF RecoveryStep, SelectForUpdate, Recover, CommitRecovery, AskAgain,
        Rolledback, Committed, Lock, Committing
  <1>6. ASSUME NEW r \in Requests, Respond(r)
        PROVE  ControlInv'
    BY <1>6 DEF Respond, Reload, Disconnected, Leave
  <1>7. ASSUME NEW p \in Processes, Crash(p)
        PROVE  ControlInv'
    BY <1>7 DEF Crash
  <1>8. ASSUME NEW r \in Requests, DatabaseError(r) \/ LostReply(r)
        PROVE  ControlInv'
    BY <1>8, CommitFacts
    DEF DatabaseError, LostReply, Rolledback, Committed, Committing
  <1>9. CASE LoseConnection \/ Reap
    BY <1>9 DEF LoseConnection, Reap, EndSession
  <1>10. CASE Tick
    BY <1>10 DEF Tick, Aged, Contracts
  <1>11. CASE UNCHANGED vars
    BY <1>11 DEF vars
  <1> QED
    BY <1>1, <1>2, <1>3, <1>4, <1>5, <1>6, <1>7, <1>8, <1>9, <1>10, <1>11
    DEF Next, Environment

(* The holder's transaction is what its program point says after every     *)
(* step, and only its claimant writes results.                             *)
LEMMA TransactionStep ==
  ASSUME InductiveInv, [Next]_vars
  PROVE  TransactionInv' /\ OnlyTheClaimantWrites' /\ WholeResults'
  <1> DEFINE Goal == TransactionInv' /\ OnlyTheClaimantWrites' /\ WholeResults'
  <1>0. \A r \in Requests : lock = r => pc[r] \in Holding
    BY SetsAssumption DEF InductiveInv, TransactionInv, HolderAt, Requests
  <1>1. ASSUME NEW a \in Analyses, NEW p \in Processes, Arrive(a, p)
        PROVE  Goal
    <2>1. lock # a
      BY <1>0, <1>1 DEF Arrive, Holding, Stages, Parts, Committing, Requests
    <2> QED
      BY <1>1, <2>1, BystanderStep DEF Arrive, Goto, Reply, Requests
  <1>2. ASSUME NEW r \in Recoveries, NEW p \in Processes, ArriveRecovery(r, p)
        PROVE  Goal
    <2>1. lock # r
      BY <1>0, <1>2 DEF ArriveRecovery, Holding, Stages, Parts, Committing, Requests
    <2> QED
      BY <1>2, <2>1, BystanderStep DEF ArriveRecovery, Goto, Requests
  <1>3. ASSUME NEW a \in Analyses, AnalysisStep(a)
        PROVE  Goal
    <2>1. CASE Lookup(a) \/ Reread(a)
      <3>1. lock # a
        BY <1>0, <2>1 DEF Lookup, Reread, Holding, Stages, Parts, Committing, Requests
      <3> QED
        BY <2>1, <3>1, BystanderStep DEF Lookup, Reread, Goto, Reply, Requests
    <2>2. CASE CommitClaim(a) \/ Publish(a) \/ CommitFail(a)
      BY <2>2, CommitStep DEF CommitClaim, Publish, CommitFail, Committing, Requests
    <2>3. CASE RunStage(a)
      BY <2>3, StageStep
    <2>4. CASE AttemptFails(a)
      <3>1. CASE lock = a
        <4>1. UNCHANGED <<row, work, lock>> /\ pc'[lock] = "rollback"
          BY <2>4, <3>1 DEF AttemptFails, Goto, NoWrite, InductiveInv, TypeOK, Requests
        <4> QED
          BY <4>1, AbandonedStep
      <3>2. CASE lock # a
        BY <2>4, <3>2, BystanderStep DEF AttemptFails, Goto, Requests
      <3> QED
        BY <3>1, <3>2
    <2>5. CASE Rollback(a)
      <3>1. CASE lock = a
        BY <2>5, <3>1, RollbackStep DEF Rollback, Rolledback
      <3>2. CASE lock # a
        BY <2>5, <3>2, BystanderStep DEF Rollback, Rolledback, Goto, NoWrite, Requests
      <3> QED
        BY <3>1, <3>2
    <2> QED
      BY <1>3, <2>1, <2>2, <2>3, <2>4, <2>5 DEF AnalysisStep
  <1>4. ASSUME NEW a \in Analyses, AwaitLock(a)
        PROVE  Goal
    <2>0. /\ lock = a => pc[a] \notin {"claim", "fence", "fail"}
          /\ row \in Contracts /\ waited \in [Analyses -> Ages]
      BY <1>0 DEF Holding, Stages, Parts, Committing, Requests, InductiveInv, TypeOK
    <2>1. CASE Claim(a) /\ Claimable(row)
      <3>1. PICK age \in 0 .. waited[a] : Lock(a, Claimed(row, a, age))
        BY <2>1 DEF Claim
      <3>2. age \in Ages
        BY <2>0, <3>1, AgeTypes
      <3>3. /\ Claimed(row, a, age) \in Contracts
            /\ OwnedBy(Claimed(row, a, age), a)
            /\ Claimed(row, a, age).results = row.results
        BY <2>0, <3>2, ContractTypes DEF Claimed, OwnedBy, Contracts
      <3>4. Goto(a, "commit_claim")
        BY <2>1 DEF Claim
      <3> QED
        BY <2>1, <3>1, <3>3, <3>4, LockStep DEF Requests, Labels
    <2>2. CASE Fence(a) /\ OwnedBy(row, a)
      <3>1. /\ [row EXCEPT !.age = 0] \in Contracts
            /\ OwnedBy([row EXCEPT !.age = 0], a)
            /\ [row EXCEPT !.age = 0].results = row.results
        BY <2>0, <2>2, ContractTypes DEF OwnedBy, Contracts
      <3> QED
        BY <2>2, <3>1, LockStep DEF Fence, Requests, Labels, Stages
    <2>3. CASE Fail(a) /\ OwnedBy(row, a)
      <3>1. Failed(row) \in Contracts /\ Failed(row).results = row.results
        BY <2>0, ContractTypes DEF Failed, Contracts
      <3> QED
        BY <2>3, <3>1, LockStep DEF Fail, Requests, Labels
    <2>4. CASE \/ Claim(a) /\ ~ Claimable(row)
               \/ (Fence(a) \/ Fail(a)) /\ ~ OwnedBy(row, a)
      <3>1. lock # a /\ NoWrite
        BY <2>0, <2>4 DEF Claim, Fence, Fail
      <3> QED
        BY <2>4, <3>1, BystanderStep DEF Claim, Fence, Fail, Goto, Reply, Requests
    <2> QED
      BY <1>4, <2>1, <2>2, <2>3, <2>4 DEF AwaitLock
  <1>5. ASSUME NEW r \in Recoveries, RecoveryStep(r) \/ AskAgain(r)
        PROVE  Goal
    <2>0. row \in Contracts /\ r \in Requests
      BY DEF InductiveInv, TypeOK, Requests
    <2>1. CASE SelectForUpdate(r)
      <3>1. CASE Lock(r, row) /\ Goto(r, "recover")
        BY <2>0, <3>1, LockStep DEF Labels
      <3>2. CASE lock # NoOne /\ Reply(r, "conflict") /\ NoWrite
        <4>1. lock # r
          BY <1>0, <2>0, <2>1 DEF SelectForUpdate, Holding, Stages, Parts, Committing
        <4> QED
          BY <2>0, <3>2, <4>1, BystanderStep DEF Goto, Reply
      <3> QED
        BY <2>1, <3>1, <3>2 DEF SelectForUpdate
    <2>2. CASE Recover(r)
      <3>1. CASE lock = r /\ Stale(row)
        <4>1. /\ lock' = r /\ row' = row /\ work' = Failed(row)
              /\ pc'[r] = "commit_recovery" /\ r # NoOne
          BY <2>0, <2>2, <3>1, SetsAssumption
          DEF Recover, Goto, InductiveInv, TypeOK, Requests, Rolledback
        <4>2. \A labels : HolderAt(labels)' <=> "commit_recovery" \in labels
          BY <2>0, <4>1 DEF HolderAt
        <4> QED
          BY <3>1, <4>1, <4>2
          DEF InductiveInv, TransactionInv, OnlyTheClaimantWrites, WholeResults, TypeOK,
              Contracts, Failed, Stale, Holding, Stages, Parts, Committing
      <3>2. CASE Rolledback(r) /\ Reply(r, "conflict")
        <4>1. CASE lock = r
          BY <3>2, <4>1, RollbackStep DEF Rolledback
        <4>2. CASE lock # r
          BY <2>0, <3>2, <4>2, BystanderStep DEF Rolledback, Goto, Reply, NoWrite
        <4> QED
          BY <4>1, <4>2
      <3> QED
        BY <2>2, <3>1, <3>2 DEF Recover
    <2>3. CASE CommitRecovery(r)
      BY <2>0, <2>3, CommitStep DEF CommitRecovery, Committing
    <2>4. CASE AskAgain(r)
      BY <2>0, <2>4, BystanderStep DEF AskAgain, Goto
    <2> QED
      BY <1>5, <2>1, <2>2, <2>3, <2>4 DEF RecoveryStep
  <1>6. ASSUME NEW r \in Requests, Respond(r)
        PROVE  Goal
    <2>1. lock # r
      BY <1>0, <1>6
      DEF Respond, Reload, Disconnected, Leave, Holding, Stages, Parts, Committing
    <2> QED
      BY <1>6, <2>1, BystanderStep DEF Respond, Reload, Disconnected, Leave, Goto, Reply
  <1>7. ASSUME NEW p \in Processes, Crash(p)
        PROVE  Goal
    <2>1. /\ UNCHANGED <<row, work, lock>>
          /\ lock \in Requests => pc'[lock] \in {"gone", pc[lock]}
      BY <1>7 DEF Crash, NoWrite
    <2> QED
      BY <2>1, AbandonedStep
  <1>8. ASSUME NEW r \in Requests, DatabaseError(r)
        PROVE  Goal
    <2>1. CASE lock = r
      BY <1>8, <2>1, RollbackStep DEF DatabaseError, Rolledback
    <2>2. CASE lock # r
      BY <1>8, <2>2, BystanderStep DEF DatabaseError, Rolledback, Goto, Reply, NoWrite
    <2> QED
      BY <2>1, <2>2
  <1>9. ASSUME NEW r \in Requests, LostReply(r)
        PROVE  Goal
    BY <1>9, CommitStep DEF LostReply
  <1>10. CASE LoseConnection \/ Reap
    BY <1>10, RollbackStep DEF LoseConnection, Reap, EndSession
  <1>11. CASE Tick
    BY <1>11, TickStep
  <1>12. CASE UNCHANGED vars
    BY <1>12
    DEF vars, InductiveInv, TransactionInv, OnlyTheClaimantWrites, WholeResults, HolderAt
  <1> QED
    BY <1>1, <1>2, <1>3, <1>4, <1>5, <1>6, <1>7, <1>8, <1>9, <1>10, <1>11, <1>12
    DEF Next, Environment

-----------------------------------------------------------------------------
(* The inductive invariant, and through it: at each point of a handler the *)
(* open transaction is what the code up to there wrote on the row it       *)
(* checked, only the claimant of the contract writes results, and a        *)
(* contract shows one attempt's whole results or none.                     *)
THEOREM Invariance == Spec => []InductiveInv
  <1>1. Init => InductiveInv
    <2> SUFFICES ASSUME Init PROVE InductiveInv
      OBVIOUS
    <2>1. TypeOK
      BY NumbersAssumption, SetsAssumption
      DEF Init, FirstRows, TypeOK, Contracts, Ages, NoResults, Labels, Answers, Requests
    <2>2. TransactionInv
      BY SetsAssumption DEF Init, TransactionInv, HolderAt, Requests
    <2>3. ControlInv
      BY DEF Init, FirstRows, ControlInv, Requests
    <2>4. OnlyTheClaimantWrites /\ WholeResults
      BY DEF Init, FirstRows, OnlyTheClaimantWrites, WholeResults
    <2> QED
      BY <2>1, <2>2, <2>3, <2>4 DEF InductiveInv
  <1>2. InductiveInv /\ [Next]_vars => InductiveInv'
    BY TypeStep, ControlStep, TransactionStep DEF InductiveInv
  <1>3. QED
    BY <1>1, <1>2, PTL DEF Spec

(* No reader of the committed contract ever sees part of an analysis.      *)
THEOREM Atomicity == Spec => []WholeResults
  <1>1. InductiveInv => WholeResults
    BY DEF InductiveInv
  <1> QED
    BY <1>1, Invariance, PTL

(* The fence: uncommitted results always belong to the durable claim.      *)
THEOREM Fencing == Spec => []OnlyTheClaimantWrites
  <1>1. InductiveInv => OnlyTheClaimantWrites
    BY DEF InductiveInv
  <1> QED
    BY <1>1, Invariance, PTL

-----------------------------------------------------------------------------
(* The committed contract changes only when a transaction commits, apart   *)
(* from growing older.                                                     *)
LEMMA RowChange ==
  ASSUME [Next]_vars
  PROVE  \/ UNCHANGED row
         \/ Tick
         \/ \E r \in Requests : Committed(r) /\ pc[r] \in Committing \cup {"publish"}
  <1> USE DEF NoWrite, Quiet, Requests
  <1>1. ASSUME NEW a \in Analyses, AnalysisStep(a) \/ AwaitLock(a)
        PROVE  \/ UNCHANGED row
               \/ Committed(a) /\ pc[a] \in Committing \cup {"publish"}
    BY <1>1
    DEF AnalysisStep, AwaitLock, Lookup, Reread, CommitClaim, RunStage, Publish,
        AttemptFails, Rollback, CommitFail, Claim, Fence, Fail, Lock, Rolledback, Committing
  <1>2. ASSUME NEW r \in Recoveries, RecoveryStep(r) \/ AskAgain(r)
        PROVE  \/ UNCHANGED row
               \/ Committed(r) /\ pc[r] \in Committing \cup {"publish"}
    BY <1>2
    DEF RecoveryStep, AskAgain, SelectForUpdate, Recover, CommitRecovery, Lock,
        Rolledback, Committing
  <1>3. ASSUME NEW r \in Requests, Respond(r) \/ DatabaseError(r) \/ LostReply(r)
        PROVE  \/ UNCHANGED row
               \/ Committed(r) /\ pc[r] \in Committing \cup {"publish"}
    BY <1>3 DEF Respond, Reload, Disconnected, Leave, DatabaseError, LostReply, Rolledback
  <1>4. ASSUME NEW p \in Processes,
               \/ \E a \in Analyses : Arrive(a, p)
               \/ \E r \in Recoveries : ArriveRecovery(r, p)
               \/ Crash(p)
        PROVE  UNCHANGED row
    BY <1>4 DEF Arrive, ArriveRecovery, Crash
  <1>5. CASE LoseConnection \/ Reap \/ UNCHANGED vars
    BY <1>5 DEF LoseConnection, Reap, EndSession, vars
  <1> QED
    BY <1>1, <1>2, <1>3, <1>4, <1>5 DEF Next, Environment

(* A commit is one of the steps of a contract's life.                      *)
LEMMA CommitIsLifecycleStep ==
  ASSUME InductiveInv, NEW r \in Requests, Committed(r),
         pc[r] \in Committing \cup {"publish"}
  PROVE  \/ r \in Analyses /\ Lifecycle!Begin(r)
         \/ r \in Analyses /\ row.attempt = r /\ Lifecycle!Publish(r)
         \/ /\ Lifecycle!Abandon
            /\ row.attempt = r \/ (r \in Recoveries /\ Stale(row))
  <1> USE SetsAssumption DEF InductiveInv, TransactionInv, HolderAt, Requests
  <1>1. lock = r /\ row' = work
    BY DEF Committed
  <1>2. CASE pc[r] = "commit_claim"
    <2>1. Claimable(row) /\ OwnedBy(work, r) /\ work.results = row.results
      BY <1>1, <1>2
    <2>2. r \in Analyses
      BY <1>2 DEF ControlInv
    <2> QED
      BY <1>1, <2>1, <2>2 DEF Lifecycle!Begin, Claimable, OwnedBy
  <1>3. CASE pc[r] = "publish"
    <2>1. OwnedBy(row, r) /\ work.status = "completed" /\ work.attempt = NoOne
      BY <1>1, <1>3
    <2>2. r \in Analyses /\ work.results = [p \in Parts |-> r]
      BY <1>1, <1>3, CommitFacts
    <2> QED
      BY <1>1, <2>1, <2>2 DEF Lifecycle!Publish, OwnedBy
  <1>4. CASE pc[r] = "commit_fail"
    <2>1. OwnedBy(row, r) /\ work = Failed(row)
      BY <1>1, <1>4
    <2> QED
      BY <1>1, <2>1 DEF Lifecycle!Abandon, OwnedBy, Failed, TypeOK, Contracts
  <1>5. CASE pc[r] = "commit_recovery"
    <2>1. Stale(row) /\ work = Failed(row)
      BY <1>1, <1>5
    <2>2. r \in Recoveries
      BY <1>5 DEF ControlInv
    <2> QED
      BY <1>1, <2>1, <2>2 DEF Lifecycle!Abandon, Stale, Failed, TypeOK, Contracts
  <1> QED
    BY <1>2, <1>3, <1>4, <1>5 DEF Committing

(* Growing older leaves status, attempt and results alone, and a contract  *)
(* that is not processing entirely.                                        *)
LEMMA AgeingIsInvisible ==
  ASSUME InductiveInv, Tick
  PROVE  /\ row'.status = row.status /\ row'.attempt = row.attempt
         /\ row'.results = row.results
         /\ row.status # "processing" => row' = row
  BY DEF Tick, Aged, InductiveInv, TypeOK, Contracts

(* Seen through its committed row, the protocol is the lifecycle.          *)
THEOREM Refinement == Spec => ImplementsLifecycle
  <1>1. Init => Lifecycle!Init
    BY DEF Init, FirstRows, Lifecycle!Init, NoResults, Lifecycle!NoResults
  <1>2. InductiveInv /\ [Next]_vars => [Lifecycle!Next]_(Lifecycle!vars)
    <2> SUFFICES ASSUME InductiveInv, [Next]_vars
                 PROVE  Lifecycle!Next \/ UNCHANGED Lifecycle!vars
      OBVIOUS
    <2>1. CASE UNCHANGED row
      BY <2>1 DEF Lifecycle!vars
    <2>2. CASE Tick
      BY <2>2, AgeingIsInvisible DEF Lifecycle!vars
    <2>3. ASSUME NEW r \in Requests, Committed(r), pc[r] \in Committing \cup {"publish"}
          PROVE  Lifecycle!Next
      BY <2>3, CommitIsLifecycleStep DEF Lifecycle!Next
    <2> QED
      BY <2>1, <2>2, <2>3, RowChange
  <1>3. QED
    BY <1>1, <1>2, Invariance, PTL DEF Spec, ImplementsLifecycle, Lifecycle!Spec

(* A completed contract is never reopened, failed or rewritten.            *)
THEOREM Finality == Spec => CompletedIsFinal
  <1>1. InductiveInv /\ [Next]_vars => [row.status = "completed" => UNCHANGED row]_vars
    <2> SUFFICES ASSUME InductiveInv, [Next]_vars, row.status = "completed"
                 PROVE  UNCHANGED row
      OBVIOUS
    <2>1. CASE Tick
      BY <2>1, AgeingIsInvisible
    <2>2. ASSUME NEW r \in Requests, Committed(r), pc[r] \in Committing \cup {"publish"}
          PROVE  FALSE
      BY <2>2, CommitFacts DEF Committed
    <2> QED
      BY <2>1, <2>2, RowChange
  <1>2. QED
    BY <1>1, Invariance, PTL DEF Spec, CompletedIsFinal

(* A durable claim is ended by its own attempt, or by a recovery once it   *)
(* is older than the recovery delay.                                       *)
THEOREM ClaimOwnership == Spec => ClaimEndsProperly
  <1>1. InductiveInv /\ [Next]_vars =>
          [(row.status = "processing" /\
              (row'.status # "processing" \/ row'.attempt # row.attempt)) =>
             \/ lock \in Analyses /\ lock = row.attempt
             \/ lock \in Recoveries /\ row.age > RecoveryDelay]_vars
    <2> SUFFICES ASSUME InductiveInv, [Next]_vars, row.status = "processing",
                        row'.status # "processing" \/ row'.attempt # row.attempt
                 PROVE  \/ lock \in Analyses /\ lock = row.attempt
                        \/ lock \in Recoveries /\ row.age > RecoveryDelay
      OBVIOUS
    <2>1. ~ Tick
      BY AgeingIsInvisible
    <2>2. PICK r \in Requests : Committed(r) /\ pc[r] \in Committing \cup {"publish"}
      BY <2>1, RowChange
    <2>3. ~ Lifecycle!Begin(r)
      BY DEF Lifecycle!Begin
    <2>4. row.attempt = r => r \in Analyses
      BY SetsAssumption DEF InductiveInv, TypeOK, Contracts, Requests
    <2> QED
      BY <2>2, <2>3, <2>4, CommitIsLifecycleStep DEF Committed, Stale
  <1>2. QED
    BY <1>1, Invariance, PTL DEF Spec, ClaimEndsProperly

(* What an analysis may be told, and what the contract looks like then.    *)
LEMMA AnswerStep ==
  ASSUME InductiveInv, [Next]_vars, NEW a \in Analyses, answer'[a] # answer[a]
  PROVE  /\ answer'[a] = "reused" => row.status = "completed" /\ UNCHANGED row
         /\ answer'[a] = "analyzed" => pc[a] = "reload" /\ UNCHANGED row
         /\ answer'[a] = "failed" => row'.attempt # a
  <1> USE SetsAssumption
      DEF InductiveInv, TypeOK, Requests, Reply, NoWrite, Quiet, Serving
  <1>1. ASSUME NEW p \in Processes, NEW b \in Analyses, Arrive(b, p)
        PROVE  answer'[a] = "busy"
    BY <1>1 DEF Arrive
  <1>2. ASSUME NEW b \in Analyses, AnalysisStep(b) \/ AwaitLock(b)
        PROVE  \/ answer'[a] = "reused" /\ row.status = "completed" /\ UNCHANGED row
               \/ answer'[a] = "conflict"
               \/ answer'[a] = "failed" /\ row'.attempt # a
    <2>1. CASE Lookup(b) \/ Reread(b)
      BY <2>1 DEF Lookup, Reread
    <2>2. CASE Fail(b)
      <3>1. answer'[a] = "failed" /\ a = b /\ ~ OwnedBy(row, a) /\ UNCHANGED row
        BY <2>2 DEF Fail
      <3> QED
        BY <3>1 DEF OwnedBy, ControlInv
    <2>3. CASE CommitFail(b)
      <3>1. answer'[a] = "failed" /\ a = b /\ lock = b /\ row' = work /\ pc[b] = "commit_fail"
        BY <2>3 DEF CommitFail, Committed
      <3>2. work = Failed(row)
        BY <3>1 DEF TransactionInv, HolderAt
      <3> QED
        BY <3>1, <3>2 DEF Failed, Contracts
    <2>4. ASSUME \/ CommitClaim(b) \/ RunStage(b) \/ Publish(b) \/ AttemptFails(b)
                 \/ Rollback(b) \/ Claim(b) \/ Fence(b)
          PROVE  UNCHANGED answer
      BY <2>4 DEF CommitClaim, RunStage, Publish, AttemptFails, Rollback, Claim, Fence
    <2> QED
      BY <1>2, <2>1, <2>2, <2>3, <2>4 DEF AnalysisStep, AwaitLock
  <1>3. ASSUME NEW r \in Requests, Respond(r)
        PROVE  \/ answer'[a] = "analyzed" /\ pc[a] = "reload" /\ UNCHANGED row
               \/ answer'[a] = "error"
    BY <1>3 DEF Respond, Reload, Disconnected, Leave
  <1>4. ASSUME NEW r \in Requests, DatabaseError(r) \/ LostReply(r)
        PROVE  answer'[a] \in {"error", "conflict"}
    BY <1>4 DEF DatabaseError, LostReply
  <1>5. ASSUME NEW r \in Recoveries, \/ RecoveryStep(r) \/ AskAgain(r)
                                     \/ \E p \in Processes : ArriveRecovery(r, p)
        PROVE  FALSE
    BY <1>5
    DEF RecoveryStep, SelectForUpdate, Recover, CommitRecovery, AskAgain, ArriveRecovery
  <1>6. ~ (LoseConnection \/ Reap \/ Tick \/ UNCHANGED vars \/ \E p \in Processes : Crash(p))
    BY DEF LoseConnection, Reap, EndSession, Tick, Crash, vars
  <1> QED
    BY <1>1, <1>2, <1>3, <1>4, <1>5, <1>6 DEF Next, Environment

(* What a client was told about its analysis stays true.                   *)
THEOREM Truthfulness == Spec => []TruthfulAnswers
  <1>1. Init => TruthfulAnswers
    BY DEF Init, TruthfulAnswers, Requests
  <1>2. InductiveInv /\ TruthfulAnswers /\ [Next]_vars => TruthfulAnswers'
    <2> SUFFICES ASSUME InductiveInv, TruthfulAnswers, [Next]_vars, NEW a \in Analyses
                 PROVE  /\ answer'[a] = "reused" => row'.status = "completed"
                        /\ answer'[a] = "analyzed" =>
                             /\ row'.status = "completed"
                             /\ row'.results = [p \in Parts |-> a]
      BY DEF TruthfulAnswers
    <2>1. row.status = "completed" => row' = row
      <3>1. ASSUME NEW r \in Requests, Committed(r), pc[r] \in Committing \cup {"publish"}
            PROVE  row.status # "completed"
        BY <3>1, CommitFacts DEF Committed
      <3> QED
        BY <3>1, AgeingIsInvisible, RowChange
    <2>2. CASE answer'[a] = answer[a]
      BY <2>1, <2>2 DEF TruthfulAnswers
    <2>3. CASE answer'[a] # answer[a]
      BY <2>3, AnswerStep DEF InductiveInv, ControlInv
    <2> QED
      BY <2>2, <2>3
  <1>3. QED
    BY <1>1, <1>2, Invariance, PTL DEF Spec

(* A request that was answered 502 no longer claims the contract.          *)
THEOREM FailedAttemptsLetGo == Spec => []FailureReleasesClaim
  <1>1. Init => FailureReleasesClaim
    BY DEF Init, FailureReleasesClaim, Requests
  <1>2. InductiveInv /\ FailureReleasesClaim /\ [Next]_vars => FailureReleasesClaim'
    <2> SUFFICES ASSUME InductiveInv, FailureReleasesClaim, [Next]_vars,
                        NEW a \in Analyses, answer'[a] = "failed"
                 PROVE  row'.attempt # a
      BY DEF FailureReleasesClaim
    <2>1. CASE answer[a] = "failed"
      <3>1. row.attempt # a /\ pc[a] \in {"answered", "gone"}
        BY <2>1 DEF FailureReleasesClaim, InductiveInv, ControlInv, Requests
      <3>2. a # NoOne
        BY SetsAssumption
      <3>3. ASSUME NEW r \in Requests, Committed(r), pc[r] \in Committing \cup {"publish"}
            PROVE  row'.attempt # a
        BY <3>1, <3>2, <3>3, CommitFacts DEF Committed, Committing
      <3> QED
        BY <3>1, <3>3, AgeingIsInvisible, RowChange
    <2>2. CASE answer[a] # "failed"
      BY <2>2, AnswerStep
    <2> QED
      BY <2>1, <2>2
  <1>3. QED
    BY <1>1, <1>2, Invariance, PTL DEF Spec

(* Only arriving, leaving and crashing change who holds a slot.            *)
LEMMA SlotHoldersStay ==
  ASSUME InductiveInv, [Next]_vars, slots' # slots \/ home' # home \/
         \E a \in Analyses : HoldsSlot(a)' # HoldsSlot(a)
  PROVE  \/ \E a \in Analyses, p \in Processes : Arrive(a, p)
         \/ \E r \in Recoveries, p \in Processes : ArriveRecovery(r, p)
         \/ \E r \in Requests : Leave(r)
         \/ \E p \in Processes : Crash(p)
  <1> USE SetsAssumption
      DEF InductiveInv, TypeOK, Requests, Goto, Reply, Quiet, Serving, HoldsSlot, Fault
  <1> DEFINE Stay == /\ UNCHANGED <<slots, home>>
                     /\ \A a \in Analyses : HoldsSlot(a)' <=> HoldsSlot(a)
  <1>0. ~ Stay
    OBVIOUS
  <1> HIDE DEF Stay
  <1>1. ASSUME NEW a \in Analyses, AnalysisStep(a) PROVE Stay
    <2>1. CASE Lookup(a) \/ Reread(a) \/ CommitClaim(a)
      BY <2>1 DEF Stay, Lookup, Reread, CommitClaim, ControlInv
    <2>2. CASE RunStage(a) \/ Publish(a)
      BY <2>2 DEF Stay, RunStage, Publish, Stages, Parts, StageAfter
    <2>3. CASE AttemptFails(a) \/ Rollback(a) \/ CommitFail(a)
      BY <2>3 DEF Stay, AttemptFails, Rollback, CommitFail, Stages, Parts, ControlInv
    <2> QED
      BY <1>1, <2>1, <2>2, <2>3 DEF AnalysisStep
  <1>2. ASSUME NEW a \in Analyses, AwaitLock(a) PROVE Stay
    BY <1>2 DEF Stay, AwaitLock, Claim, Fence, Fail, ControlInv
  <1>3. ASSUME NEW r \in Recoveries, RecoveryStep(r) \/ AskAgain(r) PROVE Stay
    BY <1>3 DEF Stay, RecoveryStep, SelectForUpdate, Recover, CommitRecovery, AskAgain
  <1>4. ASSUME NEW r \in Requests,
               Reload(r) \/ Disconnected(r) \/ DatabaseError(r) \/ LostReply(r)
        PROVE  Stay
    BY <1>4 DEF Stay, Reload, Disconnected, DatabaseError, LostReply, Committing, ControlInv
  <1>5. CASE LoseConnection \/ Reap \/ Tick \/ UNCHANGED vars
    BY <1>5 DEF Stay, LoseConnection, Reap, EndSession, Tick, vars
  <1> QED
    BY <1>0, <1>1, <1>2, <1>3, <1>4, <1>5 DEF Next, Respond, Environment

(* Every model slot that is not free is held by an analysis being served.  *)
THEOREM SlotsBalance == Spec => []SlotsAccountedFor
  <1> USE SetsAssumption
  <1>1. Init => SlotsAccountedFor
    <2> SUFFICES ASSUME Init, NEW p \in Processes
                 PROVE  slots[p] + Cardinality(Held(p)) = Capacity
      BY DEF SlotsAccountedFor
    <2>1. Held(p) = {}
      BY DEF Init, Held, HoldsSlot, Requests
    <2> QED
      BY <2>1, FS_EmptySet, NumbersAssumption DEF Init
  <1>2. InductiveInv /\ SlotsAccountedFor /\ [Next]_vars => SlotsAccountedFor'
    <2> SUFFICES ASSUME InductiveInv, SlotsAccountedFor, [Next]_vars,
                        NEW p \in Processes
                 PROVE  slots'[p] + Cardinality(Held(p)') = Capacity
      BY DEF SlotsAccountedFor
    <2>a. /\ slots[p] + Cardinality(Held(p)) = Capacity
          /\ slots \in [Processes -> Nat]
          /\ home \in [Requests -> Processes \cup {NoOne}]
          /\ pc \in [Requests -> Labels] /\ answer \in [Requests -> Answers]
      BY DEF SlotsAccountedFor, InductiveInv, TypeOK
    <2>b. IsFiniteSet(Held(p)) /\ Cardinality(Held(p)) \in Nat
      BY FS_Subset, FS_CardinalityType DEF Held
    <2>0. CASE slots'[p] = slots[p] /\ Held(p)' = Held(p)
      BY <2>0, <2>a
    <2>1. ASSUME NEW a \in Analyses, NEW q \in Processes, Arrive(a, q)
          PROVE  slots'[p] + Cardinality(Held(p)') = Capacity
      <3>1. a \notin Held(p) /\ answer[a] # "busy" /\ pc[a] = "idle"
        BY <2>1 DEF Arrive, Held, HoldsSlot, InductiveInv, ControlInv, Requests
      <3>2. CASE p = q /\ slots[q] > 0
        <4>1. slots'[p] = slots[p] - 1 /\ Held(p)' = Held(p) \cup {a}
          BY <2>1, <2>a, <3>1, <3>2 DEF Arrive, Goto, Reply, Held, HoldsSlot, Requests
        <4>2. Cardinality(Held(p) \cup {a}) = Cardinality(Held(p)) + 1
          BY <2>b, <3>1, FS_AddElement
        <4> QED
          BY <2>a, <2>b, <4>1, <4>2
      <3>3. CASE ~ (p = q /\ slots[q] > 0)
        <4>1. slots'[p] = slots[p]
          BY <2>1, <2>a, <3>3 DEF Arrive
        <4>2. Held(p)' = Held(p)
          BY <2>1, <2>a, <3>1, <3>3 DEF Arrive, Goto, Reply, Held, HoldsSlot, Requests
        <4> QED
          BY <2>0, <4>1, <4>2
      <3> QED
        BY <3>2, <3>3
    <2>2. ASSUME NEW r \in Recoveries, NEW q \in Processes, ArriveRecovery(r, q)
          PROVE  slots'[p] + Cardinality(Held(p)') = Capacity
      <3>1. slots'[p] = slots[p] /\ Held(p)' = Held(p)
        BY <2>2, <2>a DEF ArriveRecovery, Goto, Held, HoldsSlot, Requests
      <3> QED
        BY <2>0, <3>1
    <2>3. ASSUME NEW r \in Requests, Leave(r)
          PROVE  slots'[p] + Cardinality(Held(p)') = Capacity
      <3>1. CASE r \in Held(p)
        <4>1. slots'[p] = slots[p] + 1 /\ Held(p)' = Held(p) \ {r}
          BY <2>3, <2>a, <3>1 DEF Leave, Goto, Held, HoldsSlot, Requests
        <4>2. Cardinality(Held(p) \ {r}) = Cardinality(Held(p)) - 1
          BY <2>b, <3>1, FS_RemoveElement
        <4> QED
          BY <2>a, <2>b, <4>1, <4>2
      <3>2. CASE r \notin Held(p)
        <4>1. ~ (HoldsSlot(r) /\ home[r] = p)
          BY <3>2 DEF Held, HoldsSlot
        <4>2. slots'[p] = slots[p]
          BY <2>3, <2>a, <4>1 DEF Leave
        <4>3. Held(p)' = Held(p)
          BY <2>3, <2>a, <4>1 DEF Leave, Goto, Held, HoldsSlot, Requests
        <4> QED
          BY <2>0, <4>2, <4>3
      <3> QED
        BY <3>1, <3>2
    <2>4. ASSUME NEW q \in Processes, Crash(q)
          PROVE  slots'[p] + Cardinality(Held(p)') = Capacity
      <3>1. CASE p = q
        <4>1. slots'[p] = Capacity /\ Held(p)' = {}
          BY <2>4, <2>a, <3>1 DEF Crash, Held, HoldsSlot, Requests
        <4> QED
          BY <4>1, FS_EmptySet, NumbersAssumption
      <3>2. CASE p # q
        <4>1. slots'[p] = slots[p] /\ Held(p)' = Held(p)
          BY <2>4, <2>a, <3>2 DEF Crash, Held, HoldsSlot, Requests
        <4> QED
          BY <2>0, <4>1
      <3> QED
        BY <3>1, <3>2
    <2>5. CASE UNCHANGED <<slots, home>> /\ \A a \in Analyses : HoldsSlot(a)' <=> HoldsSlot(a)
      <3>1. slots'[p] = slots[p] /\ Held(p)' = Held(p)
        BY <2>5 DEF Held
      <3> QED
        BY <2>0, <3>1
    <2> QED
      BY <2>1, <2>2, <2>3, <2>4, <2>5, SlotHoldersStay
  <1>3. QED
    BY <1>1, <1>2, Invariance, PTL DEF Spec

(* Transactions, control and slots agree between any two steps.            *)
THEOREM ProtocolInvariance == Spec => []ProtocolInv
  <1>1. InductiveInv /\ SlotsAccountedFor => ProtocolInv
    BY DEF ProtocolInv
  <1> QED
    BY <1>1, Invariance, SlotsBalance, PTL
=============================================================================
