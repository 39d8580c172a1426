-------------------------- MODULE ModelRequestsProofs --------------------------
(***************************************************************************)
(* Proofs about ModelRequests: the invariant RequestsInv is inductive, for *)
(* any number of requests, slots and retries, and implies that only backed *)
(* items are stored, that answers cite, that the effort is bounded and     *)
(* that one client is created.                                             *)
(*                                                                         *)
(* Then about PageEvidence, which decides what is backed: the check of a   *)
(* quotation accepts what its page says and nothing else.                  *)
(***************************************************************************)
EXTENDS ModelRequests, PageEvidence, Inductions

(* The parts of an output have the types that they should have.            *)
LEMMA OutputTypes ==
  /\ NoOutput \in Outputs
  /\ \A out, old \in Outputs :
       [out EXCEPT !.items = @ \cup old.items] \in Outputs
BY DEF NoOutput, Outputs

(* Every step keeps the types.                                             *)
LEMMA RequestsTypeStep == TypeOK /\ ClientInv /\ [Next]_vars => TypeOK'
<1> SUFFICES ASSUME TypeOK, ClientInv, [Next]_vars PROVE TypeOK'
  OBVIOUS
<1> USE LimitsAssumption
<1>0. CASE UNCHANGED vars
  BY <1>0 DEF TypeOK, vars
<1>1. ASSUME NEW r \in Requests, Acquire(r) PROVE TypeOK'
  BY <1>1 DEF TypeOK, Acquire, Goto, Loop
<1>2. ASSUME NEW r \in Requests, LockClient(r) PROVE TypeOK'
  BY <1>2 DEF TypeOK, LockClient, Goto, Loop
<1>3. ASSUME NEW r \in Requests, LookupClient(r) PROVE TypeOK'
  BY <1>3 DEF TypeOK, LookupClient, Goto, Loop
<1>4. ASSUME NEW r \in Requests, CreateClient(r) \/ CreateFails(r) PROVE TypeOK'
  BY <1>4 DEF TypeOK, CreateClient, CreateFails, Goto, Loop
<1>5. ASSUME NEW r \in Requests, Prepare(r) PROVE TypeOK'
  BY <1>5, OutputTypes DEF TypeOK, Prepare, Fail, Goto, Loop, Shared
<1>6. ASSUME NEW r \in Requests, Unreachable(r) PROVE TypeOK'
  <2>1. stored' \in [Requests -> Outputs]
    BY <1>6, OutputTypes DEF TypeOK, Unreachable, Fail
  <2>2. attempt' \in [Requests -> 0 .. MaxRetries]
    BY <1>6 DEF TypeOK, Unreachable
  <2> QED
    BY <1>6, <2>1, <2>2 DEF TypeOK, Unreachable, Fail, Goto, Shared
<1>7. ASSUME NEW r \in Requests, Refused(r) PROVE TypeOK'
  BY <1>7, OutputTypes DEF TypeOK, Refused, Fail, Goto, Shared
<1>8. ASSUME NEW r \in Requests, Responds(r) PROVE TypeOK'
  BY <1>8 DEF TypeOK, Responds, Goto, Shared
<1>9. ASSUME NEW r \in Requests, Malformed(r) \/ Unsupported(r) PROVE TypeOK'
  <2>1. GenerateAgain(r) /\ Shared /\ UNCHANGED <<backed, task, posts, output>>
    BY <1>9 DEF Malformed, Unsupported
  <2>2. generation' \in [Requests -> 0 .. 1] /\ attempt' \in [Requests -> 0 .. MaxRetries]
    BY <2>1 DEF TypeOK, GenerateAgain
  <2>3. stored' \in [Requests -> Outputs]
    BY <2>1, OutputTypes DEF TypeOK, GenerateAgain, Fail
  <2>4. pc' = [pc EXCEPT ![r] = "post"] \/ pc' = [pc EXCEPT ![r] = "failed"]
    BY <2>1 DEF GenerateAgain, Fail, Goto
  <2> QED
    BY <2>1, <2>2, <2>3, <2>4 DEF TypeOK, Shared
<1>10. ASSUME NEW r \in Requests, Parsed(r) PROVE TypeOK'
  BY <1>10 DEF TypeOK, Parsed, Goto, Loop, Shared
<1>11. ASSUME NEW r \in Requests, Store(r) PROVE TypeOK'
  <2>1. stored' \in [Requests -> Outputs] /\ output' \in [Requests -> Outputs]
    BY <1>11, OutputTypes DEF TypeOK, Store
  <2>2. task' \in [Requests -> Tasks]
    BY <1>11 DEF TypeOK, Store, TaskAfter, Tasks
  <2>3. generation' \in [Requests -> 0 .. 1] /\ attempt' \in [Requests -> 0 .. MaxRetries]
    BY <1>11 DEF TypeOK, Store
  <2> QED
    BY <1>11, <2>1, <2>2, <2>3 DEF TypeOK, Store, Goto, Shared
<1>12. ASSUME NEW r \in Requests, Release(r) PROVE TypeOK'
  BY <1>12 DEF TypeOK, Release, Goto, Loop
<1> QED
  BY <1>0, <1>1, <1>2, <1>3, <1>4, <1>5, <1>6, <1>7, <1>8, <1>9, <1>10, <1>11, <1>12
    DEF Next, Step

(* Only the holder of the initialization lock looks for the client, and it *)
(* creates one only if there is none.                                      *)
LEMMA ClientStep == TypeOK /\ ClientInv /\ [Next]_vars => ClientInv'
<1> SUFFICES ASSUME TypeOK, ClientInv, [Next]_vars PROVE ClientInv'
  OBVIOUS
<1> USE RequestsAssumption DEF ClientInv, OneClient
<1>0. CASE UNCHANGED vars
  BY <1>0 DEF vars
<1>1. ASSUME NEW r \in Requests, Acquire(r) PROVE ClientInv'
  BY <1>1 DEF TypeOK, Acquire, Goto
<1>2. ASSUME NEW r \in Requests, LockClient(r) PROVE ClientInv'
  BY <1>2 DEF TypeOK, LockClient, Goto
<1>3. ASSUME NEW r \in Requests, LookupClient(r) PROVE ClientInv'
  BY <1>3 DEF TypeOK, LookupClient, Goto
<1>4. ASSUME NEW r \in Requests, CreateClient(r) \/ CreateFails(r) PROVE ClientInv'
  BY <1>4 DEF TypeOK, CreateClient, CreateFails, Goto
<1>5. ASSUME NEW r \in Requests,
             \/ Prepare(r) \/ Unreachable(r) \/ Refused(r) \/ Responds(r)
             \/ Malformed(r) \/ Parsed(r) \/ Unsupported(r) \/ Store(r) \/ Release(r)
      PROVE  ClientInv'
  <2>1. /\ UNCHANGED <<initLock, clients>>
        /\ pc[r] \notin {"lookup", "create"}
        /\ \E label \in {"post", "parse", "check", "done", "failed", "closed"} :
             pc' = [pc EXCEPT ![r] = label] \/ pc' = pc
    BY <1>5 DEF Prepare, Unreachable, Refused, Responds, Malformed, Parsed,
                Unsupported, Store, Release, GenerateAgain, Fail, Goto, Shared
  <2> QED
    BY <2>1 DEF TypeOK
<1> QED
  BY <1>0, <1>1, <1>2, <1>3, <1>4, <1>5 DEF Next, Step

(* The posts made so far fit into the generations begun so far: one step   *)
(* of one request changes them as follows.                                 *)
Begun(r) == GenerationsBefore(task[r]) + generation[r]

EffortOf(r) ==
  /\ r \in Questions <=> task[r] = "question"
  /\ task[r] = "metadata" => generation[r] = 0
  /\ pc[r] \in {"idle", "refused", "lock", "lookup", "create", "prepare"} =>
       posts[r] = 0
  /\ pc[r] = "post" => posts[r] <= Begun(r) * (MaxRetries + 1) + attempt[r]
  /\ posts[r] <= (Begun(r) + 1) * (MaxRetries + 1)

(* The bound on the posts is a bound for each request by itself.           *)
LEMMA EffortIsPerRequest == EffortInv <=> \A r \in Requests : EffortOf(r)
BY DEF EffortInv, EffortOf, Begun

(* There are at most six generations before the last one.                  *)
LEMMA BegunBounds ==
  ASSUME TypeOK, NEW r \in Requests
  PROVE  Begun(r) \in 0 .. 6
BY DEF TypeOK, Begun, GenerationsBefore, Tasks

(* A generation ends with at most MaxRetries + 1 posts more.               *)
LEMMA OneMoreGeneration ==
  ASSUME NEW b \in 0 .. 6, NEW n \in Nat
  PROVE  /\ (b + 1) * (n + 1) = b * (n + 1) + n + 1
         /\ b * (n + 1) \in Nat
<1>1. b \in {0, 1, 2, 3, 4, 5, 6}
  OBVIOUS
<1> QED
  BY <1>1

(* Every step keeps that bound: one step of one request, posts aside.      *)
LEMMA EffortStep == TypeOK /\ EffortInv /\ TypeOK' /\ [Next]_vars => EffortInv'
<1> SUFFICES ASSUME TypeOK, EffortInv, TypeOK', [Next]_vars, NEW s \in Requests
             PROVE  EffortOf(s)'
  BY DEF EffortInv, EffortOf, Begun
<1>a. EffortOf(s)
  BY EffortIsPerRequest
<1> DEFINE K == MaxRetries + 1
<1>b. /\ MaxRetries \in Nat
      /\ Begun(s) \in 0 .. 6
      /\ Begun(s)' \in 0 .. 6
      /\ (Begun(s) + 1) * K = Begun(s) * K + MaxRetries + 1
      /\ Begun(s) * K \in Nat
      /\ (Begun(s)' + 1) * K = Begun(s)' * K + MaxRetries + 1
      /\ Begun(s)' * K \in Nat
  <2>1. Begun(s) \in 0 .. 6
    BY BegunBounds
  <2>2. Begun(s)' \in 0 .. 6
    BY DEF TypeOK, Begun, GenerationsBefore, Tasks
  <2> QED
    BY <2>1, <2>2, OneMoreGeneration, LimitsAssumption
<1>0. CASE UNCHANGED <<pc[s], task[s], generation[s], attempt[s], posts[s]>>
  BY <1>a, <1>0 DEF EffortOf, Begun
<1>1. ASSUME NEW r \in Requests,
             \/ Acquire(r) \/ LockClient(r) \/ LookupClient(r) \/ CreateClient(r)
             \/ CreateFails(r) \/ Prepare(r) \/ Parsed(r) \/ Release(r)
      PROVE  EffortOf(s)'
  <2>1. /\ UNCHANGED <<task, generation, attempt, posts>>
        /\ UNCHANGED pc[s] \/ pc'[s] # "post" \/ (pc[s] = "prepare" /\ pc'[s] = "post")
        /\ pc'[s] \in {"idle", "refused", "lock", "lookup", "create", "prepare"} =>
             pc[s] \in {"idle", "refused", "lock", "lookup", "create", "prepare"}
    BY <1>1 DEF TypeOK, Acquire, LockClient, LookupClient, CreateClient, CreateFails,
                Prepare, Parsed, Release, Fail, Goto, Loop
  <2>2. Begun(s)' = Begun(s)
    BY <2>1 DEF Begun
  <2> QED
    BY <1>a, <1>b, <2>1, <2>2 DEF TypeOK, EffortOf
<1>2. ASSUME NEW r \in Requests, Unreachable(r) \/ Refused(r) \/ Responds(r)
      PROVE  EffortOf(s)'
  <2>1. CASE r # s
    BY <1>0, <1>2, <2>1 DEF TypeOK, Unreachable, Refused, Responds, Fail, Goto
  <2>2. CASE r = s
    <3>1. /\ pc[s] = "post"
          /\ posts'[s] = posts[s] + 1
          /\ UNCHANGED <<task, generation>>
          /\ \/ pc'[s] = "post" /\ attempt'[s] = attempt[s] + 1
             \/ pc'[s] \in {"failed", "parse"}
      BY <1>2, <2>2 DEF TypeOK, Unreachable, Refused, Responds, Fail, Goto
    <3>2. Begun(s)' = Begun(s)
      BY <3>1 DEF Begun
    <3> QED
      BY <1>a, <1>b, <3>1, <3>2 DEF TypeOK, EffortOf
  <2> QED
    BY <2>1, <2>2
<1>3. ASSUME NEW r \in Requests, Malformed(r) \/ Unsupported(r)
      PROVE  EffortOf(s)'
  <2>1. CASE r # s
    BY <1>0, <1>3, <2>1
      DEF TypeOK, Malformed, Unsupported, GenerateAgain, Fail, Goto
  <2>2. CASE r = s
    <3>1. /\ UNCHANGED <<task, posts>>
          /\ pc[s] \in {"parse", "check"}
          /\ \/ /\ task[s] # "metadata" /\ generation[s] = 0
                /\ generation'[s] = 1 /\ attempt'[s] = 0 /\ pc'[s] = "post"
             \/ pc'[s] = "failed" /\ UNCHANGED <<generation, attempt>>
      BY <1>3, <2>2 DEF TypeOK, Malformed, Unsupported, GenerateAgain, Fail, Goto
    <3>2. CASE pc'[s] = "post"
      <4>1. Begun(s)' = Begun(s) + 1
        BY <3>1, <3>2 DEF TypeOK, Begun, GenerationsBefore
      <4> QED
        BY <1>a, <1>b, <3>1, <3>2, <4>1 DEF TypeOK, EffortOf
    <3>3. CASE pc'[s] = "failed"
      BY <1>a, <3>1, <3>3 DEF TypeOK, EffortOf, Begun
    <3> QED
      BY <3>1, <3>2, <3>3
  <2> QED
    BY <2>1, <2>2
<1>4. ASSUME NEW r \in Requests, Store(r) PROVE EffortOf(s)'
  <2>1. CASE r # s
    BY <1>0, <1>4, <2>1 DEF TypeOK, Store, Goto
  <2>2. CASE r = s /\ task[s] \in {"risks", "question"}
    BY <1>a, <1>4, <2>2 DEF TypeOK, Store, Goto, EffortOf, Begun
  <2>3. CASE r = s /\ task[s] \notin {"risks", "question"}
    <3>1. /\ task[s] \in {"metadata", "obligations", "clauses"}
          /\ task'[s] = TaskAfter(task[s])
          /\ generation'[s] = 0 /\ attempt'[s] = 0
          /\ pc'[s] = "post"
          /\ UNCHANGED posts
          /\ posts[s] <= (Begun(s) + 1) * K
      BY <1>a, <1>4, <2>3 DEF TypeOK, Tasks, Store, Goto, EffortOf
    <3>2. /\ task'[s] \notin {"metadata", "question"}
          /\ Begun(s) + 1 <= Begun(s)'
      BY <1>a, <3>1 DEF TypeOK, Begun, GenerationsBefore, TaskAfter, EffortOf
    <3>3. (Begun(s) + 1) * K <= Begun(s)' * K
      <4>1. Begun(s)' \in {1, 2, 3, 4, 5, 6} /\ Begun(s) \in {0, 1, 2, 3, 4, 5}
        BY <1>b, <3>2
      <4> QED
        BY <1>b, <3>2, <4>1
    <3> QED
      BY <1>a, <1>b, <3>1, <3>2, <3>3, RequestsAssumption DEF TypeOK, EffortOf
  <2> QED
    BY <2>1, <2>2, <2>3
<1> QED
  BY <1>0, <1>1, <1>2, <1>3, <1>4 DEF Next, Step, vars

(* What is stored has passed the checks.                                   *)
LEMMA StoredStep ==
  TypeOK /\ EffortInv /\ StoredInv /\ [Next]_vars => StoredInv'
<1> SUFFICES ASSUME TypeOK, EffortInv, StoredInv, [Next]_vars PROVE StoredInv'
  OBVIOUS
<1>0. CASE UNCHANGED vars
  BY <1>0 DEF vars, StoredInv, OnlyBackedIsStored
<1>1. ASSUME NEW r \in Requests,
             \/ Acquire(r) \/ LockClient(r) \/ LookupClient(r) \/ CreateClient(r)
             \/ CreateFails(r) \/ Responds(r) \/ Release(r)
      PROVE  StoredInv'
  <2>1. UNCHANGED <<backed, output, stored>>
    BY <1>1 DEF Acquire, LockClient, LookupClient, CreateClient, CreateFails,
                Responds, Release, Loop, Shared
  <2>2. \A s \in Requests :
          /\ pc'[s] = "check" => pc[s] = "check"
          /\ pc[s] \in {"done", "closed"} => pc'[s] \in {"done", "closed"}
          /\ pc'[s] \in {"done", "closed"} =>
               pc[s] \in {"done", "closed"} \/ pc[s] = "failed"
    BY <1>1 DEF TypeOK, Acquire, LockClient, LookupClient, CreateClient, CreateFails,
                Responds, Release, Goto
  <2> QED
    BY <2>1, <2>2 DEF StoredInv, OnlyBackedIsStored, Requests
<1>2. ASSUME NEW r \in Requests,
             \/ Prepare(r) \/ Unreachable(r) \/ Refused(r)
             \/ Malformed(r) \/ Unsupported(r)
      PROVE  StoredInv'
  <2>1. /\ UNCHANGED <<backed, output>>
        /\ stored' = stored \/ stored' = [stored EXCEPT ![r] = NoOutput]
    BY <1>2 DEF Prepare, Unreachable, Refused, Malformed, Unsupported, GenerateAgain,
                Fail, Shared
  <2>2. /\ pc[r] \notin {"done", "closed"}
        /\ \/ pc' = pc
           \/ pc' = [pc EXCEPT ![r] = "post"] \/ pc' = [pc EXCEPT ![r] = "failed"]
    BY <1>2 DEF Prepare, Unreachable, Refused, Malformed, Unsupported, GenerateAgain,
                Fail, Goto
  <2>3. OnlyBackedIsStored'
    BY <2>1 DEF TypeOK, StoredInv, OnlyBackedIsStored, NoOutput
  <2>4. ASSUME NEW q \in Questions
        PROVE  /\ pc'[q] = "check" => (output'[q].answered <=> output'[q].items # {})
               /\ stored'[q].answered <=> stored'[q].items # {}
               /\ pc'[q] \notin {"done", "closed"} => stored'[q] = NoOutput
    BY <2>1, <2>2 DEF TypeOK, StoredInv, NoOutput, Requests
  <2> QED
    BY <2>3, <2>4 DEF StoredInv
<1>3. ASSUME NEW r \in Requests, Parsed(r) PROVE StoredInv'
  <2>1. PICK out \in Outputs :
          WellFormed(task[r], out) /\ output' = [output EXCEPT ![r] = out]
    BY <1>3 DEF Parsed
  <2>2. /\ UNCHANGED <<backed, stored>>
        /\ pc[r] = "parse" /\ pc' = [pc EXCEPT ![r] = "check"]
    BY <1>3 DEF Parsed, Goto
  <2>3. r \in Questions => (out.answered <=> out.items # {})
    BY <2>1 DEF EffortInv, WellFormed
  <2> QED
    BY <2>1, <2>2, <2>3 DEF TypeOK, StoredInv, OnlyBackedIsStored, Requests
<1>4. ASSUME NEW r \in Requests, Store(r) PROVE StoredInv'
  <2>1. /\ pc[r] = "check"
        /\ output[r].items \subseteq backed[r]
        /\ stored' = [stored EXCEPT ![r] = [output[r] EXCEPT !.items = @ \cup stored[r].items]]
        /\ output' = [output EXCEPT ![r] = NoOutput]
        /\ UNCHANGED backed
        /\ \/ pc' = [pc EXCEPT ![r] = "done"]
           \/ task[r] \notin {"risks", "question"} /\ pc' = [pc EXCEPT ![r] = "post"]
    BY <1>4 DEF Store, Supported, Goto
  <2>2. /\ stored'[r].items = output[r].items \cup stored[r].items
        /\ stored'[r].answered = output[r].answered
        /\ \A s \in Requests : s # r => stored'[s] = stored[s] /\ output'[s] = output[s]
    <3>1. output[r] \in Outputs /\ stored[r] \in Outputs
      BY DEF TypeOK
    <3> QED
      BY <2>1, <3>1 DEF TypeOK, Outputs
  <2>3. OnlyBackedIsStored'
    BY <2>1, <2>2 DEF StoredInv, OnlyBackedIsStored
  <2>4. ASSUME NEW q \in Questions
        PROVE  /\ pc'[q] = "check" => (output'[q].answered <=> output'[q].items # {})
               /\ stored'[q].answered <=> stored'[q].items # {}
               /\ pc'[q] \notin {"done", "closed"} => stored'[q] = NoOutput
    <3>1. CASE q = r
      <4>1. task[r] = "question" /\ pc'[r] = "done" /\ stored[r].items = {}
        BY <2>1, <3>1 DEF TypeOK, EffortInv, StoredInv, NoOutput
      <4>2. output[r].answered <=> output[r].items # {}
        BY <2>1, <3>1 DEF StoredInv
      <4> QED
        BY <2>2, <3>1, <4>1, <4>2
    <3>2. CASE q # r
      BY <2>1, <2>2, <3>2 DEF TypeOK, StoredInv, Requests
    <3> QED
      BY <3>1, <3>2
  <2> QED
    BY <2>3, <2>4 DEF StoredInv
<1> QED
  BY <1>0, <1>1, <1>2, <1>3, <1>4 DEF Next, Step

-----------------------------------------------------------------------------
(* RequestsInv holds in every reachable state.                             *)
THEOREM RequestsInvariance == Spec => []RequestsInv
<1>1. Init => RequestsInv
  BY OutputTypes, RequestsAssumption, LimitsAssumption
    DEF Init, RequestsInv, TypeOK, EffortInv, ClientInv, OneClient, StoredInv,
        OnlyBackedIsStored, NoOutput, Tasks, Requests, GenerationsBefore
<1>2. RequestsInv /\ [Next]_vars => RequestsInv'
  BY RequestsTypeStep, EffortStep, ClientStep, StoredStep DEF RequestsInv
<1> QED
  BY <1>1, <1>2, PTL DEF Spec

(* No request stores or answers anything that its contract does not back.  *)
THEOREM EvidenceIsKept == Spec => []OnlyBackedIsStored
<1>1. RequestsInv => OnlyBackedIsStored
  BY DEF RequestsInv, StoredInv
<1> QED
  BY <1>1, RequestsInvariance, PTL

(* A question is answered exactly when the answer cites retrieved chunks.  *)
THEOREM AnswersAreGrounded == Spec => []AnswersCite
<1>1. RequestsInv => AnswersCite
  BY DEF RequestsInv, StoredInv, AnswersCite
<1> QED
  BY <1>1, RequestsInvariance, PTL

(* An analysis makes at most seven times MaxRetries + 1 posts, a question  *)
(* twice.                                                                  *)
THEOREM BoundedEffort == Spec => []EffortIsBounded
<1>1. RequestsInv => EffortIsBounded
  <2> SUFFICES ASSUME RequestsInv, NEW r \in Requests
               PROVE  posts[r] <= Generations(r) * (MaxRetries + 1)
    BY DEF EffortIsBounded
  <2>1. /\ Begun(r) \in 0 .. 6
        /\ r \in Questions => Begun(r) \in 0 .. 1
        /\ r \in Questions <=> task[r] = "question"
        /\ posts[r] <= (Begun(r) + 1) * (MaxRetries + 1)
    BY BegunBounds
      DEF RequestsInv, TypeOK, EffortInv, Begun, GenerationsBefore
  <2>2. Generations(r) \in {2, 7} /\ Begun(r) + 1 <= Generations(r)
    BY <2>1, RequestsAssumption DEF Generations, Requests
  <2>3. posts[r] \in Nat /\ MaxRetries \in Nat
    BY LimitsAssumption DEF RequestsInv, TypeOK
  <2>4. (Begun(r) + 1) * (MaxRetries + 1) <= Generations(r) * (MaxRetries + 1)
    <3>1. Begun(r) + 1 \in {1, 2, 3, 4, 5, 6, 7}
      BY <2>1
    <3> QED
      BY <2>2, <2>3, <3>1
  <2> QED
    BY <2>1, <2>2, <2>3, <2>4
<1> QED
  BY <1>1, RequestsInvariance, PTL

(* At most one client is created.                                          *)
THEOREM SingleClient == Spec => []OneClient
<1>1. RequestsInv => OneClient
  BY DEF RequestsInv, ClientInv
<1> QED
  BY <1>1, RequestsInvariance, PTL

(* Every slot that is not free belongs to a request that is being served.  *)
THEOREM SlotsBalance == Spec => []SlotsAccountedFor
<1>1. Init => SlotsAccountedFor
  <2> SUFFICES ASSUME Init PROVE SlotsAccountedFor
    OBVIOUS
  <2>1. Served = {}
    BY DEF Init, Served, Serving
  <2> QED
    BY <2>1, FS_EmptySet, LimitsAssumption DEF Init, SlotsAccountedFor
<1>2. RequestsInv /\ SlotsAccountedFor /\ [Next]_vars => SlotsAccountedFor'
  <2> SUFFICES ASSUME TypeOK, SlotsAccountedFor, [Next]_vars PROVE SlotsAccountedFor'
    BY DEF RequestsInv
  <2>a. IsFiniteSet(Served) /\ Cardinality(Served) \in Nat
    BY RequestsAssumption, FS_Subset, FS_CardinalityType DEF Served
  <2>0. CASE slots' = slots /\ Served' = Served
    BY <2>0 DEF SlotsAccountedFor
  <2>1. ASSUME NEW r \in Requests, Acquire(r) PROVE SlotsAccountedFor'
    <3>1. CASE slots = 0
      <4>1. slots' = slots /\ Served' = Served
        BY <2>1, <3>1 DEF TypeOK, Acquire, Goto, Served, Serving
      <4> QED
        BY <2>0, <4>1
    <3>2. CASE slots > 0
      <4>1. /\ slots' = slots - 1
            /\ r \notin Served
            /\ Served' = Served \cup {r}
        BY <2>1, <3>2 DEF TypeOK, Acquire, Goto, Served, Serving
      <4>2. Cardinality(Served \cup {r}) = Cardinality(Served) + 1
        BY <2>a, <4>1, FS_AddElement
      <4> QED
        BY <2>a, <3>2, <4>1, <4>2 DEF TypeOK, SlotsAccountedFor
    <3> QED
      BY <3>1, <3>2 DEF TypeOK
  <2>2. ASSUME NEW r \in Requests, Release(r) PROVE SlotsAccountedFor'
    <3>1. /\ slots' = slots + 1
          /\ r \in Served
          /\ Served' = Served \ {r}
      BY <2>2 DEF TypeOK, Release, Goto, Served, Serving
    <3>2. Cardinality(Served \ {r}) = Cardinality(Served) - 1
      BY <2>a, <3>1, FS_RemoveElement
    <3> QED
      BY <2>a, <3>1, <3>2 DEF TypeOK, SlotsAccountedFor
  <2>3. ASSUME NEW r \in Requests,
               \/ LockClient(r) \/ LookupClient(r) \/ CreateClient(r) \/ CreateFails(r)
               \/ Prepare(r) \/ Unreachable(r) \/ Refused(r) \/ Responds(r) \/ Parsed(r)
               \/ Malformed(r) \/ Unsupported(r) \/ Store(r)
        PROVE  SlotsAccountedFor'
    <3>1. /\ slots' = slots
          /\ Serving(r)
          /\ \/ pc' = pc
             \/ \E label \in {"lookup", "create", "prepare", "post", "parse", "check",
                              "done", "failed"} :
                  pc' = [pc EXCEPT ![r] = label]
      BY <2>3 DEF LockClient, LookupClient, CreateClient, CreateFails, Prepare, Unreachable,
                  Refused, Responds, Parsed, Malformed, Unsupported, Store,
                  GenerateAgain, Fail, Goto, Shared, Serving
    <3>2. Served' = Served
      BY <3>1 DEF TypeOK, Served, Serving
    <3> QED
      BY <2>0, <3>1, <3>2
  <2>4. CASE UNCHANGED vars
    <3>1. slots' = slots /\ Served' = Served
      BY <2>4 DEF vars, Served, Serving
    <3> QED
      BY <2>0, <3>1
  <2> QED
    BY <2>1, <2>2, <2>3, <2>4 DEF Next, Step
<1> QED
  BY <1>1, <1>2, RequestsInvariance, PTL DEF Spec

------------------------------------------------------------------------------
\* The check of a quotation.

\* The characters of texts.
Chars == Letters \cup Blanks

\* The words of texts: they are not empty, and have no blanks in them.
Word == Seq(Letters) \ {<<>>}

(* What case folding makes of a letter is a word, and no letter is a       *)
(* space.                                                                  *)
LEMMA Characters ==
  /\ Space \in Chars /\ Space \notin Letters
  /\ \A c \in Chars : c \in Letters <=> c \notin Blanks
  /\ \A c \in Letters : /\ Fold[c] \in Word /\ Fold[c] # <<>>
                       /\ Fold[c] \in Seq(Letters) /\ Fold[c] \in Seq(Chars)
  <1>1. \A c \in Letters : Fold[c] \in Word
    BY TextAssumption DEF Word
  <1>2. Word \subseteq Seq(Letters) /\ Letters \subseteq Chars
    BY DEF Word, Chars
  <1> QED
    BY <1>1, <1>2, TextAssumption, SeqMonotonic DEF Chars, Word

\* A function that gives what Collapsed leaves of the first n characters.
IsCollapsing(g, text) ==
  g = [n \in 0 .. Len(text) |-> IF n = 0 THEN <<>> ELSE Collapse(g[n - 1], text[n])]

(* One character more leaves a text.                                       *)
LEMMA CollapseTyped ==
  ASSUME NEW d \in Seq(Chars), NEW c \in Chars
  PROVE  Collapse(d, c) \in Seq(Chars)
  BY Characters, AppendProperties DEF Collapse

(* Collapsed is what reading the characters one by one leaves.             *)
LEMMA CollapsingExists ==
  ASSUME NEW text \in Seq(Chars)
  PROVE  /\ IsCollapsing(CHOOSE g : IsCollapsing(g, text), text)
         /\ Collapsed(text) \in Seq(Chars)
         /\ \E g : IsCollapsing(g, text) /\ Collapsed(text) = g[Len(text)]
  <1> DEFINE n == Len(text)
             next == [p \in (1 .. n) \X Seq(Chars) |-> Collapse(p[2], text[p[1]])]
  <1>1. n \in Nat /\ \A i \in 1 .. n : text[i] \in Chars
    OBVIOUS
  <1>2. next \in [(1 .. n) \X Seq(Chars) -> Seq(Chars)]
    BY <1>1, CollapseTyped
  <1>3. <<>> \in Seq(Chars)
    OBVIOUS
  <1>4. PICK g \in [0 .. n -> Seq(Chars)] : IsRecursion(g, n, <<>>, next)
    <2> HIDE DEF n, next
    <2> QED
      BY <1>1, <1>2, <1>3, RecursionExists
  <1>5. ASSUME NEW i \in 0 .. n
        PROVE  g[i] = IF i = 0 THEN <<>> ELSE Collapse(g[i - 1], text[i])
    <2>1. g[i] = IF i = 0 THEN <<>> ELSE next[<<i, g[i - 1]>>]
      <3> HIDE DEF next, n
      <3> QED
        BY <1>4 DEF IsRecursion
    <2>2. CASE i = 0
      BY <2>1, <2>2
    <2>3. CASE i # 0
      <3>1. i \in 1 .. n /\ g[i - 1] \in Seq(Chars)
        BY <1>1, <2>3
      <3>2. <<i, g[i - 1]>> \in (1 .. n) \X Seq(Chars)
        BY <3>1
      <3> QED
        BY <2>1, <2>3, <3>2
    <2> QED
      BY <2>2, <2>3
  <1>6. IsCollapsing(g, text)
    <2> HIDE DEF next
    <2> QED
      BY <1>5 DEF IsCollapsing
  <1> DEFINE d == CHOOSE h : IsCollapsing(h, text)
  <1>7. IsCollapsing(d, text)
    BY <1>6
  <1>8. Collapsed(text) = d[n]
    BY DEF Collapsed, IsCollapsing
  <1>9. d[n] = g[n]
    <2>1. /\ g[0] = <<>> /\ d[0] = <<>>
          /\ \A i \in 1 .. n : /\ g[i] = Collapse(g[i - 1], text[i])
                               /\ d[i] = Collapse(d[i - 1], text[i])
      <3> HIDE DEF d, next
      <3>1. \A i \in 0 .. n : /\ g[i] = IF i = 0 THEN <<>> ELSE Collapse(g[i - 1], text[i])
                              /\ d[i] = IF i = 0 THEN <<>> ELSE Collapse(d[i - 1], text[i])
        BY <1>6, <1>7 DEF IsCollapsing
      <3> QED
        BY <1>1, <3>1
    <2> HIDE DEF d, n, next
    <2>2. g[0] = d[0] /\ \A i \in 1 .. n : g[i - 1] = d[i - 1] => g[i] = d[i]
      BY <2>1
    <2>3. g[n] = d[n]
      BY <1>1, <2>2, SameSteps
    <2> QED
      BY <2>3
  <1>10. g[n] \in Seq(Chars)
    BY <1>1, <1>4
  <1> QED
    BY <1>7, <1>8, <1>9, <1>10

(* Collapsed reads one more character at the end (_normalize).             *)
LEMMA CollapsedStep ==
  ASSUME NEW t \in Seq(Chars), NEW e \in Chars
  PROVE  Collapsed(Append(t, e)) = Collapse(Collapsed(t), e)
  <1> DEFINE n == Len(t)
             s == Append(t, e)
  <1>1. /\ n \in Nat /\ s \in Seq(Chars) /\ Len(s) = n + 1 /\ s[n + 1] = e
        /\ \A i \in 1 .. n : s[i] = t[i]
    OBVIOUS
  <1> HIDE DEF s
  <1>2. PICK g : IsCollapsing(g, t) /\ Collapsed(t) = g[n]
    BY CollapsingExists
  <1>3. PICK h : IsCollapsing(h, s) /\ Collapsed(s) = h[n + 1]
    BY <1>1, CollapsingExists
  <1>4. \A i \in 0 .. n : g[i] = IF i = 0 THEN <<>> ELSE Collapse(g[i - 1], t[i])
    BY <1>2 DEF IsCollapsing
  <1>5. \A i \in 0 .. n + 1 : h[i] = IF i = 0 THEN <<>> ELSE Collapse(h[i - 1], s[i])
    BY <1>1, <1>3 DEF IsCollapsing
  <1> HIDE DEF n
  <1>6. g[0] = h[0] /\ \A i \in 1 .. n : g[i - 1] = h[i - 1] => g[i] = h[i]
    BY <1>1, <1>4, <1>5
  <1>7. g[n] = h[n]
    BY <1>1, <1>6, SameSteps
  <1>8. h[n + 1] = Collapse(h[n], e)
    <2>1. n + 1 \in 0 .. n + 1 /\ n + 1 # 0 /\ (n + 1) - 1 = n
      BY <1>1
    <2> QED
      BY <1>1, <1>5, <2>1
  <1> QED
    BY <1>2, <1>3, <1>7, <1>8 DEF s

(* Nothing is left of no text.                                             *)
LEMMA CollapsedEmpty == Collapsed(<<>>) = <<>>
  <1>1. PICK g : IsCollapsing(g, <<>>) /\ Collapsed(<<>>) = g[0]
    <2>1. <<>> \in Seq(Chars) /\ Len(<<>>) = 0
      OBVIOUS
    <2>2. \E g : IsCollapsing(g, <<>>) /\ Collapsed(<<>>) = g[Len(<<>>)]
      BY <2>1, CollapsingExists
    <2> QED
      BY <2>1, <2>2
  <1> QED
    BY <1>1 DEF IsCollapsing

\* What the n-th character of a text does to the words read before it.
ReadOn(words, text, n) ==
  IF text[n] \in Blanks THEN words
  ELSE IF n = 1 \/ text[n - 1] \in Blanks THEN Append(words, Fold[text[n]])
  ELSE Append(Front(words), Last(words) \o Fold[text[n]])

\* A function that gives the words of the first n characters.
IsReading(g, text) ==
  g = [n \in 0 .. Len(text) |-> IF n = 0 THEN <<>> ELSE ReadOn(g[n - 1], text, n)]

(* A last word that grows by a letter is still a word, and the last.       *)
LEMMA ExtendTyped ==
  ASSUME NEW v \in Seq(Word), v # <<>>, NEW f \in Word
  PROVE  /\ Front(v) \in Seq(Word) /\ Last(v) \in Word /\ Last(v) \o f \in Word
         /\ Append(Front(v), Last(v) \o f) \in Seq(Word)
         /\ v = Append(Front(v), Last(v))
  <1>1. Len(v) \in Nat /\ Len(v) > 0 /\ \A i \in 1 .. Len(v) : v[i] \in Word
    BY LenProperties, EmptySeq
  <1>2. Last(v) \in Word
    BY <1>1 DEF Last
  <1>3. Front(v) \in Seq(Word) /\ Len(Front(v)) = Len(v) - 1
        /\ \A i \in 1 .. Len(v) - 1 : Front(v)[i] = v[i]
    <2> DEFINE m == Len(v) - 1
    <2>1. m \in Nat /\ \A i \in 1 .. m : v[i] \in Word
      BY <1>1
    <2>2. 1 \in Int /\ m \in Int
      BY <2>1
    <2> HIDE DEF m
    <2>3. /\ SubSeq(v, 1, m) \in Seq(Word)
          /\ Len(SubSeq(v, 1, m)) = IF 1 <= m THEN m - 1 + 1 ELSE 0
          /\ \A i \in 1 .. m - 1 + 1 : SubSeq(v, 1, m)[i] = v[1 + i - 1]
      BY <2>1, <2>2, SubSeqProperties
    <2>4. m - 1 + 1 = m /\ \A i \in 1 .. m : 1 + i - 1 = i
      BY <2>1
    <2>5. Len(SubSeq(v, 1, m)) = m
      BY <2>1, <2>3
    <2> QED
      BY <2>3, <2>4, <2>5 DEF Front, m
  <1>4. Last(v) \o f \in Word
    <2>1. Last(v) \in Seq(Letters) /\ f \in Seq(Letters) /\ f # <<>>
      BY <1>2 DEF Word
    <2> DEFINE l == Last(v)
    <2> HIDE DEF l
    <2>2. l \in Seq(Letters) => l \o f \in Seq(Letters) /\ l \o f # <<>>
      BY <2>1, ConcatProperties, ConcatEqualIffEmpty
    <2> QED
      BY <2>1, <2>2 DEF Word, l
  <1>5. v = Append(Front(v), Last(v))
    BY <1>1, <1>2, <1>3, AppendProperties, SeqEqual DEF Last
  <1> QED
    BY <1>2, <1>3, <1>4, <1>5, AppendProperties

(* Words is what reading the characters one by one gives; a letter leaves  *)
(* a word behind.                                                          *)
LEMMA ReadingExists ==
  ASSUME NEW text \in Seq(Chars)
  PROVE  \E g \in [0 .. Len(text) -> Seq(Word)] :
            /\ g[0] = <<>>
            /\ \A i \in 1 .. Len(text) : g[i] = ReadOn(g[i - 1], text, i)
            /\ Words(text) = g[Len(text)]
            /\ \A i \in 1 .. Len(text) : text[i] \notin Blanks => g[i] # <<>>
  <1> DEFINE n == Len(text)
             Read(v, i) ==
               IF text[i] \in Blanks THEN v
               ELSE IF i = 1 \/ text[i - 1] \in Blanks \/ v = <<>> THEN Append(v, Fold[text[i]])
               ELSE Append(Front(v), Last(v) \o Fold[text[i]])
             next == [p \in (1 .. n) \X Seq(Word) |-> Read(p[2], p[1])]
  <1>1. n \in Nat /\ \A i \in 1 .. n : text[i] \in Chars
    OBVIOUS
  <1>2. ASSUME NEW i \in 1 .. n, NEW v \in Seq(Word)
        PROVE  Read(v, i) \in Seq(Word) /\ (text[i] \notin Blanks => Read(v, i) # <<>>)
    <2>1. CASE text[i] \in Blanks
      BY <2>1
    <2>2. CASE text[i] \notin Blanks
      <3>1. Fold[text[i]] \in Word
        BY <1>1, <2>2, Characters
      <3>2. Append(v, Fold[text[i]]) \in Seq(Word) /\ Append(v, Fold[text[i]]) # <<>>
        BY <3>1, AppendProperties
      <3>3. CASE v # <<>>
        <4>1. /\ Append(Front(v), Last(v) \o Fold[text[i]]) \in Seq(Word)
              /\ Append(Front(v), Last(v) \o Fold[text[i]]) # <<>>
          BY <3>1, <3>3, ExtendTyped, AppendProperties
        <4> QED
          BY <2>2, <3>2, <4>1
      <3> QED
        BY <2>2, <3>2, <3>3
    <2> QED
      BY <2>1, <2>2
  <1>3. next \in [(1 .. n) \X Seq(Word) -> Seq(Word)]
    BY <1>2
  <1>4. <<>> \in Seq(Word)
    OBVIOUS
  <1>5. PICK g \in [0 .. n -> Seq(Word)] : IsRecursion(g, n, <<>>, next)
    <2> HIDE DEF n, next
    <2> QED
      BY <1>1, <1>3, <1>4, RecursionExists
  <1>6. /\ g[0] = <<>>
        /\ \A i \in 1 .. n : g[i - 1] \in Seq(Word) /\ g[i] = Read(g[i - 1], i)
    <2>1. \A i \in 0 .. n : g[i] = IF i = 0 THEN <<>> ELSE next[<<i, g[i - 1]>>]
      <3> HIDE DEF n, next
      <3> QED
        BY <1>5 DEF IsRecursion
    <2>2. ASSUME NEW i \in 1 .. n
          PROVE  g[i - 1] \in Seq(Word) /\ g[i] = Read(g[i - 1], i)
      <3>1. i \in 0 .. n /\ i # 0 /\ i - 1 \in 0 .. n
        BY <1>1
      <3>2. g[i - 1] \in Seq(Word) /\ g[i] = next[<<i, g[i - 1]>>]
        <4> HIDE DEF next, n
        <4> QED
          BY <1>5, <2>1, <3>1
      <3>3. <<i, g[i - 1]>> \in (1 .. n) \X Seq(Word)
        BY <3>2
      <3> HIDE DEF Read
      <3> QED
        BY <3>2, <3>3
    <2>3. g[0] = <<>>
      <3>1. 0 \in 0 .. n
        BY <1>1
      <3> HIDE DEF n, next
      <3> QED
        BY <2>1, <3>1
    <2> QED
      BY <2>2, <2>3
  <1>7. ASSUME NEW i \in 1 .. n, text[i] \notin Blanks
        PROVE  g[i] # <<>>
    <2> HIDE DEF Read, next
    <2> QED
      BY <1>2, <1>6, <1>7
  <1>8. ASSUME NEW i \in 1 .. n
        PROVE  g[i] = ReadOn(g[i - 1], text, i)
    <2>1. g[i] = Read(g[i - 1], i)
      BY <1>6
    <2>2. CASE i = 1
      BY <2>1, <2>2
    <2>3. CASE i # 1 /\ text[i - 1] \notin Blanks
      <3>1. i - 1 \in 1 .. n
        BY <1>1, <2>3
      <3>2. g[i - 1] # <<>>
        BY <1>7, <2>3, <3>1
      <3> QED
        BY <2>1, <2>3, <3>2 DEF ReadOn
    <2>4. CASE i # 1 /\ text[i - 1] \in Blanks
      BY <2>1, <2>4 DEF ReadOn
    <2> QED
      BY <2>2, <2>3, <2>4
  <1> HIDE DEF next, Read
  <1>9. IsReading(g, text)
    <2>1. \A i \in 0 .. n : g[i] = IF i = 0 THEN <<>> ELSE ReadOn(g[i - 1], text, i)
      <3> TAKE i \in 0 .. n
      <3>1. i # 0 => i \in 1 .. n
        BY <1>1
      <3> QED
        BY <1>6, <1>8, <3>1
    <2> QED
      BY <1>5, <2>1 DEF IsReading
  <1> DEFINE d == CHOOSE h : IsReading(h, text)
  <1>10. IsReading(d, text)
    BY <1>9
  <1>11. Words(text) = d[n]
    BY DEF Words, IsReading, ReadOn
  <1>12. /\ d[0] = <<>>
         /\ \A i \in 1 .. n : d[i] = ReadOn(d[i - 1], text, i)
    <2> HIDE DEF d
    <2>1. \A i \in 0 .. n : d[i] = IF i = 0 THEN <<>> ELSE ReadOn(d[i - 1], text, i)
      BY <1>10 DEF IsReading
    <2>2. 0 \in 0 .. n /\ \A i \in 1 .. n : i \in 0 .. n /\ i # 0
      BY <1>1
    <2> HIDE DEF n
    <2> QED
      BY <2>1, <2>2
  <1>13. d[n] = g[n]
    <2> HIDE DEF d, n
    <2>2. g[0] = d[0] /\ \A i \in 1 .. n : g[i - 1] = d[i - 1] => g[i] = d[i]
      BY <1>6, <1>8, <1>12
    <2>3. g[n] = d[n]
      BY <1>1, <2>2, SameSteps
    <2> QED
      BY <2>3
  <1>14. Words(text) = g[n]
    BY <1>11, <1>13
  <1> HIDE DEF d
  <1> QED
    BY <1>5, <1>6, <1>7, <1>8, <1>14

(* No text has no words.                                                   *)
LEMMA WordsEmpty == Words(<<>>) = <<>>
  <1>1. <<>> \in Seq(Chars) /\ Len(<<>>) = 0
    OBVIOUS
  <1>2. PICK g \in [0 .. Len(<<>>) -> Seq(Word)] : g[0] = <<>> /\ Words(<<>>) = g[Len(<<>>)]
    BY <1>1, ReadingExists
  <1> QED
    BY <1>1, <1>2

(* A text has words, and at least one if it ends with a letter.            *)
LEMMA WordsTyped ==
  ASSUME NEW t \in Seq(Chars)
  PROVE  /\ Words(t) \in Seq(Word)
         /\ t # <<>> /\ Last(t) \notin Blanks => Words(t) # <<>>
  <1>1. PICK g \in [0 .. Len(t) -> Seq(Word)] :
            /\ Words(t) = g[Len(t)]
            /\ \A i \in 1 .. Len(t) : t[i] \notin Blanks => g[i] # <<>>
    BY ReadingExists
  <1>2. Len(t) \in Nat /\ (t # <<>> => Len(t) \in 1 .. Len(t))
    BY EmptySeq, LenProperties
  <1> QED
    BY <1>1, <1>2 DEF Last

(* Words reads one more character at the end: a blank adds nothing, a      *)
(* letter after a blank begins a word, any other extends the last one.     *)
LEMMA WordsStep ==
  ASSUME NEW t \in Seq(Chars), NEW e \in Chars
  PROVE  Words(Append(t, e)) =
           IF e \in Blanks THEN Words(t)
           ELSE IF t = <<>> \/ Last(t) \in Blanks THEN Append(Words(t), Fold[e])
           ELSE Append(Front(Words(t)), Last(Words(t)) \o Fold[e])
  <1> DEFINE n == Len(t)
             s == Append(t, e)
  <1>1. /\ n \in Nat /\ s \in Seq(Chars) /\ Len(s) = n + 1 /\ s[n + 1] = e
        /\ \A i \in 1 .. n : s[i] = t[i]
        /\ n = 0 <=> t = <<>>
    BY EmptySeq
  <1> HIDE DEF s
  <1>2. PICK g : /\ g[0] = <<>> /\ Words(t) = g[n]
                 /\ \A i \in 1 .. n : g[i] = ReadOn(g[i - 1], t, i)
    BY ReadingExists
  <1>3. PICK h : /\ h[0] = <<>> /\ Words(s) = h[n + 1]
                 /\ \A i \in 1 .. n + 1 : h[i] = ReadOn(h[i - 1], s, i)
    <2>1. \E h \in [0 .. Len(s) -> Seq(Word)] :
            /\ h[0] = <<>>
            /\ \A i \in 1 .. Len(s) : h[i] = ReadOn(h[i - 1], s, i)
            /\ Words(s) = h[Len(s)]
      BY <1>1, ReadingExists
    <2> QED
      BY <1>1, <2>1
  <1>4. Last(t) = t[n]
    BY DEF Last
  <1> HIDE DEF n
  <1>5. ASSUME NEW i \in 1 .. n, g[i - 1] = h[i - 1]
        PROVE  g[i] = h[i]
    <2>1. i \in 1 .. n + 1 /\ (i # 1 => i - 1 \in 1 .. n)
      BY <1>1
    <2>2. s[i] = t[i] /\ (i # 1 => s[i - 1] = t[i - 1])
      BY <1>1, <2>1
    <2> QED
      BY <1>2, <1>3, <1>5, <2>1, <2>2 DEF ReadOn
  <1>6. g[n] = h[n]
    BY <1>1, <1>2, <1>3, <1>5, SameSteps
  <1>7. h[n + 1] = ReadOn(h[n], s, n + 1)
    <2>1. n + 1 \in 1 .. n + 1 /\ (n + 1) - 1 = n
      BY <1>1
    <2> QED
      BY <1>3, <2>1
  <1>8. n # 0 => s[(n + 1) - 1] = t[n]
    <2>1. n # 0 => n \in 1 .. n /\ (n + 1) - 1 = n
      BY <1>1
    <2> QED
      BY <1>1, <2>1
  <1>9. n + 1 = 1 <=> t = <<>>
    BY <1>1
  <1>10. Words(s) = ReadOn(Words(t), s, n + 1)
    BY <1>2, <1>3, <1>6, <1>7
  <1> QED
    BY <1>1, <1>4, <1>8, <1>9, <1>10 DEF ReadOn, s

\* The texts that Join puts together: all but the first begin with a space.
Spaced(texts) == [i \in DOMAIN texts |-> IF i = 1 THEN texts[i] ELSE <<Space>> \o texts[i]]

(* One more text begins with a space unless it is the first.               *)
LEMMA SpacedStep ==
  ASSUME NEW V, Space \in V, NEW ss \in Seq(Seq(V)), NEW s \in Seq(V)
  PROVE  /\ Spaced(ss) \in Seq(Seq(V))
         /\ Spaced(Append(ss, s)) = Append(Spaced(ss), IF ss = <<>> THEN s ELSE <<Space>> \o s)
  <1> DEFINE n == Len(ss)
             ts == Append(ss, s)
             x == IF ss = <<>> THEN s ELSE <<Space>> \o s
  <1>1. /\ n \in Nat /\ DOMAIN ss = 1 .. n /\ \A i \in 1 .. n : ss[i] \in Seq(V)
        /\ ss = <<>> <=> n = 0
    BY EmptySeq
  <1>2. /\ DOMAIN ts = 1 .. n + 1 /\ ts[n + 1] = s /\ \A i \in 1 .. n : ts[i] = ss[i]
    OBVIOUS
  <1>3. \A z \in Seq(V) : <<Space>> \o z \in Seq(V)
    OBVIOUS
  <1>4. /\ Spaced(ss) \in [1 .. n -> Seq(V)]
        /\ \A i \in 1 .. n : Spaced(ss)[i] = IF i = 1 THEN ss[i] ELSE <<Space>> \o ss[i]
    BY <1>1, <1>3 DEF Spaced
  <1>5. Spaced(ss) \in Seq(Seq(V)) /\ Len(Spaced(ss)) = n
    <2> HIDE DEF n
    <2>1. Spaced(ss) \in Seq(Seq(V))
      BY <1>1, <1>4, SeqDef
    <2>2. Len(Spaced(ss)) = n
      BY <1>1, <1>4, <2>1, LenProperties
    <2> QED
      BY <2>1, <2>2
  <1>6. x \in Seq(V)
    BY <1>3
  <1> HIDE DEF ts, n, x
  <1>7. Spaced(ts) = [i \in 1 .. n + 1 |-> IF i = 1 THEN ts[i] ELSE <<Space>> \o ts[i]]
    BY <1>2 DEF Spaced
  <1>8. x = IF n = 0 THEN s ELSE <<Space>> \o s
    BY <1>1 DEF x
  <1>9. \A i \in 1 .. n + 1 : Spaced(ts)[i] = IF i = n + 1 THEN x ELSE Spaced(ss)[i]
    <2> TAKE i \in 1 .. n + 1
    <2>1. CASE i = n + 1
      BY <1>1, <1>2, <1>7, <1>8, <2>1
    <2>2. CASE i # n + 1
      <3>1. i \in 1 .. n
        BY <1>1, <2>2
      <3> QED
        BY <1>2, <1>4, <1>7, <2>2, <3>1
    <2> QED
      BY <2>1, <2>2
  <1>10. /\ Append(Spaced(ss), x) \in Seq(Seq(V)) /\ Len(Append(Spaced(ss), x)) = n + 1
         /\ \A i \in 1 .. n + 1 : Append(Spaced(ss), x)[i] = IF i = n + 1 THEN x ELSE Spaced(ss)[i]
    BY <1>1, <1>5, <1>6, AppendProperties
  <1>12. Append(Spaced(ss), x) = Spaced(ts)
    <2>1. Append(Spaced(ss), x) = [i \in 1 .. n + 1 |-> Append(Spaced(ss), x)[i]]
      BY <1>10, LenProperties
    <2>2. Spaced(ts) = [i \in 1 .. n + 1 |-> Spaced(ts)[i]]
      BY <1>7
    <2> QED
      BY <1>9, <1>10, <2>1, <2>2
  <1> QED
    BY <1>5, <1>12 DEF ts, x

(* Join takes one more text at the end, after a space, as " ".join does.   *)
LEMMA JoinStep ==
  ASSUME NEW V, Space \in V, NEW ss \in Seq(Seq(V)), NEW s \in Seq(V)
  PROVE  /\ Join(<<>>) = <<>>
         /\ Join(ss) \in Seq(V)
         /\ Join(Append(ss, s)) = IF ss = <<>> THEN s ELSE Join(ss) \o (<<Space>> \o s)
  <1>1. Join(ss) = FlattenSeq(Spaced(ss)) /\ Join(Append(ss, s)) = FlattenSeq(Spaced(Append(ss, s)))
    BY DEF Join, Spaced
  <1>2. Spaced(ss) \in Seq(Seq(V))
    BY SpacedStep
  <1> DEFINE x == IF ss = <<>> THEN s ELSE <<Space>> \o s
  <1>3. x \in Seq(V) /\ Spaced(Append(ss, s)) = Append(Spaced(ss), x)
    BY SpacedStep
  <1> HIDE DEF x
  <1>4. Join(Append(ss, s)) = Join(ss) \o x
    BY <1>1, <1>2, <1>3, FlattenPrefix
  <1>5. Join(ss) \in Seq(V)
    BY <1>1, <1>2, FlattenIsSeq
  <1>6. Join(<<>>) = <<>>
    <2>1. Spaced(<<>>) = <<>>
      BY DEF Spaced
    <2> QED
      BY <2>1, FlattenEmpty DEF Join, Spaced
  <1>7. ss = <<>> => Join(ss) \o x = x
    BY <1>3, <1>6, ConcatEmptySeq
  <1> QED
    BY <1>4, <1>5, <1>6, <1>7 DEF x

(* Casefold takes one more character at the end.                           *)
LEMMA CasefoldStep ==
  ASSUME NEW t \in Seq(Chars), NEW e \in Chars
  PROVE  /\ Casefold(<<>>) = <<>>
         /\ Casefold(t) \in Seq(Chars)
         /\ Casefold(Append(t, e)) = Casefold(t) \o (IF e \in Letters THEN Fold[e] ELSE <<e>>)
  <1> DEFINE Folded(s) == [i \in DOMAIN s |-> IF s[i] \in Letters THEN Fold[s[i]] ELSE <<s[i]>>]
             n == Len(t)
             x == IF e \in Letters THEN Fold[e] ELSE <<e>>
             s == Append(t, e)
  <1>1. n \in Nat /\ DOMAIN t = 1 .. n /\ \A i \in 1 .. n : t[i] \in Chars
    OBVIOUS
  <1>2. DOMAIN s = 1 .. n + 1 /\ s[n + 1] = e /\ \A i \in 1 .. n : s[i] = t[i]
    OBVIOUS
  <1>3. \A c \in Chars : (IF c \in Letters THEN Fold[c] ELSE <<c>>) \in Seq(Chars)
    BY Characters
  <1>4. /\ Folded(t) \in [1 .. n -> Seq(Chars)]
        /\ \A i \in 1 .. n : Folded(t)[i] = IF t[i] \in Letters THEN Fold[t[i]] ELSE <<t[i]>>
    BY <1>1, <1>3
  <1>5. Folded(t) \in Seq(Seq(Chars)) /\ Len(Folded(t)) = n
    <2> HIDE DEF Folded
    <2>1. Folded(t) \in Seq(Seq(Chars))
      BY <1>1, <1>4, SeqDef
    <2>2. Len(Folded(t)) = n
      BY <1>1, <1>4, <2>1, LenProperties
    <2> QED
      BY <2>1, <2>2
  <1>6. x \in Seq(Chars)
    BY <1>3
  <1>7. Folded(s) = [i \in 1 .. n + 1 |-> IF s[i] \in Letters THEN Fold[s[i]] ELSE <<s[i]>>]
    BY <1>2
  <1> HIDE DEF Folded, s, n
  <1>8. \A i \in 1 .. n + 1 : Folded(s)[i] = IF i = n + 1 THEN x ELSE Folded(t)[i]
    <2> TAKE i \in 1 .. n + 1
    <2>1. CASE i = n + 1
      BY <1>1, <1>2, <1>7, <2>1
    <2>2. CASE i # n + 1
      <3>1. i \in 1 .. n
        BY <1>1, <2>2
      <3> QED
        BY <1>2, <1>4, <1>7, <2>2, <3>1
    <2> QED
      BY <2>1, <2>2
  <1> HIDE DEF x
  <1>9. /\ Append(Folded(t), x) \in Seq(Seq(Chars)) /\ Len(Append(Folded(t), x)) = n + 1
        /\ \A i \in 1 .. n + 1 : Append(Folded(t), x)[i] = IF i = n + 1 THEN x ELSE Folded(t)[i]
    BY <1>1, <1>5, <1>6, AppendProperties
  <1>10. Append(Folded(t), x) = Folded(s)
    <2>1. Append(Folded(t), x) = [i \in 1 .. n + 1 |-> Append(Folded(t), x)[i]]
      BY <1>9, LenProperties
    <2> QED
      BY <1>7, <1>8, <1>9, <2>1
  <1>11. Casefold(t) = FlattenSeq(Folded(t)) /\ Casefold(s) = FlattenSeq(Folded(s))
    BY DEF Casefold, Folded
  <1>12. Casefold(s) = Casefold(t) \o x /\ Casefold(t) \in Seq(Chars)
    BY <1>5, <1>6, <1>10, <1>11, FlattenPrefix, FlattenIsSeq
  <1>13. Casefold(<<>>) = <<>>
    <2>1. Folded(<<>>) = <<>>
      BY DEF Folded
    <2> QED
      BY <2>1, FlattenEmpty DEF Casefold, Folded
  <1> QED
    BY <1>12, <1>13 DEF s, x

(* Words are texts.                                                        *)
LEMMA WordsAreTexts ==
  /\ Word \subseteq Seq(Chars)
  /\ Seq(Word) \subseteq Seq(Seq(Chars))
  <1>1. Letters \subseteq Chars
    BY DEF Chars
  <1>2. Word \subseteq Seq(Chars)
    BY <1>1, SeqMonotonic DEF Word
  <1> HIDE DEF Word
  <1>3. Seq(Word) \subseteq Seq(Seq(Chars))
    BY <1>2, SeqMonotonic
  <1> QED
    BY <1>2, <1>3

(* JoinStep in terms of Cat.                                               *)
LEMMA JoinCat ==
  ASSUME NEW V, Space \in V, NEW ss \in Seq(Seq(V)), NEW s \in Seq(V)
  PROVE  Join(Append(ss, s)) = IF ss = <<>> THEN s ELSE Cat(Join(ss), Cat(<<Space>>, s))
  BY JoinStep DEF Cat

(* A last word that grows by a letter makes the joined words grow by it.   *)
LEMMA LongerWord ==
  ASSUME NEW v \in Seq(Word), v # <<>>, NEW f \in Word
  PROVE  Join(Append(Front(v), Last(v) \o f)) = Join(v) \o f
  <1> DEFINE u == Front(v)
             l == Last(v)
  <1>1. u \in Seq(Seq(Chars)) /\ l \in Seq(Chars) /\ f \in Seq(Chars) /\ v = Append(u, l)
    BY ExtendTyped, WordsAreTexts
  <1> HIDE DEF u, l
  <1>2. l \o f \in Seq(Chars) /\ Space \in Chars /\ <<Space>> \in Seq(Chars)
    BY <1>1, Characters
  <1>3. Join(v) = IF u = <<>> THEN l ELSE Join(u) \o (<<Space>> \o l)
    BY <1>1, <1>2, JoinStep
  <1>4. Join(Append(u, l \o f)) = IF u = <<>> THEN l \o f ELSE Join(u) \o (<<Space>> \o (l \o f))
    BY <1>1, <1>2, JoinStep
  <1>5. Join(u) \in Seq(Chars)
    BY <1>1, <1>2, JoinStep
  <1> DEFINE j == Join(u)
             s == <<Space>>
  <1>6. j \in Seq(Chars) /\ s \in Seq(Chars)
    BY <1>2, <1>5
  <1> HIDE DEF j, s
  <1>7. (j \o (s \o l)) \o f = j \o (s \o (l \o f))
    <2>1. l \in Seq(Chars) /\ f \in Seq(Chars)
      BY <1>1
    <2>2. Cat(Cat(j, Cat(s, l)), f) = Cat(j, Cat(s, Cat(l, f)))
      BY <1>6, <2>1, CatGroups
    <2> QED
      BY <2>2 DEF Cat
  <1>8. Join(Append(u, l \o f)) = Join(v) \o f
    BY <1>3, <1>4, <1>7 DEF j, s
  <1> QED
    BY <1>8 DEF u, l

\* What Collapsed leaves of a text: its words, and a space after them if the text ends with a
\* blank.
Follows(t) ==
  IF t # <<>> /\ Last(t) \notin Blanks
  THEN /\ Collapsed(t) # <<>> /\ Last(Collapsed(t)) # Space
       /\ Words(t) # <<>> /\ Casefold(Collapsed(t)) = Join(Words(t))
  ELSE \/ Words(t) = <<>> /\ Collapsed(t) = <<>>
       \/ /\ Words(t) # <<>>
          /\ \E c \in Seq(Chars) : Collapsed(t) = Append(c, Space) /\ Casefold(c) = Join(Words(t))

(* That is what Collapsed leaves of every text: by induction over its      *)
(* characters.                                                             *)
LEMMA CollapsedFollows ==
  ASSUME NEW text \in Seq(Chars)
  PROVE  Follows(text)
  <1> DEFINE C == {t \in Seq(Chars) : Follows(t)}
  <1>1. <<>> \in C
    BY WordsEmpty, CollapsedEmpty DEF Follows
  <1>2. ASSUME NEW t \in Seq(Chars), NEW e \in Chars, t \in C
        PROVE  Append(t, e) \in C
    <2> DEFINE s == Append(t, e)
    <2>1. s \in Seq(Chars) /\ s # <<>> /\ Last(s) = e
      BY DEF Last
    <2>2. Collapsed(s) = Collapse(Collapsed(t), e) /\ Collapsed(t) \in Seq(Chars)
      BY CollapsedStep, CollapsingExists
    <2>3. Words(s) = IF e \in Blanks THEN Words(t)
                     ELSE IF t = <<>> \/ Last(t) \in Blanks THEN Append(Words(t), Fold[e])
                     ELSE Append(Front(Words(t)), Last(Words(t)) \o Fold[e])
      BY WordsStep
    <2>4. Words(t) \in Seq(Word) /\ Words(t) \in Seq(Seq(Chars))
      BY WordsTyped, WordsAreTexts
    <2>5. Follows(t)
      BY <1>2
    <2> HIDE DEF s
    <2> SUFFICES Follows(s)
      BY <2>1 DEF s
    <2>6. CASE e \in Blanks
      <3>1. Words(s) = Words(t)
        BY <2>3, <2>6
      <3>2. CASE t # <<>> /\ Last(t) \notin Blanks
        <4>1. Collapsed(s) = Append(Collapsed(t), Space)
          BY <2>2, <2>5, <2>6, <3>2 DEF Follows, Collapse
        <4> QED
          BY <2>1, <2>2, <2>5, <2>6, <3>1, <3>2, <4>1 DEF Follows
      <3>3. CASE ~(t # <<>> /\ Last(t) \notin Blanks) /\ Words(t) = <<>>
        BY <2>1, <2>2, <2>5, <2>6, <3>1, <3>3 DEF Follows, Collapse
      <3>4. CASE ~(t # <<>> /\ Last(t) \notin Blanks) /\ Words(t) # <<>>
        <4>1. PICK c \in Seq(Chars) : Collapsed(t) = Append(c, Space) /\ Casefold(c) = Join(Words(t))
          BY <2>5, <3>4 DEF Follows
        <4>2. Last(Collapsed(t)) = Space
          BY <4>1, Characters DEF Last
        <4>3. Collapsed(s) = Append(c, Space)
          BY <2>2, <2>6, <4>1, <4>2 DEF Collapse
        <4> QED
          BY <2>1, <2>6, <3>1, <3>4, <4>1, <4>3 DEF Follows
      <3> QED
        BY <3>2, <3>3, <3>4
    <2>7. CASE e \notin Blanks
      <3>1. e \in Letters /\ e # Space /\ Fold[e] \in Word /\ Fold[e] \in Seq(Chars)
        BY <2>7, Characters, TextAssumption
      <3>2. Collapsed(s) = Append(Collapsed(t), e)
        BY <2>2, <2>7 DEF Collapse
      <3>3. Casefold(Collapsed(s)) = Casefold(Collapsed(t)) \o Fold[e]
        BY <2>2, <3>1, <3>2, CasefoldStep
      <3>4. Collapsed(s) # <<>> /\ Last(Collapsed(s)) # Space
        BY <2>2, <3>1, <3>2 DEF Last
      <3>5. Words(s) # <<>> /\ Casefold(Collapsed(s)) = Join(Words(s))
        <4>1. CASE t # <<>> /\ Last(t) \notin Blanks
          <5>1. Words(t) # <<>> /\ Casefold(Collapsed(t)) = Join(Words(t))
            BY <2>5, <4>1 DEF Follows
          <5>2. Words(s) = Append(Front(Words(t)), Last(Words(t)) \o Fold[e])
            BY <2>3, <2>7, <4>1
          <5>3. Join(Words(s)) = Join(Words(t)) \o Fold[e]
            BY <2>4, <3>1, <5>1, <5>2, LongerWord
          <5>4. Words(s) # <<>>
            <6> DEFINE l == Last(Words(t)) \o Fold[e]
                       u == Front(Words(t))
            <6>1. u \in Seq(Word) /\ l \in Word /\ Words(s) = Append(u, l)
              BY <2>4, <3>1, <5>1, <5>2, ExtendTyped
            <6> HIDE DEF l, u
            <6> QED
              BY <6>1, AppendProperties
          <5> QED
            BY <3>3, <5>1, <5>3, <5>4
        <4>2. CASE ~(t # <<>> /\ Last(t) \notin Blanks)
          <5>1. Words(s) = Append(Words(t), Fold[e])
            BY <2>3, <2>7, <4>2
          <5>2. Words(s) # <<>>
            BY <2>4, <3>1, <5>1, AppendProperties
          <5>3. Join(Words(s)) = IF Words(t) = <<>> THEN Fold[e]
                                 ELSE Join(Words(t)) \o (<<Space>> \o Fold[e])
            <6> DEFINE v == Words(t)
                       f == Fold[e]
            <6>1. v \in Seq(Seq(Chars)) /\ f \in Seq(Chars) /\ Space \in Chars /\ Words(s) = Append(v, f)
              BY <2>4, <3>1, <5>1, Characters
            <6> HIDE DEF v, f
            <6>2. Join(Append(v, f)) = IF v = <<>> THEN f ELSE Cat(Join(v), Cat(<<Space>>, f))
              BY <6>1, JoinCat
            <6> QED
              BY <6>1, <6>2 DEF v, f, Cat
          <5>4. CASE Words(t) = <<>>
            <6>1. Collapsed(t) = <<>>
              BY <2>5, <4>2, <5>4 DEF Follows
            <6>2. Casefold(Collapsed(t)) = <<>>
              BY <3>1, <6>1, CasefoldStep
            <6> QED
              BY <3>1, <3>3, <5>2, <5>3, <5>4, <6>2, ConcatEmptySeq
          <5>5. CASE Words(t) # <<>>
            <6>1. PICK c \in Seq(Chars) : Collapsed(t) = Append(c, Space) /\ Casefold(c) = Join(Words(t))
              BY <2>5, <4>2, <5>5 DEF Follows
            <6>2. Casefold(Collapsed(t)) = Join(Words(t)) \o <<Space>> /\ Casefold(c) \in Seq(Chars)
              BY <6>1, CasefoldStep, Characters
            <6>3. (Join(Words(t)) \o <<Space>>) \o Fold[e] = Join(Words(t)) \o (<<Space>> \o Fold[e])
              <7> DEFINE x == Join(Words(t))
                         y == <<Space>>
                         z == Fold[e]
              <7>1. x \in Seq(Chars) /\ y \in Seq(Chars) /\ z \in Seq(Chars)
                BY <3>1, <6>1, <6>2, Characters
              <7> HIDE DEF x, y, z
              <7>2. (x \o y) \o z = x \o (y \o z)
                BY <7>1, ConcatAssociative
              <7> QED
                BY <7>2 DEF x, y, z
            <6> QED
              BY <3>3, <5>2, <5>3, <5>5, <6>2, <6>3
          <5> QED
            BY <5>4, <5>5
        <4> QED
          BY <4>1, <4>2
      <3> QED
        BY <2>1, <2>7, <3>4, <3>5 DEF Follows
    <2> QED
      BY <2>6, <2>7
  <1>3. \A t \in Seq(Chars) : t \in C
    <2> HIDE DEF C
    <2> QED
      BY <1>1, <1>2, SeqInductionOn
  <1> QED
    BY <1>3

(* _normalize gives the words of a text, folded and joined by single       *)
(* spaces, whatever its blanks were.                                       *)
LEMMA NormalizeJoins ==
  ASSUME NEW text \in Seq(Chars)
  PROVE  Normalize(text) = Join(Words(text))
  <1> DEFINE c == Collapsed(text)
  <1>1. Follows(text) /\ c \in Seq(Chars)
    BY CollapsedFollows, CollapsingExists
  <1>2. CASE text # <<>> /\ Last(text) \notin Blanks
    <2>1. c # <<>> /\ Last(c) # Space /\ Casefold(c) = Join(Words(text))
      BY <1>1, <1>2 DEF Follows
    <2> QED
      BY <2>1 DEF Normalize, Stripped
  <1>3. CASE ~(text # <<>> /\ Last(text) \notin Blanks) /\ Words(text) = <<>>
    <2>1. c = <<>>
      BY <1>1, <1>3 DEF Follows
    <2>2. Join(<<>>) = <<>> /\ Casefold(<<>>) = <<>>
      <3>1. <<>> \in Seq(Chars) /\ <<>> \in Seq(Seq(Chars)) /\ Space \in Chars
        BY Characters
      <3> QED
        BY <3>1, JoinStep, CasefoldStep
    <2> QED
      BY <1>3, <2>1, <2>2 DEF Normalize, Stripped
  <1>4. CASE ~(text # <<>> /\ Last(text) \notin Blanks) /\ Words(text) # <<>>
    <2>1. PICK d \in Seq(Chars) : c = Append(d, Space) /\ Casefold(d) = Join(Words(text))
      BY <1>1, <1>4 DEF Follows
    <2>2. c # <<>> /\ Last(c) = Space /\ Front(c) = d
      <3>1. Len(d) \in Nat /\ Len(c) = Len(d) + 1 /\ c[Len(d) + 1] = Space
            /\ \A i \in 1 .. Len(d) : c[i] = d[i]
        BY <2>1, Characters
      <3>2. SubSeq(c, 1, Len(d)) = d
        BY <1>1, <3>1, SubSeqProperties, SeqEqual
      <3> HIDE DEF c
      <3>3. Len(c) - 1 = Len(d)
        BY <3>1
      <3>4. c # <<>>
        BY <3>1
      <3> QED
        BY <3>1, <3>2, <3>3, <3>4 DEF Last, Front
    <2> QED
      BY <2>1, <2>2 DEF Normalize, Stripped
  <1> QED
    BY <1>2, <1>3, <1>4

(* Two texts on both sides of a space keep their words.                    *)
LEMMA WordsOfBoth ==
  ASSUME NEW a \in Seq(Chars), NEW b \in Seq(Chars)
  PROVE  Words(Cat(a, Cat(<<Space>>, b))) = Cat(Words(a), Words(b))
  <1> DEFINE X(t) == a \o (<<Space>> \o t)
             C == {t \in Seq(Chars) : Words(X(t)) = Words(a) \o Words(t)}
  <1>0. Space \in Chars /\ Space \in Blanks /\ <<Space>> \in Seq(Chars)
    BY Characters, TextAssumption
  <1>a. Words(a) \in Seq(Word)
    BY WordsTyped
  <1>1. <<>> \in C
    <2>0. <<>> \in Seq(Chars)
      OBVIOUS
    <2>1. X(<<>>) = Append(a, Space)
      BY <1>0
    <2>2. Words(X(<<>>)) = Words(a)
      BY <1>0, <2>1, WordsStep
    <2>3. Words(a) \o <<>> = Words(a)
      BY <1>a, ConcatEmptySeq
    <2>4. Words(X(<<>>)) = Words(a) \o Words(<<>>)
      BY <2>2, <2>3, WordsEmpty
    <2> HIDE DEF X
    <2> QED
      BY <2>0, <2>4
  <1>2. ASSUME NEW t \in Seq(Chars), NEW e \in Chars, t \in C
        PROVE  Append(t, e) \in C
    <2> DEFINE x == X(t)
    <2>1. X(Append(t, e)) = Append(x, e) /\ x \in Seq(Chars) /\ x # <<>>
      BY <1>0
    <2>2. Last(x) = IF t = <<>> THEN Space ELSE Last(t)
      <3>1. CASE t = <<>>
        <4>1. x = Append(a, Space)
          BY <1>0, <3>1
        <4> HIDE DEF x
        <4> QED
          BY <1>0, <3>1, <4>1, FrontOfAppend
      <3>2. CASE t # <<>>
        <4> DEFINE y == <<Space>> \o t
        <4>1. y \in Seq(Chars) /\ y # <<>> /\ x = a \o y
          BY <1>0
        <4>2. Last(y) = Last(t)
          BY <1>0, <3>2, FrontOfConcat
        <4> HIDE DEF x, y
        <4> QED
          BY <3>2, <4>1, <4>2, FrontOfConcat
      <3> QED
        BY <3>1, <3>2
    <2>3. Words(x) = Words(a) \o Words(t) /\ Words(t) \in Seq(Word)
      BY <1>2, WordsTyped
    <2> HIDE DEF x, X
    <2>4. Words(Append(x, e)) =
            IF e \in Blanks THEN Words(x)
            ELSE IF Last(x) \in Blanks THEN Append(Words(x), Fold[e])
            ELSE Append(Front(Words(x)), Last(Words(x)) \o Fold[e])
      BY <2>1, WordsStep
    <2>5. Words(Append(t, e)) =
            IF e \in Blanks THEN Words(t)
            ELSE IF t = <<>> \/ Last(t) \in Blanks THEN Append(Words(t), Fold[e])
            ELSE Append(Front(Words(t)), Last(Words(t)) \o Fold[e])
      BY WordsStep
    <2> DEFINE A == Words(a)
               B == Words(t)
               f == Fold[e]
    <2>6. A \in Seq(Word) /\ B \in Seq(Word) /\ Words(x) = A \o B
      BY <1>a, <2>3
    <2>7. Words(Append(x, e)) = A \o Words(Append(t, e))
      <3>1. CASE e \in Blanks
        BY <2>3, <2>4, <2>5, <3>1
      <3>2. CASE e \notin Blanks /\ (t = <<>> \/ Last(t) \in Blanks)
        <4>1. f \in Word
          BY <3>2, Characters
        <4>2. Last(x) \in Blanks
          BY <1>0, <2>2, <3>2
        <4>3. Words(Append(x, e)) = Append(A \o B, f) /\ Words(Append(t, e)) = Append(B, f)
          BY <2>3, <2>4, <2>5, <3>2, <4>2
        <4> HIDE DEF A, B, f
        <4>5. Append(Cat(A, B), f) = Cat(A, Append(B, f))
          BY <2>6, <4>1, AppendOfCat
        <4>4. Append(A \o B, f) = A \o Append(B, f)
          BY <4>5 DEF Cat
        <4> QED
          BY <4>3, <4>4
      <3>3. CASE e \notin Blanks /\ ~(t = <<>> \/ Last(t) \in Blanks)
        <4>1. f \in Word /\ B # <<>>
          BY <3>3, Characters, WordsTyped
        <4>2. Last(x) \notin Blanks
          BY <2>2, <3>3
        <4> DEFINE l == Last(B) \o f
        <4>3. /\ Words(Append(x, e)) = Append(Front(A \o B), Last(A \o B) \o f)
              /\ Words(Append(t, e)) = Append(Front(B), l)
          BY <2>3, <2>4, <2>5, <3>3, <4>2
        <4> HIDE DEF A, B, f
        <4>4. Front(A \o B) = A \o Front(B) /\ Last(A \o B) = Last(B)
          BY <2>6, <4>1, FrontOfConcat
        <4>5. l \in Word /\ Front(B) \in Seq(Word)
          BY <2>6, <4>1, ExtendTyped
        <4>6. Words(Append(x, e)) = Append(A \o Front(B), l)
          BY <4>3, <4>4
        <4> HIDE DEF l
        <4> DEFINE F == Front(B)
        <4>f. F \in Seq(Word)
          BY <4>5
        <4> HIDE DEF F
        <4>8. Append(Cat(A, F), l) = Cat(A, Append(F, l))
          BY <2>6, <4>5, <4>f, AppendOfCat
        <4>7. Append(A \o Front(B), l) = A \o Append(Front(B), l)
          BY <4>8 DEF F, Cat
        <4> QED
          BY <4>3, <4>6, <4>7
      <3> QED
        BY <3>1, <3>2, <3>3
    <2>8. Words(X(Append(t, e))) = Words(a) \o Words(Append(t, e))
      BY <2>1, <2>7
    <2>9. Append(t, e) \in Seq(Chars)
      OBVIOUS
    <2> QED
      BY <2>8, <2>9
  <1>3. \A t \in Seq(Chars) : t \in C
    <2> HIDE DEF C
    <2> QED
      BY <1>1, <1>2, SeqInductionOn
  <1> QED
    BY <1>3 DEF Cat

\* The words of each of some texts.
WordLists(texts) == [i \in DOMAIN texts |-> Words(texts[i])]

(* One more text adds its words as one more list.                          *)
LEMMA WordListsStep ==
  ASSUME NEW ss \in Seq(Seq(Chars)), NEW s \in Seq(Chars)
  PROVE  /\ WordLists(ss) \in Seq(Seq(Word)) /\ Len(WordLists(ss)) = Len(ss)
         /\ \A i \in 1 .. Len(ss) : WordLists(ss)[i] = Words(ss[i])
         /\ WordLists(Append(ss, s)) = Append(WordLists(ss), Words(s))
  <1> DEFINE n == Len(ss)
             ts == Append(ss, s)
             x == Words(s)
  <1>1. /\ n \in Nat /\ DOMAIN ss = 1 .. n /\ \A i \in 1 .. n : ss[i] \in Seq(Chars)
    BY EmptySeq
  <1>2. /\ DOMAIN ts = 1 .. n + 1 /\ ts[n + 1] = s /\ \A i \in 1 .. n : ts[i] = ss[i]
    OBVIOUS
  <1>3. x \in Seq(Word) /\ \A i \in 1 .. n : Words(ss[i]) \in Seq(Word)
    BY <1>1, WordsTyped
  <1>4. /\ WordLists(ss) \in [1 .. n -> Seq(Word)]
        /\ \A i \in 1 .. n : WordLists(ss)[i] = Words(ss[i])
    BY <1>1, <1>3 DEF WordLists
  <1>5. WordLists(ss) \in Seq(Seq(Word)) /\ Len(WordLists(ss)) = n
    <2> HIDE DEF n
    <2>1. WordLists(ss) \in Seq(Seq(Word))
      BY <1>1, <1>4, SeqDef
    <2>2. Len(WordLists(ss)) = n
      BY <1>1, <1>4, <2>1, LenProperties
    <2> QED
      BY <2>1, <2>2
  <1> HIDE DEF ts, n
  <1>7. WordLists(ts) = [i \in 1 .. n + 1 |-> Words(ts[i])]
    BY <1>2 DEF WordLists
  <1>8. \A i \in 1 .. n + 1 : WordLists(ts)[i] = IF i = n + 1 THEN x ELSE WordLists(ss)[i]
    <2> TAKE i \in 1 .. n + 1
    <2>1. CASE i = n + 1
      BY <1>1, <1>2, <1>7, <2>1
    <2>2. CASE i # n + 1
      <3>1. i \in 1 .. n
        BY <1>1, <2>2
      <3> QED
        BY <1>2, <1>4, <1>7, <2>2, <3>1
    <2> QED
      BY <2>1, <2>2
  <1> HIDE DEF x
  <1>9. /\ Append(WordLists(ss), x) \in Seq(Seq(Word)) /\ Len(Append(WordLists(ss), x)) = n + 1
        /\ \A i \in 1 .. n + 1 : Append(WordLists(ss), x)[i] = IF i = n + 1 THEN x ELSE WordLists(ss)[i]
    <2> DEFINE U == Seq(Word)
               wl == WordLists(ss)
    <2>1. wl \in Seq(U) /\ Len(wl) = n /\ x \in U
      BY <1>3, <1>5
    <2> HIDE DEF U, wl
    <2>2. /\ Append(wl, x) \in Seq(U) /\ Len(Append(wl, x)) = n + 1
          /\ \A i \in 1 .. n + 1 : Append(wl, x)[i] = IF i = n + 1 THEN x ELSE wl[i]
      BY <1>1, <2>1, AppendProperties
    <2> QED
      BY <2>2 DEF U, wl
  <1>10. Append(WordLists(ss), x) = WordLists(ts)
    <2>1. Append(WordLists(ss), x) = [i \in 1 .. n + 1 |-> Append(WordLists(ss), x)[i]]
      BY <1>9, LenProperties
    <2>2. WordLists(ts) = [i \in 1 .. n + 1 |-> WordLists(ts)[i]]
      BY <1>7
    <2> QED
      BY <1>8, <1>9, <2>1, <2>2
  <1> QED
    BY <1>4, <1>5, <1>10 DEF ts, x, n

(* The words of joined texts are the words of the texts, one after the     *)
(* other: no word of one chunk runs into the next.                         *)
LEMMA WordsOfJoin ==
  ASSUME NEW texts \in Seq(Seq(Chars))
  PROVE  Join(texts) \in Seq(Chars) /\ Words(Join(texts)) = FlattenSeq(WordLists(texts))
  <1> DEFINE C == {ss \in Seq(Seq(Chars)) : Words(Join(ss)) = FlattenSeq(WordLists(ss))}
  <1>0. /\ Space \in Chars /\ <<>> \in Seq(Chars) /\ <<>> \in Seq(Seq(Chars))
    BY Characters
  <1>1. <<>> \in C
    <2>1. WordLists(<<>>) = <<>>
      BY DEF WordLists
    <2>2. Join(<<>>) = <<>>
      BY <1>0, JoinStep
    <2> QED
      BY <1>0, <2>1, <2>2, WordsEmpty, FlattenEmpty
  <1>2. ASSUME NEW ss \in Seq(Seq(Chars)), NEW s \in Seq(Chars), ss \in C
        PROVE  Append(ss, s) \in C
    <2> DEFINE wl == WordLists(ss)
               x == Words(s)
    <2>1. wl \in Seq(Seq(Word)) /\ x \in Seq(Word) /\ WordLists(Append(ss, s)) = Append(wl, x)
      BY WordListsStep, WordsTyped
    <2>2. Words(Join(ss)) = FlattenSeq(wl)
      BY <1>2
    <2> HIDE DEF wl
    <2>3. FlattenSeq(Append(wl, x)) = FlattenSeq(wl) \o x /\ FlattenSeq(wl) \in Seq(Word)
      <3> HIDE DEF x
      <3> QED
        BY <2>1, FlattenPrefix, FlattenIsSeq
    <2>4. Words(Join(Append(ss, s))) = Words(Join(ss)) \o x
      <3>1. CASE ss = <<>>
        <4>1. Join(Append(ss, s)) = s
          BY <1>0, <3>1, JoinCat
        <4>2. Words(Join(ss)) = <<>>
          BY <1>0, <3>1, JoinStep, WordsEmpty
        <4> QED
          BY <2>1, <4>1, <4>2, ConcatEmptySeq
      <3>2. CASE ss # <<>>
        <4>1. Join(Append(ss, s)) = Cat(Join(ss), Cat(<<Space>>, s))
          BY <1>0, <3>2, JoinCat
        <4>2. Join(ss) \in Seq(Chars)
          BY <1>0, JoinStep
        <4>3. Words(Cat(Join(ss), Cat(<<Space>>, s))) = Cat(Words(Join(ss)), Words(s))
          BY <4>2, WordsOfBoth
        <4> QED
          BY <4>1, <4>3 DEF Cat
      <3> QED
        BY <3>1, <3>2
    <2>5. Append(ss, s) \in Seq(Seq(Chars))
      OBVIOUS
    <2>6. Words(Join(Append(ss, s))) = FlattenSeq(WordLists(Append(ss, s)))
      BY <2>1, <2>2, <2>3, <2>4
    <2> QED
      BY <2>5, <2>6
  <1>3. \A ss \in Seq(Seq(Chars)) : ss \in C
    <2> HIDE DEF C
    <2> QED
      BY <1>1, <1>2, SeqInductionOn
  <1>4. Join(texts) \in Seq(Chars)
    BY <1>0, JoinStep
  <1> QED
    BY <1>3, <1>4

\* A function that gives the texts of a page among the first n chunks.
IsCollecting(g, chunks, page) ==
  g = [n \in 0 .. Len(chunks) |->
         IF n = 0 THEN <<>>
         ELSE IF chunks[n].page = page THEN Append(g[n - 1], chunks[n].content)
         ELSE g[n - 1]]

(* text_by_page gives contents of chunks, and every chunk of the page is   *)
(* among them.                                                             *)
LEMMA TextsOfPage ==
  ASSUME NEW chunks \in Seq(Chunks), NEW page
  PROVE  /\ TextByPage(chunks, page) \in Seq(Contents)
         /\ \A k \in 1 .. Len(chunks) : chunks[k].page = page =>
              \E j \in 1 .. Len(TextByPage(chunks, page)) :
                TextByPage(chunks, page)[j] = chunks[k].content
  <1> DEFINE n == Len(chunks)
             Collect(t, i) == IF chunks[i].page = page THEN Append(t, chunks[i].content) ELSE t
             next == [p \in (1 .. n) \X Seq(Contents) |-> Collect(p[2], p[1])]
  <1>1. n \in Nat /\ \A i \in 1 .. n : chunks[i].content \in Contents
    <2>1. n \in Nat /\ \A i \in 1 .. n : chunks[i] \in Chunks
      OBVIOUS
    <2> QED
      BY <2>1 DEF Chunks
  <1>2. ASSUME NEW i \in 1 .. n, NEW t \in Seq(Contents)
        PROVE  Collect(t, i) \in Seq(Contents)
    BY <1>1, AppendProperties
  <1>3. next \in [(1 .. n) \X Seq(Contents) -> Seq(Contents)]
    BY <1>2
  <1>4. <<>> \in Seq(Contents)
    OBVIOUS
  <1>5. PICK g \in [0 .. n -> Seq(Contents)] : IsRecursion(g, n, <<>>, next)
    <2> HIDE DEF n, next
    <2> QED
      BY <1>1, <1>3, <1>4, RecursionExists
  <1>6. /\ g[0] = <<>>
        /\ \A i \in 1 .. n : g[i - 1] \in Seq(Contents) /\ g[i] = Collect(g[i - 1], i)
    <2>1. \A i \in 0 .. n : g[i] = IF i = 0 THEN <<>> ELSE next[<<i, g[i - 1]>>]
      <3> HIDE DEF n, next
      <3> QED
        BY <1>5 DEF IsRecursion
    <2>2. ASSUME NEW i \in 1 .. n
          PROVE  g[i - 1] \in Seq(Contents) /\ g[i] = Collect(g[i - 1], i)
      <3>1. i \in 0 .. n /\ i # 0 /\ i - 1 \in 0 .. n
        BY <1>1
      <3>2. g[i - 1] \in Seq(Contents) /\ g[i] = next[<<i, g[i - 1]>>]
        <4> HIDE DEF next, n
        <4> QED
          BY <1>5, <2>1, <3>1
      <3>3. <<i, g[i - 1]>> \in (1 .. n) \X Seq(Contents)
        BY <3>2
      <3> HIDE DEF Collect
      <3> QED
        BY <3>2, <3>3
    <2>3. g[0] = <<>>
      <3>1. 0 \in 0 .. n
        BY <1>1
      <3> HIDE DEF n, next
      <3> QED
        BY <2>1, <3>1
    <2> QED
      BY <2>2, <2>3
  <1> HIDE DEF next
  <1>7. IsCollecting(g, chunks, page)
    <2>1. \A i \in 0 .. n : g[i] =
            IF i = 0 THEN <<>>
            ELSE IF chunks[i].page = page THEN Append(g[i - 1], chunks[i].content)
            ELSE g[i - 1]
      <3> TAKE i \in 0 .. n
      <3>1. i # 0 => i \in 1 .. n
        BY <1>1
      <3> QED
        BY <1>6, <3>1
    <2> QED
      BY <1>5, <2>1 DEF IsCollecting
  <1> DEFINE d == CHOOSE h : IsCollecting(h, chunks, page)
  <1>8. IsCollecting(d, chunks, page)
    BY <1>7
  <1>9. TextByPage(chunks, page) = d[n]
    BY DEF TextByPage, IsCollecting
  <1>10. d[0] = <<>> /\ \A i \in 1 .. n : d[i] = Collect(d[i - 1], i)
    <2> HIDE DEF d
    <2>1. \A i \in 0 .. n : d[i] =
            IF i = 0 THEN <<>>
            ELSE IF chunks[i].page = page THEN Append(d[i - 1], chunks[i].content)
            ELSE d[i - 1]
      BY <1>8 DEF IsCollecting
    <2>2. 0 \in 0 .. n /\ \A i \in 1 .. n : i \in 0 .. n /\ i # 0
      BY <1>1
    <2> HIDE DEF n
    <2> QED
      BY <2>1, <2>2
  <1>11. TextByPage(chunks, page) = g[n]
    <2> HIDE DEF d, n, Collect
    <2>1. g[0] = d[0] /\ \A i \in 1 .. n : g[i - 1] = d[i - 1] => g[i] = d[i]
      BY <1>6, <1>10
    <2>2. g[n] = d[n]
      BY <1>1, <2>1, SameSteps
    <2> QED
      BY <1>9, <2>2
  <1> HIDE DEF d
  <1> DEFINE Kept(i) == \A k \in 1 .. i : chunks[k].page = page =>
                          \E j \in 1 .. Len(g[i]) : g[i][j] = chunks[k].content
             C == {i \in Nat : i <= n => Kept(i)}
  <1>12. 0 \in C
    OBVIOUS
  <1>13. ASSUME NEW i \in Nat, i \in C
         PROVE  i + 1 \in C
    <2> SUFFICES ASSUME i + 1 <= n
                 PROVE  Kept(i + 1)
      OBVIOUS
    <2>1. i + 1 \in 1 .. n /\ (i + 1) - 1 = i /\ Kept(i)
      BY <1>1, <1>13
    <2>2. g[i] \in Seq(Contents) /\ g[i + 1] = Collect(g[i], i + 1)
      BY <1>6, <2>1
    <2>3. /\ Len(g[i]) \in Nat
          /\ \A j \in 1 .. Len(g[i]) : j \in 1 .. Len(g[i + 1]) /\ g[i + 1][j] = g[i][j]
          /\ chunks[i + 1].page = page =>
               Len(g[i]) + 1 \in 1 .. Len(g[i + 1]) /\ g[i + 1][Len(g[i]) + 1] = chunks[i + 1].content
      <3> DEFINE t == g[i]
                 c == chunks[i + 1].content
      <3>1. t \in Seq(Contents) /\ c \in Contents
        BY <1>1, <2>1, <2>2
      <3> HIDE DEF t, c
      <3>2. /\ Len(t) \in Nat /\ Len(Append(t, c)) = Len(t) + 1 /\ Append(t, c)[Len(t) + 1] = c
            /\ \A j \in 1 .. Len(t) : Append(t, c)[j] = t[j]
        BY <3>1, AppendProperties, LenProperties
      <3>3. g[i + 1] = IF chunks[i + 1].page = page THEN Append(t, c) ELSE t
        BY <2>2 DEF t, c
      <3>4. /\ \A j \in 1 .. Len(t) : j \in 1 .. Len(g[i + 1]) /\ g[i + 1][j] = t[j]
            /\ chunks[i + 1].page = page =>
                 Len(t) + 1 \in 1 .. Len(g[i + 1]) /\ g[i + 1][Len(t) + 1] = c
        BY <3>2, <3>3
      <3> QED
        BY <3>2, <3>4 DEF t, c
    <2> HIDE DEF Collect
    <2>4. ASSUME NEW k \in 1 .. i + 1, chunks[k].page = page
          PROVE  \E j \in 1 .. Len(g[i + 1]) : g[i + 1][j] = chunks[k].content
      <3>1. CASE k = i + 1
        BY <2>3, <2>4, <3>1
      <3>2. CASE k # i + 1
        <4>1. k \in 1 .. i
          BY <3>2
        <4>2. PICK j \in 1 .. Len(g[i]) : g[i][j] = chunks[k].content
          BY <2>1, <2>4, <4>1
        <4> QED
          BY <2>3, <4>2
      <3> QED
        BY <3>1, <3>2
    <2> QED
      BY <2>4
  <1>14. n \in C
    <2> HIDE DEF C
    <2> QED
      BY <1>1, <1>12, <1>13, NatInductionOn
  <1>15. Kept(n)
    BY <1>1, <1>14
  <1>16. g[n] \in Seq(Contents)
    BY <1>1, <1>5
  <1> QED
    BY <1>11, <1>15, <1>16

(* The in of Python: a text occurs in another where its characters are     *)
(* written.                                                                *)
LEMMA OccursAt ==
  ASSUME NEW V, NEW a \in Seq(V), NEW b \in Seq(V)
  PROVE  Occurs(a, b) <=> \E k \in Nat : At(a, b, k)
  <1>0. Len(a) \in Nat /\ Len(b) \in Nat
    OBVIOUS
  <1>1. ASSUME Occurs(a, b) PROVE \E k \in Nat : At(a, b, k)
    <2>1. PICK i \in 0 .. Len(b), j \in 0 .. Len(b) : a = SubSeq(b, i + 1, j)
      BY <1>1 DEF Occurs, SubSeqs
    <2>2. CASE i <= j
      <3>1. Len(a) = j - i /\ \A n \in 1 .. j - i : a[n] = b[i + n]
        BY <2>1, <2>2, SubSeqAt
      <3>2. At(a, b, i)
        BY <1>0, <3>1 DEF At
      <3> QED
        BY <1>0, <3>2
    <2>3. CASE ~(i <= j)
      <3>1. Len(a) = 0
        BY <2>1, <2>3
      <3>2. At(a, b, 0)
        BY <1>0, <3>1 DEF At
      <3> QED
        BY <3>2
    <2> QED
      BY <2>2, <2>3
  <1>2. ASSUME NEW k \in Nat, At(a, b, k) PROVE Occurs(a, b)
    <2> DEFINE j == k + Len(a)
    <2>1. k \in 0 .. Len(b) /\ j \in 0 .. Len(b) /\ k <= j /\ j \in Nat /\ j <= Len(b) /\ j - k = Len(a)
      BY <1>0, <1>2 DEF At
    <2>4. \A i \in 1 .. Len(a) : b[k + i] = a[i]
      BY <1>2 DEF At
    <2> HIDE DEF j
    <2> DEFINE u == SubSeq(b, k + 1, j)
    <2>2. u \in Seq(V) /\ Len(u) = j - k /\ \A i \in 1 .. j - k : u[i] = b[k + i]
      BY <2>1, SubSeqAt
    <2> HIDE DEF u
    <2>3. a = u
      BY <1>0, <2>1, <2>2, <2>4, SeqEqual
    <2> QED
      BY <2>1, <2>3 DEF Occurs, SubSeqs, u
  <1> QED
    BY <1>1, <1>2

\* Where the words of w are written in a text t that joins them: the n-th after pos[n]
\* characters, and a space before each but the first.
Layout(pos, w, t) ==
  /\ pos \in [1 .. Len(w) + 1 -> 0 .. Len(t) + 1]
  /\ pos[1] = 0 /\ pos[Len(w) + 1] = Len(t) + 1
  /\ \A n \in 1 .. Len(w) : pos[n + 1] = pos[n] + Len(w[n]) + 1
  /\ \A n \in 1 .. Len(w) : \A k \in 1 .. Len(w[n]) : t[pos[n] + k] = w[n][k]
  /\ \A n \in 2 .. Len(w) : t[pos[n]] = Space

(* A single word is written at the start.                                  *)
LEMMA LayoutOfOne ==
  ASSUME NEW s \in Word
  PROVE  \E pos : Layout(pos, <<s>>, s)
  <1> DEFINE w == <<s>>
             pos == [n \in 1 .. 2 |-> IF n = 1 THEN 0 ELSE Len(s) + 1]
  <1>1. s \in Seq(Letters) /\ Len(s) \in Nat
    BY DEF Word
  <1>2. Len(w) = 1 /\ w[1] = s
    OBVIOUS
  <1>3. pos \in [1 .. 2 -> 0 .. Len(s) + 1] /\ pos[1] = 0 /\ pos[2] = Len(s) + 1
    BY <1>1
  <1> HIDE DEF pos, w
  <1>4. 1 .. Len(w) + 1 = 1 .. 2 /\ (\A n \in 1 .. Len(w) : n = 1) /\ ~\E n \in 2 .. Len(w) : TRUE
    BY <1>2
  <1>5. \A n \in 1 .. Len(w) : pos[n + 1] = pos[n] + Len(w[n]) + 1
    BY <1>1, <1>2, <1>3, <1>4
  <1>6. \A n \in 1 .. Len(w) : \A k \in 1 .. Len(w[n]) : s[pos[n] + k] = w[n][k]
    BY <1>1, <1>2, <1>3, <1>4
  <1>7. Layout(pos, w, s)
    BY <1>2, <1>3, <1>4, <1>5, <1>6 DEF Layout
  <1> QED
    BY <1>7 DEF w

(* One more word is written after a space at the end.                      *)
LEMMA LayoutOfMore ==
  ASSUME NEW v \in Seq(Word), v # <<>>, NEW s \in Word, NEW t \in Seq(Chars), NEW pos, Layout(pos, v, t)
  PROVE  \E more : Layout(more, Append(v, s), t \o (<<Space>> \o s))
  <1> DEFINE n == Len(v)
             m == Len(t)
             l == Len(s)
             w == Append(v, s)
             u == t \o (<<Space>> \o s)
             more == [i \in 1 .. n + 2 |-> IF i = n + 2 THEN m + l + 2 ELSE pos[i]]
  <1>1. /\ n \in Nat /\ n > 0 /\ m \in Nat /\ l \in Nat /\ s \in Seq(Chars) /\ Space \in Chars
    <2>1. s \in Seq(Chars) /\ Space \in Chars
      BY WordsAreTexts, Characters
    <2> QED
      BY <2>1, EmptySeq
  <1>2. /\ Len(u) = m + l + 1
        /\ \A i \in 1 .. m : u[i] = t[i]
        /\ u[m + 1] = Space
        /\ \A k \in 1 .. l : u[m + 1 + k] = s[k]
    <2> DEFINE y == <<Space>> \o s
    <2>1. y \in Seq(Chars) /\ Len(y) = l + 1 /\ y[1] = Space /\ \A k \in 1 .. l : y[1 + k] = s[k]
      BY <1>1
    <2> HIDE DEF y
    <2>2. /\ Len(t \o y) = m + (l + 1)
          /\ \A i \in 1 .. m : (t \o y)[i] = t[i]
          /\ \A i \in 1 .. l + 1 : (t \o y)[m + i] = y[i]
      <3> DEFINE c == t \o y
      <3>1. /\ Len(c) = Len(t) + Len(y)
            /\ \A i \in 1 .. Len(t) + Len(y) : c[i] = IF i <= Len(t) THEN t[i] ELSE y[i - Len(t)]
        BY <2>1, ConcatProperties
      <3> HIDE DEF c
      <3>2. \A i \in 1 .. l + 1 :
              m + i \in 1 .. Len(t) + Len(y) /\ ~(m + i <= Len(t)) /\ (m + i) - Len(t) = i
        BY <1>1, <2>1
      <3>3. \A i \in 1 .. l + 1 : c[m + i] = y[i]
        BY <3>1, <3>2
      <3>4. Len(c) = m + (l + 1) /\ \A i \in 1 .. m : c[i] = t[i]
        BY <1>1, <2>1, <3>1
      <3> QED
        BY <3>3, <3>4 DEF c
    <2> DEFINE c == t \o y
    <2>3. u = c
      BY DEF y
    <2>5. Len(c) = m + (l + 1) /\ (\A i \in 1 .. m : c[i] = t[i])
          /\ \A i \in 1 .. l + 1 : c[m + i] = y[i]
      BY <2>2
    <2> HIDE DEF c, u
    <2>4. \A k \in 1 .. l : m + 1 + k = m + (1 + k) /\ 1 + k \in 1 .. l + 1
      BY <1>1
    <2>6. 1 \in 1 .. l + 1
      BY <1>1
    <2> HIDE DEF m, l
    <2>7. \A k \in 1 .. l : c[m + 1 + k] = s[k]
      BY <2>1, <2>4, <2>5
    <2>8. c[m + 1] = Space /\ Len(c) = m + l + 1
      BY <1>1, <2>1, <2>5, <2>6
    <2> QED
      BY <2>3, <2>5, <2>7, <2>8
  <1>3. /\ Len(w) = n + 1 /\ w[n + 1] = s /\ \A i \in 1 .. n : w[i] = v[i] /\ v[i] \in Word
    OBVIOUS
  <1> HIDE DEF u, w
  <1>4. /\ pos \in [1 .. n + 1 -> 0 .. m + 1]
        /\ pos[1] = 0 /\ pos[n + 1] = m + 1
        /\ \A i \in 1 .. n : pos[i + 1] = pos[i] + Len(v[i]) + 1
        /\ \A i \in 1 .. n : \A k \in 1 .. Len(v[i]) : t[pos[i] + k] = v[i][k]
        /\ \A i \in 2 .. n : t[pos[i]] = Space
    BY DEF Layout
  <1> HIDE DEF n, m, l
  <1>5. \A i \in 1 .. n : Len(v[i]) \in Nat
    BY <1>3 DEF Word
  <1>6. /\ more \in [1 .. n + 2 -> 0 .. m + l + 2]
        /\ more[n + 2] = m + l + 2 /\ \A i \in 1 .. n + 1 : more[i] = pos[i] /\ pos[i] \in 0 .. m + 1
    BY <1>1, <1>4
  <1> HIDE DEF more
  <1>7. ASSUME NEW i \in 1 .. n + 1
        PROVE  more[i + 1] = more[i] + Len(w[i]) + 1
    <2>1. CASE i = n + 1
      <3>1. w[i] = s /\ Len(s) = l /\ i + 1 = n + 2 /\ more[i] = m + 1
        BY <1>1, <1>3, <1>4, <1>6, <2>1 DEF l
      <3>2. more[i + 1] = m + l + 2
        BY <1>6, <3>1
      <3> QED
        BY <1>1, <3>1, <3>2
    <2>2. CASE i # n + 1
      <3>1. i \in 1 .. n /\ i \in 1 .. n + 1 /\ i + 1 \in 1 .. n + 1
        BY <1>1, <2>2
      <3> QED
        BY <1>3, <1>4, <1>6, <3>1
    <2> QED
      BY <2>1, <2>2
  <1>8. ASSUME NEW i \in 1 .. n + 1, NEW k \in 1 .. Len(w[i])
        PROVE  u[more[i] + k] = w[i][k]
    <2>1. CASE i = n + 1
      <3>1. w[i] = s /\ Len(s) = l /\ more[i] = m + 1
        BY <1>1, <1>3, <1>4, <1>6, <2>1 DEF l
      <3> QED
        BY <1>2, <3>1
    <2>2. CASE i # n + 1
      <3>1. i \in 1 .. n /\ i + 1 \in 1 .. n + 1 /\ w[i] = v[i] /\ more[i] = pos[i]
        BY <1>1, <1>3, <1>6, <2>2
      <3>2. pos[i + 1] \in 0 .. m + 1 /\ pos[i] \in 0 .. m + 1 /\ pos[i + 1] = pos[i] + Len(v[i]) + 1
        BY <1>4, <1>6, <3>1
      <3>3. pos[i] + k \in 1 .. m
        <4> DEFINE p == pos[i]
                   q == pos[i + 1]
                   r == Len(v[i])
        <4>1. p \in 0 .. m + 1 /\ q \in 0 .. m + 1 /\ q = p + r + 1 /\ r \in Nat /\ k \in 1 .. r
          BY <1>5, <3>1, <3>2
        <4> HIDE DEF p, q, r
        <4>2. p + k \in 1 .. m
          BY <1>1, <4>1
        <4> QED
          BY <4>2 DEF p
      <3>4. t[pos[i] + k] = v[i][k]
        BY <1>4, <3>1
      <3> QED
        BY <1>2, <3>1, <3>3, <3>4
    <2> QED
      BY <2>1, <2>2
  <1>9. ASSUME NEW i \in 2 .. n + 1
        PROVE  u[more[i]] = Space
    <2>1. CASE i = n + 1
      BY <1>1, <1>2, <1>4, <1>6, <2>1
    <2>2. CASE i # n + 1
      <3>1. i \in 2 .. n /\ i \in 1 .. n + 1 /\ i - 1 \in 1 .. n /\ (i - 1) + 1 = i
            /\ i - 1 \in 1 .. n + 1 /\ i + 1 \in 1 .. n + 1
            /\ i \in 1 .. n
        BY <1>1, <2>2
      <3>2. pos[i] = pos[i - 1] + Len(v[i - 1]) + 1 /\ pos[i + 1] = pos[i] + Len(v[i]) + 1
        BY <1>4, <3>1
      <3>3. pos[i] \in 1 .. m
        <4> DEFINE o == pos[i - 1]
                   p == pos[i]
                   q == pos[i + 1]
                   r == Len(v[i - 1])
                   z == Len(v[i])
        <4>1. /\ o \in 0 .. m + 1 /\ p \in 0 .. m + 1 /\ q \in 0 .. m + 1
              /\ q = p + z + 1 /\ z \in Nat /\ p = o + r + 1 /\ r \in Nat
          BY <1>5, <1>6, <3>1, <3>2
        <4> HIDE DEF o, p, q, r, z
        <4>2. p \in 1 .. m
          BY <1>1, <4>1
        <4> QED
          BY <4>2 DEF p
      <3> QED
        BY <1>2, <1>4, <1>6, <3>1, <3>3
    <2> QED
      BY <2>1, <2>2
  <1>10. more[1] = 0 /\ more[n + 2] = Len(u) + 1 /\ Len(w) + 1 = n + 2 /\ Len(u) + 1 = m + l + 2
    BY <1>1, <1>2, <1>3, <1>4, <1>6
  <1>11. more \in [1 .. Len(w) + 1 -> 0 .. Len(u) + 1]
    BY <1>6, <1>10
  <1>12. Layout(more, w, u)
    <2>1. more[1] = 0 /\ more[Len(w) + 1] = Len(u) + 1
      BY <1>10
    <2>2. Len(w) = n + 1
      BY <1>3
    <2> QED
      BY <1>7, <1>8, <1>9, <1>11, <2>1, <2>2 DEF Layout
  <1> QED
    BY <1>12 DEF w, u

(* Every joined text has such a layout: by induction over its words.       *)
LEMMA LayoutExists ==
  ASSUME NEW words \in Seq(Word), words # <<>>
  PROVE  Join(words) \in Seq(Chars) /\ \E pos : Layout(pos, words, Join(words))
  <1> DEFINE C == {w \in Seq(Word) :
                     w # <<>> => Join(w) \in Seq(Chars) /\ \E pos : Layout(pos, w, Join(w))}
  <1>1. <<>> \in C
    OBVIOUS
  <1>2. ASSUME NEW v \in Seq(Word), NEW s \in Word, v \in C
        PROVE  Append(v, s) \in C
    <2>1. Append(v, s) \in Seq(Word)
      OBVIOUS
    <2>2. v \in Seq(Seq(Chars)) /\ s \in Seq(Chars) /\ Space \in Chars
      BY WordsAreTexts, Characters
    <2>3. Append(v, s) \in Seq(Seq(Chars))
      BY <2>1, WordsAreTexts
    <2>4. Join(Append(v, s)) \in Seq(Chars)
      BY <2>2, <2>3, JoinStep
    <2>5. CASE v = <<>>
      <3>1. Join(Append(v, s)) = s
        BY <2>2, <2>5, JoinCat
      <3>2. Append(v, s) = <<s>>
        BY <2>5
      <3> QED
        BY <2>1, <2>4, <3>1, <3>2, LayoutOfOne
    <2>6. CASE v # <<>>
      <3>1. Join(Append(v, s)) = Join(v) \o (<<Space>> \o s)
        <4>1. Join(Append(v, s)) = Cat(Join(v), Cat(<<Space>>, s))
          BY <2>2, <2>6, JoinCat
        <4> QED
          BY <4>1 DEF Cat
      <3> DEFINE t == Join(v)
      <3>2. t \in Seq(Chars)
        BY <1>2, <2>6
      <3>3. PICK pos : Layout(pos, v, t)
        BY <1>2, <2>6
      <3> HIDE DEF t
      <3>4. \E more : Layout(more, Append(v, s), t \o (<<Space>> \o s))
        BY <2>6, <3>2, <3>3, LayoutOfMore
      <3>5. \E more : Layout(more, Append(v, s), Join(Append(v, s)))
        BY <3>1, <3>4 DEF t
      <3> QED
        BY <2>1, <2>4, <3>5
    <2> QED
      BY <2>5, <2>6
  <1>3. \A w \in Seq(Word) : w \in C
    <2> HIDE DEF C
    <2> QED
      BY <1>1, <1>2, SeqInductionOn
  <1> QED
    BY <1>3

(* What a layout says of the n-th word: its letters are no spaces, and     *)
(* after it there is a space or the end.                                   *)
LEMMA LayoutFacts ==
  ASSUME NEW w \in Seq(Word), NEW t, NEW pos, Layout(pos, w, t), Len(t) \in Nat, NEW n \in 1 .. Len(w)
  PROVE  /\ pos[n] \in Nat /\ pos[n + 1] \in Nat /\ pos[n + 1] <= Len(t) + 1
         /\ Len(w[n]) \in Nat /\ Len(w[n]) > 0 /\ pos[n + 1] = pos[n] + Len(w[n]) + 1
         /\ \A k \in 1 .. Len(w[n]) : t[pos[n] + k] = w[n][k] /\ t[pos[n] + k] # Space
         /\ n < Len(w) => t[pos[n + 1]] = Space /\ pos[n + 1] <= Len(t)
         /\ n = Len(w) => pos[n + 1] = Len(t) + 1
  <1> DEFINE l == Len(w)
             m == Len(t)
  <1>1. /\ pos \in [1 .. l + 1 -> 0 .. m + 1]
        /\ pos[l + 1] = m + 1
        /\ \A i \in 1 .. l : pos[i + 1] = pos[i] + Len(w[i]) + 1
        /\ \A i \in 1 .. l : \A k \in 1 .. Len(w[i]) : t[pos[i] + k] = w[i][k]
        /\ \A i \in 2 .. l : t[pos[i]] = Space
    BY DEF Layout
  <1>2. l \in Nat /\ m \in Nat
    OBVIOUS
  <1>3. ASSUME NEW i \in 1 .. l
        PROVE  w[i] \in Seq(Letters) /\ Len(w[i]) \in Nat /\ Len(w[i]) > 0
    <2>1. w[i] \in Word
      BY <1>3
    <2> DEFINE x == w[i]
    <2> HIDE DEF x
    <2>2. x \in Word => x \in Seq(Letters) /\ Len(x) \in Nat /\ Len(x) > 0
      BY EmptySeq DEF Word
    <2> QED
      BY <2>1, <2>2 DEF x
  <1> HIDE DEF l, m
  <1>n. n \in 1 .. l
    BY DEF l
  <1>4. /\ n \in 1 .. l + 1 /\ n + 1 \in 1 .. l + 1
        /\ n < l => n + 1 \in 2 .. l /\ n + 1 \in 1 .. l /\ n + 1 + 1 \in 1 .. l + 1
    BY <1>n, <1>2
  <1>5. pos[n] \in 0 .. m + 1 /\ pos[n + 1] \in 0 .. m + 1
    BY <1>1, <1>4
  <1>6. \A k \in 1 .. Len(w[n]) : w[n][k] \in Letters
    BY <1>3, <1>n
  <1>7. Space \notin Letters
    BY Characters
  <1>8. ASSUME n < l
        PROVE  t[pos[n + 1]] = Space /\ pos[n + 1] <= m
    <2>1. t[pos[n + 1]] = Space
      BY <1>1, <1>4, <1>8
    <2>2. pos[n + 1 + 1] \in 0 .. m + 1 /\ pos[n + 1 + 1] = pos[n + 1] + Len(w[n + 1]) + 1
          /\ Len(w[n + 1]) \in Nat /\ Len(w[n + 1]) > 0
      BY <1>1, <1>3, <1>4, <1>8
    <2> QED
      BY <1>2, <1>5, <2>1, <2>2
  <1>9. n = l => pos[n + 1] = m + 1
    BY <1>1
  <1>10. Len(w[n]) \in Nat /\ Len(w[n]) > 0 /\ pos[n + 1] = pos[n] + Len(w[n]) + 1
         /\ \A k \in 1 .. Len(w[n]) : t[pos[n] + k] = w[n][k]
    BY <1>1, <1>3, <1>n
  <1>11. \A k \in 1 .. Len(w[n]) : t[pos[n] + k] # Space
    BY <1>6, <1>7, <1>10
  <1>12. pos[n] \in Nat /\ pos[n + 1] \in Nat /\ pos[n + 1] <= m + 1
    BY <1>2, <1>5
  <1> QED
    BY <1>8, <1>9, <1>10, <1>11, <1>12 DEF l, m

(* Each character belongs to a word or is the space or the end after one.  *)
LEMMA Covered ==
  ASSUME NEW w \in Seq(Word), NEW t, NEW pos, Layout(pos, w, t), Len(t) \in Nat,
         NEW j \in 1 .. Len(t), Len(w) > 0
  PROVE  \E n \in 1 .. Len(w) : pos[n] < j /\ j <= pos[n + 1]
  <1> DEFINE l == Len(w)
             C == {i \in Nat : i \in 1 .. l /\ j <= pos[i + 1] =>
                                 \E n \in 1 .. l : pos[n] < j /\ j <= pos[n + 1]}
  <1>1. pos[1] = 0 /\ l \in Nat
    BY DEF Layout
  <1>2. \A n \in 1 .. l : pos[n] \in Nat /\ pos[n + 1] \in Nat
    BY LayoutFacts
  <1>3. pos[l + 1] = Len(t) + 1
    BY DEF Layout
  <1> HIDE DEF l
  <1>4. 0 \in C
    BY <1>1
  <1>5. ASSUME NEW i \in Nat, i \in C
        PROVE  i + 1 \in C
    <2> SUFFICES ASSUME i + 1 \in 1 .. l, j <= pos[i + 1 + 1]
                 PROVE  \E n \in 1 .. l : pos[n] < j /\ j <= pos[n + 1]
      OBVIOUS
    <2>1. CASE pos[i + 1] < j
      BY <2>1
    <2>2. CASE ~(pos[i + 1] < j)
      <3>1. j <= pos[i + 1]
        BY <1>2, <2>2
      <3>2. i # 0
        BY <1>1, <3>1
      <3>3. i \in 1 .. l
        BY <1>1, <3>2
      <3> QED
        BY <1>5, <3>1, <3>3
    <2> QED
      BY <2>1, <2>2
  <1>6. \A i \in Nat : i \in C
    <2> HIDE DEF C
    <2> QED
      BY <1>4, <1>5, NatInductionOn
  <1>7. l \in C /\ l \in 1 .. l /\ j <= pos[l + 1]
    <2>1. l > 0
      BY DEF l
    <2> QED
      BY <1>1, <1>3, <1>6, <2>1
  <1> QED
    BY <1>7 DEF l

(* Both texts have their spaces in the same places: a word of the part     *)
(* that begins within a word of the text ends where that one ends, or      *)
(* before it if it is the last.                                            *)
LEMMA SameGap ==
  ASSUME NEW w \in Seq(Word), NEW t, NEW pos, Layout(pos, w, t), Len(t) \in Nat,
         NEW p \in Seq(Word), NEW s, NEW q, Layout(q, p, s), Len(s) \in Nat,
         NEW K \in Nat, At(s, t, K),
         NEW n \in 1 .. Len(p), NEW m \in 1 .. Len(w),
         pos[m] <= K + q[n], K + q[n] + 1 < pos[m + 1]
  PROVE  /\ K + q[n + 1] <= pos[m + 1]
         /\ n < Len(p) => K + q[n + 1] = pos[m + 1] /\ m < Len(w)
         /\ \A k \in 1 .. Len(p[n]) : w[m][(K + q[n] - pos[m]) + k] = p[n][k]
  <1> DEFINE a == pos[m]
             b == pos[m + 1]
             c == q[n]
             d == q[n + 1]
             x == Len(w[m])
             y == Len(p[n])
             lt == Len(t)
             ls == Len(s)
  <1>1. /\ a \in Nat /\ b \in Nat /\ b <= lt + 1 /\ x \in Nat /\ x > 0 /\ b = a + x + 1
        /\ \A k \in 1 .. x : t[a + k] = w[m][k] /\ t[a + k] # Space
        /\ m < Len(w) => t[b] = Space /\ b <= lt
        /\ m = Len(w) => b = lt + 1
    <2>1. a \in Nat /\ b \in Nat /\ b <= lt + 1 /\ x \in Nat /\ x > 0 /\ b = a + x + 1
      BY LayoutFacts
    <2>3. \A k \in 1 .. x : t[a + k] = w[m][k] /\ t[a + k] # Space
      BY LayoutFacts
    <2>2. /\ m < Len(w) => t[b] = Space /\ b <= lt
          /\ m = Len(w) => b = lt + 1
      BY LayoutFacts
    <2> QED
      BY <2>1, <2>2, <2>3
  <1>2. /\ c \in Nat /\ d \in Nat /\ d <= ls + 1 /\ y \in Nat /\ y > 0 /\ d = c + y + 1
        /\ \A k \in 1 .. y : s[c + k] = p[n][k] /\ s[c + k] # Space
        /\ n < Len(p) => s[d] = Space /\ d <= ls
    BY LayoutFacts
  <1>3. K + ls <= lt /\ \A i \in 1 .. ls : t[K + i] = s[i]
    BY DEF At
  <1>4. a <= K + c /\ K + c + 1 < b /\ ls \in Nat /\ lt \in Nat
    OBVIOUS
  <1>l. Len(w) \in Nat /\ Len(p) \in Nat
    OBVIOUS
  <1> HIDE DEF a, b, c, d, x, y, lt, ls
  <1>5. \A k \in 1 .. y : t[K + c + k] = p[n][k] /\ t[K + c + k] # Space
    <2> TAKE k \in 1 .. y
    <2>1. c + k \in 1 .. ls /\ K + (c + k) = K + c + k
      BY <1>2, <1>4
    <2> QED
      BY <1>2, <1>3, <2>1
  <1>6. K + d <= b
    <2> SUFFICES ASSUME b < K + d
                 PROVE  FALSE
      BY <1>1, <1>2
    <2>1. b < lt + 1
      BY <1>1, <1>2, <1>3, <1>4
    <2>2. m < Len(w)
      BY <1>1, <1>l, <2>1
    <2>3. t[b] = Space
      BY <1>1, <2>2
    <2> DEFINE k == b - (K + c)
    <2>4. k \in 1 .. y /\ K + c + k = b
      BY <1>1, <1>2, <1>4
    <2> HIDE DEF k
    <2> QED
      BY <1>5, <2>3, <2>4
  <1>7. ASSUME n < Len(p)
        PROVE  K + d = b /\ m < Len(w)
    <2>1. s[d] = Space /\ d <= ls
      BY <1>2, <1>7
    <2>2. d \in 1 .. ls
      BY <1>2, <1>4, <2>1
    <2>3. t[K + d] = Space
      BY <1>3, <2>1, <2>2
    <2>4. ASSUME K + d < b
          PROVE  FALSE
      <3> DEFINE k == (K + d) - a
      <3>1. k \in 1 .. x /\ a + k = K + d
        BY <1>1, <1>2, <1>4, <2>4
      <3> HIDE DEF k
      <3> QED
        BY <1>1, <2>3, <3>1
    <2>5. K + d = b
      BY <1>1, <1>2, <1>6, <2>4
    <2>6. b <= lt
      BY <1>1, <1>2, <1>3, <1>4, <2>1, <2>5
    <2>7. m # Len(w)
      BY <1>1, <1>4, <2>6
    <2> QED
      BY <1>l, <2>5, <2>7
  <1>8. ASSUME NEW k \in 1 .. y
        PROVE  w[m][(K + c - a) + k] = p[n][k]
    <2> DEFINE j == (K + c - a) + k
    <2>1. j \in 1 .. x /\ a + j = K + c + k
      BY <1>1, <1>2, <1>4, <1>6
    <2>2. t[a + j] = w[m][j]
      <3> HIDE DEF j
      <3> QED
        BY <1>1, <2>1
    <2> QED
      BY <1>5, <2>1, <2>2
  <1> QED
    BY <1>6, <1>7, <1>8 DEF a, b, c, d, y

\* Where the n-th word of a part begins in its word of the text, if its first begins after o
\* letters.
Begin(n, o) == IF n = 1 THEN o ELSE 0

\* The words of a part lie on those of the text after the i-th.
Aligned(w, p, i, o) ==
  /\ i + Len(p) <= Len(w)
  /\ \A n \in 1 .. Len(p) : /\ At(p[n], w[i + n], Begin(n, o))
                            /\ n < Len(p) => Begin(n, o) + Len(p[n]) = Len(w[i + n])

(* That is what Excerpts says of words.                                    *)
LEMMA AlignedExcerpts ==
  ASSUME NEW V, NEW w \in Seq(Seq(V)), NEW p \in Seq(Seq(V)), p # <<>>
  PROVE  Excerpts(w, p) <=> \E i \in Nat : \E o \in Nat : Aligned(w, p, i, o)
  <1> DEFINE l == Len(p)
  <1>0. l \in Nat /\ l > 0 /\ Len(w) \in Nat
    BY EmptySeq
  <1>1. /\ \A n \in 1 .. l : p[n] \in Seq(V) /\ Len(p[n]) \in Nat
        /\ \A n \in 1 .. Len(w) : w[n] \in Seq(V) /\ Len(w[n]) \in Nat
    <2>1. \A x \in Seq(V) : Len(x) \in Nat
      OBVIOUS
    <2>2. (\A n \in 1 .. l : p[n] \in Seq(V)) /\ \A n \in 1 .. Len(w) : w[n] \in Seq(V)
      <3> DEFINE U == Seq(V)
      <3>1. w \in Seq(U) /\ p \in Seq(U)
        OBVIOUS
      <3> HIDE DEF U
      <3>2. (\A n \in 1 .. Len(p) : p[n] \in U) /\ \A n \in 1 .. Len(w) : w[n] \in U
        BY <3>1
      <3> QED
        BY <3>2 DEF U
    <2> QED
      BY <2>1, <2>2
  <1>2. Last(p) = p[l]
    BY DEF Last
  <1> HIDE DEF l
  <1>3. ASSUME NEW i \in 0 .. Len(w) - l
        PROVE  \A n \in 1 .. l : i + n \in 1 .. Len(w)
    BY <1>0, <1>3
  <1>4. ASSUME Excerpts(w, p)
        PROVE  \E i \in Nat : \E o \in Nat : Aligned(w, p, i, o)
    <2>1. PICK i \in 0 .. Len(w) - l :
            IF l = 1 THEN Occurs(p[1], w[i + 1])
            ELSE /\ IsSuffix(p[1], w[i + 1])
                 /\ \A n \in 2 .. l - 1 : p[n] = w[i + n]
                 /\ IsPrefix(p[l], w[i + l])
      BY <1>2, <1>4 DEF Excerpts, l
    <2>2. i \in Nat /\ i + l <= Len(w) /\ \A n \in 1 .. l : i + n \in 1 .. Len(w) /\ w[i + n] \in Seq(V)
      BY <1>0, <1>1, <1>3
    <2>3. 1 \in 1 .. l /\ l \in 1 .. l
      BY <1>0
    <2>4. CASE l = 1
      <3>1. PICK o \in Nat : At(p[1], w[i + 1], o)
        BY <1>1, <2>1, <2>2, <2>3, <2>4, OccursAt
      <3>2. Aligned(w, p, i, o)
        BY <2>2, <2>4, <3>1 DEF Aligned, Begin, l
      <3> QED
        BY <2>2, <3>2
    <2>5. CASE l # 1
      <3> DEFINE o == Len(w[i + 1]) - Len(p[1])
      <3>1. Len(p[1]) <= Len(w[i + 1]) /\ At(p[1], w[i + 1], o)
        BY <1>1, <2>1, <2>2, <2>3, <2>5, SuffixAt
      <3>2. At(p[l], w[i + l], 0)
        BY <1>1, <2>1, <2>2, <2>3, <2>5, PrefixAt
      <3>3. o \in Nat /\ o + Len(p[1]) = Len(w[i + 1])
        BY <1>1, <2>2, <2>3, <3>1
      <3> HIDE DEF o
      <3>4. ASSUME NEW n \in 1 .. l
            PROVE  At(p[n], w[i + n], Begin(n, o)) /\ (n < l => Begin(n, o) + Len(p[n]) = Len(w[i + n]))
        <4>1. CASE n = 1
          BY <3>1, <3>3, <4>1 DEF Begin
        <4>2. CASE n = l /\ n # 1
          BY <1>0, <3>2, <4>2 DEF Begin
        <4>3. CASE n # 1 /\ n # l
          <5>1. n \in 2 .. l - 1
            BY <1>0, <4>3
          <5>2. p[n] = w[i + n]
            BY <2>1, <2>5, <5>1
          <5>3. 0 + Len(p[n]) = Len(p[n])
            BY <1>1
          <5>4. At(p[n], p[n], 0)
            BY <1>1 DEF At
          <5> QED
            BY <4>3, <5>2, <5>3, <5>4 DEF Begin
        <4> QED
          BY <4>1, <4>2, <4>3
      <3>5. Aligned(w, p, i, o)
        BY <2>2, <3>4 DEF Aligned, l
      <3> QED
        BY <2>2, <3>3, <3>5
    <2> QED
      BY <2>4, <2>5
  <1>5. ASSUME NEW i \in Nat, NEW o \in Nat, Aligned(w, p, i, o)
        PROVE  Excerpts(w, p)
    <2>1. i + l <= Len(w) /\ i \in 0 .. Len(w) - l
      BY <1>0, <1>5 DEF Aligned, l
    <2>2. \A n \in 1 .. l : i + n \in 1 .. Len(w) /\ w[i + n] \in Seq(V) /\ Len(w[i + n]) \in Nat
      BY <1>1, <1>3, <2>1
    <2>3. 1 \in 1 .. l /\ l \in 1 .. l
      BY <1>0
    <2>4. \A n \in 1 .. l : /\ At(p[n], w[i + n], Begin(n, o))
                            /\ n < l => Begin(n, o) + Len(p[n]) = Len(w[i + n])
      BY <1>5 DEF Aligned, l
    <2>5. CASE l = 1
      <3>1. At(p[1], w[i + 1], o)
        BY <2>3, <2>4 DEF Begin
      <3>2. Occurs(p[1], w[i + 1])
        BY <1>1, <2>2, <2>3, <3>1, OccursAt
      <3> QED
        BY <2>1, <2>5, <3>2 DEF Excerpts, l
    <2>6. CASE l # 1
      <3>1. At(p[1], w[i + 1], o) /\ o + Len(p[1]) = Len(w[i + 1])
        <4>1. 1 < l
          BY <1>0, <2>6
        <4>2. Begin(1, o) = o
          BY DEF Begin
        <4> QED
          BY <2>3, <2>4, <4>1, <4>2
      <3>2. IsSuffix(p[1], w[i + 1])
        <4>1. Len(p[1]) <= Len(w[i + 1]) /\ o = Len(w[i + 1]) - Len(p[1])
          BY <1>1, <2>2, <2>3, <3>1
        <4> QED
          BY <1>1, <2>2, <2>3, <3>1, <4>1, SuffixAt
      <3>3. IsPrefix(p[l], w[i + l])
        <4>1. At(p[l], w[i + l], 0)
          BY <2>3, <2>4, <2>6 DEF Begin
        <4> QED
          BY <1>1, <2>2, <2>3, <4>1, PrefixAt
      <3>4. ASSUME NEW n \in 2 .. l - 1
            PROVE  p[n] = w[i + n]
        <4>1. n \in 1 .. l /\ n < l /\ n # 1
          BY <1>0
        <4>2. At(p[n], w[i + n], 0) /\ 0 + Len(p[n]) = Len(w[i + n])
          BY <2>4, <4>1 DEF Begin
        <4> DEFINE x == p[n]
                   y == w[i + n]
        <4>3. x \in Seq(V) /\ y \in Seq(V) /\ Len(x) = Len(y) /\ Len(x) \in Nat
              /\ At(x, y, 0)
          BY <1>1, <2>2, <4>1, <4>2
        <4> HIDE DEF x, y
        <4>4. \A k \in 1 .. Len(x) : 0 + k = k
          BY <4>3
        <4>5. \A k \in 1 .. Len(x) : y[k] = x[k]
          BY <4>3, <4>4 DEF At
        <4>6. x = y
          BY <4>3, <4>5, SeqEqual
        <4> QED
          BY <4>6 DEF x, y
      <3> QED
        BY <1>2, <2>1, <2>6, <3>2, <3>3, <3>4 DEF Excerpts, l
    <2> QED
      BY <2>5, <2>6
  <1> QED
    BY <1>4, <1>5

(* So its letters are those of that word, from where it begins, up to its  *)
(* end if it is not the last.                                              *)
LEMMA SameWord ==
  ASSUME NEW w \in Seq(Word), NEW t, NEW pos, Layout(pos, w, t), Len(t) \in Nat,
         NEW p \in Seq(Word), NEW s, NEW q, Layout(q, p, s), Len(s) \in Nat,
         NEW K \in Nat, At(s, t, K),
         NEW n \in 1 .. Len(p), NEW m \in 1 .. Len(w),
         pos[m] <= K + q[n], K + q[n] + 1 < pos[m + 1]
  PROVE  /\ K + q[n] - pos[m] \in Nat
         /\ At(p[n], w[m], K + q[n] - pos[m])
         /\ n < Len(p) => K + q[n] - pos[m] + Len(p[n]) = Len(w[m])
  <1> DEFINE a == pos[m]
             b == pos[m + 1]
             c == q[n]
             d == q[n + 1]
             x == Len(w[m])
             y == Len(p[n])
  <1>1. a \in Nat /\ b \in Nat /\ x \in Nat /\ b = a + x + 1
    <2>1. pos[m] \in Nat /\ pos[m + 1] \in Nat
      BY LayoutFacts
    <2>2. Len(w[m]) \in Nat /\ pos[m + 1] = pos[m] + Len(w[m]) + 1
      BY LayoutFacts
    <2> QED
      BY <2>1, <2>2
  <1>2. c \in Nat /\ d \in Nat /\ y \in Nat /\ d = c + y + 1
    <2>1. q[n] \in Nat /\ q[n + 1] \in Nat
      BY LayoutFacts
    <2>2. Len(p[n]) \in Nat /\ q[n + 1] = q[n] + Len(p[n]) + 1
      BY LayoutFacts
    <2> QED
      BY <2>1, <2>2
  <1>3. /\ K + d <= b
        /\ n < Len(p) => K + d = b
        /\ \A k \in 1 .. y : w[m][(K + c - a) + k] = p[n][k]
    BY SameGap
  <1>4. a <= K + c
    OBVIOUS
  <1> HIDE DEF a, b, c, d, x, y
  <1>5. K + c - a \in Nat /\ K + c - a + y <= x /\ (n < Len(p) => K + c - a + y = x)
    <2>1. K + c - a \in Nat /\ K + c - a + y <= x
      BY <1>1, <1>2, <1>3, <1>4
    <2>2. ASSUME K + d = b PROVE K + c - a + y = x
      BY <1>1, <1>2, <2>2
    <2> QED
      BY <1>3, <2>1, <2>2
  <1> QED
    BY <1>3, <1>5 DEF At, a, c, x, y

(* What occurs in a joined text has its words on those of the text: by     *)
(* induction over the words of the part, each beginning where the one      *)
(* before ended.                                                           *)
LEMMA OccurrenceIsAligned ==
  ASSUME NEW w \in Seq(Word), NEW t, NEW pos, Layout(pos, w, t), Len(t) \in Nat, w # <<>>,
         NEW p \in Seq(Word), NEW s, NEW q, Layout(q, p, s), Len(s) \in Nat, p # <<>>,
         NEW K \in Nat, At(s, t, K)
  PROVE  \E i \in Nat : \E o \in Nat : Aligned(w, p, i, o)
  <1>1. Len(w) \in Nat /\ Len(w) > 0 /\ Len(p) \in Nat /\ Len(p) > 0
    BY EmptySeq
  <1>2. q[1] = 0 /\ pos[1] = 0
    BY DEF Layout
  <1>3. 1 \in 1 .. Len(p)
    BY <1>1
  <1>4. /\ q[2] \in Nat /\ q[2] <= Len(s) + 1 /\ Len(p[1]) \in Nat /\ Len(p[1]) > 0
        /\ q[2] = Len(p[1]) + 1 /\ s[1] # Space
    <2>1. /\ q[1 + 1] \in Nat /\ q[1 + 1] <= Len(s) + 1
          /\ Len(p[1]) \in Nat /\ Len(p[1]) > 0 /\ q[1 + 1] = q[1] + Len(p[1]) + 1
      BY <1>3, LayoutFacts
    <2>2. \A k \in 1 .. Len(p[1]) : s[q[1] + k] # Space
      BY <1>3, LayoutFacts
    <2>3. 1 \in 1 .. Len(p[1]) /\ q[1] + 1 = 1
      BY <1>2, <2>1
    <2> QED
      BY <1>2, <2>1, <2>2, <2>3
  <1>5. K + Len(s) <= Len(t) /\ \A i \in 1 .. Len(s) : t[K + i] = s[i]
    BY DEF At
  <1>6. K + 1 \in 1 .. Len(t) /\ t[K + 1] # Space
    <2>1. Len(s) >= 1
      BY <1>4
    <2>2. 1 \in 1 .. Len(s)
      BY <2>1
    <2> QED
      BY <1>4, <1>5, <2>1, <2>2
  <1>7. PICK m \in 1 .. Len(w) : pos[m] < K + 1 /\ K + 1 <= pos[m + 1]
    BY <1>1, <1>6, Covered
  <1>8. pos[m] \in Nat /\ pos[m + 1] \in Nat
    BY LayoutFacts
  <1>9. K + 1 < pos[m + 1]
    <2>1. m < Len(w) => t[pos[m + 1]] = Space
      BY LayoutFacts
    <2>2. m = Len(w) => pos[m + 1] = Len(t) + 1
      BY LayoutFacts
    <2>3. m < Len(w) \/ m = Len(w)
      BY <1>1
    <2>4. K + 1 # pos[m + 1]
      BY <1>6, <2>1, <2>2, <2>3
    <2> QED
      BY <1>7, <1>8, <2>4
  <1> DEFINE M(n) == (m - 1) + n
             Within(n) == /\ M(n) \in 1 .. Len(w)
                          /\ pos[M(n)] <= K + q[n] /\ K + q[n] + 1 < pos[M(n) + 1]
                          /\ n > 1 => pos[M(n)] = K + q[n]
             C == {n \in Nat : n \in 1 .. Len(p) => Within(n)}
  <1>10. 0 \in C
    OBVIOUS
  <1>11. ASSUME NEW n \in Nat, n \in C
         PROVE  n + 1 \in C
    <2> SUFFICES ASSUME n + 1 \in 1 .. Len(p)
                 PROVE  Within(n + 1)
      OBVIOUS
    <2>1. CASE n = 0
      <3>1. M(1) = m /\ n + 1 = 1
        BY <2>1
      <3>2. pos[m] <= K + 0 /\ K + 0 + 1 < pos[m + 1]
        BY <1>7, <1>8, <1>9
      <3>3. Within(1)
        BY <1>2, <3>1, <3>2
      <3> QED
        BY <3>1, <3>3
    <2>2. CASE n # 0
      <3>1. n \in 1 .. Len(p) /\ n < Len(p)
        BY <1>1, <2>2
      <3>2. Within(n)
        BY <1>11, <3>1
      <3> DEFINE g == M(n)
      <3>3. g \in 1 .. Len(w) /\ pos[g] <= K + q[n] /\ K + q[n] + 1 < pos[g + 1]
        BY <3>2
      <3>4. M(n + 1) = g + 1
        OBVIOUS
      <3> HIDE DEF g, M
      <3>5. K + q[n + 1] = pos[g + 1] /\ g < Len(w)
        BY <3>1, <3>3, SameGap
      <3>6. g + 1 \in 1 .. Len(w) /\ g \in Nat
        BY <1>1, <3>3, <3>5
      <3>7. /\ pos[g + 1] \in Nat /\ Len(w[g + 1]) \in Nat /\ Len(w[g + 1]) > 0
            /\ pos[g + 1 + 1] = pos[g + 1] + Len(w[g + 1]) + 1
        BY <3>6, LayoutFacts
      <3>8. pos[g + 1] <= K + q[n + 1] /\ K + q[n + 1] + 1 < pos[g + 1 + 1]
        BY <3>5, <3>7
      <3> QED
        BY <3>4, <3>5, <3>6, <3>8
    <2> QED
      BY <2>1, <2>2
  <1>12. \A n \in Nat : n \in C
    <2> HIDE DEF C
    <2> QED
      BY <1>10, <1>11, NatInductionOn
  <1>13. ASSUME NEW n \in 1 .. Len(p)
         PROVE  Within(n)
    BY <1>12
  <1> DEFINE i == m - 1
             o == K - pos[m]
  <1>14. ASSUME NEW n \in 1 .. Len(p)
         PROVE  At(p[n], w[i + n], Begin(n, o))
                /\ (n < Len(p) => Begin(n, o) + Len(p[n]) = Len(w[i + n]))
    <2> DEFINE g == M(n)
    <2>1. /\ g \in 1 .. Len(w) /\ pos[g] <= K + q[n] /\ K + q[n] + 1 < pos[g + 1]
          /\ n > 1 => pos[g] = K + q[n]
      BY <1>13
    <2>2. g = i + n /\ (n = 1 => g = m)
      OBVIOUS
    <2> HIDE DEF g, M, C, i, o
    <2>3. /\ K + q[n] - pos[g] \in Nat
          /\ At(p[n], w[g], K + q[n] - pos[g])
          /\ n < Len(p) => K + q[n] - pos[g] + Len(p[n]) = Len(w[g])
      BY <2>1, SameWord
    <2>4. K + q[n] - pos[g] = Begin(n, o)
      <3>1. CASE n = 1
        <4>1. K + 0 - pos[m] = K - pos[m]
          BY <1>8
        <4> QED
          BY <1>2, <2>2, <3>1, <4>1 DEF Begin, o
      <3>2. CASE n # 1
        <4>0. n > 1
          BY <1>1, <3>2
        <4>1. pos[g] = K + q[n]
          BY <2>1, <4>0
        <4>2. pos[g] \in Nat
          BY <2>1, LayoutFacts
        <4>3. K + q[n] - pos[g] = 0
          <5> DEFINE x == pos[g]
                     y == q[n]
          <5>1. x \in Nat /\ y \in Nat /\ x = K + y
            BY <4>1, <4>2, LayoutFacts
          <5> HIDE DEF x, y
          <5>2. K + y - x = 0
            BY <5>1
          <5> QED
            BY <5>2 DEF x, y
        <4>4. Begin(n, o) = 0
          BY <3>2 DEF Begin
        <4> QED
          BY <4>3, <4>4
      <3> QED
        BY <3>1, <3>2
    <2> QED
      BY <2>2, <2>3, <2>4
  <1>15. i \in Nat /\ o \in Nat /\ i + Len(p) <= Len(w)
    <2>1. Len(p) \in 1 .. Len(p)
      BY <1>1
    <2>2. M(Len(p)) \in 1 .. Len(w)
      BY <1>13, <2>1
    <2> QED
      BY <1>1, <1>7, <1>8, <2>2
  <1> HIDE DEF i, o, M, C
  <1>16. Aligned(w, p, i, o)
    BY <1>14, <1>15 DEF Aligned
  <1> QED
    BY <1>15, <1>16

(* Words that lie on those of a text occur in it, all at one distance from *)
(* where they are in the part.                                             *)
LEMMA AlignedOccurs ==
  ASSUME NEW w \in Seq(Word), NEW t, NEW pos, Layout(pos, w, t), Len(t) \in Nat,
         NEW p \in Seq(Word), NEW s, NEW q, Layout(q, p, s), Len(s) \in Nat, p # <<>>,
         NEW i \in Nat, NEW o \in Nat, Aligned(w, p, i, o)
  PROVE  \E K \in Nat : At(s, t, K)
  <1> DEFINE l == Len(p)
             K == pos[i + 1] + o
  <1>1. l \in Nat /\ l > 0 /\ Len(w) \in Nat
    BY EmptySeq
  <1>2. i + l <= Len(w) /\ q[1] = 0
    BY DEF Aligned, Layout
  <1>3. ASSUME NEW n \in 1 .. l
        PROVE  /\ i + n \in 1 .. Len(w)
               /\ q[n] \in Nat /\ Len(p[n]) \in Nat /\ q[n + 1] = q[n] + Len(p[n]) + 1
               /\ \A k \in 1 .. Len(p[n]) : s[q[n] + k] = p[n][k]
    <2>1. i + n \in 1 .. Len(w)
      BY <1>1, <1>2
    <2>2. q[n] \in Nat /\ Len(p[n]) \in Nat /\ q[n + 1] = q[n] + Len(p[n]) + 1
      BY LayoutFacts
    <2>3. \A k \in 1 .. Len(p[n]) : s[q[n] + k] = p[n][k]
      BY LayoutFacts
    <2> QED
      BY <2>1, <2>2, <2>3
  <1>4. ASSUME NEW n \in 1 .. l
        PROVE  (n < l => s[q[n + 1]] = Space) /\ (n = l => q[n + 1] = Len(s) + 1)
    BY LayoutFacts
  <1>5. ASSUME NEW n \in 1 .. Len(w)
        PROVE  /\ pos[n] \in Nat /\ Len(w[n]) \in Nat /\ pos[n + 1] = pos[n] + Len(w[n]) + 1
               /\ pos[n + 1] <= Len(t) + 1
    <2>1. pos[n] \in Nat /\ Len(w[n]) \in Nat /\ pos[n + 1] = pos[n] + Len(w[n]) + 1
      BY LayoutFacts
    <2>2. pos[n + 1] <= Len(t) + 1
      BY LayoutFacts
    <2> QED
      BY <2>1, <2>2
  <1>6. ASSUME NEW n \in 1 .. Len(w)
        PROVE  /\ \A k \in 1 .. Len(w[n]) : t[pos[n] + k] = w[n][k]
               /\ n < Len(w) => t[pos[n + 1]] = Space
    <2>1. \A k \in 1 .. Len(w[n]) : t[pos[n] + k] = w[n][k]
      BY LayoutFacts
    <2>2. n < Len(w) => t[pos[n + 1]] = Space
      BY LayoutFacts
    <2> QED
      BY <2>1, <2>2
  <1>7. ASSUME NEW n \in 1 .. l
        PROVE  /\ Begin(n, o) \in Nat
               /\ Begin(n, o) + Len(p[n]) <= Len(w[i + n])
               /\ \A k \in 1 .. Len(p[n]) : w[i + n][Begin(n, o) + k] = p[n][k]
               /\ n < l => Begin(n, o) + Len(p[n]) = Len(w[i + n])
    BY DEF Aligned, At, Begin
  <1>8. 1 \in 1 .. l /\ l \in 1 .. l
    BY <1>1
  <1>9. K \in Nat
    BY <1>3, <1>5, <1>8
  <1> HIDE DEF K, l
  <1> DEFINE Same(n) == pos[i + n] + Begin(n, o) = K + q[n]
             C == {n \in Nat : n \in 1 .. l => Same(n)}
  <1>10. 0 \in C
    OBVIOUS
  <1>11. ASSUME NEW n \in Nat, n \in C
         PROVE  n + 1 \in C
    <2> SUFFICES ASSUME n + 1 \in 1 .. l
                 PROVE  Same(n + 1)
      OBVIOUS
    <2>1. CASE n = 0
      <3>1. n + 1 = 1 /\ Begin(1, o) = o /\ K + 0 = K
        BY <1>9, <2>1 DEF Begin
      <3> QED
        BY <1>2, <3>1 DEF K
    <2>2. CASE n # 0
      <3>1. n \in 1 .. l /\ n < l /\ i + (n + 1) = (i + n) + 1 /\ n + 1 # 1
        BY <1>1, <2>2
      <3>2. Same(n)
        BY <1>11, <3>1
      <3> DEFINE g == i + n
                 a == pos[g]
                 b == pos[g + 1]
                 c == q[n]
                 d == q[n + 1]
                 x == Len(w[g])
                 y == Len(p[n])
                 z == Begin(n, o)
      <3>3. g \in 1 .. Len(w) /\ c \in Nat /\ y \in Nat /\ d = c + y + 1
        BY <1>3, <3>1
      <3>4. z \in Nat /\ z + y = x
        BY <1>7, <3>1
      <3>5. a \in Nat /\ x \in Nat /\ b = a + x + 1
        BY <1>5, <3>3
      <3>6. a + z = K + c
        BY <3>2
      <3>7. Begin(n + 1, o) = 0
        BY <3>1 DEF Begin
      <3>8. Same(n + 1) <=> b + 0 = K + d
        BY <3>1, <3>7
      <3> HIDE DEF a, b, c, d, x, y, z, g, Same
      <3>9. b + 0 = K + d
        BY <1>9, <3>3, <3>4, <3>5, <3>6
      <3> QED
        BY <3>8, <3>9
    <2> QED
      BY <2>1, <2>2
  <1>12. \A n \in Nat : n \in C
    <2> HIDE DEF C
    <2> QED
      BY <1>10, <1>11, NatInductionOn
  <1>13. ASSUME NEW n \in 1 .. l
         PROVE  pos[i + n] + Begin(n, o) = K + q[n]
    <2>1. n \in Nat
      OBVIOUS
    <2> QED
      BY <1>12, <2>1
  <1> HIDE DEF C, Same
  <1>14. K + Len(s) <= Len(t)
    <2> DEFINE g == i + l
               a == pos[g]
               b == pos[g + 1]
               c == q[l]
               d == q[l + 1]
               x == Len(w[g])
               y == Len(p[l])
               z == Begin(l, o)
    <2>1. g \in 1 .. Len(w) /\ c \in Nat /\ y \in Nat /\ d = c + y + 1
      BY <1>3, <1>8
    <2>2. z \in Nat /\ z + y <= x
      BY <1>7, <1>8
    <2>3. a \in Nat /\ x \in Nat /\ b = a + x + 1 /\ b <= Len(t) + 1
      BY <1>5, <2>1
    <2>4. a + z = K + c
      BY <1>8, <1>13
    <2>5. d = Len(s) + 1
      BY <1>4, <1>8
    <2> HIDE DEF a, b, c, d, x, y, z, g
    <2> QED
      BY <1>9, <2>1, <2>2, <2>3, <2>4, <2>5
  <1>15. ASSUME NEW j \in 1 .. Len(s)
         PROVE  t[K + j] = s[j]
    <2>1. PICK n \in 1 .. l : q[n] < j /\ j <= q[n + 1]
      BY <1>1, Covered DEF l
    <2> DEFINE g == i + n
               a == pos[g]
               b == pos[g + 1]
               c == q[n]
               d == q[n + 1]
               x == Len(w[g])
               y == Len(p[n])
               z == Begin(n, o)
    <2>2. g \in 1 .. Len(w) /\ c \in Nat /\ y \in Nat /\ d = c + y + 1
      BY <1>3
    <2>3. z \in Nat /\ z + y <= x /\ (n < l => z + y = x)
      BY <1>7
    <2>4. a \in Nat /\ x \in Nat /\ b = a + x + 1
      BY <1>5, <2>2
    <2>5. a + z = K + c
      BY <1>13
    <2>6. c < j /\ j <= d /\ (n < l => s[d] = Space) /\ (n = l => d = Len(s) + 1)
      BY <1>4, <2>1
    <2>7. \A k \in 1 .. y : s[c + k] = p[n][k] /\ w[g][z + k] = p[n][k]
      BY <1>3, <1>7
    <2>8. /\ \A k \in 1 .. x : t[a + k] = w[g][k]
          /\ g < Len(w) => t[b] = Space
      BY <1>6, <2>2
    <2>9. n < l => g < Len(w)
      BY <1>1, <1>2
    <2> HIDE DEF a, b, c, d, x, y, z, g
    <2>10. CASE j = d
      <3>1. n < l
        BY <1>1, <2>6, <2>10
      <3>2. K + d = b
        BY <1>9, <2>2, <2>3, <2>4, <2>5, <3>1
      <3> QED
        BY <2>6, <2>8, <2>9, <2>10, <3>1, <3>2
    <2>11. CASE j # d
      <3> DEFINE k == j - c
                 h == z + k
      <3>1. k \in 1 .. y /\ c + k = j
        BY <2>2, <2>6, <2>11
      <3>2. h \in 1 .. x /\ a + h = K + j
        BY <1>9, <2>2, <2>3, <2>4, <2>5, <3>1
      <3>3. w[g][h] = p[n][k]
        BY <2>7, <3>1
      <3>4. s[j] = p[n][k]
        <4> HIDE DEF k
        <4> QED
          BY <2>7, <3>1
      <3> HIDE DEF h, k
      <3> QED
        BY <2>8, <3>2, <3>3, <3>4
    <2> QED
      BY <2>10, <2>11
  <1>16. At(s, t, K)
    BY <1>14, <1>15 DEF At
  <1> QED
    BY <1>9, <1>16

(* So the substring test of _validate_sources is a test of words: nothing  *)
(* is found across a gap that is not one in both texts.                    *)
LEMMA OccursIsExcerpt ==
  ASSUME NEW w \in Seq(Word), NEW p \in Seq(Word), p # <<>>
  PROVE  Occurs(Join(p), Join(w)) <=> Excerpts(w, p)
  <1>0. w \in Seq(Seq(Chars)) /\ p \in Seq(Seq(Chars)) /\ Len(p) \in Nat /\ Len(p) > 0 /\ Space \in Chars
    BY WordsAreTexts, EmptySeq, Characters
  <1> DEFINE s == Join(p)
             t == Join(w)
  <1>1. s \in Seq(Chars) /\ t \in Seq(Chars)
    BY <1>0, JoinStep
  <1>2. Len(s) \in Nat /\ Len(t) \in Nat
    BY <1>1, LenProperties
  <1>3. PICK q : Layout(q, p, s)
    BY LayoutExists
  <1>4. Excerpts(w, p) <=> \E i \in Nat : \E o \in Nat : Aligned(w, p, i, o)
    BY <1>0, AlignedExcerpts
  <1>5. Occurs(s, t) <=> \E K \in Nat : At(s, t, K)
    BY <1>1, OccursAt
  <1>6. CASE w # <<>>
    <2>1. PICK pos : Layout(pos, w, t)
      BY <1>6, LayoutExists
    <2> HIDE DEF s, t
    <2>2. (\E K \in Nat : At(s, t, K)) <=> \E i \in Nat : \E o \in Nat : Aligned(w, p, i, o)
      <3>1. ASSUME NEW K \in Nat, At(s, t, K)
            PROVE  \E i \in Nat : \E o \in Nat : Aligned(w, p, i, o)
        BY <1>2, <1>3, <1>6, <2>1, <3>1, OccurrenceIsAligned
      <3>2. ASSUME NEW i \in Nat, NEW o \in Nat, Aligned(w, p, i, o)
            PROVE  \E K \in Nat : At(s, t, K)
        BY <1>2, <1>3, <2>1, <3>2, AlignedOccurs
      <3> QED
        BY <3>1, <3>2
    <2> QED
      BY <1>4, <1>5, <2>2 DEF s, t
  <1>7. CASE w = <<>>
    <2>1. t = <<>> /\ Len(t) = 0 /\ Len(w) = 0
      <3>1. Join(<<>>) = <<>>
        BY <1>0, <1>7, JoinStep
      <3> QED
        BY <1>7, <3>1
    <2>2. 1 \in 1 .. Len(p)
      BY <1>0
    <2> HIDE DEF s, t
    <2>3. q[1 + 1] <= Len(s) + 1 /\ q[1 + 1] = q[1] + Len(p[1]) + 1 /\ q[1] \in Nat
          /\ Len(p[1]) \in Nat /\ Len(p[1]) > 0
      BY <1>2, <1>3, <2>2, LayoutFacts
    <2>4. Len(s) > 0
      BY <1>2, <2>3
    <2>5. ~\E K \in Nat : At(s, t, K)
      BY <1>2, <2>1, <2>4 DEF At
    <2>6. ~\E i \in Nat : \E o \in Nat : Aligned(w, p, i, o)
      BY <1>0, <2>1 DEF Aligned
    <2> QED
      BY <1>4, <1>5, <2>5, <2>6 DEF s, t
  <1> QED
    BY <1>6, <1>7

(* What _validate_sources decides of an item: whether the page has chunks, *)
(* and its words, in the order loaded, have those of the quotation.        *)
LEMMA AcceptedIsExcerpt ==
  ASSUME NEW item, NEW chunks \in Seq(Chunks), item.source \in Seq(Chars), Words(item.source) # <<>>
  PROVE  Accepted(item, chunks) <=>
           /\ TextByPage(chunks, item.page) # <<>>
           /\ Excerpts(FlattenSeq(WordLists(TextByPage(chunks, item.page))), Words(item.source))
  <1> DEFINE texts == TextByPage(chunks, item.page)
             w == FlattenSeq(WordLists(texts))
             p == Words(item.source)
  <1>1. texts \in Seq(Seq(Chars))
    <2>1. texts \in Seq(Contents) /\ Contents \subseteq Seq(Chars)
      BY TextsOfPage, TextAssumption DEF Chars
    <2> HIDE DEF texts
    <2> QED
      BY <2>1, SeqMonotonic
  <1>2. p \in Seq(Word) /\ p # <<>>
    BY WordsTyped
  <1> HIDE DEF texts
  <1>3. Join(texts) \in Seq(Chars) /\ Words(Join(texts)) = w
    BY <1>1, WordsOfJoin
  <1>4. w \in Seq(Word)
    BY <1>3, WordsTyped
  <1>5. Normalize(Join(texts)) = Join(w)
    BY <1>3, NormalizeJoins
  <1>6. Normalize(item.source) = Join(p)
    BY NormalizeJoins
  <1> HIDE DEF w, p
  <1>7. Occurs(Join(p), Join(w)) <=> Excerpts(w, p)
    BY <1>2, <1>4, OccursIsExcerpt
  <1>8. Accepted(item, chunks) <=> texts # <<>> /\ Occurs(Join(p), Join(w))
    BY <1>5, <1>6 DEF Accepted, texts
  <1> QED
    BY <1>7, <1>8 DEF texts, w, p

(* What is checked has the types that the lemmas need.                     *)
LEMMA QuotationTyped ==
  ASSUME NEW q \in Quotations
  PROVE  /\ q.chunks \in Seq(Chunks)
         /\ q.item.source \in Seq(Chars) /\ Words(q.item.source) # <<>>
  <1>1. q.chunks \in Loaded /\ q.item.source \in Passages /\ Words(q.item.source) # <<>>
    BY DEF Quotations
  <1>2. Loaded \subseteq Seq(Chunks)
    <2>1. ASSUME NEW m \in 0 .. MaxChunks, NEW c \in [1 .. m -> Chunks]
          PROVE  c \in Seq(Chunks)
      <3>1. m \in Nat
        BY TextAssumption
      <3> HIDE DEF Chunks
      <3> QED
        BY <3>1, SeqDef
    <2> HIDE DEF Chunks
    <2> QED
      BY <2>1 DEF Loaded, BoundedSeq, SeqOf
  <1> HIDE DEF Chunks
  <1> QED
    BY <1>1, <1>2, TextAssumption DEF Chars

(* What is accepted is written on the page that it names                   *)
(* (AcceptedIsQuoted), for every alphabet, every case folding that leaves  *)
(* no letter empty, every contract and every quotation: _validate_sources  *)
(* lets nothing pass that the page does not say.                           *)
THEOREM AcceptedAreQuoted == quoted \subseteq Quotations => AcceptedIsQuoted
  <1> SUFFICES ASSUME quoted \subseteq Quotations, NEW q \in quoted, Accepted(q.item, q.chunks)
               PROVE  Excerpts(FlattenSeq(WordLists(TextByPage(q.chunks, q.item.page))),
                               Words(q.item.source))
    BY DEF AcceptedIsQuoted, WordLists
  <1>1. q \in Quotations
    OBVIOUS
  <1>2. q.chunks \in Seq(Chunks) /\ q.item.source \in Seq(Chars) /\ Words(q.item.source) # <<>>
    BY <1>1, QuotationTyped
  <1> DEFINE i == q.item
             c == q.chunks
  <1> HIDE DEF i, c
  <1>3. Accepted(i, c) <=>
           /\ TextByPage(c, i.page) # <<>>
           /\ Excerpts(FlattenSeq(WordLists(TextByPage(c, i.page))), Words(i.source))
    BY <1>2, AcceptedIsExcerpt DEF i, c
  <1> QED
    BY <1>3 DEF i, c

(* What is quoted from one part is quoted from the whole.                  *)
LEMMA ExcerptOfMore ==
  ASSUME NEW a \in Seq(Word), NEW b \in Seq(Word), NEW p \in Seq(Word), p # <<>>,
         Excerpts(a, p) \/ Excerpts(b, p)
  PROVE  Excerpts(a \o b, p)
  <1>0. /\ a \in Seq(Seq(Chars)) /\ b \in Seq(Seq(Chars)) /\ p \in Seq(Seq(Chars))
        /\ Len(a) \in Nat /\ Len(b) \in Nat /\ Len(p) \in Nat /\ Len(p) > 0
    BY WordsAreTexts, EmptySeq
  <1> DEFINE c == a \o b
  <1>1. /\ c \in Seq(Word) /\ Len(c) = Len(a) + Len(b)
        /\ \A n \in 1 .. Len(a) + Len(b) : c[n] = IF n <= Len(a) THEN a[n] ELSE b[n - Len(a)]
    BY ConcatProperties
  <1>2. c \in Seq(Seq(Chars))
    BY <1>1, WordsAreTexts
  <1> HIDE DEF c
  <1> SUFFICES \E i \in Nat : \E o \in Nat : Aligned(c, p, i, o)
    BY <1>0, <1>2, AlignedExcerpts DEF c
  <1>3. CASE Excerpts(a, p)
    <2>1. PICK i \in Nat, o \in Nat : Aligned(a, p, i, o)
      BY <1>0, <1>3, AlignedExcerpts
    <2>2. i + Len(p) <= Len(a)
      BY <2>1 DEF Aligned
    <2>3. \A n \in 1 .. Len(p) : c[i + n] = a[i + n]
      BY <1>0, <1>1, <2>2
    <2>4. i + Len(p) <= Len(c)
      BY <1>0, <1>1, <2>2
    <2>5. Aligned(c, p, i, o)
      BY <2>1, <2>3, <2>4 DEF Aligned
    <2> QED
      BY <2>5
  <1>4. CASE Excerpts(b, p)
    <2>1. PICK i \in Nat, o \in Nat : Aligned(b, p, i, o)
      BY <1>0, <1>4, AlignedExcerpts
    <2>2. i + Len(p) <= Len(b)
      BY <2>1 DEF Aligned
    <2> DEFINE h == Len(a) + i
    <2>3. \A n \in 1 .. Len(p) : c[h + n] = b[i + n]
      <3> TAKE n \in 1 .. Len(p)
      <3>1. h + n \in 1 .. Len(a) + Len(b) /\ ~(h + n <= Len(a)) /\ (h + n) - Len(a) = i + n
        BY <1>0, <2>2
      <3> QED
        BY <1>1, <3>1
    <2>4. h + Len(p) <= Len(c) /\ h \in Nat
      BY <1>0, <1>1, <2>2
    <2> HIDE DEF h
    <2>5. Aligned(c, p, h, o)
      BY <2>1, <2>3, <2>4 DEF Aligned
    <2> QED
      BY <2>4, <2>5
  <1> QED
    BY <1>3, <1>4

(* What is quoted from one of some lists of words is quoted from all of    *)
(* them in a row.                                                          *)
LEMMA ExcerptOfOne ==
  ASSUME NEW lists \in Seq(Seq(Word)), NEW p \in Seq(Word), p # <<>>,
         NEW j \in 1 .. Len(lists), Excerpts(lists[j], p)
  PROVE  Excerpts(FlattenSeq(lists), p)
  <1> DEFINE U == Seq(Word)
             C == {ss \in Seq(U) : (\E k \in 1 .. Len(ss) : Excerpts(ss[k], p))
                                     => Excerpts(FlattenSeq(ss), p)}
  <1>1. <<>> \in C
    OBVIOUS
  <1>2. ASSUME NEW ss \in Seq(U), NEW s \in U, ss \in C
        PROVE  Append(ss, s) \in C
    <2>1. FlattenSeq(Append(ss, s)) = FlattenSeq(ss) \o s /\ FlattenSeq(ss) \in Seq(Word)
      BY FlattenPrefix, FlattenIsSeq
    <2> HIDE DEF U
    <2>2. /\ Append(ss, s) \in Seq(U) /\ Len(ss) \in Nat /\ Len(Append(ss, s)) = Len(ss) + 1
          /\ \A k \in 1 .. Len(ss) + 1 : Append(ss, s)[k] = IF k = Len(ss) + 1 THEN s ELSE ss[k]
      BY AppendProperties, LenProperties
    <2>3. ASSUME NEW k \in 1 .. Len(ss) + 1, Excerpts(Append(ss, s)[k], p)
          PROVE  Excerpts(FlattenSeq(ss) \o s, p)
      <3> DEFINE f == FlattenSeq(ss)
      <3>1. f \in Seq(Word) /\ s \in Seq(Word)
        BY <2>1 DEF U
      <3>2. Excerpts(f, p) \/ Excerpts(s, p)
        <4>1. CASE k = Len(ss) + 1
          BY <2>2, <2>3, <4>1
        <4>2. CASE k # Len(ss) + 1
          <5>1. k \in 1 .. Len(ss) /\ Append(ss, s)[k] = ss[k]
            BY <2>2, <4>2
          <5> QED
            BY <1>2, <2>3, <5>1
        <4> QED
          BY <4>1, <4>2
      <3> HIDE DEF f
      <3>3. Excerpts(f \o s, p)
        BY <3>1, <3>2, ExcerptOfMore
      <3> QED
        BY <3>3 DEF f
    <2> QED
      BY <2>1, <2>2, <2>3
  <1>3. \A ss \in Seq(U) : ss \in C
    <2> HIDE DEF C, U
    <2> QED
      BY <1>1, <1>2, SeqInductionOn
  <1> QED
    BY <1>3

(* A passage of one chunk is accepted with its page (PassagesAreFound),    *)
(* whatever its whitespace and case, whatever other chunks the contract    *)
(* has, and in every order of loading: _validate_sources refuses nothing   *)
(* that the page says.                                                     *)
THEOREM PassagesAreAccepted == quoted \subseteq Quotations => PassagesAreFound
  <1> SUFFICES ASSUME quoted \subseteq Quotations, NEW q \in quoted, NEW d \in Range(q.chunks),
                      d.page = q.item.page, Excerpts(Words(d.content), Words(q.item.source))
               PROVE  Accepted(q.item, q.chunks)
    BY DEF PassagesAreFound
  <1> DEFINE i == q.item
             c == q.chunks
             p == Words(i.source)
             texts == TextByPage(c, i.page)
  <1>1. c \in Seq(Chunks) /\ i.source \in Seq(Chars) /\ p # <<>>
    BY QuotationTyped
  <1>2. p \in Seq(Word)
    BY <1>1, WordsTyped
  <1>3. PICK k \in DOMAIN c : d = c[k]
    BY DEF Range
  <1>4. k \in 1 .. Len(c) /\ c[k].page = i.page /\ Excerpts(Words(c[k].content), p)
    BY <1>1, <1>3, LenProperties
  <1>x. SUFFICES Accepted(i, c)
    OBVIOUS
  <1> HIDE DEF i, c, p
  <1>5. texts \in Seq(Contents) /\ \E j \in 1 .. Len(texts) : texts[j] = c[k].content
    BY <1>1, <1>4, TextsOfPage
  <1>6. PICK j \in 1 .. Len(texts) : texts[j] = c[k].content
    BY <1>5
  <1> HIDE DEF texts
  <1>7. texts \in Seq(Seq(Chars))
    <2>1. Contents \subseteq Seq(Chars)
      BY TextAssumption DEF Chars
    <2> QED
      BY <1>5, <2>1, SeqMonotonic
  <1> DEFINE lists == WordLists(texts)
  <1>8. lists \in Seq(Seq(Word)) /\ Len(lists) = Len(texts) /\ lists[j] = Words(texts[j])
    <2>1. <<>> \in Seq(Chars)
      OBVIOUS
    <2> QED
      BY <1>7, <2>1, WordListsStep
  <1> HIDE DEF lists
  <1>9. Excerpts(FlattenSeq(lists), p)
    <2>1. j \in 1 .. Len(lists) /\ Excerpts(lists[j], p)
      BY <1>4, <1>6, <1>8
    <2> QED
      BY <1>1, <1>2, <1>8, <2>1, ExcerptOfOne
  <1>10. texts # <<>>
    BY <1>6, EmptySeq
  <1>11. Accepted(i, c) <=>
           /\ TextByPage(c, i.page) # <<>>
           /\ Excerpts(FlattenSeq(WordLists(TextByPage(c, i.page))), Words(i.source))
    BY <1>1, AcceptedIsExcerpt DEF p
  <1> QED
    BY <1>9, <1>10, <1>11 DEF p, texts, lists
==============================================================================
