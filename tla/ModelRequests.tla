---------------------------- MODULE ModelRequests ----------------------------
(***************************************************************************)
(* The requests of one API process that need the language model: analyses, *)
(* which run four extractions one after the other, and questions.  They    *)
(* share the model slots, and the Ollama client that the first of them     *)
(* creates.                                                                *)
(*                                                                         *)
(* A generation is one call of generate_structured: up to MaxRetries + 1   *)
(* posts, of which the last one's answer is parsed.  What the model cites  *)
(* is checked against evidence that it cannot change: an extracted item is *)
(* a quoted passage together with a page, and is backed when the chunks of *)
(* that page contain the passage; an item of an answer is a chunk id, and  *)
(* is backed when retrieval returned that chunk.  An output without        *)
(* backing, or one that does not fit its schema, is generated once more;   *)
(* metadata is not checked, nor is it generated twice.                     *)
(*                                                                         *)
(* The seconds slept between two posts are left out.                       *)
(***************************************************************************)
EXTENDS Naturals, FiniteSets

CONSTANTS
  Analyses,      \* POST .../analyze requests
  Questions,     \* POST .../questions requests
  Items,         \* what the model may cite
  NoOne,
  Capacity,      \* MAX_CONCURRENT_MODEL_REQUESTS
  MaxRetries     \* OLLAMA_MAX_RETRIES

Requests == Analyses \cup Questions

ASSUME RequestsAssumption ==
  /\ Analyses \cap Questions = {}
  /\ NoOne \notin Requests
  /\ IsFiniteSet(Requests)

ASSUME LimitsAssumption ==
  /\ Capacity \in Nat \ {0}
  /\ MaxRetries \in Nat

Tasks == {"metadata", "obligations", "clauses", "risks", "question"}
Outputs == [answered : BOOLEAN, items : SUBSET Items]
NoOutput == [answered |-> FALSE, items |-> {}]

VARIABLES
  backed,      \* the items that the contract, or the retrieval, backs
  slots,       \* free model slots (model_capacity)
  initLock,    \* who holds llm_initialization_lock
  clients,     \* Ollama clients created so far (llm_service)
  pc,          \* where each request is
  task,        \* what each request asks the model for
  generation,  \* generations of that task that were refused
  attempt,     \* posts of this generation that failed
  posts,       \* posts of the request so far
  output,      \* the last parsed output
  stored       \* what was flushed, or is answered

vars == <<backed, slots, initLock, clients, pc, task, generation, attempt, posts,
          output, stored>>

Init ==
  /\ backed \in [Requests -> SUBSET Items]
  /\ slots = Capacity
  /\ initLock = NoOne
  /\ clients = 0
  /\ pc = [r \in Requests |-> "idle"]
  /\ task = [r \in Requests |-> IF r \in Analyses THEN "metadata" ELSE "question"]
  /\ generation = [r \in Requests |-> 0]
  /\ attempt = [r \in Requests |-> 0]
  /\ posts = [r \in Requests |-> 0]
  /\ output = [r \in Requests |-> NoOutput]
  /\ stored = [r \in Requests |-> NoOutput]

Goto(r, label) == pc' = [pc EXCEPT ![r] = label]

Shared == UNCHANGED <<slots, initLock, clients>>
Loop == UNCHANGED <<task, generation, attempt, posts>>

-----------------------------------------------------------------------------
\* get_llm_service.

Acquire(r) ==
  /\ pc[r] = "idle"
  /\ \/ slots > 0 /\ slots' = slots - 1 /\ Goto(r, "lock")
     \/ slots = 0 /\ Goto(r, "refused") /\ UNCHANGED slots
  /\ Loop /\ UNCHANGED <<backed, initLock, clients, output, stored>>

LockClient(r) ==
  /\ pc[r] = "lock"
  /\ initLock = NoOne
  /\ initLock' = r
  /\ Goto(r, "lookup")
  /\ Loop /\ UNCHANGED <<backed, slots, clients, output, stored>>

\* Mutant of LookupClient: the lock is only held while the client is looked up.
LookupClientUnlocked(r) ==
  /\ pc[r] = "lookup"
  /\ initLock' = NoOne
  /\ Goto(r, IF clients = 0 THEN "create" ELSE "prepare")
  /\ Loop /\ UNCHANGED <<backed, slots, clients, output, stored>>

LookupClient(r) ==
  /\ pc[r] = "lookup"
  /\ \/ clients = 0 /\ Goto(r, "create") /\ UNCHANGED initLock
     \/ clients > 0 /\ Goto(r, "prepare") /\ initLock' = NoOne
  /\ Loop /\ UNCHANGED <<backed, slots, clients, output, stored>>

\* Mutant of CreateClient: the lock is not released.
CreateClientKept(r) ==
  /\ pc[r] = "create"
  /\ clients' = clients + 1
  /\ Goto(r, "prepare")
  /\ Loop /\ UNCHANGED <<backed, slots, initLock, output, stored>>

CreateClient(r) ==
  /\ pc[r] = "create"
  /\ clients' = clients + 1
  /\ initLock' = NoOne
  /\ Goto(r, "prepare")
  /\ Loop /\ UNCHANGED <<backed, slots, output, stored>>

\* The settings give no client; the lock is released.
CreateFails(r) ==
  /\ pc[r] = "create"
  /\ initLock' = NoOne
  /\ Goto(r, "failed")
  /\ Loop /\ UNCHANGED <<backed, slots, clients, output, stored>>

\* Mutant of Release: only a request that succeeded gives its slot back.
ReleaseOnSuccess(r) ==
  /\ pc[r] \in {"done", "failed"}
  /\ slots' = IF pc[r] = "done" THEN slots + 1 ELSE slots
  /\ Goto(r, "closed")
  /\ Loop /\ UNCHANGED <<backed, initLock, clients, output, stored>>

Release(r) ==
  /\ pc[r] \in {"done", "failed"}
  /\ slots' = slots + 1
  /\ Goto(r, "closed")
  /\ Loop /\ UNCHANGED <<backed, initLock, clients, output, stored>>

-----------------------------------------------------------------------------
\* A failure rolls back what was flushed; a question has stored nothing yet.

Fail(r) ==
  /\ Goto(r, "failed")
  /\ stored' = [stored EXCEPT ![r] = NoOutput]

\* The contract is claimed and its index made ready, or chunks are retrieved,
\* before the model is asked for anything.  A request that fails here, or needs
\* no analysis any more, ends without the model.
Prepare(r) ==
  /\ pc[r] = "prepare"
  /\ \/ Goto(r, "post") /\ UNCHANGED stored
     \/ Fail(r)
  /\ Shared /\ Loop /\ UNCHANGED <<backed, output>>

-----------------------------------------------------------------------------
\* _post_with_retries: a timeout, a transport error, 429 or 5xx is tried again;
\* any other error status is not.

Unreachable(r) ==
  /\ pc[r] = "post"
  /\ posts' = [posts EXCEPT ![r] = @ + 1]
  /\ \/ /\ attempt[r] < MaxRetries
        /\ attempt' = [attempt EXCEPT ![r] = @ + 1]
        /\ UNCHANGED <<pc, stored>>
     \/ /\ attempt[r] = MaxRetries
        /\ Fail(r)
        /\ UNCHANGED attempt
  /\ Shared /\ UNCHANGED <<backed, task, generation, output>>

Refused(r) ==
  /\ pc[r] = "post"
  /\ posts' = [posts EXCEPT ![r] = @ + 1]
  /\ Fail(r)
  /\ Shared /\ UNCHANGED <<backed, task, generation, attempt, output>>

Responds(r) ==
  /\ pc[r] = "post"
  /\ posts' = [posts EXCEPT ![r] = @ + 1]
  /\ Goto(r, "parse")
  /\ Shared /\ UNCHANGED <<backed, task, generation, attempt, output, stored>>

-----------------------------------------------------------------------------
\* generate_structured's checks, the evidence checks, and the loops around them.

\* Mutant of GenerateAgain: any refused output is generated again, for ever.
GenerateAgainAlways(r) ==
  /\ generation' = [generation EXCEPT ![r] = @ + 1]
  /\ attempt' = [attempt EXCEPT ![r] = 0]
  /\ Goto(r, "post")
  /\ UNCHANGED stored

GenerateAgain(r) ==
  IF task[r] # "metadata" /\ generation[r] = 0
  THEN /\ generation' = [generation EXCEPT ![r] = 1]
       /\ attempt' = [attempt EXCEPT ![r] = 0]
       /\ Goto(r, "post")
       /\ UNCHANGED stored
  ELSE Fail(r) /\ UNCHANGED <<generation, attempt>>

\* No JSON, no generated text, an unfinished generation, or the wrong schema.
Malformed(r) ==
  /\ pc[r] = "parse"
  /\ GenerateAgain(r)
  /\ Shared /\ UNCHANGED <<backed, task, posts, output>>

\* Metadata quotes nothing.  GroundedAnswer: an answer cites, an abstention does
\* not.
WellFormed(t, out) ==
  /\ t = "metadata" => out.items = {}
  /\ IF t = "question" THEN out.answered <=> out.items # {} ELSE ~ out.answered

Parsed(r) ==
  /\ pc[r] = "parse"
  /\ \E out \in Outputs :
       /\ WellFormed(task[r], out)
       /\ output' = [output EXCEPT ![r] = out]
  /\ Goto(r, "check")
  /\ Shared /\ Loop /\ UNCHANGED <<backed, stored>>

\* Mutant of Supported: the second output is used as it is.
SupportedOnce(r) == generation[r] = 1 \/ output[r].items \subseteq backed[r]

\* _validate_sources, and the check of the cited chunk ids.
Supported(r) == output[r].items \subseteq backed[r]

Unsupported(r) ==
  /\ pc[r] = "check"
  /\ ~ Supported(r)
  /\ GenerateAgain(r)
  /\ Shared /\ UNCHANGED <<backed, task, posts, output>>

TaskAfter(t) ==
  CASE t = "metadata" -> "obligations"
    [] t = "obligations" -> "clauses"
    [] t = "clauses" -> "risks"

\* The output is flushed, and the next extraction begins; or it is the answer.
Store(r) ==
  /\ pc[r] = "check"
  /\ Supported(r)
  /\ stored' = [stored EXCEPT ![r] = [output[r] EXCEPT !.items = @ \cup stored[r].items]]
  /\ output' = [output EXCEPT ![r] = NoOutput]
  /\ IF task[r] \in {"risks", "question"}
     THEN Goto(r, "done") /\ UNCHANGED <<task, generation, attempt>>
     ELSE /\ task' = [task EXCEPT ![r] = TaskAfter(@)]
          /\ generation' = [generation EXCEPT ![r] = 0]
          /\ attempt' = [attempt EXCEPT ![r] = 0]
          /\ Goto(r, "post")
  /\ Shared /\ UNCHANGED <<backed, posts>>

-----------------------------------------------------------------------------
Step(r) ==
  \/ LookupClient(r) \/ CreateClient(r) \/ CreateFails(r) \/ Prepare(r)
  \/ Unreachable(r) \/ Refused(r) \/ Responds(r)
  \/ Malformed(r) \/ Parsed(r) \/ Unsupported(r) \/ Store(r)
  \/ Release(r)

Next == \E r \in Requests : Acquire(r) \/ LockClient(r) \/ Step(r)

\* Handlers run, every post ends within its timeout, and a thread that waits for
\* the initialization lock gets it in its turn.
Fairness == \A r \in Requests : WF_vars(Step(r)) /\ SF_vars(LockClient(r))

Spec == Init /\ [][Next]_vars
FairSpec == Spec /\ Fairness

-----------------------------------------------------------------------------
\* Properties.

(* Every variable keeps its type.                                          *)
TypeOK ==
  /\ backed \in [Requests -> SUBSET Items]
  /\ slots \in Nat
  /\ initLock \in Requests \cup {NoOne}
  /\ clients \in Nat
  /\ pc \in [Requests ->
       {"idle", "refused", "lock", "lookup", "create", "prepare", "post", "parse",
        "check", "done", "failed", "closed"}]
  /\ task \in [Requests -> Tasks]
  /\ generation \in [Requests -> 0 .. 1]
  /\ attempt \in [Requests -> 0 .. MaxRetries]
  /\ posts \in [Requests -> Nat]
  /\ output \in [Requests -> Outputs]
  /\ stored \in [Requests -> Outputs]

(* Nothing is stored or answered that the contract does not back, whatever *)
(* the model returned in the first and in the second generation of any of  *)
(* the tasks (the loops of obligation_service, clause_service,             *)
(* risk_service and qa_service).                                           *)
OnlyBackedIsStored == \A r \in Requests : stored[r].items \subseteq backed[r]

(* A question is answered exactly when there is evidence to show for it.   *)
AnswersCite ==
  \A q \in Questions : stored[q].answered <=> stored[q].items # {}

(* A request makes a bounded number of posts to Ollama: the retries of the *)
(* client are nested in those of the services, and metadata is generated   *)
(* once only.                                                              *)
Generations(r) == IF r \in Analyses THEN 7 ELSE 2

EffortIsBounded ==
  \A r \in Requests : posts[r] <= Generations(r) * (MaxRetries + 1)

(* Threads that start together do not each create a client (it would never *)
(* be closed).                                                             *)
OneClient == clients <= 1

(* No more requests than there are slots are being served, and every slot  *)
(* that is not free has an owner that will give it back.                   *)
Serving(r) == pc[r] \notin {"idle", "refused", "closed"}

Served == {r \in Requests : Serving(r)}

SlotsAccountedFor == slots + Cardinality(Served) = Capacity

(* Every request ends, whatever the model answers.                         *)
EveryModelRequestEnds ==
  \A r \in Requests : pc[r] # "idle" ~> pc[r] \in {"refused", "closed"}

(* Where each task starts in the sequence of generations, and the posts a  *)
(* request may have made when it is there.                                 *)
GenerationsBefore(t) ==
  CASE t = "obligations" -> 1
    [] t = "clauses" -> 3
    [] t = "risks" -> 5
    [] OTHER -> 0

EffortInv ==
  \A r \in Requests :
    LET begun == GenerationsBefore(task[r]) + generation[r] IN
    /\ r \in Questions <=> task[r] = "question"
    /\ task[r] = "metadata" => generation[r] = 0
    /\ pc[r] \in {"idle", "refused", "lock", "lookup", "create", "prepare"} =>
         posts[r] = 0
    /\ pc[r] = "post" => posts[r] <= begun * (MaxRetries + 1) + attempt[r]
    /\ posts[r] <= (begun + 1) * (MaxRetries + 1)

ClientInv ==
  /\ \A r \in Requests : pc[r] \in {"lookup", "create"} <=> initLock = r
  /\ \A r \in Requests : pc[r] = "create" => clients = 0
  /\ OneClient

StoredInv ==
  /\ OnlyBackedIsStored
  /\ \A q \in Questions :
       /\ pc[q] = "check" => (output[q].answered <=> output[q].items # {})
       /\ stored[q].answered <=> stored[q].items # {}
       /\ pc[q] \notin {"done", "closed"} => stored[q] = NoOutput

(* What makes these invariants survive every step.                         *)
RequestsInv == TypeOK /\ EffortInv /\ ClientInv /\ StoredInv
=============================================================================
