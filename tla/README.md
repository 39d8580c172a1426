# Contract review platform: specifications and proofs

TLA+ modules that model the platform in `src/`, TLC runs that check them on
small instances, and TLAPS proofs that hold for every value of the constants.
File names below are relative to `src/backend/app/` unless they begin with
another top-level directory.

## 1. The system

A FastAPI application stores uploaded contract PDFs in PostgreSQL, lets an
Ollama model extract metadata, obligations, clauses and risks from them, and
answers questions through a vector index kept in files. A browser page and some
scripts are its clients.

| Component | State | Operations | Interacts with |
| --- | --- | --- | --- |
| Analysis (`services/analysis_service.py`, `api/routes/analysis.py`) | the contract's row: `status`, `analysis_attempt_id`, `updated_at`, result rows | analyze: claim, fence, five stages, publish, or roll back and fail; recover | PostgreSQL row locks; model slots; index files; LLM |
| Model requests (`api/dependencies.py`, `services/llm_service.py`, `obligation_`, `clause_`, `risk_`, `qa_service.py`) | `model_capacity`, `llm_initialization_lock`, `llm_service` of the process | slot, client creation, posts with retries, schema and evidence checks, second generation | called by analyses and questions; Ollama over HTTP |
| Vector index (`ai/rag/index.py`, `ai/rag/retriever.py`, `services/retrieval_service.py`, `embedding_service.py`) | `index.faiss`, `metadata.json`; the process's embedding model | load and verify, rebuild, search, `ensure_index` | shared by searches, questions and the analysis, without a lock |
| Ingestion (`services/contract_service.py`, `document_`, `extraction_`, `chunking_service.py`, `api/request_limits.py`) | none of its own; inserts a contract and its chunks | limit the body, validate the PDF, extract, chunk, insert | one transaction |
| Reading (`db/repositories.py`, `services/summary_service.py`, `api/routes/contracts.py`) | none | detail, list, summary | reads while an analysis may publish |
| Access (`api/auth.py`, `scripts/provision_access.py`) | access file, read at start | key to principal, role and tenant checks | every request |
| Browser workspace (`web/app.js`) | `state`, the rendered list and detail, requests in flight | sign in and out, list, page, open, review, recover, upload, ask, search | API over HTTP, answers in any order |
| Live evaluation (`scripts/evaluate_live.py`) | `partial.json`, `predictions.json`, `results.json` | run, stop, resume | API as a client |
| Offline evaluation (`scripts/evaluate_extraction.py`) | none; reads three files | index, check, score four sections | last step of the live evaluation |
| Drills, migrations, middleware, configuration, prompts, schemas | none that survives a call | | |

### What is hard, and what makes each part correct

* **Analysis.** The claim is committed before the work begins, so the row lock
  is dropped and taken again (the *fence*); a recovery, a second attempt, a
  crash, a lost session or a lost commit reply may come at each point between.
  Correct means: only the claimant of the contract writes results; a contract
  shows one attempt's whole results or none; completed is final; a claim ends by
  its own attempt or by a recovery that is due; a 502 has released its claim;
  an answer stays true; no request waits forever; no claim stays forever.
* **Model requests.** Retries of posts are nested in second generations, in four
  tasks; threads race for one client and for slots. Correct means: nothing
  unsupported is stored or answered, an answer cites something, effort is
  bounded, there is one client, and slots balance on every path. A quotation is
  looked for in chunks that overlap and come in any order: copied text must be
  found in each, and text of no page must not.
* **Vector index.** Two files are replaced one after the other with no lock, and
  the index is opened again after its checksum was verified. Correct means: a
  query never meets vectors of another model, a torn pair is repaired rather
  than reported, and a completed contract has its index.
* **Browser workspace.** Handlers of an earlier session or selection go on after
  it has ended. Correct means: nobody is shown another user's contracts, the list is
  the latest asked for, the detail is the selected contract's, an answer is about the
  contract it is shown with.
* **Live evaluation.** The process may die between any two steps, and reads the
  label files several times. Correct means: the checkpoint is always resumable and
  only grows, a report covers every fixture under one configuration and is not
  overwritten, and it is scored on the files that the predictions were made from,
  as long as nobody edits them meanwhile.
* **Offline evaluation.** Items repeat, are listed in any order and are matched in
  three different ways (Counters, dicts, sets); rates are rounded twice. Correct
  means: matches are as many as can be paired, a perfect extraction scores in
  full, and F1 is what it is said to be.
* **Ingestion.** Five limits (body, file, pages, characters, title) are checked apart,
  some of them at messages, pieces and pages that straddle them, and blank pages are dropped. Correct means: an upload is accepted
  exactly when it is within the limits, however it arrives, nothing is held
  beyond them, and every chunk keeps the number of its page in the PDF.
* **Reading.** A detail takes several SELECTs, a list several requests, and
  others commit in between. Correct means: what is said to be completed is shown
  whole, and paging to the end misses nothing.

`PROJECT.json` lists each hazard at its line with the properties that cover it.

### How the modules compose

`AnalysisProtocol` implements `ContractLifecycle` (what the database promises of
one contract). `VectorIndex` and `ModelRequests` look into two stages that
`AnalysisProtocol` takes as single steps (`RunStage`): the index stage, and the
extractions. `VectorIndex.Start` and `Finish` take from the protocol that a
completed contract is not analyzed again and that an analysis which has lost its
claim stores nothing; that it may go on working beside the next one, after a lost
session and a recovery, is so in both.
`PageEvidence` is the check whose outcome `ModelRequests` takes as given (`backed`),
`Scoring` the function whose result `LiveEvaluation.Score` takes. `ContractReads`
takes uploads and analyses as single transactions: that is what
`Uploads` (one commit of a contract with its chunks) and `ContractLifecycle` (one
publication) say of them. `Workspace` and `LiveEvaluation` are clients that see the
API as answers.

## 2. The modules

Each `MC*` module instantiates the module of its name for TLC, each `*Proofs`
module holds its theorems. `Inductions` holds the lemmas that several of them need:
induction over finite sets, numbers and sequences, sums, and sequences put together. Definitions whose comment says "mutant of" are wrong
on purpose and used by no specification: each one is a plausible bug, put in the
place of the definition it names to see that the property notices.

`PageEvidence` and `Scoring` are functions. Each has one variable that holds an
input or nothing, and the `MC*` module that checks it adds to the behaviours of
the module beside it one initial state for each input, so that TLC evaluates the
properties on all of them; no step leads on from there.

### ContractLifecycle

The abstract contract: `Begin` (claim), `Publish` (all results at once),
`Abandon` (back to failed). Nothing else can be observed of the committed row.

### AnalysisProtocol

Requests (`Analyses`, `Recoveries`) served by `Processes`, one contract.

| State | Code |
| --- | --- |
| `row` | the committed `contracts` row and its results |
| `lock`, `work` | the transaction that holds the row lock and what it has written |
| `pc`, `home`, `answer` | where a handler is, the process that serves it, the HTTP answer |
| `slots` | `app.state.model_capacity` of each process |
| `waited` | age of the timestamp that a waiting claim has read |

| Action | Code |
| --- | --- |
| `Arrive`, `Leave` | slot taken and given back (`get_llm_service`) |
| `Lookup`, `Claim`, `Reread`, `CommitClaim` | read, conditional UPDATE to processing, re-read after a lost race, commit |
| `Fence` | the second UPDATE that takes the row lock again for this attempt id |
| `RunStage`, `Publish`, `Reload` | metadata, obligations, clauses, risks, index, status; commit; read back |
| `AttemptFails`, `Rollback`, `Fail`, `CommitFail` | the except block |
| `ArriveRecovery`, `SelectForUpdate`, `Recover`, `CommitRecovery`, `AskAgain` | recovery with NOWAIT; an operational error of either statement is answered by 409 (`DatabaseError`) |
| `DatabaseError`, `LostReply`, `LoseConnection`, `Crash`, `Reap`, `Disconnected`, `Tick` | the environment |

Abstractions: an attempt id is the request that drew it (`uuid4` is fresh);
`updated_at` is an age that stops one tick past the recovery delay, since only
that comparison is ever made; PostgreSQL is modelled at READ COMMITTED with
explicit row locks, and an UPDATE that would not match the committed row affects
nothing at once. A contract begins as new, or as one that was being processed when
the column of attempt ids was added (`FirstRows`): it has a claim and no claimant,
and only a recovery can end it.

### VectorIndex

One contract's two files, searches and analyses as threads of one process,
restarts that may change the model. `claim` is the analysis that holds the
contract's claim: `Start` may pass it on while the earlier one still works, whose
`Finish` then completes nothing. `CheckExists`, `ReadMetadata`,
`VerifyChecksum`, `ReadIndex` are the steps of `load`; `Compare` and `Search` what
`ensure_index` and a search do with the result; `Encode`, `ReplaceIndex`,
`ReplaceMetadata`, `WriteFails` the rebuild; `LoadFails` the one retry. An index is
its model and a variant of its bytes, because an encoder need not return the same
bytes twice; the metadata is represented by the index whose SHA-256 it names.
Chunks do not change once stored, so their comparison is left out. One API process
writes the directory, as in the compose file.

### ModelRequests

Analyses (four tasks) and questions in one process: `Acquire`, `LockClient`,
`LookupClient`, `CreateClient`, `CreateFails`, `Release` are `get_llm_service`; `Prepare` is what
comes before the model; `Unreachable`, `Refused`, `Responds` are the post with its
retries; `Malformed`, `Parsed`, `Supported`, `Unsupported`, `GenerateAgain`, `Store`
are validation, the second generation and the flush. What the model cites are
`Items`, of which an arbitrary subset is backed by the contract or the retrieval.
Back-off sleeps are left out.

### PageEvidence

`Normalize` (`Collapsed`, `Stripped`, `Casefold`), `TextByPage`, `Join` and `Accepted`
are `_normalize`, the dictionary `text_by_page` and the comparison of
`_validate_sources`; the three services have the same code. Texts are short
sequences over a few letters and blanks, one of the letters folding into two. The
reference that `Accepted` is compared with knows no normalization, only words:
`Excerpts(words, part)` says that the words of a passage follow each other in
`words`, the first perhaps without its beginning and the last without its end.

### Workspace

Flows are one-shot runs of handlers. `Begin` (through `Connect`, `Open`, `Review`,
`Refresh`, `Upload`, `Turn`, `Ask`) is a click on an enabled control, `Send` the next
`await api(...)`, `Answered`, `Fails` and `Unauthorized` its ends, `SignOut` the
button, `Revoke` an account removed by the operator. `Listed` and `Detailed` are what
`loadContracts` and `selectContract` do with an answer, with their guards
`IsLatest` and `IsSelected`. What is rendered is abstracted to the key it was
fetched with and the page or contract it is. `list` is `#contract-list`, `count`
`#list-count`: `signOut` empties the one (`Cleared`) and leaves the other, so that
`OwnContractsOnly` speaks of the range where a list is shown with it. `asked` are the questions and
searches whose panel is still on the page: a panel is rendered with the detail and
goes with it, and an answer is written into the panel it was asked in (`Acted`),
whether it is still shown or not. The messages in
`#status`, the user's name, the values of the filters and `hasNext` (bounded by
`LastPage`) are left out. Deployments with access keys only.

### LiveEvaluation

One process at a time on an output directory: `Launch` (refused when a report
exists; reads the label files), `Connect` (reads their hashes for the header, which
is compared with the checkpoint), `Verify`, then for each fixture `Upload`,
`RequestAnalysis`, `Evaluate`, `WriteTemporary`, `ReplaceCheckpoint`, then
`WritePredictions`, `Score` (reads the label files again) and `WriteResults` (hashes
them once more). `Stop` is possible at every step; `Analyzed` goes on without the
process; `Reconfigure` and `EditFiles` change what the API runs as and the label
files, at any time. A prediction is tagged with the header that its process found
and with the label files that it had read, a report with the files it is scored on
and those it names. `edited` is a history variable: whether the files changed under
the process that runs. The properties say what holds in either case, and what holds
only without such an edit, which the code does not notice. The dataset and the
expected outputs are one `labelFiles`, read together, and an edit keeps the
contracts. Files cut in the middle of a write are left out.

### Scoring

`EvaluateFiles` checks three lists of contracts (`IsIndexed`, equal ids,
`CitesOwnChunks`) and computes `Metadata`, `Obligations`, `Risks` and `QA` as the
functions `_metadata`, `_obligations`, `_risks` and `_qa` do. `Matches` is the intersection of
two Counters, `ByKey` and `PredictionFor` are dict comprehensions that keep the last
of two items with a key. Texts are values with a normal form. Rates are integers in
units of the fourth decimal; where `_f1` is half-way between two of them, the outcome
depends on how binary floats store its arguments, and `F1s` has both. A null answer
counts as grounded only without chunks; the prediction of a question that was
left out has the answer `Missing`, which is not null, as in the code. A label without
a metadata field says that there is none, but a prediction must name the field
(`LabelFor`): labels that leave one out cannot be met by a copy of them.

### ContractReads

`contract` is the committed database, `read` what a request for one contract has
read so far, `walk` where a client is in the list.

| Action | Code |
| --- | --- |
| `Browse`, `NextPage`, `StopBrowsing` | `GET /contracts` from offset 0, at the offset that the page's Next button computes, until a page is not full |
| `Open`, `Load`, `Answer` | the SELECT of the row with its tenant, the SELECT of each part, the answer: all parts for the detail and the summary, one for a list |
| `Upload` | the commit of an upload, and the same reads behind its answer |
| `Claim`, `Publish`, `Fail` | the commits of an analysis |

`Matches`, `Before` and `Page` are the WHERE, ORDER BY and OFFSET of
`ContractRepository.list`; a party is looked for in Python, in the rows of the
same SELECT. All conditions on columns are one value, `kind`. `created_at` is
stamped before its transaction commits, by any server's clock, so a contract may
appear anywhere in the order. Chunks never change and are not read apart; no
route deletes a contract. A row that was read as processing may be answered with
results that were committed since: the code allows that, and no property
excludes it. The walk is refused a blank filter and an inverted range of dates
before it begins.

### Uploads

One `POST /contracts`. `RefuseHeader`, `RefuseLength`, `Admit` and `Receive` are the
body limit, `Parse` FastAPI's form with its limit on a title that is given, `CopyPiece` and `Copied` `read_upload_safely`,
`Validate` `validate_pdf`, `ExtractPage` and `Extracted` the text with its limit,
`CutPage` the chunks of a page, `Flush`, `Commit` and `Answer` the transaction.
`DatabaseFails` is an error before, in or after the commit; `Vanish` a client or a
process that stops. Bytes and characters are counted, `isPDF` stands for name,
media type, signature, password and damage, and a page with text has some chunks.
An upload shares no state with another one, so the module has one.

## 3. The runs

| Run | Instance | Shows |
| --- | --- | --- |
| `analysis_safety` | 2 analyses, 1 repeated recovery, 2 processes, 1 slot, 2 faults, delay 1 | `ProtocolInv`, whole results, fencing, true answers, how claims end, and that the protocol implements the lifecycle |
| `analysis_liveness` | 2 analyses, 1 recovery, 1 process with 2 slots, 1 fault | every request ends; claims are released, those without an attempt id included |
| `recovery_of_active_worker` | 1 analysis, 1 recovery, no fault | finding 1 |
| `vector_index` | 1 search, 3 analyses, 2 models, 2 variants, 2 restarts | index properties |
| `model_change` | 1 search, 1 analysis, 2 models, 1 restart | finding 2 |
| `model_requests` | 1 analysis, 1 question side by side, 2 items, 1 retry; every passage of up to 3 characters and some of 5, against up to 3 chunks on 2 pages | evidence, effort, client, slots; copied passages are found, others are not |
| `model_liveness` | 1 analysis, 1 question, one slot (`MCModelLiveness`) | every request ends |
| `workspace` | 4 flows, 2 users, 2 contracts, 2 pages | session, list, detail and answer properties |
| `live_evaluation` | 3 fixtures, 3 processes, 2 systems, 2 versions of the label files; about 3,600 sets of files to score | checkpoint and report properties; scores |
| `evaluation_resume` | 3 fixtures, 3 processes, 2 systems, 2 versions (`MCEvaluationResume`) | finding 3 |
| `contract_reads` | 1 client, 3 contracts of 2 tenants, pages of 2, 2 parts, 1 party | whole answers and paging |
| `uploads` | every limit with one below, on and above it; up to 2 headers and 3 pages | limits and page numbers |

Why the bounds are enough to be interesting: two attempts and a recovery are
what it takes for a claim to be lost, given away and then used by its old owner,
two faults let a crash meet a lost session, and two processes let each of them
have an owner. A search and three analyses are four writers of two files, analyses
whose claim went to another one among them (another search would write as an analysis
does, once); with two variants of two models a torn pair differs from each whole one,
and two restarts are what it takes to leave an index of one model beside metadata of
the other: a process that has the first model again stops between the two files. Two items
separate "backed" from "not backed" in one output, and one retry separates the
two nested loops. Four flows are a sign-in, a request that stays in flight, a
second sign-in and another request. Three fixtures let a resumed process find
none, some or all done, and two versions let an edit come between any two of the
times that the label files are read. Clients of `ContractReads` only read, and so one of
them meets everything; three contracts and pages of two let one arrive before,
inside and behind a page. They are all created at the same time, because uploads
choose their identifiers in any order, which decides ties; columns other than the
parties are left to the theorems, which hold for every set of times and kinds.
Three chunks of a contract let two be on the page of the quotation, in both orders,
and one on another, or all three be joined; passages of three characters have blanks
at either end, in runs and in between, and those of five (three words) cross a chunk
of one word from one neighbour into the other. Lists of up to three obligations on
each side repeat a key on one side or both (`MaxPaired` bounds the pairs that are
enumerated); up to 16 on each side of two contracts give rates that have to be
rounded, and fewer than 32 items in all keep each of them off the half-way points.
Files of up to three bytes in pieces of two straddle a limit of two within a
piece and at its end, and the limit of three on bodies is met with one message or
several; titles of one and two characters are at the limit and above it. In
`model_liveness` one slot makes requests compete for it, and so only one of them is
at the initialization lock at a time; `model_requests` has two slots and meets the
race for the client. Counters (`faults`, `restarts`, `launches`, `LastPage`)
are bounded by constants in the guards of their actions.

A type invariant is the first conjunct of each inductive invariant (`ProtocolInv`, `IndexInv`,
`RequestsInv`, `WorkspaceInv`, `EvaluationInv`, `ReadsInv`, `UploadInv`) and not listed again in
those runs.

Deadlock is checked where the system can always go on (`AnalysisProtocol`,
`ContractReads`). It is
not in the other runs, whose requests, flows and processes are one-shot: when all
of them have ended, or an input has been looked at, the instance has nothing left
to do.

### Fairness

* Handlers of a live process take their next step (weak fairness of
  `AnalysisStep`, `RecoveryStep`, `Respond`, `Step`): the code is straight-line
  between calls, and each post to Ollama ends within its HTTP timeout.
* Waiting for the row lock (`AwaitLock`) and for the initialization lock
  (`LockClient`) is strongly fair: PostgreSQL grants a row lock to its queue of
  waiters, and a `threading.Lock` is held only for a lookup and a constructor.
* PostgreSQL ends the session of a dead process (`Reap`, weak).
* `ClaimsAreReleased` further assumes `Persistence`: a reviewer keeps asking for
  the recovery, and time passes. The code itself promises no more: nothing
  recovers a claim by itself.

## 4. The proofs

`tlapm` proves each theorem for every number of requests, processes, models,
items, flows, pages and faults. The assumptions are those of the modules: sets
that should be disjoint are, limits are naturals, capacities positive, `Analyses`
(or `Requests`) finite where slots are counted.

| Theorems | Argument |
| --- | --- |
| `AnalysisProofs`: `Typing`, `Invariance`, `ProtocolInvariance`, `Atomicity`, `Fencing`, `Refinement`, `Finality`, `ClaimOwnership`, `Truthfulness`, `FailedAttemptsLetGo`, `SlotsBalance` | `InductiveInv`: at each label the transaction that holds the lock has written exactly what the code up to there writes, on the row that it checked. `WholeResults` alone is not inductive: a `Publish` that found another attempt's rows in `work` would break it. Refinement and the action properties follow step by step from it. |
| `VectorIndexProofs`: `IndexInvariance`, `RefusalNeedsRace`, `CompletedHasIndex`, `OwnModelOnly` | `IndexInv`: only the running model's vectors are written, so a reader that verified a file of the running model finds one of that model when it opens it again; a search that wrote a pair finds that pair unless another one wrote. |
| `ModelRequestsProofs`: `RequestsInvariance`, `EvidenceIsKept`, `AnswersAreGrounded`, `BoundedEffort`, `SingleClient`, `SlotsBalance` | `RequestsInv`: posts are bounded by the generations begun before, which needs the place of each task in the sequence; the client by the lock's holder. |
| The same module: `AcceptedAreQuoted`, `PassagesAreAccepted` (of `PageEvidence`) | The check of a quotation, for texts of any length: `Normalize` leaves the words of a text joined by single spaces (`NormalizeJoins`), joined chunks have the words of the chunks (`WordsOfJoin`), and a text of words occurs in another exactly if its words lie on words of the other (`OccursIsExcerpt`), because the spaces of both must fall together. |
| `WorkspaceProofs`: `WorkspaceInvariance`, `ShownContractsAreOwn`, `ListIsCurrent`, `DetailIsSelected` | `WorkspaceInv`: the key is the principal's own or cleared, at most one sign-in is in flight, and an answer that may still be shown was asked for with that key. A list that is shown
was asked for at the offset that its range was computed from, because every change of the
offset is followed by a new request for the list in the same step, or by the end of the
session. Panels are those of the contract shown, because they are rendered and cleared with it. |
| `EvaluationProofs`: `EvaluationInvariance`, `CheckpointSoundness`, `ReportWholeness`, `StraysAreBounded`, `ProgressIsNotLost` | `EvaluationInv`: what the process holds in memory (`MemoryAgrees`) continues what the checkpoint says (`FilesAgree`), its contract has no prediction yet (`ContractIsNew`), and uploads are predictions, strays and the one at work (`UploadsAreCounted`). `CheckpointIsSound` alone does not survive a replacement by something unsound in memory. What the process has read of the label files is what they are unless they were edited since (`FilesAreCurrent`). |
| The same module: `F1StaysClose`, `MatchesArePairs` (of `Scoring`) | Two rounded rates and a rounded F1: the errors add up to less than two units. The matches of two Counters, summed over keys, are the size of a greatest pairing, by induction over the set of keys; for lists of any length (`MaxPaired` bounds only what the run enumerates). |
| The same module: `CopiesScoreFull` (of `Scoring`) | A list and a reordering of it have the same items as often (`ReorderingMatches`), so every count of a section is at most the count of labels, item by item. A rate is full exactly when the two counts are equal (`RatioIsFull`), and two sums are equal exactly when each term is (`SumsCompare`): no contract makes up for another. Per contract that comes down to the four conditions of `Consistent`. For citations, precision and recall are full together exactly when each question is answered with its own chunks (`CitationsAreFull`). |
| `ContractReadsProofs`: `ReadsInvariance`, `CompletedReads`, `PagingIsComplete`, `RepeatsNeedArrivals` | `ReadsInv`: contracts that match go on matching, so a contract's rank in a filtered list never falls while the database grows: what a walk has not been shown cannot slip behind its offset. `PagingSkipsNothing` alone says nothing of walks that are not at their end. |
| `UploadsProofs`: `UploadInvariance`, `EvidenceIsPaged`, `LimitsDecide` | `UploadInv`: each place in the code knows the checks that were passed before it, the chunks cut so far are those of the pages with text up to there, and the count of characters is their sum, so that a refusal for size and the sum over all pages exclude each other (`SumOfPart`). |

What recursion computes is proved by induction over a set that the claim defines
(`Inductions`: every number, subset or sequence is in it once the smaller ones are),
after showing that the recursive function exists (`RecursionExists`, `FlatteningExists`,
`IterationExists`). The theorems about `PageEvidence` and `Scoring` say of every input
that the assumptions allow what the runs say of the inputs they enumerate.

`Scoring` takes three things from its files: obligations, risks and questions are
lists (`FilesAreListed`), labels hold values and finitely many chunks
(`LabelsAreValues`), and fewer than 20000 items of a kind are counted
(`FilesAreSmall`). `CopiesScoreFull` needs the last: rates have four decimals, so
20000 of 20001 would be reported as 1.0. Where cited chunks are counted, the limit is on
the questions times the chunks that any label cites, because a question that occurs
twice may be answered with the chunks of another. The other theorems about `Scoring`
have no such limit.

Only model-checked: liveness (`EveryRequestEnds`, `EveryModelRequestEnds`, `ClaimsAreReleased`), which is
out of the prover's reach. Every other property of a passing run is a theorem.

## 5. Findings

1. `recovery_of_active_worker`: README.md and docs say that row locking prevents
   recovery while a worker is active. The claim is committed before the lock is
   taken again by the fence, so a worker in between can lose its claim to a
   recovery once the delay has passed. Safety is kept: the fence fails.
2. `model_change`: README.md says that the index is rebuilt when the embedding
   model changes. A search of a completed contract answers an error instead, and
   the completed contract is never indexed again.
3. `evaluation_resume`: docs/evaluation.md says that a stopped run can be resumed
   with `--resume`. One that stops between its two reports is refused.

## 6. Not modelled

* Access checks (`api/auth.py`, `scripts/provision_access.py`) are a function of the
  request, its key and the file read at start: no sequence of requests changes an
  outcome, a contract's tenant never changes, and unit tests reach every case.
  What the browser does about a refused key is in `Workspace`, what tenants mean for
  lists in `ContractReads`.
* Middleware, error wording, health, logging, configuration, prompts, schemas and
  chains keep no state beyond a request; the process's slots and lock, created in
  `main.py`, and the one rule between fields that a property needs
  (`ModelRequests.WellFormed`) are in the modules that use them.
* Migrations and drills run once, in a straight line; the claim without an attempt
  id that the second migration leaves is in `AnalysisProtocol.FirstRows`.
* In the modelled parts, ranking, vectors, the text of contracts and answers
  outside `PageEvidence`, rendering, JSON and the types of its fields, and command
  lines are data.

Limits of the code that no property excludes, because nothing promises the contrary:

* A passage that crosses from one chunk into the next is refused when the two overlap
  or were loaded in another order (`AcceptedIsQuoted` describes what is accepted).
* Two details of the same contract may arrive in the wrong order (`web/app.js:79`).
* The range of the contract list survives a sign-out (`web/app.js:39-45`) and is on the
  page again after the next sign-in (53), until the new list arrives (64), or for good
  if it is refused: the next user sees how many contracts the page of the previous
  one had.
* Label files that are edited while an evaluation runs mix versions in its predictions,
  scores and report (`src/scripts/evaluate_live.py:175`, 194, 225, 231), unnoticed.
* An upload that fails after its commit, or whose answer is lost, is stored, and sending
  it again stores it twice (`api/routes/contracts.py:75`).
* A prediction without an answer that cites labelled chunks counts as grounded
  (`src/scripts/evaluate_extraction.py:224`).

## 7. Plan

Done: the modules above, the core (`AnalysisProtocol`) first, then the two stages
it calls, the two clients, the readers and uploads around it, and last the two
functions, `PageEvidence` and `Scoring`. What would add most next:

1. The filters of `Workspace` together with the lists of `ContractReads`, so that what
   is shown is a page of what is stored.
2. A version in what `Workspace` shows, to say how old a detail may be.
3. Retries of an upload whose answer was lost, by a user who looks at the list
   (`Uploads` beside `ContractReads`).
4. Liveness of `VectorIndex`: that a search meets a good index if the others stop.
