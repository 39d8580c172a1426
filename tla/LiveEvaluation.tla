---------------------------- MODULE LiveEvaluation ----------------------------
(***************************************************************************)
(* The live evaluation (scripts/evaluate_live.py): a process that uploads  *)
(* the contracts of a dataset one after the other, has each of them        *)
(* analyzed and questioned, and keeps what it got in a checkpoint, so that *)
(* another process can resume where it stopped.  It may stop at any step,  *)
(* because a request or a check fails or because it is killed; what it     *)
(* asked the API for goes on without it.                                   *)
(*                                                                         *)
(* The header of a checkpoint is what it must agree with to be resumed:    *)
(* the system (its models and the identity) and the hashes of the two label*)
(* files, the dataset and the expected outputs.  A process reads the label *)
(* files when it starts, again for the header, again to score, and once    *)
(* more for the report; somebody may edit them in between.  An edit keeps  *)
(* the contracts and their order, and the two files are read together: a   *)
(* version stands for the content of both.  The content of predictions and *)
(* scores is left out, and so is a report that is cut in the middle.       *)
(***************************************************************************)
EXTENDS Naturals, Sequences, SequencesExt

CONSTANTS
  Fixtures,     \* the contracts of the dataset are 1 .. Fixtures
  Systems,      \* what the API can be running as
  Versions,     \* the label files as they are, and as they are after an edit
  None,
  MaxLaunches   \* bounds the processes started on one output directory

Headers == [system : Systems, files : Versions]
PredictionLists == Seq([fixture : Nat, contract : Nat, edited : BOOLEAN, run : Headers,
                        loaded : Versions])

ASSUME EvaluationAssumption ==
  /\ Fixtures \in Nat
  /\ MaxLaunches \in Nat
  /\ None \notin Versions
  /\ None \notin Headers
  /\ None \notin PredictionLists
  /\ None \notin [run : Headers, items : PredictionLists]

VARIABLES
  system,       \* what the API is running as
  labelFiles,   \* the label files on the disk
  contracts,    \* the contracts uploaded, by their number, and their status
  launches,     \* processes started
  pc,           \* where the running process is
  loaded,       \* the label files that it read
  edited,       \* whether they were edited since (history: no step depends on it)
  run,          \* the header that it found
  contract,     \* the contract it is about
  items,        \* the predictions in its memory, with what they were made under
  metrics,      \* the label files its scores were taken from
  temporary,    \* partial.tmp
  partial,      \* partial.json
  predictions,  \* predictions.json
  results       \* results.json

Statuses == {"pending", "processing", "completed", "failed"}

surroundings == <<system, labelFiles>>
memory == <<loaded, edited, run, contract, items, metrics>>
directory == <<temporary, partial, predictions, results>>
vars == <<system, labelFiles, contracts, launches, pc, loaded, edited, run, contract, items,
          metrics, temporary, partial, predictions, results>>

Init ==
  /\ system \in Systems /\ labelFiles \in Versions
  /\ contracts = <<>>
  /\ launches = 0
  /\ pc = "stopped"
  /\ loaded = None /\ edited = FALSE
  /\ run = None /\ contract = 0 /\ items = <<>> /\ metrics = None
  /\ temporary = None /\ partial = None
  /\ predictions = None /\ results = None

\* Mutant of Loop: one fixture too many.
LoopPastTheEnd(done) == IF Len(done) <= Fixtures THEN "upload" ELSE "predictions"

\* The loop over the fixtures that have no prediction yet.
Loop(done) == IF Len(done) < Fixtures THEN "upload" ELSE "predictions"

-----------------------------------------------------------------------------
\* main.

\* Reports are not overwritten.  With a checkpoint --resume is asked for, and
\* without one it is refused, so the checkpoint decides.
Launch ==
  /\ pc = "stopped" /\ launches < MaxLaunches
  /\ predictions = None /\ results = None
  /\ launches' = launches + 1
  /\ loaded' = labelFiles /\ edited' = FALSE
  /\ pc' = "connect"
  /\ UNCHANGED <<surroundings, contracts, run, contract, items, metrics, directory>>

Header == [system |-> system, files |-> labelFiles]

\* Mutant of SameRun: the hashes are not compared.
SameSystem == partial # None => partial.run.system = Header.system

SameRun == partial # None => partial.run = Header

\* Mutant of Connect: a checkpoint is replaced by the first contract of a new run.
ConnectAfresh ==
  /\ pc = "connect"
  /\ SameRun
  /\ run' = Header
  /\ items' = <<>>
  /\ pc' = "verify"
  /\ UNCHANGED <<surroundings, contracts, launches, loaded, edited, contract, metrics,
                 directory>>

Connect ==
  /\ pc = "connect"
  /\ SameRun
  /\ run' = Header
  /\ items' = IF partial = None THEN <<>> ELSE partial.items
  /\ pc' = "verify"
  /\ UNCHANGED <<surroundings, contracts, launches, loaded, edited, contract, metrics,
                 directory>>

ForgetAll ==
  /\ loaded' = None /\ edited' = FALSE
  /\ run' = None /\ contract' = 0 /\ items' = <<>> /\ metrics' = None

\* An exception, a refused check, or the end of the process.
Stop ==
  /\ pc # "stopped"
  /\ pc' = "stopped"
  /\ ForgetAll
  /\ UNCHANGED <<surroundings, contracts, launches, directory>>

-----------------------------------------------------------------------------
\* generate_predictions.

\* Contracts evaluated before must still be completed.
Verify ==
  /\ pc = "verify"
  /\ \A i \in DOMAIN items : contracts[items[i].contract] = "completed"
  /\ pc' = Loop(items)
  /\ UNCHANGED <<surroundings, contracts, launches, memory, directory>>

\* Mutant of Upload: an upload whose answer is lost is sent again.
UploadRetried ==
  /\ pc = "upload"
  /\ Len(contracts) < Fixtures + 2 * MaxLaunches
  /\ contracts' = Append(contracts, "pending")
  /\ \/ contract' = Len(contracts') /\ pc' = "analyze"
     \/ UNCHANGED <<contract, pc>>
  /\ UNCHANGED <<surroundings, launches, loaded, edited, run, items, metrics, directory>>

\* The answer may be lost: then the process stops.
Upload ==
  /\ pc = "upload"
  /\ contracts' = Append(contracts, "pending")
  /\ contract' = Len(contracts')
  /\ pc' = "analyze"
  /\ UNCHANGED <<surroundings, launches, loaded, edited, run, items, metrics, directory>>

RequestAnalysis ==
  /\ pc = "analyze"
  /\ contracts' = [contracts EXCEPT ![contract] = "processing"]
  /\ pc' = "await"
  /\ UNCHANGED <<surroundings, launches, memory, directory>>

\* The API, whether or not the process still waits.
Analyzed ==
  /\ \E c \in DOMAIN contracts :
       /\ contracts[c] = "processing"
       /\ \E status \in {"completed", "failed"} :
            contracts' = [contracts EXCEPT ![c] = status]
  /\ UNCHANGED <<surroundings, launches, pc, memory, directory>>

\* Mutant of IsAnalyzed: a failed analysis is evaluated too.
IsAnalyzedOrTriedTo == contracts[contract] # "processing"

IsAnalyzed == contracts[contract] = "completed"

\* The answer of the analysis, then the checks that it is reused, summarized,
\* searched and questioned consistently.
Evaluate ==
  /\ pc = "await"
  /\ IsAnalyzed
  /\ items' = Append(items, [fixture |-> Len(items) + 1, contract |-> contract,
                             edited |-> edited, run |-> run, loaded |-> loaded])
  /\ contract' = 0
  /\ pc' = "save"
  /\ UNCHANGED <<surroundings, contracts, launches, loaded, edited, run, metrics, directory>>

\* save_partial: written beside the checkpoint, which is then replaced.
WriteTemporary ==
  /\ pc = "save"
  /\ temporary' = [run |-> run, items |-> items]
  /\ pc' = "replace"
  /\ UNCHANGED <<surroundings, contracts, launches, memory, partial, predictions, results>>

ReplaceCheckpoint ==
  /\ pc = "replace"
  /\ partial' = temporary
  /\ temporary' = None
  /\ pc' = Loop(items)
  /\ UNCHANGED <<surroundings, contracts, launches, memory, predictions, results>>

-----------------------------------------------------------------------------
\* main again: the predictions, then their scores.

WritePredictions ==
  /\ pc = "predictions"
  /\ predictions' = items
  /\ pc' = "score"
  /\ UNCHANGED <<surroundings, contracts, launches, memory, temporary, partial, results>>

\* evaluate_files, which reads the label files and the predictions from the disk.
Score ==
  /\ pc = "score"
  /\ metrics' = labelFiles
  /\ pc' = "results"
  /\ UNCHANGED <<surroundings, contracts, launches, loaded, edited, run, contract, items,
                 directory>>

\* The report bears the system of the header, its identity left out, and the hash of
\* the dataset as it is now.
WriteResults ==
  /\ pc = "results"
  /\ results' = [system |-> run.system, files |-> labelFiles, metrics |-> metrics,
                 edited |-> edited, generated_at |-> launches]
  /\ pc' = "stopped"
  /\ ForgetAll
  /\ UNCHANGED <<surroundings, contracts, launches, temporary, partial, predictions>>

-----------------------------------------------------------------------------
\* Around the processes.

\* An operator restarts the API with another model, or changes the access key.
Reconfigure ==
  /\ system' \in Systems \ {system}
  /\ UNCHANGED <<labelFiles, contracts, launches, pc, memory, directory>>

EditFiles ==
  /\ labelFiles' \in Versions \ {labelFiles}
  /\ edited' = (pc # "stopped")
  /\ UNCHANGED <<system, contracts, launches, pc, loaded, run, contract, items, metrics,
                 directory>>

-----------------------------------------------------------------------------
Next ==
  \/ Launch \/ Connect \/ Verify \/ Upload \/ RequestAnalysis \/ Evaluate
  \/ WriteTemporary \/ ReplaceCheckpoint \/ WritePredictions \/ Score
  \/ WriteResults \/ Stop
  \/ Analyzed \/ Reconfigure \/ EditFiles

Spec == Init /\ [][Next]_vars

-----------------------------------------------------------------------------
\* Properties.

Predictions == [fixture : 1 .. Fixtures, contract : DOMAIN contracts, edited : BOOLEAN,
                run : Headers, loaded : Versions]
Checkpoints == [run : Headers, items : Seq(Predictions)]
Reports == [system : Systems, files : Versions, metrics : Versions, edited : BOOLEAN,
            generated_at : 1 .. launches]

(* Every variable keeps its type.                                          *)
TypeOK ==
  /\ system \in Systems
  /\ labelFiles \in Versions
  /\ contracts \in Seq(Statuses)
  /\ launches \in 0 .. MaxLaunches
  /\ pc \in {"stopped", "connect", "verify", "upload", "analyze", "await", "save",
             "replace", "predictions", "score", "results"}
  /\ loaded \in Versions \cup {None}
  /\ edited \in BOOLEAN
  /\ run \in Headers \cup {None}
  /\ contract \in DOMAIN contracts \cup {0}
  /\ items \in Seq(Predictions)
  /\ metrics \in Versions \cup {None}
  /\ temporary \in Checkpoints \cup {None}
  /\ partial \in Checkpoints \cup {None}
  /\ predictions \in Seq(Predictions) \cup {None}
  /\ results \in Reports \cup {None}

\* Predictions for the first fixtures, each from a completed contract of its own, made
\* under this header, and from the label files that it names unless they were edited
\* while the process was running that made it.
Sound(done, header) ==
  /\ \A i \in DOMAIN done :
       /\ done[i].fixture = i
       /\ done[i].run = header
       /\ contracts[done[i].contract] = "completed"
       /\ ~done[i].edited => done[i].loaded = header.files
  /\ \A i, j \in DOMAIN done : done[i].contract = done[j].contract => i = j

(* Whatever process wrote it and wherever it stopped, a checkpoint can be  *)
(* resumed: it holds the first fixtures in their order, each from its own  *)
(* completed contract, all of them evaluated by processes that found the   *)
(* header it bears when they started, and with the label files that the    *)
(* header names, unless the files were edited under the process.           *)
CheckpointIsSound == partial # None => Sound(partial.items, partial.run)

(* A report covers every fixture once, and however many processes          *)
(* contributed to it, all of them started under one header, whose system is*)
(* the one the report names.  If the label files were not edited while the *)
(* process ran that wrote it, then the scores were taken from the files    *)
(* that all of them started under, and the report names these.             *)
ReportIsWhole ==
  results # None =>
    /\ predictions # None /\ Len(predictions) = Fixtures
    /\ \E header \in Headers :
         /\ Sound(predictions, header)
         /\ results.system = header.system
         /\ ~results.edited => results.metrics = header.files /\ results.files = header.files

(* Stopping and starting again never loses a contract that was evaluated   *)
(* and saved.                                                              *)
ProgressIsKept ==
  [][partial # None => partial' # None /\ IsPrefix(partial.items, partial'.items)]_vars

\* What a resumed process would start from.
Saved == IF partial = None THEN <<>> ELSE partial.items

(* Each process leaves at most one contract in the evaluation tenant that  *)
(* no prediction comes from.                                               *)
StrayUploadsAreBounded == Len(contracts) <= Len(Saved) + launches

\* Before it has connected, and after it has stopped, a process holds nothing.
IdleHoldsNothing ==
  /\ pc = "stopped" => loaded = None /\ ~edited
  /\ pc \in {"stopped", "connect"} => run = None /\ contract = 0 /\ items = <<>>

\* As long as nobody edits the label files, what it has read of them is what they are.
FilesAreCurrent ==
  /\ pc # "stopped" => loaded \in Versions
  /\ pc = "results" => metrics \in Versions
  /\ pc # "stopped" /\ ~edited =>
       /\ loaded = labelFiles
       /\ pc # "connect" => run.files = labelFiles
       /\ pc = "results" => metrics = labelFiles

\* While it works it agrees with the checkpoint, which lacks at most the prediction
\* that is about to be saved.
MemoryAgrees ==
  pc \notin {"stopped", "connect"} =>
    /\ run \in Headers
    /\ Sound(items, run)
    /\ partial # None => partial.run = run
    /\ IF pc \in {"save", "replace"}
       THEN /\ Len(items) = Len(Saved) + 1
            /\ \A i \in DOMAIN Saved : items[i] = Saved[i]
       ELSE items = Saved

\* The contract it waits for is none of those it has predictions from.
ContractIsNew ==
  IF pc \in {"analyze", "await"}
  THEN contract \in DOMAIN contracts /\ \A i \in DOMAIN items : items[i].contract # contract
  ELSE contract = 0

\* Fixtures are evaluated until all of them are, and no more.
WorkIsLeft ==
  /\ Len(Saved) <= Fixtures
  /\ pc \in {"upload", "analyze", "await"} => Len(items) < Fixtures
  /\ pc \in {"save", "replace"} => Len(items) <= Fixtures
  /\ pc \in {"predictions", "score", "results"} => Len(items) = Fixtures

\* The files that the process is about to go on from are its own.
FilesAgree ==
  /\ pc = "replace" => temporary = [run |-> run, items |-> items]
  /\ pc # "stopped" =>
       results = None /\ predictions = IF pc \in {"score", "results"} THEN items ELSE None

\* A process uploads one contract between two checkpoints.
UploadsAreCounted ==
  /\ pc # "stopped" => launches > 0
  /\ Len(contracts) <=
       Len(Saved) + (IF pc \in {"stopped", "analyze", "await", "save", "replace"}
                     THEN launches ELSE launches - 1)

(* What a process that runs knows agrees at every point with what is on the*)
(* disk and with the contracts it uploaded, so that it may be stopped there*)
(* and another one go on from the checkpoint: the inductive invariant.     *)
EvaluationInv ==
  /\ TypeOK
  /\ IdleHoldsNothing
  /\ FilesAreCurrent
  /\ MemoryAgrees
  /\ ContractIsNew
  /\ WorkIsLeft
  /\ FilesAgree
  /\ UploadsAreCounted
  /\ CheckpointIsSound
  /\ ReportIsWhole

(* If a run stops, it can be resumed (docs/evaluation.md).                 *)
StoppedRunsCanResume ==
  pc = "stopped" /\ partial # None /\ results = None => predictions = None
=============================================================================
