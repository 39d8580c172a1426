---------------------------- MODULE EvaluationProofs ----------------------------
(***************************************************************************)
(* Proofs about the two evaluations.                                       *)
(*                                                                         *)
(* LiveEvaluation, for any number of fixtures, of systems, of versions of  *)
(* the label files and of processes: the checkpoint is sound and only      *)
(* grows, the report covers every fixture once, under one header and, if   *)
(* nobody edits them meanwhile, with its label files, and the contracts    *)
(* that no prediction comes from are bounded by the processes started.     *)
(*                                                                         *)
(* Scoring, for any files: what its F1 is worth after rounding, that       *)
(* obligations are counted as the best pairing of labels and predictions   *)
(* would count them, and which labels a copy of them gets full marks for.  *)
(***************************************************************************)
EXTENDS LiveEvaluation, Scoring, Inductions, SequenceTheorems

(* Predictions that refer to contracts still do when there are more of     *)
(* them.                                                                   *)
LEMMA PredictionsStay ==
  ASSUME contracts \in Seq(Statuses), contracts' \in Seq(Statuses),
         Len(contracts) <= Len(contracts')
  PROVE  /\ Predictions \subseteq Predictions'
         /\ Seq(Predictions) \subseteq Seq(Predictions')
         /\ Checkpoints \subseteq Checkpoints'
<1>1. DOMAIN contracts \subseteq DOMAIN contracts'
  OBVIOUS
<1>2. Predictions \subseteq Predictions'
  BY <1>1 DEF Predictions
<1>3. Seq(Predictions) \subseteq Seq(Predictions')
  BY <1>2
<1> QED
  BY <1>2, <1>3 DEF Checkpoints

(* What is saved is a list of predictions, and it is what a checkpoint     *)
(* holds.                                                                  *)
LEMMA SavedPredictions ==
  ASSUME TypeOK
  PROVE  /\ Saved \in Seq(Predictions)
         /\ partial # None => partial.items \in Seq(Predictions) /\ partial.run \in Headers
BY DEF TypeOK, Saved, Checkpoints

(* Predictions, and a checkpoint, are not the absence of them.             *)
LEMMA FilesAreSome ==
  ASSUME TypeOK, NEW header \in Headers, NEW done \in Seq(Predictions)
  PROVE  done # None /\ [run |-> header, items |-> done] # None
<1> DEFINE Data == [fixture : Nat, contract : Nat, edited : BOOLEAN, run : Headers,
                    loaded : Versions]
<1>1. ASSUME NEW p \in Predictions
      PROVE  p \in Data
  <2>1. 1 .. Fixtures \subseteq Nat /\ DOMAIN contracts \subseteq Nat
    BY EvaluationAssumption DEF TypeOK
  <2> QED
    BY <2>1 DEF Predictions
<1>2. done \in Seq(Data)
  <2>1. Predictions \subseteq Data
    BY <1>1
  <2> HIDE DEF Data
  <2> QED
    BY <2>1
<1> QED
  BY <1>2, EvaluationAssumption DEF PredictionLists

(* A step of the API or of the process that changes only contracts of which*)
(* there is no prediction leaves the types and what is on the disk.        *)
LEMMA ContractsMayChange ==
  ASSUME TypeOK, CheckpointIsSound, ReportIsWhole,
         contracts' \in Seq(Statuses), Len(contracts) <= Len(contracts'),
         \A c \in DOMAIN contracts : contracts[c] = "completed" => contracts'[c] = "completed",
         UNCHANGED <<surroundings, launches, loaded, edited, run, items, metrics, directory>>,
         contract' \in DOMAIN contracts' \cup {0},
         pc' \in {"stopped", "connect", "verify", "upload", "analyze", "await", "save",
                  "replace", "predictions", "score", "results"}
  PROVE  /\ TypeOK'
         /\ CheckpointIsSound' /\ ReportIsWhole'
         /\ \A header : Sound(items, header) => Sound(items, header)'
<1>1. /\ Predictions \subseteq Predictions'
      /\ Seq(Predictions) \subseteq Seq(Predictions')
      /\ Checkpoints \subseteq Checkpoints'
  <2>1. contracts \in Seq(Statuses)
    BY DEF TypeOK
  <2> QED
    BY <2>1, PredictionsStay
<1>2. TypeOK'
  BY <1>1 DEF TypeOK, surroundings, directory, Checkpoints, Reports
<1>3. ASSUME NEW done \in Seq(Predictions), NEW header, Sound(done, header)
      PROVE  Sound(done, header)'
  <2>1. \A i \in DOMAIN done : done[i] \in Predictions
    OBVIOUS
  <2>2. \A i \in DOMAIN done : done[i].contract \in DOMAIN contracts
    BY <2>1 DEF Predictions
  <2> QED
    BY <1>3, <2>2 DEF Sound
<1>4. CheckpointIsSound'
  BY <1>3, SavedPredictions DEF CheckpointIsSound, directory
<1>5. ReportIsWhole'
  <2> SUFFICES ASSUME results # None
               PROVE  ReportIsWhole'
    BY DEF ReportIsWhole, directory
  <2>1. PICK header \in Headers :
             /\ Sound(predictions, header) /\ results.system = header.system
             /\ ~results.edited => results.metrics = header.files /\ results.files = header.files
    BY DEF ReportIsWhole
  <2>2. predictions \in Seq(Predictions)
    BY DEF TypeOK, ReportIsWhole
  <2>3. Sound(predictions, header)'
    BY <1>3, <2>1, <2>2 DEF directory
  <2> QED
    BY <2>1, <2>3 DEF ReportIsWhole, directory, Headers
<1>6. items \in Seq(Predictions)
  BY DEF TypeOK
<1> QED
  BY <1>2, <1>3, <1>4, <1>5, <1>6

(* What other processes and the disk keep when neither the contracts nor   *)
(* the checkpoint nor the report change.                                   *)
LEMMA DiskUntouched ==
  ASSUME CheckpointIsSound, ReportIsWhole,
         UNCHANGED <<contracts, partial, predictions, results>>
  PROVE  /\ CheckpointIsSound' /\ ReportIsWhole' /\ Saved' = Saved
         /\ items' = items => \A header : Sound(items, header) => Sound(items, header)'
BY DEF CheckpointIsSound, ReportIsWhole, Saved, Sound

(* The memory of a process agrees with the disk and with the API after     *)
(* every step, whoever takes it.                                           *)
THEOREM EvaluationInvariance == Spec => []EvaluationInv
<1> USE EvaluationAssumption
<1>1. Init => EvaluationInv
  <2> SUFFICES ASSUME Init
               PROVE  EvaluationInv
    OBVIOUS
  <2>1. edited \in BOOLEAN
    BY DEF Init
  <2>2. TypeOK
    BY <2>1 DEF Init, TypeOK, Statuses
  <2> QED
    BY <2>2 DEF Init, EvaluationInv, IdleHoldsNothing, FilesAreCurrent, MemoryAgrees, ContractIsNew,
                WorkIsLeft, FilesAgree, UploadsAreCounted, CheckpointIsSound, ReportIsWhole, Saved
<1>2. EvaluationInv /\ [Next]_vars => EvaluationInv'
  <2> SUFFICES ASSUME EvaluationInv, [Next]_vars
               PROVE  EvaluationInv'
    OBVIOUS
  <2> USE DEF EvaluationInv
  <2>t. /\ Saved \in Seq(Predictions)
        /\ partial # None => partial.items \in Seq(Predictions) /\ partial.run \in Headers
    BY SavedPredictions
  <2>1. CASE Launch
    <3>1. CheckpointIsSound' /\ ReportIsWhole' /\ Saved' = Saved
      BY <2>1, DiskUntouched DEF Launch, directory
    <3>2. TypeOK'
      <4>1. edited' \in BOOLEAN
        BY <2>1 DEF Launch
      <4> QED
        BY <2>1, <4>1 DEF Launch, TypeOK, memory, directory, Predictions, Checkpoints, Reports,
                           surroundings
    <3>f. FilesAreCurrent'
      BY <2>1 DEF Launch, TypeOK, surroundings, memory, FilesAreCurrent
    <3>3. IdleHoldsNothing' /\ MemoryAgrees' /\ ContractIsNew'
      BY <2>1 DEF Launch, memory, IdleHoldsNothing, MemoryAgrees, ContractIsNew
    <3>4. WorkIsLeft' /\ FilesAgree' /\ UploadsAreCounted'
      BY <2>1, <2>t, <3>1 DEF Launch, directory, TypeOK, WorkIsLeft, FilesAgree, UploadsAreCounted
    <3> QED
      BY <3>1, <3>2, <3>3, <3>4, <3>f
  <2>2. CASE Connect
    <3>1. CheckpointIsSound' /\ ReportIsWhole' /\ Saved' = Saved
      BY <2>2, DiskUntouched DEF Connect, directory
    <3>2. items' = Saved /\ run' \in Headers /\ (partial # None => partial.run = run')
      BY <2>2 DEF Connect, SameRun, Header, Headers, Saved, TypeOK
    <3>3. TypeOK'
      BY <2>2, <2>t, <3>2 DEF Connect, TypeOK, directory, Predictions, Checkpoints, Reports, surroundings
    <3>f. FilesAreCurrent'
      BY <2>2 DEF Connect, Header, directory, TypeOK, surroundings, memory, FilesAreCurrent
    <3>4. IdleHoldsNothing' /\ MemoryAgrees' /\ ContractIsNew'
      BY <2>2, <2>t, <3>1, <3>2
         DEF Connect, directory, Saved, CheckpointIsSound, Sound, IdleHoldsNothing, MemoryAgrees,
             ContractIsNew
    <3>5. WorkIsLeft' /\ FilesAgree' /\ UploadsAreCounted'
      BY <2>2, <3>1 DEF Connect, directory, WorkIsLeft, FilesAgree, UploadsAreCounted
    <3> QED
      BY <3>1, <3>3, <3>4, <3>5, <3>f
  <2>3. CASE Verify
    <3>1. /\ CheckpointIsSound' /\ ReportIsWhole' /\ Saved' = Saved
          /\ \A header : Sound(items, header) => Sound(items, header)'
      BY <2>3, DiskUntouched DEF Verify, memory, directory
    <3>2. TypeOK'
      BY <2>3 DEF Verify, Loop, TypeOK, memory, directory, Predictions, Checkpoints, Reports, surroundings
    <3>f. FilesAreCurrent'
      BY <2>3 DEF Verify, Loop, TypeOK, surroundings, memory, FilesAreCurrent
    <3>3. IdleHoldsNothing' /\ MemoryAgrees' /\ ContractIsNew'
      BY <2>3, <3>1 DEF Verify, Loop, memory, directory, IdleHoldsNothing, MemoryAgrees,
                        ContractIsNew
    <3>4. WorkIsLeft' /\ FilesAgree' /\ UploadsAreCounted'
      <4>1. Len(items) \in Nat /\ Len(items) <= Fixtures
        BY <2>3, <2>t DEF Verify, MemoryAgrees, WorkIsLeft
      <4> QED
        BY <2>3, <3>1, <4>1 DEF Verify, Loop, memory, directory, WorkIsLeft, FilesAgree,
                                UploadsAreCounted
    <3> QED
      BY <3>1, <3>2, <3>3, <3>4, <3>f
  <2>4. CASE Upload
    <3>1. /\ contracts' \in Seq(Statuses)
          /\ Len(contracts) \in Nat /\ Len(contracts') = Len(contracts) + 1
          /\ contract' = Len(contracts') /\ DOMAIN contracts' = 1 .. Len(contracts')
          /\ \A c \in DOMAIN contracts : contracts'[c] = contracts[c]
      BY <2>4 DEF Upload, TypeOK, Statuses
    <3>2. UNCHANGED <<surroundings, launches, loaded, edited, run, items, metrics, directory>> /\ pc' = "analyze"
      BY <2>4 DEF Upload
    <3>3. /\ TypeOK' /\ CheckpointIsSound' /\ ReportIsWhole'
          /\ \A header : Sound(items, header) => Sound(items, header)'
      BY <3>1, <3>2, ContractsMayChange
    <3>4. \A i \in DOMAIN items : items[i].contract \in 1 .. Len(contracts)
      <4>1. \A i \in DOMAIN items : items[i] \in Predictions
        BY DEF TypeOK
      <4>2. DOMAIN contracts = 1 .. Len(contracts)
        BY DEF TypeOK
      <4> QED
        BY <4>1, <4>2 DEF Predictions
    <3>5. Saved' = Saved
      BY <3>2 DEF Saved, directory
    <3>f. FilesAreCurrent'
      BY <2>4 DEF Upload, TypeOK, surroundings, memory, FilesAreCurrent
    <3>6. IdleHoldsNothing' /\ MemoryAgrees'
      BY <2>4, <3>2, <3>3, <3>5 DEF Upload, directory, IdleHoldsNothing, MemoryAgrees
    <3>7. ContractIsNew'
      BY <3>1, <3>2, <3>4 DEF ContractIsNew
    <3>8. WorkIsLeft' /\ FilesAgree' /\ UploadsAreCounted'
      BY <2>4, <2>t, <3>1, <3>2, <3>5 DEF Upload, TypeOK, directory, WorkIsLeft, FilesAgree,
                                          UploadsAreCounted
    <3> QED
      BY <3>3, <3>6, <3>7, <3>8, <3>f
  <2>5. CASE RequestAnalysis
    <3>1. /\ contracts' \in Seq(Statuses) /\ Len(contracts') = Len(contracts)
          /\ DOMAIN contracts' = DOMAIN contracts
          /\ \A c \in DOMAIN contracts : c # contract => contracts'[c] = contracts[c]
      BY <2>5 DEF RequestAnalysis, ContractIsNew, TypeOK, Statuses
    <3>2. UNCHANGED <<surroundings, launches, memory, directory>> /\ pc' = "await"
      BY <2>5 DEF RequestAnalysis
    <3>3. UNCHANGED <<loaded, edited, run, items, contract, metrics>> /\ Saved' = Saved
      BY <3>2 DEF memory, directory, Saved
    <3>4. Sound(items, run)'
      BY <2>5, <3>1, <3>3 DEF RequestAnalysis, Sound, ContractIsNew, MemoryAgrees, TypeOK, Predictions
    <3>5. CheckpointIsSound'
      BY <2>5, <3>2, <3>3, <3>4 DEF RequestAnalysis, MemoryAgrees, CheckpointIsSound, Saved, directory
    <3>6. results = None /\ results' = None
      BY <2>5, <3>2 DEF RequestAnalysis, FilesAgree, directory
    <3>7. ReportIsWhole'
      BY <3>6 DEF ReportIsWhole
    <3>8. TypeOK'
      <4>1. Predictions' = Predictions /\ Checkpoints' = Checkpoints
        BY <3>1 DEF Predictions, Checkpoints, Reports, surroundings
      <4> QED
        BY <3>1, <3>2, <3>3, <4>1 DEF TypeOK, surroundings, directory, Reports
    <3>f. FilesAreCurrent'
      BY <2>5 DEF RequestAnalysis, TypeOK, surroundings, memory, FilesAreCurrent
    <3>9. IdleHoldsNothing' /\ MemoryAgrees' /\ ContractIsNew'
      BY <2>5, <3>1, <3>2, <3>3, <3>4
         DEF RequestAnalysis, directory, IdleHoldsNothing, MemoryAgrees, ContractIsNew
    <3>10. WorkIsLeft' /\ FilesAgree' /\ UploadsAreCounted'
      BY <2>5, <3>1, <3>2, <3>3 DEF RequestAnalysis, directory, WorkIsLeft, FilesAgree,
                                    UploadsAreCounted
    <3> QED
      BY <3>5, <3>7, <3>8, <3>9, <3>10, <3>f
  <2>6. CASE Evaluate
    <3> DEFINE new == [fixture |-> Len(items) + 1, contract |-> contract, edited |-> edited,
                    run |-> run, loaded |-> loaded]
    <3>1. CheckpointIsSound' /\ ReportIsWhole' /\ Saved' = Saved
      BY <2>6, DiskUntouched DEF Evaluate, directory
    <3>2. /\ items = Saved /\ run \in Headers /\ Sound(items, run) /\ Len(items) < Fixtures
          /\ edited \in BOOLEAN /\ loaded \in Versions
          /\ ~edited => loaded = run.files
          /\ contract \in DOMAIN contracts /\ contracts[contract] = "completed"
          /\ \A i \in DOMAIN items : items[i].contract # contract
      BY <2>6 DEF Evaluate, IsAnalyzed, TypeOK, FilesAreCurrent, MemoryAgrees, WorkIsLeft,
                      ContractIsNew
    <3>3. items' = Append(items, new)
      BY <2>6 DEF Evaluate
    <3>4. new \in Predictions
      BY <2>t, <3>2 DEF Predictions
    <3>5. /\ items' \in Seq(Predictions) /\ Len(items') = Len(items) + 1
          /\ DOMAIN items' = DOMAIN items \cup {Len(items) + 1}
          /\ \A i \in DOMAIN items : i # Len(items) + 1 /\ items'[i] = items[i]
          /\ items'[Len(items) + 1] = new
      BY <2>t, <3>2, <3>3, <3>4
    <3>6. TypeOK'
      BY <2>6, <3>5 DEF Evaluate, directory, TypeOK, Predictions, Checkpoints, Reports, surroundings
    <3>7. Sound(items, run)'
      BY <2>6, <3>2, <3>5 DEF Evaluate, Sound
    <3>f. FilesAreCurrent'
      BY <2>6 DEF Evaluate, TypeOK, surroundings, memory, FilesAreCurrent
    <3>8. IdleHoldsNothing' /\ MemoryAgrees' /\ ContractIsNew'
      BY <2>6, <3>1, <3>2, <3>5, <3>7 DEF Evaluate, directory, IdleHoldsNothing, MemoryAgrees,
                                          ContractIsNew
    <3>9. WorkIsLeft' /\ FilesAgree' /\ UploadsAreCounted'
      BY <2>6, <2>t, <3>1, <3>2, <3>5 DEF Evaluate, directory, WorkIsLeft, FilesAgree,
                                          UploadsAreCounted
    <3> QED
      BY <3>1, <3>6, <3>8, <3>9, <3>f
  <2>7. CASE WriteTemporary
    <3>1. /\ CheckpointIsSound' /\ ReportIsWhole' /\ Saved' = Saved
          /\ \A header : Sound(items, header) => Sound(items, header)'
      BY <2>7, DiskUntouched DEF WriteTemporary, memory
    <3>2. TypeOK'
      BY <2>7 DEF WriteTemporary, memory, TypeOK, MemoryAgrees, Predictions, Checkpoints, Reports, surroundings
    <3>f. FilesAreCurrent'
      BY <2>7 DEF WriteTemporary, TypeOK, surroundings, memory, FilesAreCurrent
    <3>3. IdleHoldsNothing' /\ MemoryAgrees' /\ ContractIsNew'
      BY <2>7, <3>1 DEF WriteTemporary, memory, IdleHoldsNothing, MemoryAgrees, ContractIsNew
    <3>4. WorkIsLeft' /\ FilesAgree' /\ UploadsAreCounted'
      BY <2>7, <3>1 DEF WriteTemporary, memory, WorkIsLeft, FilesAgree, UploadsAreCounted
    <3> QED
      BY <3>1, <3>2, <3>3, <3>4, <3>f
  <2>8. CASE ReplaceCheckpoint
    <3>1. /\ partial' = [run |-> run, items |-> items] /\ UNCHANGED <<contracts, memory>>
          /\ run \in Headers /\ Sound(items, run)
          /\ items \in Seq(Predictions) /\ Len(items) = Len(Saved) + 1 /\ Len(items) <= Fixtures
      BY <2>8 DEF ReplaceCheckpoint, FilesAgree, MemoryAgrees, WorkIsLeft, TypeOK
    <3>2. partial' # None
      BY <3>1, FilesAreSome
    <3>3. Saved' = items /\ UNCHANGED <<run, contract, items>>
      BY <3>1, <3>2 DEF Saved, memory
    <3>4. Sound(items, run)' /\ CheckpointIsSound'
      BY <3>1, <3>2, <3>3 DEF Sound, CheckpointIsSound
    <3>5. ReportIsWhole'
      BY <2>8 DEF ReplaceCheckpoint, FilesAgree, ReportIsWhole
    <3>6. TypeOK'
      BY <2>8, <3>1, <3>3 DEF ReplaceCheckpoint, Loop, TypeOK, memory, Predictions, Checkpoints,
                                    Reports, surroundings
    <3>f. FilesAreCurrent'
      BY <2>8 DEF ReplaceCheckpoint, Loop, TypeOK, surroundings, memory, FilesAreCurrent
    <3>7. IdleHoldsNothing' /\ MemoryAgrees' /\ ContractIsNew'
      BY <2>8, <3>1, <3>3, <3>4 DEF ReplaceCheckpoint, Loop, IdleHoldsNothing, MemoryAgrees,
                                    ContractIsNew
    <3>8. WorkIsLeft' /\ FilesAgree' /\ UploadsAreCounted'
      <4>1. Len(contracts) \in Nat /\ Len(items) \in Nat /\ Len(Saved) \in Nat /\ launches \in Nat
        BY <2>t, <3>1 DEF TypeOK
      <4> QED
        BY <2>8, <3>1, <3>3, <4>1 DEF ReplaceCheckpoint, Loop, WorkIsLeft, FilesAgree,
                                      UploadsAreCounted
    <3> QED
      BY <3>4, <3>5, <3>6, <3>7, <3>8, <3>f
  <2>9. CASE WritePredictions
    <3>1. /\ CheckpointIsSound' /\ Saved' = Saved
          /\ \A header : Sound(items, header) => Sound(items, header)'
      BY <2>9 DEF WritePredictions, memory, CheckpointIsSound, Saved, Sound
    <3>2. ReportIsWhole'
      BY <2>9 DEF WritePredictions, FilesAgree, ReportIsWhole
    <3>3. TypeOK'
      BY <2>9 DEF WritePredictions, memory, TypeOK, Predictions, Checkpoints, Reports, surroundings
    <3>f. FilesAreCurrent'
      BY <2>9 DEF WritePredictions, TypeOK, surroundings, memory, FilesAreCurrent
    <3>4. IdleHoldsNothing' /\ MemoryAgrees' /\ ContractIsNew'
      BY <2>9, <3>1 DEF WritePredictions, memory, surroundings, IdleHoldsNothing, FilesAreCurrent,
                        MemoryAgrees, ContractIsNew
    <3>5. WorkIsLeft' /\ FilesAgree' /\ UploadsAreCounted'
      BY <2>9, <3>1 DEF WritePredictions, memory, WorkIsLeft, FilesAgree, UploadsAreCounted
    <3> QED
      BY <3>1, <3>2, <3>3, <3>4, <3>5, <3>f
  <2>10. CASE Score
    <3>1. /\ CheckpointIsSound' /\ ReportIsWhole' /\ Saved' = Saved
          /\ \A header : Sound(items, header) => Sound(items, header)'
      BY <2>10, DiskUntouched DEF Score, directory
    <3>2. TypeOK'
      BY <2>10 DEF Score, directory, TypeOK, Predictions, Checkpoints, Reports, surroundings
    <3>f. FilesAreCurrent'
      BY <2>10 DEF Score, TypeOK, surroundings, memory, FilesAreCurrent
    <3>3. IdleHoldsNothing' /\ MemoryAgrees' /\ ContractIsNew'
      BY <2>10, <3>1 DEF Score, directory, surroundings, TypeOK, IdleHoldsNothing, FilesAreCurrent,
                         MemoryAgrees, ContractIsNew
    <3>4. WorkIsLeft' /\ FilesAgree' /\ UploadsAreCounted'
      BY <2>10, <3>1 DEF Score, directory, WorkIsLeft, FilesAgree, UploadsAreCounted
    <3> QED
      BY <3>1, <3>2, <3>3, <3>4, <3>f
  <2>11. CASE WriteResults
    <3>1. /\ predictions = items /\ run \in Headers /\ Sound(items, run) /\ Len(items) = Fixtures
          /\ items \in Seq(Predictions) /\ metrics \in Versions /\ edited \in BOOLEAN
          /\ ~edited => metrics = run.files /\ labelFiles = run.files
          /\ UNCHANGED <<contracts, partial, predictions>>
      BY <2>11 DEF WriteResults, TypeOK, FilesAreCurrent, FilesAgree, MemoryAgrees, WorkIsLeft
    <3>2. results' = [system |-> run.system, files |-> labelFiles, metrics |-> metrics,
                      edited |-> edited, generated_at |-> launches]
      BY <2>11 DEF WriteResults
    <3>3. CheckpointIsSound' /\ Saved' = Saved
      BY <3>1 DEF CheckpointIsSound, Saved, Sound
    <3>4. ReportIsWhole'
      <4>1. PICK header \in Headers : header = run
        BY <3>1
      <4>2. predictions' = items /\ items # None
        BY <3>1, FilesAreSome
      <4>3. Sound(predictions, header)'
        BY <3>1, <4>1, <4>2 DEF Sound
      <4>4. /\ results'.system = header.system /\ results'.edited = edited
            /\ results'.metrics = metrics /\ results'.files = labelFiles
        BY <3>2, <4>1
      <4>5. ~results'.edited => results'.metrics = header.files /\ results'.files = header.files
        BY <3>1, <4>1, <4>4
      <4> QED
        BY <3>1, <4>2, <4>3, <4>4, <4>5 DEF ReportIsWhole, Headers
    <3>5. TypeOK'
      <4>1. results' \in Reports'
        BY <2>11, <3>1, <3>2 DEF WriteResults, UploadsAreCounted, TypeOK, Headers, Reports
      <4>2. edited' \in BOOLEAN
        BY <2>11 DEF WriteResults, ForgetAll
      <4> QED
        BY <2>11, <3>1, <4>1, <4>2 DEF WriteResults, ForgetAll, TypeOK, Predictions, Checkpoints,
                                       surroundings
    <3>f. FilesAreCurrent'
      BY <2>11 DEF WriteResults, ForgetAll, TypeOK, surroundings, memory, FilesAreCurrent
    <3>6. IdleHoldsNothing' /\ MemoryAgrees' /\ ContractIsNew'
      BY <2>11 DEF WriteResults, ForgetAll, IdleHoldsNothing, MemoryAgrees,
                   ContractIsNew
    <3>7. WorkIsLeft' /\ FilesAgree' /\ UploadsAreCounted'
      BY <2>11, <2>t, <3>3 DEF WriteResults, TypeOK, WorkIsLeft, FilesAgree, UploadsAreCounted
    <3> QED
      BY <3>3, <3>4, <3>5, <3>6, <3>7, <3>f
  <2>12. CASE Stop
    <3>1. CheckpointIsSound' /\ ReportIsWhole' /\ Saved' = Saved
      BY <2>12, DiskUntouched DEF Stop, directory
    <3>2. TypeOK'
      <4>1. edited' \in BOOLEAN
        BY <2>12 DEF Stop, ForgetAll
      <4> QED
        BY <2>12, <4>1 DEF Stop, ForgetAll, TypeOK, directory, Predictions, Checkpoints, Reports,
                           surroundings
    <3>f. FilesAreCurrent'
      BY <2>12 DEF Stop, ForgetAll, TypeOK, surroundings, memory, FilesAreCurrent
    <3>3. IdleHoldsNothing' /\ MemoryAgrees' /\ ContractIsNew'
      BY <2>12 DEF Stop, ForgetAll, IdleHoldsNothing, MemoryAgrees, ContractIsNew
    <3>4. WorkIsLeft' /\ FilesAgree' /\ UploadsAreCounted'
      BY <2>12, <2>t, <3>1 DEF Stop, directory, TypeOK, WorkIsLeft, FilesAgree, UploadsAreCounted
    <3> QED
      BY <3>1, <3>2, <3>3, <3>4, <3>f
  <2>13. CASE Analyzed
    <3>1. /\ contracts' \in Seq(Statuses) /\ Len(contracts') = Len(contracts)
          /\ DOMAIN contracts' = DOMAIN contracts
          /\ \A c \in DOMAIN contracts : contracts[c] = "completed" => contracts'[c] = "completed"
      BY <2>13 DEF Analyzed, TypeOK, Statuses
    <3>2. UNCHANGED <<surroundings, launches, pc, loaded, edited, run, contract, items, metrics,
                       directory>>
      BY <2>13 DEF Analyzed, memory
    <3>3. /\ TypeOK' /\ CheckpointIsSound' /\ ReportIsWhole'
          /\ \A header : Sound(items, header) => Sound(items, header)'
      <4>1. contract \in DOMAIN contracts \cup {0} /\ Len(contracts) <= Len(contracts')
        BY <3>1 DEF TypeOK
      <4>2. pc' \in {"stopped", "connect", "verify", "upload", "analyze", "await", "save",
                     "replace", "predictions", "score", "results"}
        BY <3>2 DEF TypeOK
      <4> QED
        BY <3>1, <3>2, <4>1, <4>2, ContractsMayChange
    <3>4. Saved' = Saved
      BY <3>2 DEF Saved, directory
    <3>f. FilesAreCurrent'
      BY <2>13 DEF Analyzed, TypeOK, surroundings, memory, FilesAreCurrent
    <3>5. IdleHoldsNothing' /\ MemoryAgrees' /\ ContractIsNew'
      BY <3>1, <3>2, <3>3, <3>4 DEF directory, IdleHoldsNothing, MemoryAgrees, ContractIsNew
    <3>6. WorkIsLeft' /\ FilesAgree' /\ UploadsAreCounted'
      BY <3>1, <3>2, <3>4 DEF directory, WorkIsLeft, FilesAgree, UploadsAreCounted
    <3> QED
      BY <3>3, <3>5, <3>6, <3>f
  <2>14. CASE system' \in Systems /\ UNCHANGED <<labelFiles, contracts, launches, pc, memory, directory>>
    <3>1. /\ CheckpointIsSound' /\ ReportIsWhole' /\ Saved' = Saved
          /\ \A header : Sound(items, header) => Sound(items, header)'
      BY <2>14, DiskUntouched DEF memory, directory
    <3>2. TypeOK'
      BY <2>14 DEF memory, directory, TypeOK, Predictions, Checkpoints, Reports
    <3>f. FilesAreCurrent'
      BY <2>14 DEF TypeOK, surroundings, memory, FilesAreCurrent
    <3>3. IdleHoldsNothing' /\ MemoryAgrees' /\ ContractIsNew'
      BY <2>14, <3>1 DEF memory, directory, IdleHoldsNothing, MemoryAgrees,
                         ContractIsNew
    <3>4. WorkIsLeft' /\ FilesAgree' /\ UploadsAreCounted'
      BY <2>14, <3>1 DEF memory, directory, WorkIsLeft, FilesAgree, UploadsAreCounted
    <3> QED
      BY <3>1, <3>2, <3>3, <3>4, <3>f
  <2>15. CASE Reconfigure
    BY <2>14, <2>15 DEF Reconfigure
  <2>16. CASE EditFiles
    <3>1. /\ CheckpointIsSound' /\ ReportIsWhole' /\ Saved' = Saved
          /\ \A header : Sound(items, header) => Sound(items, header)'
      BY <2>16, DiskUntouched DEF EditFiles, directory
    <3>2. TypeOK'
      BY <2>16 DEF EditFiles, directory, TypeOK, Predictions, Checkpoints, Reports
    <3>f. FilesAreCurrent'
      BY <2>16 DEF EditFiles, TypeOK, surroundings, memory, FilesAreCurrent
    <3>3. IdleHoldsNothing' /\ MemoryAgrees' /\ ContractIsNew'
      BY <2>16, <3>1 DEF EditFiles, directory, IdleHoldsNothing, MemoryAgrees,
                         ContractIsNew
    <3>4. WorkIsLeft' /\ FilesAgree' /\ UploadsAreCounted'
      BY <2>16, <3>1 DEF EditFiles, directory, WorkIsLeft, FilesAgree, UploadsAreCounted
    <3> QED
      BY <3>1, <3>2, <3>3, <3>4, <3>f
  <2>17. CASE UNCHANGED vars
    <3>1. system' \in Systems /\ UNCHANGED <<labelFiles, contracts, launches, pc, memory, directory>>
      BY <2>17 DEF vars, memory, directory, TypeOK
    <3> QED
      BY <2>14, <3>1
  <2> QED
    BY <2>1, <2>2, <2>3, <2>4, <2>5, <2>6, <2>7, <2>8, <2>9, <2>10, <2>11, <2>12, <2>13, <2>15,
       <2>16, <2>17 DEF Next
<1> QED
  BY <1>1, <1>2, PTL DEF Spec

(* Whatever process wrote it, a checkpoint holds the first fixtures in     *)
(* their order, under one header, each from its own completed contract, and*)
(* with the label files that the header names unless they were edited.     *)
THEOREM CheckpointSoundness == Spec => []CheckpointIsSound
<1>1. EvaluationInv => CheckpointIsSound
  BY DEF EvaluationInv
<1> QED
  BY <1>1, EvaluationInvariance, PTL

(* A report covers every fixture once, under one header that all processes *)
(* which contributed to it started under.  Its system is that header's, and*)
(* unless they were edited under the process that wrote it, the label files*)
(* that it was scored on and that it names are that header's too.          *)
THEOREM ReportWholeness == Spec => []ReportIsWhole
<1>1. EvaluationInv => ReportIsWhole
  BY DEF EvaluationInv
<1> QED
  BY <1>1, EvaluationInvariance, PTL

(* Each process leaves at most one contract that no prediction comes from. *)
THEOREM StraysAreBounded == Spec => []StrayUploadsAreBounded
<1>1. EvaluationInv => StrayUploadsAreBounded
  <2> SUFFICES ASSUME EvaluationInv
               PROVE  StrayUploadsAreBounded
    OBVIOUS
  <2>1. Len(Saved) \in Nat /\ Len(contracts) \in Nat /\ launches \in Nat
    BY EvaluationAssumption, SavedPredictions DEF EvaluationInv, TypeOK
  <2> QED
    BY <2>1 DEF EvaluationInv, UploadsAreCounted, StrayUploadsAreBounded
<1> QED
  BY <1>1, EvaluationInvariance, PTL

(* No step takes back a prediction that was saved.                         *)
THEOREM ProgressIsNotLost == Spec => ProgressIsKept
<1> DEFINE Kept == partial # None => partial' # None /\ IsPrefix(partial.items, partial'.items)
<1>1. EvaluationInv /\ EvaluationInv' /\ [Next]_vars => [Kept]_vars
  <2> SUFFICES ASSUME EvaluationInv, EvaluationInv', [Next]_vars, partial # None
               PROVE  partial' # None /\ IsPrefix(partial.items, partial'.items)
    OBVIOUS
  <2>1. partial.items \in Seq(Predictions) /\ Saved = partial.items
    BY SavedPredictions DEF EvaluationInv, Saved
  <2>2. CASE partial' = partial
    BY <2>1, <2>2 DEF IsPrefix
  <2>3. CASE ReplaceCheckpoint
    <3>1. /\ partial' = [run |-> run, items |-> items] /\ items \in Seq(Predictions)
          /\ Len(items) = Len(Saved) + 1 /\ \A i \in DOMAIN Saved : items[i] = Saved[i]
      BY <2>3 DEF EvaluationInv, ReplaceCheckpoint, FilesAgree, MemoryAgrees, TypeOK
    <3>2. partial' # None
      <4>1. run \in Headers
        BY <2>3 DEF EvaluationInv, ReplaceCheckpoint, MemoryAgrees
      <4> QED
        BY <3>1, <4>1, FilesAreSome DEF EvaluationInv
    <3>3. IsPrefix(partial.items, items)
      BY <2>1, <3>1 DEF IsPrefix
    <3> QED
      BY <3>1, <3>2, <3>3
  <2> QED
    BY <2>2, <2>3 DEF Next, Launch, Connect, Verify, Upload, RequestAnalysis, Evaluate,
         WriteTemporary, WritePredictions, Score, WriteResults, Stop, Analyzed, Reconfigure,
         EditFiles, directory, vars
<1> QED
  BY <1>1, EvaluationInvariance, PTL DEF Spec, ProgressIsKept

-----------------------------------------------------------------------------
\* Scoring.

(* _ratio is within half a unit of its exact value.                        *)
LEMMA RatioRounds ==
  ASSUME NEW n \in Nat, NEW d \in Nat, d > 0
  PROVE  /\ Ratio(n, d) \in Nat
         /\ 2 * (Ratio(n, d) * d) - 2 * (n * Unit) <= d
         /\ 2 * (Ratio(n, d) * d) - 2 * (n * Unit) >= -d
<1> DEFINE a == 2 * n * Unit + d
           q == a \div (2 * d)
<1>1. a \in Nat /\ 2 * d \in Nat /\ 2 * d > 0 /\ Ratio(n, d) = q
  BY DEF Ratio, Unit
<1>2. q \in Nat /\ (2 * d) * q <= a /\ a < (2 * d) * q + 2 * d
  <2> HIDE DEF a
  <2> QED
    BY <1>1
<1>3. (2 * d) * q = 2 * (q * d)
  <2> HIDE DEF q
  <2> QED
    BY <1>2
<1> HIDE DEF q
<1>4. q * d \in Nat /\ n * Unit \in Nat /\ a = 2 * (n * Unit) + d
  BY <1>2 DEF Unit
<1> QED
  BY <1>1, <1>2, <1>3, <1>4

(* _f1 of rounded rates: a and b are what rounding added to precision and  *)
(* recall, in units over the numbers of predictions P and of labels L, and *)
(* e what it added to F1. What they amount to is e and a mean of a and b.  *)
LEMMA RoundingAdds ==
  ASSUME NEW p \in Nat, NEW r \in Nat, NEW f \in Int, NEW x \in Nat,
         NEW P \in Nat, NEW L \in Nat, p + r > 0,
         2 * (p * P) - 2 * x \in -P .. P,
         2 * (r * L) - 2 * x \in -L .. L,
         2 * (f * (p + r) - 2 * p * r) \in -(p + r) .. p + r
  PROVE  f * (L + P) - 2 * x \in -2 * (L + P) .. 2 * (L + P)
<1> DEFINE n == L + P
           s == p + r
           a == 2 * (p * P) - 2 * x
           b == 2 * (r * L) - 2 * x
           e == 2 * (f * s - 2 * p * r)
           d == f * n - 2 * x
<1>1. a \in Int /\ b \in Int /\ e \in Int /\ d \in Int /\ n \in Nat /\ s \in Nat /\ s > 0
  OBVIOUS
<1>2. 2 * (s * d) = n * e + 2 * (p * b + r * a)
  <2>1. 2 * (s * d) = 2 * (s * (f * n)) - 4 * (s * x)
    BY <1>1
  <2>2. n * e = 2 * (n * (f * s)) - 4 * (n * (p * r))
    BY <1>1
  <2>3. p * b = 2 * (p * (r * L)) - 2 * (p * x)
    BY <1>1
  <2>4. r * a = 2 * (r * (p * P)) - 2 * (r * x)
    BY <1>1
  <2>5. n * (p * r) = p * (r * L) + r * (p * P)
    BY <1>1
  <2>6. s * x = p * x + r * x
    BY <1>1
  <2>7. s * (f * n) = n * (f * s)
    BY <1>1
  <2> QED
    BY <2>1, <2>2, <2>3, <2>4, <2>5, <2>6, <2>7, <1>1
<1>3. n * e <= n * s /\ n * e >= -(n * s)
  <2> HIDE DEF n, s, e
  <2>1. e <= s /\ e >= -s
    BY DEF e, s
  <2> QED
    BY <1>1, <2>1
<1>4. p * b + r * a <= n * s /\ p * b + r * a >= -(n * s)
  <2>1. a <= P /\ a >= -P /\ b <= L /\ b >= -L
    OBVIOUS
  <2>2. p * b <= p * L /\ p * b >= -(p * L)
    <3> HIDE DEF b
    <3> QED
      BY <1>1, <2>1
  <2>3. r * a <= r * P /\ r * a >= -(r * P)
    <3> HIDE DEF a
    <3> QED
      BY <1>1, <2>1
  <2>4. n * s = p * L + r * P + (p * P + r * L) /\ p * P + r * L >= 0
    OBVIOUS
  <2> HIDE DEF a, b, n, s
  <2>5. p * b \in Int /\ r * a \in Int /\ p * L \in Int /\ r * P \in Int /\ n * s \in Int
        /\ p * P + r * L \in Int
    BY <1>1
  <2> QED
    BY <2>2, <2>3, <2>4, <2>5
<1>5. 2 * (s * d) <= 3 * (n * s) /\ 2 * (s * d) >= -(3 * (n * s))
  <2> HIDE DEF n, s, d, e, a, b
  <2>1. n * e \in Int /\ p * b + r * a \in Int /\ s * d \in Int /\ n * s \in Int
    BY <1>1
  <2> QED
    BY <1>2, <1>3, <1>4, <2>1
<1>6. 2 * d <= 3 * n /\ 2 * d >= -(3 * n)
  <2> HIDE DEF n, s, d
  <2>1. s * (3 * n - 2 * d) >= 0 /\ s * (3 * n + 2 * d) >= 0
    <3>1. s * (3 * n - 2 * d) = 3 * (n * s) - 2 * (s * d)
      BY <1>1
    <3>2. s * (3 * n + 2 * d) = 3 * (n * s) + 2 * (s * d)
      BY <1>1
    <3>3. n * s \in Int /\ s * d \in Int
      BY <1>1
    <3> QED
      BY <1>5, <3>1, <3>2, <3>3
  <2>2. \A k \in Int : s * k >= 0 => k >= 0
    BY <1>1
  <2> QED
    BY <1>1, <2>1, <2>2
<1>7. d <= 2 * n /\ d >= -(2 * n)
  <2> HIDE DEF n, d
  <2> QED
    BY <1>1, <1>6
<1> QED
  BY <1>7

(* The lesser of two counts, what Counter intersection keeps of a key.     *)
LEMMA MinOfTwo ==
  ASSUME NEW a \in Nat, NEW b \in Nat
  PROVE  /\ Min({a, b}) \in Nat
         /\ Min({a, b}) = IF a <= b THEN a ELSE b
<1> DEFINE m == CHOOSE x \in {a, b} : \A y \in {a, b} : x =< y
<1>1. \E x \in {a, b} : \A y \in {a, b} : x =< y
  OBVIOUS
<1>2. m \in {a, b} /\ m =< a /\ m =< b
  BY <1>1
<1>3. Min({a, b}) = m
  BY DEF Min
<1> HIDE DEF m
<1> QED
  BY <1>2, <1>3

(* The greatest of a finite set of integers is chosen from it.             *)
LEMMA MaxOfFinite ==
  ASSUME NEW S, IsFiniteSet(S), S \subseteq Int, S # {}
  PROVE  Max(S) \in S /\ \A y \in S : Max(S) >= y
BY GreatestExists DEF Max

(* _index finds a contract by its id in the file that lists it.            *)
LEMMA ContractIsListed ==
  ASSUME NEW V, NEW file \in Seq(V), NEW id \in IdsOf(file)
  PROVE  ContractOf(file, id) \in Range(file) /\ ContractOf(file, id).id = id
<1> DEFINE I == {i \in 1 .. Len(file) : file[i].id = id}
<1>1. DOMAIN file = 1 .. Len(file) /\ Len(file) \in Nat
  OBVIOUS
<1>2. I # {} /\ I \subseteq Int
  BY <1>1 DEF IdsOf
<1>3. IsFiniteSet(I)
  <2>1. IsFiniteSet(1 .. Len(file))
    BY <1>1, FS_Interval
  <2>2. I \in SUBSET (1 .. Len(file))
    OBVIOUS
  <2> HIDE DEF I
  <2> QED
    BY <2>1, <2>2, FS_Subset
<1>4. Max(I) \in I
  <2> HIDE DEF I
  <2> QED
    BY <1>2, <1>3, MaxOfFinite
<1>5. ContractOf(file, id) = file[Max(I)]
  BY <1>2 DEF ContractOf, LastWith, SelectLastInSeq
<1> QED
  BY <1>1, <1>4, <1>5 DEF Range

(* A file lists finitely many contracts.                                   *)
LEMMA IdsAreFinite ==
  ASSUME NEW V, NEW file \in Seq(V)
  PROVE  IsFiniteSet(IdsOf(file))
<1> DEFINE g == [i \in 1 .. Len(file) |-> file[i].id]
<1>1. DOMAIN file = 1 .. Len(file) /\ IsFiniteSet(1 .. Len(file))
  BY FS_Interval
<1>2. g \in Surjection(1 .. Len(file), IdsOf(file))
  BY <1>1 DEF Surjection, IdsOf
<1> QED
  BY <1>1, <1>2, FS_Surjection

(* The obligations that evaluate_files reads from labels or predictions    *)
(* are one list of values for each contract.                               *)
LEMMA ListsOfFiles ==
  ASSUME NEW files \in Files, NEW file \in {files.labels, files.predicted}
  PROVE  /\ IsFiniteSet(IdsOf(file))
         /\ Section(file, "obligations") = ObligationsOf(file)
         /\ DOMAIN ObligationsOf(file) = IdsOf(file)
         /\ \A id \in IdsOf(file) : ObligationsOf(file)[id] \in Seq(Values)
<1>1. file \in Seq(Range(file)) /\ \A c \in Range(file) : c.obligations \in Seq(Values)
  BY FilesAreListed
<1>2. \A id \in IdsOf(file) : ContractOf(file, id) \in Range(file)
  BY <1>1, ContractIsListed
<1>3. IsFiniteSet(IdsOf(file))
  BY <1>1, IdsAreFinite
<1> QED
  BY <1>1, <1>2, <1>3 DEF Section, ObligationsOf

(* _obligation_key gives each obligation one key.                          *)
LEMMA KeysAreValues ==
  ASSUME NEW list \in Seq(Values)
  PROVE  Keys(list) \in Seq(Values) /\ Len(Keys(list)) = Len(list) /\ DOMAIN Keys(list) = 1 .. Len(list)
<1>1. Len(list) \in Nat /\ DOMAIN list = 1 .. Len(list)
      /\ \A i \in 1 .. Len(list) : list[i] \in Values
  OBVIOUS
<1>2. \A i \in 1 .. Len(list) : Normal[list[i]] \in Values
  BY <1>1, ScoringAssumption
<1>3. Keys(list) \in [1 .. Len(list) -> Values]
  BY <1>1, <1>2 DEF Keys
<1>4. Keys(list) \in Seq(Values)
  BY <1>1, <1>3, SeqDef
<1>5. DOMAIN Keys(list) = 1 .. Len(list)
  BY <1>3
<1>6. Len(Keys(list)) = Len(list)
  BY <1>1, <1>4, <1>5
<1> QED
  BY <1>4, <1>5, <1>6

(* How often a key occurs in a list, as Counter has it.                    *)
LEMMA CountIsNat ==
  ASSUME NEW V, NEW list \in Seq(V), NEW k
  PROVE  /\ IsFiniteSet({i \in DOMAIN list : list[i] = k})
         /\ CountOf(list, k) \in Nat
         /\ Len(list) = 0 => CountOf(list, k) = 0
<1> DEFINE I == {i \in DOMAIN list : list[i] = k}
<1>1. DOMAIN list = 1 .. Len(list) /\ Len(list) \in Nat
  OBVIOUS
<1>2. IsFiniteSet(1 .. Len(list))
  BY <1>1, FS_Interval
<1>3. I \in SUBSET (1 .. Len(list))
  BY <1>1
<1>4. Len(list) = 0 => I = {}
  BY <1>1, <1>3
<1>5. CountOf(list, k) = Cardinality(I)
  BY DEF CountOf
<1>6. IsFiniteSet(I)
  <2> HIDE DEF I
  <2> QED
    BY <1>2, <1>3, FS_Subset
<1>7. Cardinality(I) \in Nat /\ (I = {} => Cardinality(I) = 0)
  BY <1>6, FS_CardinalityType, FS_EmptySet
<1> QED
  BY <1>4, <1>5, <1>6, <1>7

(* A list has finitely many keys.                                          *)
LEMMA ElementsAreFinite ==
  ASSUME NEW V, NEW list \in Seq(V)
  PROVE  IsFiniteSet(ToSet(list))
<1>1. DOMAIN list = 1 .. Len(list) /\ IsFiniteSet(1 .. Len(list))
  BY FS_Interval
<1>2. list \in Surjection(1 .. Len(list), ToSet(list))
  BY <1>1 DEF Surjection, ToSet
<1> QED
  BY <1>1, <1>2, FS_Surjection

(* The matches of two lists are a sum over the keys of the first, and none *)
(* when either list is empty.                                              *)
LEMMA MatchesSum ==
  ASSUME NEW V, NEW expected \in Seq(V), NEW predicted \in Seq(V)
  PROVE  LET f == [k \in ToSet(expected) |->
                     Min({CountOf(expected, k), CountOf(predicted, k)})]
         IN  /\ Matches(expected, predicted) = SumFunctionOnSet(f, ToSet(expected))
             /\ \A k \in ToSet(expected) : f[k] \in Nat
             /\ Matches(expected, predicted) \in Nat
             /\ Len(expected) = 0 \/ Len(predicted) = 0 => Matches(expected, predicted) = 0
<1> DEFINE f == [k \in ToSet(expected) |-> Min({CountOf(expected, k), CountOf(predicted, k)})]
<1>1. Matches(expected, predicted) = SumFunctionOnSet(f, ToSet(expected))
  BY DEF Matches, Sum, SumFunction
<1>2. \A k \in ToSet(expected) : f[k] \in Nat
  BY CountIsNat, MinOfTwo
<1>3. IsFiniteSet(ToSet(expected))
  BY ElementsAreFinite
<1>4. Matches(expected, predicted) \in Nat
  <2> HIDE DEF f
  <2> QED
    BY <1>1, <1>2, <1>3, SumIsNat
<1>5. ASSUME Len(expected) = 0 \/ Len(predicted) = 0
      PROVE  Matches(expected, predicted) = 0
  <2>1. ASSUME NEW k \in ToSet(expected)
        PROVE  f[k] = 0
    <3>1. CountOf(expected, k) \in Nat /\ CountOf(predicted, k) \in Nat
      BY CountIsNat
    <3>2. CountOf(expected, k) = 0 \/ CountOf(predicted, k) = 0
      BY <1>5, CountIsNat
    <3>3. Min({CountOf(expected, k), CountOf(predicted, k)}) = 0
      BY <3>1, <3>2, MinOfTwo
    <3> QED
      BY <3>3
  <2> HIDE DEF f
  <2> QED
    BY <1>1, <1>3, <2>1, SumIsZero
<1> QED
  BY <1>1, <1>2, <1>4, <1>5

(* What evaluate_files accepts has labels and predictions of the same      *)
(* contracts, and its obligations are compared by contract.                *)
LEMMA ScoresOfAccepted ==
  ASSUME NEW files \in Files, Scores(files) # Refused
  PROVE  /\ IdsOf(files.labels) = IdsOf(files.predicted)
         /\ Scores(files).obligations =
              Obligations(ObligationsOf(files.labels), ObligationsOf(files.predicted))
<1>1. IdsOf(files.labels) = IdsOf(files.predicted)
  BY DEF Scores, EvaluateFiles
<1>2. Scores(files).obligations =
        Obligations(Section(files.labels, "obligations"), Section(files.predicted, "obligations"))
  BY DEF Scores, EvaluateFiles
<1> QED
  BY <1>1, <1>2, ListsOfFiles

(* Whatever files are scored, the F1 of obligations is within two units of *)
(* the fourth decimal of its exact value: _f1 works on rates that _ratio   *)
(* has rounded, and rounds again.                                          *)
THEOREM F1StaysClose == scored \subseteq Files => F1IsClose
<1> SUFFICES ASSUME NEW files \in Files, Scores(files) # Refused
             PROVE  LET size(file) == SumFunction([id \in IdsOf(file) |-> Len(ObligationsOf(file)[id])])
                        n == size(files.labels) + size(files.predicted)
                        o == Scores(files).obligations
                    IN  \A f \in o.f1s : f * n - 2 * o.truePositive * Unit \in -2 * n .. 2 * n
  BY DEF F1IsClose, Sum
<1> DEFINE D == IdsOf(files.labels)
           labels == ObligationsOf(files.labels)
           predicted == ObligationsOf(files.predicted)
           matches == [c \in D |-> Matches(Keys(labels[c]), Keys(predicted[c]))]
           expectedSizes == [c \in D |-> Len(labels[c])]
           givenSizes == [c \in D |-> Len(predicted[c])]
           tp == SumFunctionOnSet(matches, D)
           L == SumFunctionOnSet(expectedSizes, D)
           P == SumFunctionOnSet(givenSizes, D)
           p == Ratio(tp, P)
           r == Ratio(tp, L)
<1>1. /\ IdsOf(files.predicted) = D /\ IsFiniteSet(D)
      /\ DOMAIN labels = D /\ DOMAIN predicted = D
      /\ \A c \in D : labels[c] \in Seq(Values) /\ predicted[c] \in Seq(Values)
  BY ListsOfFiles, ScoresOfAccepted
<1>2. /\ SumFunction([id \in IdsOf(files.labels) |-> Len(ObligationsOf(files.labels)[id])]) = L
      /\ SumFunction([id \in IdsOf(files.predicted) |-> Len(ObligationsOf(files.predicted)[id])]) = P
  BY <1>1 DEF SumFunction
<1>3. Scores(files).obligations =
        [truePositive |-> tp, precision |-> p, recall |-> r, f1s |-> F1s(p, r)]
  <2>1. Scores(files).obligations = Obligations(labels, predicted)
    BY ScoresOfAccepted
  <2> QED
    BY <1>1, <2>1 DEF Obligations, Sum, SumFunction
<1>4. ASSUME NEW c \in D
      PROVE  /\ matches[c] \in Nat /\ expectedSizes[c] \in Nat /\ givenSizes[c] \in Nat
             /\ expectedSizes[c] = 0 \/ givenSizes[c] = 0 => matches[c] = 0
  <2> DEFINE e == Keys(labels[c])
             g == Keys(predicted[c])
  <2>1. /\ e \in Seq(Values) /\ Len(e) = Len(labels[c]) /\ Len(labels[c]) \in Nat
        /\ g \in Seq(Values) /\ Len(g) = Len(predicted[c]) /\ Len(predicted[c]) \in Nat
    BY <1>1, KeysAreValues
  <2>2. matches[c] = Matches(e, g) /\ expectedSizes[c] = Len(e) /\ givenSizes[c] = Len(g)
    BY <2>1
  <2> HIDE DEF e, g, matches, expectedSizes, givenSizes
  <2>3. /\ Matches(e, g) \in Nat
        /\ Len(e) = 0 \/ Len(g) = 0 => Matches(e, g) = 0
    BY <2>1, MatchesSum
  <2> QED
    BY <2>1, <2>2, <2>3
<1> HIDE DEF matches, expectedSizes, givenSizes
<1>6. tp \in Nat /\ L \in Nat /\ P \in Nat
  BY <1>1, <1>4, SumIsNat
<1>7. L = 0 \/ P = 0 => tp = 0
  <2>1. \A c \in D : expectedSizes[c] <= L /\ givenSizes[c] <= P
    BY <1>1, <1>4, SumHasPart
  <2>2. ASSUME L = 0 \/ P = 0
        PROVE  \A c \in D : matches[c] = 0
    BY <1>4, <2>1, <2>2
  <2> QED
    BY <1>1, <2>2, SumIsZero
<1> HIDE DEF tp, L, P
<1> SUFFICES ASSUME NEW f \in F1s(p, r)
             PROVE  f * (L + P) - 2 * tp * Unit \in -2 * (L + P) .. 2 * (L + P)
  BY <1>2, <1>3
<1>8. CASE L = 0 \/ P = 0
  <2>1. p = 0 /\ r = 0
    BY <1>6, <1>7, <1>8, RatioRounds DEF Ratio, Unit
  <2>2. f = 0
    BY <2>1 DEF F1s
  <2> QED
    BY <1>6, <1>7, <1>8, <2>2 DEF Unit
<1>9. CASE L > 0 /\ P > 0
  <2> DEFINE x == tp * Unit
  <2>1. /\ p \in Nat /\ r \in Nat /\ x \in Nat /\ 2 * tp * Unit = 2 * x
        /\ 2 * (p * P) - 2 * x \in -P .. P
        /\ 2 * (r * L) - 2 * x \in -L .. L
    <3>1. /\ p \in Nat
          /\ 2 * (p * P) - 2 * x <= P
          /\ 2 * (p * P) - 2 * x >= -P
      BY <1>6, <1>9, RatioRounds
    <3>2. /\ r \in Nat
          /\ 2 * (r * L) - 2 * x <= L
          /\ 2 * (r * L) - 2 * x >= -L
      BY <1>6, <1>9, RatioRounds
    <3>3. x \in Nat /\ 2 * tp * Unit = 2 * x
      BY <1>6 DEF Unit
    <3> HIDE DEF p, r, x
    <3>4. p * P \in Int /\ r * L \in Int
      BY <1>6, <3>1, <3>2
    <3> QED
      BY <1>6, <3>1, <3>2, <3>3, <3>4
  <2> HIDE DEF p, r, x
  <2>2. CASE p + r = 0
    <3>1. f = 0 /\ p = 0 /\ r = 0
      BY <2>1, <2>2 DEF F1s
    <3> QED
      BY <1>6, <2>1, <3>1
  <2>3. CASE p + r # 0
    <3>1. f \in Int /\ 2 * (f * (p + r) - 2 * p * r) \in -(p + r) .. p + r
      BY <2>1, <2>3 DEF F1s
    <3>2. f * (L + P) - 2 * x \in -2 * (L + P) .. 2 * (L + P)
      BY <1>6, <2>1, <2>3, <3>1, RoundingAdds
    <3> QED
      BY <2>1, <3>2
  <2> QED
    BY <2>2, <2>3
<1> QED
  BY <1>6, <1>8, <1>9

\* Pairs in which nothing occurs twice.
IsPairing(m) == \A x, y \in m : (x[1] = y[1]) <=> (x[2] = y[2])

(* Pairs in which nothing occurs twice are as many as there is on either   *)
(* side at most,                                                           *)
LEMMA PairingFits ==
  ASSUME NEW A, NEW B, IsFiniteSet(A), IsFiniteSet(B), NEW m \in SUBSET (A \X B), IsPairing(m)
  PROVE  Cardinality(m) <= Cardinality(A) /\ Cardinality(m) <= Cardinality(B)
<1>1. \A x \in m : x[1] \in A /\ x[2] \in B /\ x = <<x[1], x[2]>>
  OBVIOUS
<1>2. Cardinality(m) <= Cardinality(A)
  <2> DEFINE g == [x \in m |-> x[1]]
  <2>1. g \in [m -> A]
    BY <1>1
  <2>2. \A x, y \in m : g[x] = g[y] => x = y
    BY <1>1 DEF IsPairing
  <2>3. g \in Injection(m, A)
    BY <2>1, <2>2 DEF Injection, IsInjective
  <2> QED
    BY <2>3, FS_Injection
<1>3. Cardinality(m) <= Cardinality(B)
  <2> DEFINE g == [x \in m |-> x[2]]
  <2>1. g \in [m -> B]
    BY <1>1
  <2>2. \A x, y \in m : g[x] = g[y] => x = y
    BY <1>1 DEF IsPairing
  <2>3. g \in Injection(m, B)
    BY <2>1, <2>2 DEF Injection, IsInjective
  <2> QED
    BY <2>3, FS_Injection
<1> QED
  BY <1>2, <1>3

(* and there can be as many as on the smaller side.                        *)
LEMMA PairingExists ==
  ASSUME NEW A, NEW B, IsFiniteSet(A), IsFiniteSet(B)
  PROVE  \E m \in SUBSET (A \X B) :
           IsPairing(m) /\ Cardinality(m) = Min({Cardinality(A), Cardinality(B)})
<1> DEFINE a == Cardinality(A)
           b == Cardinality(B)
           n == Min({a, b})
<1>1. /\ a \in Nat /\ b \in Nat
      /\ ExistsBijection(1 .. a, A) /\ ExistsBijection(1 .. b, B)
  BY FS_CardinalityType
<1>2. PICK g \in Bijection(1 .. a, A) : TRUE
  BY <1>1 DEF ExistsBijection
<1>3. PICK h \in Bijection(1 .. b, B) : TRUE
  BY <1>1 DEF ExistsBijection
<1> HIDE DEF a, b
<1>4. n \in Nat /\ n <= a /\ n <= b
  BY <1>1, MinOfTwo
<1> HIDE DEF n
<1>5. /\ \A i \in 1 .. n : g[i] \in A /\ h[i] \in B
      /\ \A i, j \in 1 .. n : (g[i] = g[j] => i = j) /\ (h[i] = h[j] => i = j)
  <2>1. \A i \in 1 .. n : i \in 1 .. a /\ i \in 1 .. b
    BY <1>1, <1>4
  <2> QED
    BY <1>2, <1>3, <2>1 DEF Bijection, Injection, IsInjective
<1> DEFINE m == {<<g[i], h[i]>> : i \in 1 .. n}
           q == [i \in 1 .. n |-> <<g[i], h[i]>>]
<1>6. m \in SUBSET (A \X B)
  BY <1>5
<1>7. IsPairing(m)
  BY <1>5 DEF IsPairing
<1>8. q \in Bijection(1 .. n, m)
  <2>1. q \in [1 .. n -> m]
    OBVIOUS
  <2>2. \A i, j \in 1 .. n : q[i] = q[j] => i = j
    BY <1>5
  <2>3. \A t \in m : \E s \in 1 .. n : q[s] = t
    OBVIOUS
  <2> HIDE DEF q, m
  <2> QED
    BY <2>1, <2>2, <2>3 DEF Bijection, Injection, Surjection, IsInjective
<1>9. Cardinality(m) = n
  <2>1. ExistsBijection(1 .. n, m)
    BY <1>8 DEF ExistsBijection
  <2> HIDE DEF m
  <2> QED
    BY <1>4, <2>1, FS_CountingElements
<1> QED
  BY <1>6, <1>7, <1>9 DEF n, a, b

\* The positions of a list at which k is.
With(list, k) == {i \in DOMAIN list : list[i] = k}

\* Pairs of positions of one value, which is in S.
KeyPairings(e, g, S) ==
  {m \in SUBSET ((DOMAIN e) \X (DOMAIN g)) :
     IsPairing(m) /\ \A x \in m : e[x[1]] = g[x[2]] /\ e[x[1]] \in S}

(* Pairs of equal keys: for each set K of keys, by induction, no more of   *)
(* them than the matches of its keys, and as many for some choice of       *)
(* pairs.                                                                  *)
LEMMA PairedByKey ==
  ASSUME NEW V, NEW e \in Seq(V), NEW g \in Seq(V), NEW f, NEW K, IsFiniteSet(K),
         f = [k \in K |-> Min({CountOf(e, k), CountOf(g, k)})]
  PROVE  /\ \A m \in KeyPairings(e, g, K) :
              IsFiniteSet(m) /\ Cardinality(m) <= SumFunctionOnSet(f, K)
         /\ \E m \in KeyPairings(e, g, K) : Cardinality(m) = SumFunctionOnSet(f, K)
<1> DEFINE Paired(S) == KeyPairings(e, g, S)
           C == {T \in SUBSET K :
                   /\ \A m \in Paired(T) :
                        IsFiniteSet(m) /\ Cardinality(m) <= SumFunctionOnSet(f, T)
                   /\ \E m \in Paired(T) : Cardinality(m) = SumFunctionOnSet(f, T)}
<1>1. IsFiniteSet(DOMAIN e) /\ IsFiniteSet(DOMAIN g)
  <2>1. DOMAIN e = 1 .. Len(e) /\ DOMAIN g = 1 .. Len(g) /\ Len(e) \in Nat /\ Len(g) \in Nat
    OBVIOUS
  <2> QED
    BY <2>1, FS_Interval
<1>2. \A m \in SUBSET ((DOMAIN e) \X (DOMAIN g)) : IsFiniteSet(m)
  <2>1. IsFiniteSet((DOMAIN e) \X (DOMAIN g))
    BY <1>1, FS_Product
  <2> QED
    BY <2>1, FS_Subset
<1>3. ASSUME NEW k
      PROVE  /\ With(e, k) \subseteq DOMAIN e /\ With(g, k) \subseteq DOMAIN g
             /\ IsFiniteSet(With(e, k)) /\ IsFiniteSet(With(g, k))
             /\ CountOf(e, k) = Cardinality(With(e, k)) /\ CountOf(g, k) = Cardinality(With(g, k))
             /\ CountOf(e, k) \in Nat /\ CountOf(g, k) \in Nat
             /\ Min({CountOf(e, k), CountOf(g, k)}) \in Nat
  <2>1. CountOf(e, k) \in Nat /\ CountOf(g, k) \in Nat
    BY CountIsNat
  <2>2. IsFiniteSet(With(e, k)) /\ IsFiniteSet(With(g, k))
    BY CountIsNat DEF With
  <2> QED
    BY <2>1, <2>2, MinOfTwo DEF With, CountOf
<1>4. \A k \in K : f[k] \in Nat
  BY <1>3
<1>5. ASSUME NEW T \in SUBSET K, \A U \in SUBSET T : U # T => U \in C
      PROVE  T \in C
  <2>1. CASE T = {}
    <3>1. SumFunctionOnSet(f, T) = 0
      BY <2>1, SumEmpty
    <3>2. \A m \in Paired(T) : m = {}
      BY <2>1 DEF KeyPairings
    <3>3. {} \in Paired(T)
      BY DEF KeyPairings, IsPairing
    <3>4. IsFiniteSet({}) /\ Cardinality({}) = 0
      BY FS_EmptySet
    <3>5. \A m \in Paired(T) : IsFiniteSet(m) /\ Cardinality(m) <= SumFunctionOnSet(f, T)
      
      <4> SUFFICES ASSUME NEW m \in Paired(T)
                   PROVE  IsFiniteSet(m) /\ Cardinality(m) <= SumFunctionOnSet(f, T)
        OBVIOUS
      <4> HIDE DEF Paired
      <4>1. m = {}
        BY <3>2
      <4>2. IsFiniteSet(m) /\ Cardinality(m) = 0
        BY <3>4, <4>1
      <4> QED
        BY <3>1, <4>2
    <3>6. \E m \in Paired(T) : Cardinality(m) = SumFunctionOnSet(f, T)
      BY <3>1, <3>3, <3>4
    <3> QED
      BY <3>5, <3>6
  <2>2. CASE T # {}
    <3>1. PICK k \in T : TRUE
      BY <2>2
    <3> DEFINE U == T \ {k}
    <3>2. U \in C
      BY <1>5, <3>1
    <3>3. SumFunctionOnSet(f, T) = f[k] + SumFunctionOnSet(f, U)
      <4>1. IsFiniteSet(T)
        BY FS_Subset
      <4>2. \A x \in T : f[x] \in Nat
        BY <1>4
      <4> QED
        BY <4>1, <4>2, SumTakesOut
    <3>4. SumFunctionOnSet(f, U) \in Nat
      <4>1. IsFiniteSet(U)
        BY FS_Subset
      <4> QED
        BY <1>4, <4>1, SumIsNat
    <3>5. f[k] = Min({Cardinality(With(e, k)), Cardinality(With(g, k))}) /\ f[k] \in Nat
      BY <1>3, <1>4
    <3>6. ASSUME NEW m \in Paired(T)
          PROVE  IsFiniteSet(m) /\ Cardinality(m) <= SumFunctionOnSet(f, T)
      <4> DEFINE mk == {x \in m : e[x[1]] = k}
                 rest == {x \in m : e[x[1]] # k}
      <4>1. IsFiniteSet(m) /\ IsFiniteSet(mk) /\ IsFiniteSet(rest)
        BY <1>2 DEF KeyPairings
      <4>2. rest \in Paired(U)
        BY DEF KeyPairings, IsPairing
      <4>3. Cardinality(rest) <= SumFunctionOnSet(f, U)
        BY <3>2, <4>2
      <4>4. mk \in SUBSET (With(e, k) \X With(g, k)) /\ IsPairing(mk)
        <5>1. \A x \in m : x[1] \in DOMAIN e /\ x[2] \in DOMAIN g /\ x = <<x[1], x[2]>>
          BY DEF KeyPairings
        <5> QED
          BY <5>1 DEF KeyPairings, IsPairing, With
      <4>5. /\ Cardinality(mk) <= Cardinality(With(e, k))
            /\ Cardinality(mk) <= Cardinality(With(g, k))
        <5> HIDE DEF mk
        <5> QED
          BY <1>3, <4>4, PairingFits
      <4>6. Cardinality(mk) <= f[k]
        <5>1. Cardinality(With(e, k)) \in Nat /\ Cardinality(With(g, k)) \in Nat
          BY <1>3
        <5>2. f[k] = Cardinality(With(e, k)) \/ f[k] = Cardinality(With(g, k))
          BY <3>5, <5>1, MinOfTwo
        <5> QED
          BY <4>5, <5>2
      <4>7. Cardinality(m) = Cardinality(mk) + Cardinality(rest)
        <5>1. m = mk \cup rest /\ mk \cap rest = {}
          OBVIOUS
        <5> HIDE DEF mk, rest
        <5> QED
          BY <4>1, <5>1, DisjointSizes
      <4> HIDE DEF mk, rest
      <4>8. Cardinality(mk) \in Nat /\ Cardinality(rest) \in Nat
        BY <4>1, FS_CardinalityType
      <4> QED
        BY <3>3, <3>4, <3>5, <4>1, <4>3, <4>6, <4>7, <4>8
    <3>7. \E m \in Paired(T) : Cardinality(m) = SumFunctionOnSet(f, T)
      <4>1. PICK rest \in Paired(U) : Cardinality(rest) = SumFunctionOnSet(f, U)
        BY <3>2
      <4>2. PICK mk \in SUBSET (With(e, k) \X With(g, k)) : IsPairing(mk) /\ Cardinality(mk) = f[k]
        <5>1. IsFiniteSet(With(e, k)) /\ IsFiniteSet(With(g, k))
          BY <1>3
        <5>2. PICK mk \in SUBSET (With(e, k) \X With(g, k)) :
                /\ IsPairing(mk)
                /\ Cardinality(mk) = Min({Cardinality(With(e, k)), Cardinality(With(g, k))})
          BY <5>1, PairingExists
        <5>3. Cardinality(mk) = f[k]
          BY <3>5, <5>2
        <5> QED
          BY <5>2, <5>3
      <4> DEFINE m == mk \cup rest
      <4>3. \A x \in mk : /\ x[1] \in DOMAIN e /\ x[2] \in DOMAIN g
                          /\ e[x[1]] = k /\ g[x[2]] = k
        BY DEF With
      <4>4. \A x \in rest : /\ x[1] \in DOMAIN e /\ x[2] \in DOMAIN g
                            /\ e[x[1]] = g[x[2]] /\ e[x[1]] \in T /\ e[x[1]] # k
        BY DEF KeyPairings
      <4>5. m \in SUBSET ((DOMAIN e) \X (DOMAIN g))
        BY DEF KeyPairings, With
      <4>6. IsPairing(m)
        BY <4>2, <4>3, <4>4 DEF KeyPairings, IsPairing
      <4>7. m \in Paired(T)
        BY <3>1, <4>3, <4>4, <4>5, <4>6 DEF KeyPairings
      <4>8. Cardinality(m) = Cardinality(mk) + Cardinality(rest)
        <5>1. mk \cap rest = {}
          BY <4>3, <4>4
        <5>2. IsFiniteSet(mk) /\ IsFiniteSet(rest)
          BY <1>2, <4>5
        <5> QED
          BY <5>1, <5>2, DisjointSizes
      <4> QED
        BY <3>3, <4>1, <4>2, <4>7, <4>8
    <3> QED
      BY <3>6, <3>7
  <2> QED
    BY <2>1, <2>2
<1>6. K \in C
  <2> HIDE DEF C
  <2> QED
    BY <1>5, SubsetInduction
<1> QED
  BY <1>6

(* The intersection of two Counters is the most pairs that can be made of  *)
(* two lists of obligations.                                               *)
LEMMA MostPairings ==
  ASSUME NEW e \in Seq(Values), NEW g \in Seq(Values)
  PROVE  Max({Cardinality(m) : m \in Pairings(e, g)}) = Matches(Keys(e), Keys(g))
<1> DEFINE K == ToSet(Keys(e))
           f == [k \in K |-> Min({CountOf(Keys(e), k), CountOf(Keys(g), k)})]
           Paired == KeyPairings(Keys(e), Keys(g), K)
           sizes == {Cardinality(m) : m \in Pairings(e, g)}
<1>1. /\ Keys(e) \in Seq(Values) /\ DOMAIN Keys(e) = DOMAIN e
      /\ Keys(g) \in Seq(Values) /\ DOMAIN Keys(g) = DOMAIN g
  BY KeysAreValues
<1>2. Matches(Keys(e), Keys(g)) = SumFunctionOnSet(f, K) /\ Matches(Keys(e), Keys(g)) \in Nat
  BY <1>1, MatchesSum
<1>3. /\ \A i \in DOMAIN e : e[i] \in Values
      /\ \A i \in DOMAIN g : g[i] \in Values
  OBVIOUS
<1>4. \A i \in DOMAIN e, j \in DOMAIN g : Same(e[i], g[j]) <=> Keys(e)[i] = Keys(g)[j]
  BY <1>3, ScoringAssumption DEF Same, NormalForm, Keys
<1>5. Pairings(e, g) = Paired
  BY <1>1, <1>4 DEF KeyPairings, Pairings, IsPairing, ToSet
<1>6. IsFiniteSet(K)
  BY <1>1, ElementsAreFinite
<1>7. /\ \A m \in Paired : IsFiniteSet(m) /\ Cardinality(m) <= SumFunctionOnSet(f, K)
      /\ \E m \in Paired : Cardinality(m) = SumFunctionOnSet(f, K)
  <2>1. f = [k \in K |-> Min({CountOf(Keys(e), k), CountOf(Keys(g), k)})]
    OBVIOUS
  <2> HIDE DEF f, K
  <2> QED
    BY <1>1, <1>6, <2>1, PairedByKey
<1>8. \A s \in sizes : s \in Nat /\ s <= Matches(Keys(e), Keys(g))
  BY <1>2, <1>5, <1>7, FS_CardinalityType
<1>9. Matches(Keys(e), Keys(g)) \in sizes
  BY <1>2, <1>5, <1>7
<1> HIDE DEF sizes
<1>10. Max(sizes) \in sizes /\ \A s \in sizes : s <= Max(sizes)
  <2>1. \E x \in sizes : \A y \in sizes : x >= y
    BY <1>2, <1>8, <1>9
  <2> QED
    BY <1>2, <1>8, <2>1 DEF Max
<1>11. Max(sizes) = Matches(Keys(e), Keys(g))
  <2> DEFINE top == Max(sizes)
             most == Matches(Keys(e), Keys(g))
  <2>1. top \in sizes /\ most <= top
    BY <1>9, <1>10
  <2>2. top \in Nat /\ top <= most /\ most \in Nat
    BY <1>2, <1>8, <2>1
  <2> HIDE DEF top, most
  <2>3. top = most
    BY <2>1, <2>2
  <2> QED
    BY <2>3 DEF top, most
<1> QED
  BY <1>11 DEF sizes

(* Whatever files are scored, and however long their lists, the true       *)
(* positives among obligations are as many as can be paired, each label    *)
(* with one prediction: _obligations counts keys and never compares two    *)
(* items.                                                                  *)
THEOREM MatchesArePairs == scored \subseteq Files => ObligationsAreMatched
<1> SUFFICES ASSUME NEW files \in Files, Scores(files) # Refused
             PROVE  LET expected == ObligationsOf(files.labels)
                        predicted == ObligationsOf(files.predicted)
                    IN  Scores(files).obligations.truePositive =
                          SumFunction([id \in DOMAIN expected |->
                            Max({Cardinality(m) : m \in Pairings(expected[id], predicted[id])})])
  BY DEF ObligationsAreMatched, Sum
<1> DEFINE expected == ObligationsOf(files.labels)
           predicted == ObligationsOf(files.predicted)
<1>1. Scores(files).obligations.truePositive =
        SumFunction([id \in DOMAIN expected |-> Matches(Keys(expected[id]), Keys(predicted[id]))])
  <2>1. Scores(files).obligations = Obligations(expected, predicted)
    BY ScoresOfAccepted
  <2> QED
    BY <2>1 DEF Obligations, Sum
<1>2. ASSUME NEW id \in DOMAIN expected
      PROVE  Max({Cardinality(m) : m \in Pairings(expected[id], predicted[id])}) =
               Matches(Keys(expected[id]), Keys(predicted[id]))
  <2>1. expected[id] \in Seq(Values) /\ predicted[id] \in Seq(Values)
    BY ListsOfFiles, ScoresOfAccepted
  <2> HIDE DEF expected, predicted
  <2> QED
    BY <2>1, MostPairings
<1>3. [id \in DOMAIN expected |->
         Max({Cardinality(m) : m \in Pairings(expected[id], predicted[id])})]
        = [id \in DOMAIN expected |-> Matches(Keys(expected[id]), Keys(predicted[id]))]
  <2> HIDE DEF expected, predicted
  <2> QED
    BY <1>2
<1> QED
  BY <1>1, <1>3

(* The rate of a whole is full, however large it is;                       *)
LEMMA WholeIsFull ==
  ASSUME NEW n \in Nat
  PROVE  Ratio(n, n) = Full(n > 0)
<1>1. CASE n = 0
  BY <1>1 DEF Ratio, Full
<1>2. CASE n > 0
  <2> DEFINE a == 2 * n * Unit + n
             r == a \div (2 * n)
  <2>1. a \in Nat /\ 2 * n \in Nat /\ 2 * n > 0 /\ Ratio(n, n) = r
    BY <1>2 DEF Ratio, Unit
  <2>2. r \in Nat /\ (2 * n) * r <= a /\ a < (2 * n) * r + 2 * n
    <3> HIDE DEF a
    <3> QED
      BY <2>1
  <2> HIDE DEF r
  <2>3. CASE r > Unit
    <3>1. (2 * n) * r >= (2 * n) * (Unit + 1)
      BY <1>2, <2>2, <2>3 DEF Unit
    <3> QED
      BY <1>2, <2>2, <3>1 DEF Unit
  <2>4. CASE r < Unit
    <3>1. (2 * n) * r <= (2 * n) * (Unit - 1)
      BY <1>2, <2>2, <2>4 DEF Unit
    <3> QED
      BY <1>2, <2>2, <3>1 DEF Unit
  <2>5. r = Unit
    BY <2>2, <2>3, <2>4 DEF Unit
  <2> QED
    BY <1>2, <2>1, <2>5 DEF Full
<1> QED
  BY <1>1, <1>2

(* that of a part is not, unless there is so much that four decimals do    *)
(* not tell.                                                               *)
LEMMA RatioIsFull ==
  ASSUME NEW m \in Nat, NEW n \in Nat, m <= n, n < 2 * Unit
  PROVE  Ratio(m, n) = Full(n > 0) <=> m = n
<1>1. CASE n = 0
  BY <1>1 DEF Ratio, Full
<1>2. CASE n > 0
  <2> DEFINE r == Ratio(m, n)
  <2>1. /\ r \in Nat
        /\ 2 * (r * n) - 2 * (m * Unit) <= n
        /\ 2 * (r * n) - 2 * (m * Unit) >= -n
    BY <1>2, RatioRounds
  <2> HIDE DEF r
  <2>2. ASSUME r = Unit PROVE m = n
    <3>1. 2 * (Unit * n) - 2 * (m * Unit) <= n
      BY <2>1, <2>2
    <3>2. 2 * (Unit * n) - 2 * (m * Unit) = 2 * Unit * (n - m)
      BY DEF Unit
    <3> QED
      BY <3>1, <3>2 DEF Unit
  <2>3. ASSUME m = n PROVE r = Unit
    BY <1>2, <2>3, WholeIsFull DEF Full, r
  <2> QED
    BY <1>2, <2>2, <2>3 DEF Full, r
<1> QED
  BY <1>1, <1>2

(* and the F1 of two full rates is full.                                   *)
LEMMA F1IsFull ==
  ASSUME NEW b \in BOOLEAN
  PROVE  F1s(Full(b), Full(b)) = {Full(b)}
<1>1. CASE b = FALSE
  BY <1>1 DEF F1s, Full
<1>2. CASE b = TRUE
  <2>1. Full(b) = 10000
    BY <1>2 DEF Full, Unit
  <2> DEFINE both == 10000 + 10000
             product == 2 * 10000 * 10000
             low == product \div both
  <2>2. both = 20000 /\ product = 200000000 /\ low = 10000 /\ low + 1 = 10001
    OBVIOUS
  <2> DEFINE R == -both .. both
             twice(f) == 2 * (f * both - product)
  <2>3. F1s(10000, 10000) = {f \in {low, low + 1} : twice(f) \in R}
    BY <2>2 DEF F1s
  <2> HIDE DEF low, product, both
  <2>4. twice(10000) = 0 /\ twice(10001) = 40000
    BY <2>2
  <2>5. 0 \in R /\ 40000 \notin R
    BY <2>2
  <2> HIDE DEF R, twice
  <2>6. F1s(10000, 10000) = {f \in {10000, 10001} : twice(f) \in R}
    BY <2>2, <2>3
  <2>7. twice(10000) \in R /\ twice(10001) \notin R
    BY <2>4, <2>5
  <2>8. F1s(10000, 10000) = {10000}
    <3>1. \A f : f \in F1s(10000, 10000) <=> f \in {10000, 10001} /\ twice(f) \in R
      BY <2>6
    <3>2. \A f : f \in F1s(10000, 10000) <=> f = 10000
      BY <2>7, <3>1
    <3> QED
      BY <3>2
  <2> QED
    BY <2>1, <2>8
<1> QED
  BY <1>1, <1>2

(* A list has as many places as it is long.                                *)
LEMMA PlacesOfList ==
  ASSUME NEW V, NEW list \in Seq(V)
  PROVE  IsFiniteSet(DOMAIN list) /\ Cardinality(DOMAIN list) = Len(list)
<1> DEFINE n == Len(list)
<1>1. n \in Nat /\ DOMAIN list = 1 .. n
  OBVIOUS
<1> HIDE DEF n
<1>2. IsFiniteSet(1 .. n) /\ Cardinality(1 .. n) = IF 1 > n THEN 0 ELSE n - 1 + 1
  BY <1>1, FS_Interval
<1>3. Cardinality(1 .. n) = n
  BY <1>1, <1>2
<1> QED
  BY <1>1, <1>2, <1>3 DEF n

(* The places of a value in a list are counted.                            *)
LEMMA PlacesAreFinite ==
  ASSUME NEW V, NEW list \in Seq(V), NEW k
  PROVE  IsFiniteSet(With(list, k)) /\ CountOf(list, k) = Cardinality(With(list, k))
BY CountIsNat DEF With, CountOf

(* A reordering takes each place of a list to one of the other that has    *)
(* the same value, and meets every place of it once.                       *)
LEMMA ReorderingIsBijection ==
  ASSUME NEW V, NEW list \in Seq(V), NEW W, NEW other \in Seq(W), IsReordering(list, other)
  PROVE  \E p \in Bijection(DOMAIN list, DOMAIN other) :
           \A i \in DOMAIN list : other[p[i]] = list[i]
<1> DEFINE X == Range(list) \cup Range(other)
           b == [x \in X |-> CHOOSE f : f \in Bijection(With(list, x), With(other, x))]
           p == [i \in DOMAIN list |-> b[list[i]][i]]
<1>1. ASSUME NEW x \in X
      PROVE  b[x] \in Bijection(With(list, x), With(other, x))
  <2>1. CountOf(list, x) = CountOf(other, x)
    BY DEF IsReordering
  <2>2. ExistsBijection(With(list, x), With(other, x))
    BY <2>1, PlacesAreFinite, FS_SameCardinalityBij
  <2> QED
    BY <2>2 DEF ExistsBijection
<1> HIDE DEF b
<1>2. \A i \in DOMAIN list : list[i] \in X /\ i \in With(list, list[i])
  BY DEF With, Range
<1>3. \A j \in DOMAIN other : other[j] \in X /\ j \in With(other, other[j])
  BY DEF With, Range
<1> HIDE DEF X
<1>4. ASSUME NEW i \in DOMAIN list
      PROVE  p[i] \in DOMAIN other /\ other[p[i]] = list[i]
  <2>1. b[list[i]][i] \in With(other, list[i])
    BY <1>1, <1>2 DEF Bijection, Injection
  <2> QED
    BY <2>1 DEF With
<1>5. ASSUME NEW i \in DOMAIN list, NEW j \in DOMAIN list, p[i] = p[j]
      PROVE  i = j
  <2>1. list[i] = list[j]
    BY <1>4, <1>5
  <2>2. i \in With(list, list[i]) /\ j \in With(list, list[i]) /\ b[list[i]][i] = b[list[i]][j]
    BY <1>2, <1>5, <2>1
  <2> QED
    BY <1>1, <1>2, <2>2 DEF Bijection, Injection, IsInjective
<1>6. ASSUME NEW j \in DOMAIN other
      PROVE  \E i \in DOMAIN list : p[i] = j
  <2>1. PICK i \in With(list, other[j]) : b[other[j]][i] = j
    BY <1>1, <1>3 DEF Bijection, Surjection
  <2>2. i \in DOMAIN list /\ list[i] = other[j]
    BY DEF With
  <2> QED
    BY <2>1, <2>2
<1>7. p \in [DOMAIN list -> DOMAIN other]
  BY <1>4
<1>8. p \in Bijection(DOMAIN list, DOMAIN other)
  <2> HIDE DEF p
  <2> QED
    BY <1>5, <1>6, <1>7 DEF Bijection, Injection, Surjection, IsInjective
<1> QED
  BY <1>4, <1>8

(* It is as long,                                                          *)
LEMMA ReorderingIsAsLong ==
  ASSUME NEW V, NEW list \in Seq(V), NEW W, NEW other \in Seq(W), IsReordering(list, other)
  PROVE  Len(other) = Len(list)
<1>1. /\ DOMAIN list = 1 .. Len(list) /\ Len(list) \in Nat
      /\ DOMAIN other = 1 .. Len(other) /\ Len(other) \in Nat
  OBVIOUS
<1>2. ExistsBijection(1 .. Len(list), 1 .. Len(other))
  BY <1>1, ReorderingIsBijection DEF ExistsBijection
<1>3. Cardinality(1 .. Len(other)) = Len(list)
  BY <1>1, <1>2, FS_CountingElements
<1>4. Cardinality(1 .. Len(other)) = Len(other)
  BY <1>1, PlacesOfList
<1> QED
  BY <1>3, <1>4

(* has the same values,                                                    *)
LEMMA ReorderingHasSame ==
  ASSUME NEW V, NEW list \in Seq(V), NEW W, NEW other \in Seq(W), IsReordering(list, other)
  PROVE  /\ \A i \in DOMAIN list : \E j \in DOMAIN other : other[j] = list[i]
         /\ \A j \in DOMAIN other : \E i \in DOMAIN list : other[j] = list[i]
<1>1. PICK p \in Bijection(DOMAIN list, DOMAIN other) : \A i \in DOMAIN list : other[p[i]] = list[i]
  BY ReorderingIsBijection
<1>2. /\ \A i \in DOMAIN list : p[i] \in DOMAIN other
      /\ \A j \in DOMAIN other : \E i \in DOMAIN list : p[i] = j
  BY DEF Bijection, Injection, Surjection
<1> QED
  BY <1>1, <1>2

(* and, of obligations, matches the list altogether.                       *)
LEMMA ReorderingMatches ==
  ASSUME NEW list \in Seq(Values), NEW other \in Seq(Values), IsReordering(list, other)
  PROVE  Matches(Keys(list), Keys(other)) = Len(list)
<1> DEFINE e == Keys(list)
           g == Keys(other)
           K == ToSet(e)
           f == [k \in K |-> Min({CountOf(e, k), CountOf(g, k)})]
           Paired == KeyPairings(e, g, K)
<1>1. PICK p \in Bijection(DOMAIN list, DOMAIN other) : \A i \in DOMAIN list : other[p[i]] = list[i]
  BY ReorderingIsBijection
<1>2. /\ e \in Seq(Values) /\ DOMAIN e = DOMAIN list /\ DOMAIN list = 1 .. Len(list)
      /\ g \in Seq(Values) /\ DOMAIN g = DOMAIN other /\ DOMAIN other = 1 .. Len(other)
      /\ Len(list) \in Nat /\ Len(other) \in Nat
  BY KeysAreValues
<1>3. /\ \A i \in DOMAIN list : p[i] \in DOMAIN other
      /\ \A i, j \in DOMAIN list : p[i] = p[j] => i = j
  BY DEF Bijection, Injection, IsInjective
<1>4. \A i \in DOMAIN list : e[i] = g[p[i]] /\ e[i] \in K
  BY <1>1, <1>2, <1>3 DEF Keys, ToSet
<1>5. IsFiniteSet(K)
  BY <1>2, ElementsAreFinite
<1>6. Matches(e, g) = SumFunctionOnSet(f, K) /\ Matches(e, g) \in Nat
  BY <1>2, MatchesSum
<1>7. /\ \A m \in Paired : IsFiniteSet(m) /\ Cardinality(m) <= SumFunctionOnSet(f, K)
      /\ \E m \in Paired : Cardinality(m) = SumFunctionOnSet(f, K)
  <2>1. f = [k \in K |-> Min({CountOf(e, k), CountOf(g, k)})]
    OBVIOUS
  <2> HIDE DEF f, K, e, g
  <2> QED
    BY <1>2, <1>5, <2>1, PairedByKey
<1> HIDE DEF e, g, f, K
<1> DEFINE m == {<<i, p[i]>> : i \in DOMAIN list}
<1>8. m \in Paired
  <2>1. m \in SUBSET ((DOMAIN e) \X (DOMAIN g))
    BY <1>2, <1>3
  <2>2. IsPairing(m)
    BY <1>3 DEF IsPairing
  <2>3. \A x \in m : e[x[1]] = g[x[2]] /\ e[x[1]] \in K
    BY <1>4
  <2> QED
    BY <2>1, <2>2, <2>3 DEF KeyPairings
<1>9. Cardinality(m) = Len(list)
  <2> DEFINE q == [i \in 1 .. Len(list) |-> <<i, p[i]>>]
  <2>1. q \in Bijection(1 .. Len(list), m)
    <3>1. q \in [1 .. Len(list) -> m]
      BY <1>2
    <3>2. \A i, j \in 1 .. Len(list) : q[i] = q[j] => i = j
      OBVIOUS
    <3>3. \A t \in m : \E s \in 1 .. Len(list) : q[s] = t
      BY <1>2
    <3> HIDE DEF q, m
    <3> QED
      BY <3>1, <3>2, <3>3 DEF Bijection, Injection, Surjection, IsInjective
  <2>2. ExistsBijection(1 .. Len(list), m)
    BY <2>1 DEF ExistsBijection
  <2> HIDE DEF m
  <2> QED
    BY <1>2, <2>2, FS_CountingElements
<1>10. Len(list) <= Matches(e, g)
  BY <1>6, <1>7, <1>8, <1>9
<1>11. Matches(e, g) <= Len(list)
  <2>1. PICK n \in Paired : Cardinality(n) = Matches(e, g)
    BY <1>6, <1>7
  <2>2. IsPairing(n) /\ n \in SUBSET ((DOMAIN e) \X (DOMAIN g))
    BY DEF KeyPairings
  <2>3. IsFiniteSet(DOMAIN e) /\ Cardinality(DOMAIN e) = Len(list)
    BY <1>2, PlacesOfList
  <2>4. IsFiniteSet(DOMAIN g)
    BY <1>2, PlacesOfList
  <2> QED
    BY <2>1, <2>2, <2>3, <2>4, PairingFits
<1> QED
  BY <1>2, <1>6, <1>10, <1>11 DEF e, g

(* Copied metadata is correct wherever the labels name a field: _metadata  *)
(* gives full marks when every label names all of them.                    *)
LEMMA CopiedMetadata ==
  ASSUME NEW C, IsFiniteSet(C), Cardinality(C) < 2 * Unit,
         NEW labels, DOMAIN labels = C, NEW predicted, DOMAIN predicted = C,
         \A c \in C : predicted[c] = labels[c]
  PROVE  Metadata(labels, predicted)
           = [accuracy |-> Full(C # {}), perField |-> [f \in Fields |-> Full(C # {})]]
         <=> \A c \in C : Fields \subseteq DOMAIN labels[c]
<1> DEFINE named(f) == {c \in C : f \in DOMAIN labels[c]}
           n == Cardinality(C)
           k == Cardinality(Fields)
           counts == [f \in Fields |-> Cardinality(named(f))]
           all == SumFunctionOnSet(counts, Fields)
<1>1. Metadata(labels, predicted)
        = [accuracy |-> Ratio(all, n * k), perField |-> [f \in Fields |-> Ratio(counts[f], n)]]
  <2>1. \A f : {c \in DOMAIN labels : /\ f \in DOMAIN predicted[c]
                                      /\ Same(LabelFor(labels[c], f), predicted[c][f])} = named(f)
    BY DEF Same, LabelFor
  <2> HIDE DEF named
  <2> QED
    BY <2>1 DEF Metadata, Sum, SumFunction
<1>2. n \in Nat /\ k \in Nat /\ k > 0 /\ (n = 0 <=> C = {})
  BY ScoringAssumption, FS_CardinalityType, FS_EmptySet
<1>3. ASSUME NEW f \in Fields
      PROVE  /\ counts[f] \in Nat /\ counts[f] <= n
             /\ counts[f] = n <=> \A c \in C : f \in DOMAIN labels[c]
  <2>1. named(f) \in SUBSET C /\ counts[f] = Cardinality(named(f))
    OBVIOUS
  <2>2. named(f) = C <=> \A c \in C : f \in DOMAIN labels[c]
    OBVIOUS
  <2> HIDE DEF named, counts
  <2>3. IsFiniteSet(named(f)) /\ Cardinality(named(f)) <= n /\ (Cardinality(named(f)) = n => named(f) = C)
    BY <2>1, FS_Subset
  <2> QED
    BY <2>1, <2>2, <2>3, FS_CardinalityType
<1> HIDE DEF counts, named
<1>4. \A f \in Fields : Ratio(counts[f], n) = Full(C # {}) <=> counts[f] = n
  <2>1. (C # {}) <=> n > 0
    BY <1>2
  <2>2. Full(C # {}) = Full(n > 0)
    BY <2>1 DEF Full
  <2>3. n < 2 * Unit
    OBVIOUS
  <2> HIDE DEF n
  <2> QED
    BY <1>2, <1>3, <2>2, <2>3, RatioIsFull
<1>5. ASSUME \A f \in Fields : counts[f] = n
      PROVE  Ratio(all, n * k) = Full(C # {})
  <2>1. all = k * n
    BY <1>2, <1>5, ScoringAssumption, SumOfEqual
  <2> HIDE DEF n, k, all
  <2>2. n * k = k * n /\ k * n \in Nat /\ (k * n > 0 <=> n > 0)
    BY <1>2
  <2>3. Ratio(all, n * k) = Full(k * n > 0)
    BY <2>1, <2>2, WholeIsFull
  <2> QED
    BY <1>2, <2>2, <2>3 DEF Full
<1> HIDE DEF n, k, all
<1>6. (\A c \in C : Fields \subseteq DOMAIN labels[c]) <=> \A f \in Fields : counts[f] = n
  BY <1>3
<1>7. ASSUME Metadata(labels, predicted)
               = [accuracy |-> Full(C # {}), perField |-> [f \in Fields |-> Full(C # {})]]
      PROVE  \A f \in Fields : counts[f] = n
  <2>1. [f \in Fields |-> Ratio(counts[f], n)] = [f \in Fields |-> Full(C # {})]
    BY <1>1, <1>7
  <2>2. \A f \in Fields : Ratio(counts[f], n) = Full(C # {})
    <3> SUFFICES ASSUME NEW f \in Fields PROVE Ratio(counts[f], n) = Full(C # {})
      OBVIOUS
    <3>1. [g \in Fields |-> Ratio(counts[g], n)][f] = [g \in Fields |-> Full(C # {})][f]
      BY <2>1
    <3> QED
      BY <3>1
  <2> QED
    BY <1>4, <2>2
<1>8. ASSUME \A f \in Fields : counts[f] = n
      PROVE  Metadata(labels, predicted)
               = [accuracy |-> Full(C # {}), perField |-> [f \in Fields |-> Full(C # {})]]
  <2>1. [f \in Fields |-> Ratio(counts[f], n)] = [f \in Fields |-> Full(C # {})]
    BY <1>4, <1>8
  <2> QED
    BY <1>1, <1>5, <1>8, <2>1
<1> QED
  BY <1>6, <1>7, <1>8

\* Something is listed of some contract.
SomeListed(lists) == \E c \in DOMAIN lists : lists[c] # <<>>

(* Copied obligations are all matched: _obligations gives full marks.      *)
LEMMA CopiedObligations ==
  ASSUME NEW C, IsFiniteSet(C),
         NEW labels, DOMAIN labels = C, NEW predicted, DOMAIN predicted = C,
         \A c \in C : /\ labels[c] \in Seq(Values) /\ predicted[c] \in Seq(Values)
                      /\ IsReordering(labels[c], predicted[c])
  PROVE  LET obligations == Obligations(labels, predicted)
             o == Full(SomeListed(labels))
         IN  obligations.precision = o /\ obligations.recall = o /\ obligations.f1s = {o}
<1> DEFINE o == Full(SomeListed(labels))
           sizes == [c \in C |-> Len(labels[c])]
           n == SumFunctionOnSet(sizes, C)
<1>1. ASSUME NEW c \in C
      PROVE  /\ Matches(Keys(labels[c]), Keys(predicted[c])) = Len(labels[c])
             /\ Len(predicted[c]) = Len(labels[c])
             /\ Len(labels[c]) \in Nat
             /\ Len(labels[c]) > 0 <=> labels[c] # <<>>
  <2>1. labels[c] \in Seq(Values) /\ predicted[c] \in Seq(Values) /\ IsReordering(labels[c], predicted[c])
    OBVIOUS
  <2>2. Len(labels[c]) \in Nat /\ (Len(labels[c]) > 0 <=> labels[c] # <<>>)
    BY <2>1
  <2> QED
    BY <2>1, <2>2, ReorderingMatches, ReorderingIsAsLong
<1>2. /\ [c \in C |-> Matches(Keys(labels[c]), Keys(predicted[c]))] = sizes
      /\ [c \in C |-> Len(predicted[c])] = sizes
  BY <1>1
<1>3. n \in Nat /\ (n > 0 <=> \E c \in C : labels[c] # <<>>)
  <2>1. \A c \in C : sizes[c] \in Nat /\ (sizes[c] > 0 <=> labels[c] # <<>>)
    BY <1>1
  <2> HIDE DEF sizes
  <2>2. n \in Nat /\ (n > 0 <=> \E c \in C : sizes[c] > 0)
    BY <2>1, SumIsNat, SumIsPositive
  <2> QED
    BY <2>1, <2>2
<1>4. Ratio(n, n) = o
  <2>1. Full(n > 0) = o
    BY <1>3 DEF Full, SomeListed
  <2> HIDE DEF n, o
  <2> QED
    BY <1>3, <2>1, WholeIsFull
<1>5. Obligations(labels, predicted)
        = [truePositive |-> n, precision |-> o, recall |-> o, f1s |-> F1s(o, o)]
  <2> HIDE DEF o
  <2> QED
    BY <1>2, <1>4 DEF Obligations, Sum, SumFunction
<1>6. F1s(o, o) = {o}
  BY F1IsFull DEF SomeListed
<1> DEFINE given == Obligations(labels, predicted)
<1>7. given = [truePositive |-> n, precision |-> o, recall |-> o, f1s |-> {o}]
  BY <1>5, <1>6
<1> HIDE DEF given, n, o
<1>8. given.precision = o /\ given.recall = o /\ given.f1s = {o}
  BY <1>7
<1> QED
  BY <1>8 DEF given, o

(* What a list has at each of its places is of the list's set.             *)
LEMMA ItemsOfList ==
  ASSUME NEW S, NEW list \in Seq(S)
  PROVE  \A i \in DOMAIN list : list[i] \in S
OBVIOUS

(* The last of some places of a list is one of them.                       *)
LEMMA LastPlace ==
  ASSUME NEW V, NEW list \in Seq(V), NEW I \in SUBSET (1 .. Len(list)), I # {}
  PROVE  Max(I) \in I
<1>1. IsFiniteSet(I) /\ I \subseteq Int
  <2>1. IsFiniteSet(1 .. Len(list)) /\ 1 .. Len(list) \subseteq Int
    BY FS_Interval
  <2> QED
    BY <2>1, FS_Subset
<1> QED
  BY <1>1, MaxOfFinite

(* _risks keeps one risk of each key that occurs.                          *)
LEMMA RiskOfKey ==
  ASSUME NEW V, NEW risks \in Seq(V), NEW k \in DOMAIN ByKey(risks)
  PROVE  \E i \in DOMAIN risks : Normal[risks[i].key] = k /\ ByKey(risks)[k] = risks[i].level
<1> DEFINE I == {i \in 1 .. Len(risks) : Normal[risks[i].key] = k}
<1>1. DOMAIN risks = 1 .. Len(risks)
  OBVIOUS
<1>2. I # {}
  BY <1>1 DEF ByKey
<1>3. Max(I) \in I
  <2>1. I \in SUBSET (1 .. Len(risks))
    OBVIOUS
  <2> HIDE DEF I
  <2> QED
    BY <1>2, <2>1, LastPlace
<1>4. ByKey(risks)[k] = risks[Max(I)].level
  BY <1>1, <1>2 DEF ByKey, LastWith, SelectLastInSeq
<1> QED
  BY <1>1, <1>3, <1>4

\* No two risks have one key.
KeysAreDistinct(risks) ==
  \A i, j \in DOMAIN risks : Same(risks[i].key, risks[j].key) => i = j

(* Of copied risks all keys match: as many as there are risks if they are  *)
(* distinct, and then with their levels; fewer if they are not.            *)
LEMMA CopiedRisksOfOne ==
  ASSUME NEW list \in Seq([key : Values, level : Values]),
         NEW other \in Seq([key : Values, level : Values]), IsReordering(list, other)
  PROVE  LET matched == MatchedRisks(list, other)
             correct == {k \in matched : Same(ByKey(list)[k], ByKey(other)[k])}
         IN  /\ Cardinality(matched) \in Nat /\ Cardinality(matched) <= Len(list)
             /\ Cardinality(matched) = Len(list) <=> KeysAreDistinct(list)
             /\ KeysAreDistinct(list) => correct = matched
<1> DEFINE D == DOMAIN list
           K == {Normal[list[i].key] : i \in D}
           key == [i \in D |-> Normal[list[i].key]]
           matched == MatchedRisks(list, other)
<1>1. /\ \A i \in D : \E j \in DOMAIN other : other[j] = list[i]
      /\ \A j \in DOMAIN other : \E i \in D : other[j] = list[i]
  BY ReorderingHasSame
<1>2. DOMAIN ByKey(list) = K /\ DOMAIN ByKey(other) = K
  <2>1. DOMAIN ByKey(list) = K /\ DOMAIN ByKey(other) = {Normal[other[j].key] : j \in DOMAIN other}
    BY DEF ByKey
  <2>2. {Normal[other[j].key] : j \in DOMAIN other} = K
    BY <1>1
  <2> QED
    BY <2>1, <2>2
<1>3. matched = K
  BY <1>2 DEF MatchedRisks
<1>4. key \in Surjection(D, K)
  BY DEF Surjection
<1>5. IsFiniteSet(D) /\ Cardinality(D) = Len(list)
  BY PlacesOfList
<1>6. \A i \in D : list[i].key \in Values
  <2>1. \A i \in D : list[i] \in [key : Values, level : Values]
    BY ItemsOfList
  <2> HIDE DEF D
  <2> QED
    BY <2>1
<1>7. key \in Injection(D, K) <=> KeysAreDistinct(list)
  <2>1. \A i, j \in D : Same(list[i].key, list[j].key) <=> key[i] = key[j]
    BY <1>6, ScoringAssumption DEF Same, NormalForm
  <2>2. key \in [D -> K]
    OBVIOUS
  <2> HIDE DEF key, K
  <2> QED
    BY <2>1, <2>2 DEF Injection, IsInjective, KeysAreDistinct
<1>8. /\ IsFiniteSet(K)
      /\ Cardinality(K) <= Cardinality(D)
      /\ Cardinality(K) = Cardinality(D) <=> key \in Injection(D, K)
  <2> HIDE DEF key, K, D
  <2> QED
    BY <1>4, <1>5, FS_Surjection
<1>9. ASSUME KeysAreDistinct(list), NEW k \in K
      PROVE  ByKey(list)[k] = ByKey(other)[k]
  <2> k \in DOMAIN ByKey(list) /\ k \in DOMAIN ByKey(other)
    BY <1>2
  <2>1. PICK i \in D : Normal[list[i].key] = k /\ ByKey(list)[k] = list[i].level
    BY RiskOfKey
  <2>2. PICK j \in DOMAIN other : Normal[other[j].key] = k /\ ByKey(other)[k] = other[j].level
    BY RiskOfKey
  <2>3. PICK h \in D : other[j] = list[h]
    BY <1>1
  <2>4. Same(list[i].key, list[h].key)
    BY <1>6, <2>1, <2>2, <2>3, ScoringAssumption DEF Same, NormalForm
  <2>5. i = h
    BY <1>9, <2>4 DEF KeysAreDistinct
  <2> QED
    BY <2>1, <2>2, <2>3, <2>5
<1>10. KeysAreDistinct(list)
         => {k \in matched : Same(ByKey(list)[k], ByKey(other)[k])} = matched
  BY <1>3, <1>9 DEF Same
<1>11. Cardinality(K) \in Nat
  BY <1>8, FS_CardinalityType
<1> HIDE DEF K, matched
<1> QED
  BY <1>3, <1>5, <1>7, <1>8, <1>10, <1>11 DEF matched

(* Marks are equal when each is.                                           *)
LEMMA MarksAreEqual ==
  ASSUME NEW a, NEW p, NEW q, NEW x, NEW y, NEW z,
         [accuracy |-> a, precision |-> p, recall |-> q] = [accuracy |-> x, precision |-> y, recall |-> z]
  PROVE  a = x /\ p = y /\ q = z
<1> DEFINE s == [accuracy |-> a, precision |-> p, recall |-> q]
           t == [accuracy |-> x, precision |-> y, recall |-> z]
<1>1. /\ s.accuracy = a /\ s.precision = p /\ s.recall = q
      /\ t.accuracy = x /\ t.precision = y /\ t.recall = z
  OBVIOUS
<1>2. s = t
  OBVIOUS
<1> HIDE DEF s, t
<1> QED
  BY <1>1, <1>2

(* Copied risks get full marks from _risks when no contract has two of one *)
(* key.                                                                    *)
LEMMA CopiedRisks ==
  ASSUME NEW C, IsFiniteSet(C),
         NEW labels, DOMAIN labels = C, NEW predicted, DOMAIN predicted = C,
         \A c \in C : /\ labels[c] \in Seq([key : Values, level : Values])
                      /\ predicted[c] \in Seq([key : Values, level : Values])
                      /\ IsReordering(labels[c], predicted[c]),
         SumFunctionOnSet([c \in C |-> Len(labels[c])], C) < 2 * Unit
  PROVE  LET r == Full(SomeListed(labels))
         IN  Risks(labels, predicted) = [accuracy |-> r, precision |-> r, recall |-> r]
             <=> \A c \in C : KeysAreDistinct(labels[c])
<1> DEFINE r == Full(SomeListed(labels))
           matched(c) == MatchedRisks(labels[c], predicted[c])
           correct(c) == {k \in matched(c) : Same(ByKey(labels[c])[k], ByKey(predicted[c])[k])}
           sizes == [c \in C |-> Len(labels[c])]
           matches == [c \in C |-> Cardinality(matched(c))]
           corrects == [c \in C |-> Cardinality(correct(c))]
           n == SumFunctionOnSet(sizes, C)
           m == SumFunctionOnSet(matches, C)
           k == SumFunctionOnSet(corrects, C)
<1>1. ASSUME NEW c \in C
      PROVE  /\ matches[c] \in Nat /\ matches[c] <= sizes[c]
             /\ matches[c] = sizes[c] <=> KeysAreDistinct(labels[c])
             /\ KeysAreDistinct(labels[c]) => corrects[c] = matches[c]
             /\ sizes[c] \in Nat
             /\ sizes[c] > 0 <=> labels[c] # <<>>
             /\ Len(predicted[c]) = sizes[c]
  <2>1. /\ labels[c] \in Seq([key : Values, level : Values])
        /\ predicted[c] \in Seq([key : Values, level : Values])
        /\ IsReordering(labels[c], predicted[c])
    OBVIOUS
  <2>2. Len(labels[c]) \in Nat /\ (Len(labels[c]) > 0 <=> labels[c] # <<>>)
    BY <2>1
  <2>3. Len(predicted[c]) = Len(labels[c])
    BY <2>1, ReorderingIsAsLong
  <2>4. /\ Cardinality(matched(c)) \in Nat /\ Cardinality(matched(c)) <= Len(labels[c])
        /\ Cardinality(matched(c)) = Len(labels[c]) <=> KeysAreDistinct(labels[c])
        /\ KeysAreDistinct(labels[c]) => correct(c) = matched(c)
    BY <2>1, CopiedRisksOfOne
  <2> QED
    BY <2>2, <2>3, <2>4
<1>2. Risks(labels, predicted)
        = [accuracy |-> Ratio(k, n), precision |-> Ratio(m, n), recall |-> Ratio(m, n)]
  <2>1. [c \in C |-> Len(predicted[c])] = sizes
    BY <1>1
  <2> QED
    BY <2>1 DEF Risks, Sum, SumFunction
<1> HIDE DEF sizes, matches, corrects
<1>3. /\ n \in Nat /\ m \in Nat /\ m <= n
      /\ m = n <=> \A c \in C : matches[c] = sizes[c]
      /\ n > 0 <=> \E c \in C : sizes[c] > 0
  BY <1>1, SumIsNat, SumsCompare, SumIsPositive
<1>4. (\A c \in C : KeysAreDistinct(labels[c])) => k = m
  <2> SUFFICES ASSUME \A c \in C : KeysAreDistinct(labels[c])
               PROVE  k = m
    OBVIOUS
  <2>1. \A c \in C : corrects[c] = matches[c] /\ corrects[c] \in Nat
    BY <1>1
  <2> QED
    BY <1>1, <2>1, SumsCompare
<1>5. n < 2 * Unit
  BY DEF sizes
<1> HIDE DEF n, m, k
<1>6. r = Full(n > 0)
  BY <1>1, <1>3 DEF Full, SomeListed
<1> HIDE DEF r
<1>7. Ratio(m, n) = r <=> m = n
  BY <1>3, <1>5, <1>6, RatioIsFull
<1>8. m = n <=> \A c \in C : KeysAreDistinct(labels[c])
  BY <1>1, <1>3
<1> DEFINE given == Risks(labels, predicted)
           a == Ratio(k, n)
           p == Ratio(m, n)
<1>9. given = [accuracy |-> a, precision |-> p, recall |-> p]
  BY <1>2
<1> HIDE DEF given, a, p
<1>10. given = [accuracy |-> r, precision |-> r, recall |-> r] => a = r /\ p = r
  BY <1>9, MarksAreEqual
<1>11. a = r /\ p = r => given = [accuracy |-> r, precision |-> r, recall |-> r]
  BY <1>9
<1> QED
  BY <1>4, <1>7, <1>8, <1>10, <1>11 DEF given, a, p, r

(* _qa finds the prediction for a question that was predicted: one with    *)
(* its id,                                                                 *)
LEMMA PredictionIsFound ==
  ASSUME NEW V, NEW cases \in Seq(V), NEW case, \E i \in DOMAIN cases : cases[i].question = case.question
  PROVE  \E i \in DOMAIN cases :
           /\ cases[i].question = case.question
           /\ PredictionFor(case, cases) = [answer |-> cases[i].answer, chunks |-> cases[i].chunks]
<1> DEFINE I == {i \in 1 .. Len(cases) : cases[i].question = case.question}
<1>1. DOMAIN cases = 1 .. Len(cases)
  OBVIOUS
<1>2. I # {}
  BY <1>1
<1>3. Max(I) \in I
  <2>1. I \in SUBSET (1 .. Len(cases))
    OBVIOUS
  <2> HIDE DEF I
  <2> QED
    BY <1>2, <2>1, LastPlace
<1>4. LastWith(cases, LAMBDA q : q.question = case.question) = cases[Max(I)]
  BY <1>2 DEF LastWith, SelectLastInSeq
<1>5. PredictionFor(case, cases) = [answer |-> cases[Max(I)].answer, chunks |-> cases[Max(I)].chunks]
  BY <1>1, <1>2, <1>4 DEF PredictionFor
<1> QED
  BY <1>1, <1>3, <1>5

(* and the same one whichever label asks it.                               *)
LEMMA PredictionByQuestion ==
  ASSUME NEW cases, NEW case, NEW same, same.question = case.question
  PROVE  PredictionFor(same, cases) = PredictionFor(case, cases)
BY DEF PredictionFor, LastWith, SelectLastInSeq

\* No two answers to one question, with no two sets of chunks.
AnswersAgree(qa) ==
  \A i, j \in DOMAIN qa :
    qa[i].question = qa[j].question =>
      Same(qa[i].answer, qa[j].answer) /\ qa[i].chunks = qa[j].chunks

\* Chunks exactly for what has an answer.
AnswersAreCited(qa) == \A i \in DOMAIN qa : qa[i].answer = Null <=> qa[i].chunks = {}

(* A label of copied cases is answered by one of the labels that ask the   *)
(* same; rightly for all labels when those agree.                          *)
LEMMA CopiedCasesOfOne ==
  ASSUME NEW V, NEW list \in Seq(V), NEW W, NEW other \in Seq(W), IsReordering(list, other)
  PROVE  LET given(i) == PredictionFor(list[i], other)
         IN  /\ \A i \in DOMAIN list : \E h \in DOMAIN list :
                  /\ list[h].question = list[i].question
                  /\ given(i) = [answer |-> list[h].answer, chunks |-> list[h].chunks]
             /\ (\A i \in DOMAIN list : Same(list[i].answer, given(i).answer)
                                        /\ list[i].chunks = given(i).chunks)
                  <=> AnswersAgree(list)
<1> DEFINE D == DOMAIN list
           given(i) == PredictionFor(list[i], other)
<1>1. /\ \A i \in D : \E j \in DOMAIN other : other[j] = list[i]
      /\ \A j \in DOMAIN other : \E i \in D : other[j] = list[i]
  BY ReorderingHasSame
<1>2. ASSUME NEW i \in D
      PROVE  \E h \in D : /\ list[h].question = list[i].question
                          /\ given(i) = [answer |-> list[h].answer, chunks |-> list[h].chunks]
  <2>1. \E j \in DOMAIN other : other[j].question = list[i].question
    BY <1>1
  <2>2. PICK j \in DOMAIN other :
          /\ other[j].question = list[i].question
          /\ given(i) = [answer |-> other[j].answer, chunks |-> other[j].chunks]
    BY <2>1, PredictionIsFound
  <2>3. PICK h \in D : other[j] = list[h]
    BY <1>1
  <2> QED
    BY <2>2, <2>3
<1>3. ASSUME NEW i \in D, NEW j \in D, list[i].question = list[j].question
      PROVE  given(i) = given(j)
  BY <1>3, PredictionByQuestion
<1> HIDE DEF given
<1>4. ASSUME \A i \in D : Same(list[i].answer, given(i).answer) /\ list[i].chunks = given(i).chunks
      PROVE  AnswersAgree(list)
  BY <1>3, <1>4 DEF AnswersAgree, Same
<1>5. ASSUME AnswersAgree(list), NEW i \in D
      PROVE  Same(list[i].answer, given(i).answer) /\ list[i].chunks = given(i).chunks
  <2>1. PICK h \in D : /\ list[h].question = list[i].question
                       /\ given(i) = [answer |-> list[h].answer, chunks |-> list[h].chunks]
    BY <1>2
  <2>2. Same(list[i].answer, list[h].answer) /\ list[i].chunks = list[h].chunks
    BY <1>5, <2>1 DEF AnswersAgree
  <2> QED
    BY <2>1, <2>2
<1> QED
  BY <1>2, <1>4, <1>5 DEF given

(* A right answer with the labelled chunks is grounded when there are      *)
(* chunks exactly for an answer.                                           *)
LEMMA GroundedWhenCited ==
  ASSUME NEW case, NEW given, case.answer \in Values, given.answer \in Values,
         Same(case.answer, given.answer), case.chunks = given.chunks
  PROVE  IsGrounded(case, given) <=> (case.answer = Null <=> case.chunks = {})
<1>1. case.answer = Null <=> given.answer = Null
  BY ScoringAssumption DEF Same, NormalForm
<1> QED
  BY <1>1 DEF IsGrounded

\* Chunks are cited in some case of some contract.
SomeCited(qa) == \E c \in DOMAIN qa : \E i \in DOMAIN qa[c] : qa[c][i].chunks # {}

(* There are finitely many cases: a place in the list of each contract.    *)
LEMMA CasesAreFinite ==
  ASSUME NEW C, IsFiniteSet(C), NEW labels, DOMAIN labels = C,
         \A c \in C : labels[c] \in Seq(Range(labels[c]))
  PROVE  /\ IsFiniteSet(CasesOf(labels))
         /\ \A x \in CasesOf(labels) : x[1] \in C /\ x[2] \in DOMAIN labels[x[1]]
         /\ \A c \in C : \A i \in DOMAIN labels[c] : <<c, i>> \in CasesOf(labels)
<1> DEFINE places(c) == {c} \X (DOMAIN labels[c])
           S == {places(c) : c \in C}
           f == [c \in C |-> places(c)]
<1>1. CasesOf(labels) = UNION S
  BY DEF CasesOf
<1>2. \A T \in S : IsFiniteSet(T)
  <2> SUFFICES ASSUME NEW c \in C PROVE IsFiniteSet({c} \X (DOMAIN labels[c]))
    OBVIOUS
  <2>1. IsFiniteSet({c}) /\ IsFiniteSet(DOMAIN labels[c])
    BY FS_Singleton, PlacesOfList
  <2> QED
    BY <2>1, FS_Product
<1>3. f \in Surjection(C, S)
  BY DEF Surjection
<1>4. IsFiniteSet(UNION S)
  <2> HIDE DEF S, f
  <2>1. IsFiniteSet(S)
    BY <1>3, FS_Surjection
  <2> QED
    BY <1>2, <2>1, FS_UNION
<1>5. /\ \A x \in UNION S : x[1] \in C /\ x[2] \in DOMAIN labels[x[1]]
      /\ \A c \in C : \A i \in DOMAIN labels[c] : <<c, i>> \in UNION S
  OBVIOUS
<1> QED
  BY <1>1, <1>4, <1>5

(* Marks of questions are equal when each is.                              *)
LEMMA AnswerMarksAreEqual ==
  ASSUME NEW a, NEW g, NEW p, NEW r, NEW f, NEW u, NEW v, NEW w, NEW x, NEW y,
         [accuracy |-> a, grounding |-> g, precision |-> p, recall |-> r, f1s |-> f]
           = [accuracy |-> u, grounding |-> v, precision |-> w, recall |-> x, f1s |-> y]
  PROVE  a = u /\ g = v /\ p = w /\ r = x
<1> DEFINE s == [accuracy |-> a, grounding |-> g, precision |-> p, recall |-> r, f1s |-> f]
           t == [accuracy |-> u, grounding |-> v, precision |-> w, recall |-> x, f1s |-> y]
<1>1. /\ s.accuracy = a /\ s.grounding = g /\ s.precision = p /\ s.recall = r
      /\ t.accuracy = u /\ t.grounding = v /\ t.precision = w /\ t.recall = x
  OBVIOUS
<1>2. s = t
  OBVIOUS
<1> HIDE DEF s, t
<1> QED
  BY <1>1, <1>2

\* Labels and predictions of cases cite from one set, of which four decimals can
\* tell how much, and nothing is predicted where nothing is labelled.
CiteFrom(cited, cases, label, given) ==
  /\ IsFiniteSet(cases) /\ IsFiniteSet(cited)
  /\ \A x \in cases : label[x] \subseteq cited /\ given[x] \subseteq cited
  /\ Cardinality(cases) * Cardinality(cited) < 2 * Unit
  /\ (\E x \in cases : given[x] # {}) => \E x \in cases : label[x] # {}

\* How many citations of cases there are, and how many two sides have in common.
Citations(cases, sets) == SumFunctionOnSet([x \in cases |-> Cardinality(sets[x])], cases)
Common(cases, label, given) ==
  SumFunctionOnSet([x \in cases |-> Cardinality(label[x] \cap given[x])], cases)

AnyCited(cases, sets) == \E x \in cases : sets[x] # {}

(* The chunks that are cited rightly are all that are labelled and all     *)
(* that are given when each case is given those of its label.              *)
LEMMA CitationsAreFull ==
  ASSUME NEW cited, NEW cases, NEW label, NEW given, CiteFrom(cited, cases, label, given)
  PROVE  LET tp == Common(cases, label, given)
             L == Citations(cases, label)
             G == Citations(cases, given)
             p == Full(AnyCited(cases, label))
         IN  Ratio(tp, G) = p /\ Ratio(tp, L) = p <=> \A x \in cases : label[x] = given[x]
<1> DEFINE tp == Common(cases, label, given)
           L == Citations(cases, label)
           G == Citations(cases, given)
           p == Full(AnyCited(cases, label))
           n == Cardinality(cases)
           k == Cardinality(cited)
           right == [x \in cases |-> Cardinality(label[x] \cap given[x])]
           labelled == [x \in cases |-> Cardinality(label[x])]
           cites == [x \in cases |-> Cardinality(given[x])]
           most == [x \in cases |-> k]
<1>1. n \in Nat /\ k \in Nat /\ IsFiniteSet(cases)
  BY FS_CardinalityType DEF CiteFrom
<1>2. ASSUME NEW x \in cases
      PROVE  /\ right[x] \in Nat /\ labelled[x] \in Nat /\ cites[x] \in Nat
             /\ right[x] <= labelled[x] /\ right[x] <= cites[x]
             /\ labelled[x] <= k /\ cites[x] <= k
             /\ right[x] = labelled[x] /\ right[x] = cites[x] <=> label[x] = given[x]
             /\ labelled[x] > 0 <=> label[x] # {}
             /\ cites[x] > 0 <=> given[x] # {}
             /\ most[x] = k
  <2> DEFINE a == label[x]
             b == given[x]
  <2>1. a \in SUBSET cited /\ b \in SUBSET cited
    BY DEF CiteFrom
  <2>2. right[x] = Cardinality(a \cap b) /\ labelled[x] = Cardinality(a) /\ cites[x] = Cardinality(b)
        /\ most[x] = k
    OBVIOUS
  <2> HIDE DEF a, b, right, labelled, cites, most
  <2>3. IsFiniteSet(a) /\ Cardinality(a) <= k /\ IsFiniteSet(b) /\ Cardinality(b) <= k
    BY <2>1, FS_Subset DEF CiteFrom
  <2>4. a \cap b \in SUBSET a /\ a \cap b \in SUBSET b
    OBVIOUS
  <2>5. /\ IsFiniteSet(a \cap b)
        /\ Cardinality(a \cap b) <= Cardinality(a) /\ Cardinality(a \cap b) <= Cardinality(b)
        /\ Cardinality(a \cap b) = Cardinality(a) => a = a \cap b
        /\ Cardinality(a \cap b) = Cardinality(b) => b = a \cap b
    BY <2>3, <2>4, FS_Subset
  <2>6. /\ Cardinality(a \cap b) \in Nat /\ Cardinality(a) \in Nat /\ Cardinality(b) \in Nat
        /\ Cardinality(a) = 0 <=> a = {}
        /\ Cardinality(b) = 0 <=> b = {}
    BY <2>3, <2>5, FS_CardinalityType, FS_EmptySet
  <2>7. right[x] = labelled[x] /\ right[x] = cites[x] <=> a = b
    <3>1. a = b => a \cap b = a /\ a \cap b = b
      OBVIOUS
    <3> QED
      BY <2>2, <2>5, <3>1
  <2> QED
    BY <2>2, <2>3, <2>5, <2>6, <2>7 DEF a, b
<1>3. tp = SumFunctionOnSet(right, cases) /\ L = SumFunctionOnSet(labelled, cases)
      /\ G = SumFunctionOnSet(cites, cases)
  BY DEF Common, Citations
<1> HIDE DEF right, labelled, cites, most, tp, L, G
<1>4. tp \in Nat /\ L \in Nat /\ G \in Nat
  BY <1>1, <1>2, <1>3, SumIsNat
<1>5. /\ tp <= L
      /\ tp = L <=> \A x \in cases : right[x] = labelled[x]
  BY <1>1, <1>2, <1>3, SumsCompare
<1>6. /\ tp <= G
      /\ tp = G <=> \A x \in cases : right[x] = cites[x]
  BY <1>1, <1>2, <1>3, SumsCompare
<1>7. /\ L > 0 <=> \E x \in cases : labelled[x] > 0
      /\ G > 0 <=> \E x \in cases : cites[x] > 0
  BY <1>1, <1>2, <1>3, SumIsPositive
<1>8. L < 2 * Unit /\ G < 2 * Unit
  <2>1. L <= SumFunctionOnSet(most, cases) /\ G <= SumFunctionOnSet(most, cases)
    BY <1>1, <1>2, <1>3, SumsCompare
  <2>2. SumFunctionOnSet(most, cases) = n * k
    BY <1>1, <1>2, SumOfEqual
  <2>3. n * k < 2 * Unit /\ n * k \in Nat
    BY <1>1 DEF CiteFrom
  <2> HIDE DEF n, k
  <2> QED
    BY <1>4, <2>1, <2>2, <2>3 DEF Unit
<1>9. Ratio(tp, L) = Full(L > 0) <=> tp = L
  BY <1>4, <1>5, <1>8, RatioIsFull
<1>10. Ratio(tp, G) = Full(G > 0) <=> tp = G
  BY <1>4, <1>6, <1>8, RatioIsFull
<1>11. p = Full(L > 0) /\ (G > 0 => L > 0)
  BY <1>2, <1>7 DEF Full, CiteFrom, AnyCited
<1> HIDE DEF p
<1>12. ASSUME Ratio(tp, L) = p PROVE p = Full(G > 0)
  <2>1. tp = L
    BY <1>9, <1>11, <1>12
  <2>2. G > 0 <=> L > 0
    BY <1>4, <1>6, <1>11, <2>1
  <2> QED
    BY <1>11, <2>2 DEF Full
<1>13. ASSUME tp = G, tp = L PROVE p = Full(G > 0)
  BY <1>11, <1>13
<1>14. Ratio(tp, G) = p /\ Ratio(tp, L) = p <=> tp = G /\ tp = L
  BY <1>9, <1>10, <1>11, <1>12, <1>13
<1>15. tp = G /\ tp = L <=> \A x \in cases : label[x] = given[x]
  BY <1>2, <1>5, <1>6
<1> QED
  BY <1>14, <1>15 DEF p, tp, L, G

(* Copied cases get full marks from _qa when those that ask the same agree *)
(* and are cited when answered.                                            *)
LEMMA CopiedCases ==
  ASSUME NEW C, IsFiniteSet(C),
         NEW labels, DOMAIN labels = C, NEW predicted, DOMAIN predicted = C,
         \A c \in C : /\ labels[c] \in Seq(Range(labels[c]))
                      /\ predicted[c] \in Seq(Range(predicted[c]))
                      /\ IsReordering(labels[c], predicted[c])
                      /\ \A i \in DOMAIN labels[c] :
                           labels[c][i].answer \in Values /\ IsFiniteSet(labels[c][i].chunks),
         Cardinality(CasesOf(labels)) < 2 * Unit,
         Cardinality(CasesOf(labels))
           * Cardinality(UNION {labels[x[1]][x[2]].chunks : x \in CasesOf(labels)}) < 2 * Unit
  PROVE  LET q == Full(SomeListed(labels))
             p == Full(SomeCited(labels))
         IN  QA(labels, predicted)
               = [accuracy |-> q, grounding |-> q, precision |-> p, recall |-> p, f1s |-> {p}]
             <=> \A c \in C : AnswersAgree(labels[c]) /\ AnswersAreCited(labels[c])
<1> DEFINE q == Full(SomeListed(labels))
           p == Full(SomeCited(labels))
           cases == CasesOf(labels)
           n == Cardinality(cases)
           label == [x \in cases |-> labels[x[1]][x[2]]]
           given == [x \in cases |-> PredictionFor(label[x], predicted[x[1]])]
           labelled == [x \in cases |-> label[x].chunks]
           cites == [x \in cases |-> given[x].chunks]
           cited == UNION {labelled[x] : x \in cases}
           right == {x \in cases : Same(label[x].answer, given[x].answer)}
           grounded == {x \in cases : IsGrounded(label[x], given[x])}
           tp == Common(cases, labelled, cites)
           L == Citations(cases, labelled)
           G == Citations(cases, cites)
<1>1. /\ IsFiniteSet(cases)
      /\ \A x \in cases : x[1] \in C /\ x[2] \in DOMAIN labels[x[1]]
      /\ \A c \in C : \A i \in DOMAIN labels[c] : <<c, i>> \in cases
  BY CasesAreFinite
<1>2. QA(labels, predicted)
        = [accuracy |-> Ratio(Cardinality(right), n), grounding |-> Ratio(Cardinality(grounded), n),
           precision |-> Ratio(tp, G), recall |-> Ratio(tp, L),
           f1s |-> F1s(Ratio(tp, G), Ratio(tp, L))]
  <2>1. [x \in cases |-> Cardinality(labels[x[1]][x[2]].chunks
                           \cap PredictionFor(labels[x[1]][x[2]], predicted[x[1]]).chunks)]
          = [x \in cases |-> Cardinality(labelled[x] \cap cites[x])]
    OBVIOUS
  <2>2. [x \in cases |-> Cardinality(labels[x[1]][x[2]].chunks)]
          = [x \in cases |-> Cardinality(labelled[x])]
    OBVIOUS
  <2>3. [x \in cases |-> Cardinality(PredictionFor(labels[x[1]][x[2]], predicted[x[1]]).chunks)]
          = [x \in cases |-> Cardinality(cites[x])]
    OBVIOUS
  <2>4. {x \in cases : Same(labels[x[1]][x[2]].answer,
                            PredictionFor(labels[x[1]][x[2]], predicted[x[1]]).answer)} = right
    OBVIOUS
  <2>5. {x \in cases : IsGrounded(labels[x[1]][x[2]],
                                  PredictionFor(labels[x[1]][x[2]], predicted[x[1]]))} = grounded
    OBVIOUS
  <2> HIDE DEF right, grounded, labelled, cites
  <2> QED
    BY <2>1, <2>2, <2>3, <2>4, <2>5, Zenon DEF QA, Sum, SumFunction, Common, Citations
<1>3. ASSUME NEW c \in C
      PROVE  /\ \A i \in DOMAIN labels[c] : \E h \in DOMAIN labels[c] :
                  given[<<c, i>>] = [answer |-> labels[c][h].answer, chunks |-> labels[c][h].chunks]
             /\ (\A i \in DOMAIN labels[c] :
                   Same(label[<<c, i>>].answer, given[<<c, i>>].answer)
                   /\ label[<<c, i>>].chunks = given[<<c, i>>].chunks)
                  <=> AnswersAgree(labels[c])
  <2>1. \A i \in DOMAIN labels[c] : /\ label[<<c, i>>] = labels[c][i]
                                    /\ given[<<c, i>>] = PredictionFor(labels[c][i], predicted[c])
    BY <1>1
  <2>2. /\ labels[c] \in Seq(Range(labels[c])) /\ predicted[c] \in Seq(Range(predicted[c]))
        /\ IsReordering(labels[c], predicted[c])
    OBVIOUS
  <2> DEFINE list == labels[c]
             found(i) == PredictionFor(list[i], predicted[c])
  <2>3. /\ \A i \in DOMAIN list : \E h \in DOMAIN list :
             found(i) = [answer |-> list[h].answer, chunks |-> list[h].chunks]
        /\ (\A i \in DOMAIN list : Same(list[i].answer, found(i).answer)
                                   /\ list[i].chunks = found(i).chunks)
             <=> AnswersAgree(list)
    <3> HIDE DEF label, given
    <3> QED
      BY <2>2, CopiedCasesOfOne
  <2> HIDE DEF label, given, found
  <2>4. \A i \in DOMAIN labels[c] : /\ label[<<c, i>>] = labels[c][i]
                                    /\ given[<<c, i>>] = found(i)
    BY <2>1 DEF found
  <2>5. ASSUME NEW i \in DOMAIN labels[c]
        PROVE  \E h \in DOMAIN labels[c] :
                 given[<<c, i>>] = [answer |-> labels[c][h].answer, chunks |-> labels[c][h].chunks]
    <3>1. PICK h \in DOMAIN labels[c] :
            found(i) = [answer |-> labels[c][h].answer, chunks |-> labels[c][h].chunks]
      BY <2>3
    <3>2. given[<<c, i>>] = found(i)
      BY <2>4
    <3> QED
      BY <3>1, <3>2
  <2>6. (\A i \in DOMAIN labels[c] : Same(label[<<c, i>>].answer, given[<<c, i>>].answer)
                                     /\ label[<<c, i>>].chunks = given[<<c, i>>].chunks)
        <=> AnswersAgree(labels[c])
    <3>1. \A i \in DOMAIN labels[c] :
            /\ Same(label[<<c, i>>].answer, given[<<c, i>>].answer)
                 <=> Same(list[i].answer, found(i).answer)
            /\ label[<<c, i>>].chunks = given[<<c, i>>].chunks <=> list[i].chunks = found(i).chunks
      BY <2>4
    <3> QED
      BY <2>3, <3>1
  <2> QED
    BY <2>5, <2>6
<1>4. \A x \in cases : x = <<x[1], x[2]>>
  BY DEF CasesOf
<1>5. \A c \in C : \A i \in DOMAIN labels[c] : label[<<c, i>>] = labels[c][i]
  BY <1>1
<1>6. \A x \in cases : /\ label[x].answer \in Values
                       /\ IsFiniteSet(label[x].chunks)
                       /\ labelled[x] = label[x].chunks
                       /\ cites[x] = given[x].chunks
  BY <1>1
<1>7. Cardinality(cases) * Cardinality(cited) < 2 * Unit
  <2>1. {labelled[x] : x \in cases} = {labels[x[1]][x[2]].chunks : x \in cases}
    OBVIOUS
  <2> QED
    BY <2>1
<1> HIDE DEF label, given, labelled, cites
<1>8. \A x \in cases : \E y \in cases : given[x].answer = label[y].answer /\ given[x].chunks = label[y].chunks
  <2> SUFFICES ASSUME NEW x \in cases
               PROVE  \E y \in cases : given[x].answer = label[y].answer /\ given[x].chunks = label[y].chunks
    OBVIOUS
  <2>1. PICK h \in DOMAIN labels[x[1]] :
          given[x] = [answer |-> labels[x[1]][h].answer, chunks |-> labels[x[1]][h].chunks]
    BY <1>1, <1>3, <1>4
  <2>2. <<x[1], h>> \in cases /\ label[<<x[1], h>>] = labels[x[1]][h]
    BY <1>1, <1>5
  <2> QED
    BY <2>1, <2>2
<1>9. (\A x \in cases : Same(label[x].answer, given[x].answer) /\ label[x].chunks = given[x].chunks)
        <=> \A c \in C : AnswersAgree(labels[c])
  BY <1>1, <1>3, <1>4
<1>10. (\A x \in cases : label[x].answer = Null <=> label[x].chunks = {})
        <=> \A c \in C : AnswersAreCited(labels[c])
  <2>1. ASSUME \A x \in cases : label[x].answer = Null <=> label[x].chunks = {},
               NEW c \in C, NEW i \in DOMAIN labels[c]
        PROVE  labels[c][i].answer = Null <=> labels[c][i].chunks = {}
    <3>1. <<c, i>> \in cases /\ label[<<c, i>>] = labels[c][i]
      BY <1>1, <1>5
    <3> QED
      BY <2>1, <3>1
  <2>2. ASSUME \A c \in C : AnswersAreCited(labels[c]), NEW x \in cases
        PROVE  label[x].answer = Null <=> label[x].chunks = {}
    <3>1. x[1] \in C /\ x[2] \in DOMAIN labels[x[1]] /\ label[x] = labels[x[1]][x[2]]
      BY <1>1, <1>4, <1>5
    <3> QED
      BY <2>2, <3>1 DEF AnswersAreCited
  <2> QED
    BY <2>1, <2>2 DEF AnswersAreCited
<1> HIDE DEF right, grounded
<1>11. Ratio(tp, G) = p /\ Ratio(tp, L) = p <=> \A x \in cases : labelled[x] = cites[x]
  <2>1. IsFiniteSet(cited)
    <3> DEFINE S == {labelled[x] : x \in cases}
    <3>1. labelled \in Surjection(cases, S)
      BY DEF Surjection, labelled
    <3>2. \A T \in S : IsFiniteSet(T)
      BY <1>6
    <3>3. IsFiniteSet(S)
      <4> HIDE DEF S
      <4> QED
        BY <1>1, <3>1, FS_Surjection
    <3> HIDE DEF S
    <3>4. IsFiniteSet(UNION S)
      BY <3>2, <3>3, FS_UNION
    <3> QED
      BY <3>4 DEF S
  <2>2. \A x \in cases : labelled[x] \subseteq cited /\ cites[x] \subseteq cited
    BY <1>6, <1>8
  <2>3. (\E x \in cases : cites[x] # {}) => \E x \in cases : labelled[x] # {}
    BY <1>6, <1>8
  <2>4. (\E x \in cases : labelled[x] # {})
          <=> \E c \in C : \E i \in DOMAIN labels[c] : labels[c][i].chunks # {}
    <3>1. ASSUME NEW x \in cases, labelled[x] # {}
          PROVE  \E c \in C : \E i \in DOMAIN labels[c] : labels[c][i].chunks # {}
      <4>1. x[1] \in C /\ x[2] \in DOMAIN labels[x[1]] /\ label[x] = labels[x[1]][x[2]]
        BY <1>1, <1>4, <1>5
      <4> QED
        BY <1>6, <3>1, <4>1
    <3>2. ASSUME NEW c \in C, NEW i \in DOMAIN labels[c], labels[c][i].chunks # {}
          PROVE  \E x \in cases : labelled[x] # {}
      <4>1. <<c, i>> \in cases /\ label[<<c, i>>] = labels[c][i]
        BY <1>1, <1>5
      <4> QED
        BY <1>6, <3>2, <4>1
    <3> QED
      BY <3>1, <3>2
  <2>5. p = Full(AnyCited(cases, labelled))
    BY <2>4 DEF Full, AnyCited, SomeCited
  <2> HIDE DEF p
  <2>6. CiteFrom(cited, cases, labelled, cites)
    <3> HIDE DEF cited
    <3> QED
      BY <1>1, <1>7, <2>1, <2>2, <2>3 DEF CiteFrom
  <2>7. Ratio(tp, G) = Full(AnyCited(cases, labelled)) /\ Ratio(tp, L) = Full(AnyCited(cases, labelled))
          <=> \A x \in cases : labelled[x] = cites[x]
    <3> HIDE DEF cited
    <3> QED
      BY <2>6, CitationsAreFull
  <2> QED
    BY <2>5, <2>7, Zenon
<1>12. q = Full(n > 0) /\ n \in Nat
  <2>1. n \in Nat /\ (n = 0 <=> cases = {})
    BY <1>1, FS_CardinalityType, FS_EmptySet
  <2>2. cases # {} <=> \E c \in C : labels[c] # <<>>
    <3>1. ASSUME NEW c \in C, labels[c] # <<>>
          PROVE  cases # {}
      <4>1. 1 \in DOMAIN labels[c]
        BY <3>1
      <4> QED
        BY <1>1, <4>1
    <3>2. ASSUME NEW x \in cases
          PROVE  \E c \in C : labels[c] # <<>>
      <4>1. x[1] \in C /\ x[2] \in DOMAIN labels[x[1]]
        BY <1>1
      <4> QED
        BY <4>1
    <3> QED
      BY <3>1, <3>2
  <2>3. n > 0 <=> \E c \in C : labels[c] # <<>>
    BY <2>1, <2>2
  <2> QED
    BY <2>1, <2>3 DEF Full, SomeListed
<1> HIDE DEF q
<1>13. ASSUME NEW S \in SUBSET cases
       PROVE  Ratio(Cardinality(S), n) = q <=> S = cases
  <2>1. IsFiniteSet(S) /\ Cardinality(S) <= n /\ (Cardinality(S) = n => S = cases)
    BY <1>1, FS_Subset
  <2>2. Cardinality(S) \in Nat /\ (S = cases => Cardinality(S) = n)
    BY <2>1, FS_CardinalityType
  <2>3. n < 2 * Unit
    OBVIOUS
  <2> HIDE DEF n
  <2>4. Ratio(Cardinality(S), n) = Full(n > 0) <=> Cardinality(S) = n
    BY <1>12, <2>1, <2>2, <2>3, RatioIsFull
  <2> QED
    BY <1>12, <2>1, <2>2, <2>4
<1>14. /\ Ratio(Cardinality(right), n) = q
             <=> \A x \in cases : Same(label[x].answer, given[x].answer)
       /\ Ratio(Cardinality(grounded), n) = q
             <=> \A x \in cases : IsGrounded(label[x], given[x])
  <2>1. right \in SUBSET cases /\ grounded \in SUBSET cases
    BY DEF right, grounded
  <2>2. /\ right = cases <=> \A x \in cases : Same(label[x].answer, given[x].answer)
        /\ grounded = cases <=> \A x \in cases : IsGrounded(label[x], given[x])
    BY DEF right, grounded
  <2> HIDE DEF n
  <2> QED
    BY <1>13, <2>1, <2>2
<1>15. ASSUME \A x \in cases : Same(label[x].answer, given[x].answer) /\ label[x].chunks = given[x].chunks
       PROVE  (\A x \in cases : IsGrounded(label[x], given[x]))
                <=> \A x \in cases : label[x].answer = Null <=> label[x].chunks = {}
  <2>1. ASSUME NEW x \in cases
        PROVE  IsGrounded(label[x], given[x]) <=> (label[x].answer = Null <=> label[x].chunks = {})
    <3>1. label[x].answer \in Values /\ given[x].answer \in Values
      BY <1>6, <1>8
    <3> QED
      BY <1>15, <3>1, GroundedWhenCited
  <2> QED
    BY <2>1
<1> DEFINE a == Ratio(Cardinality(right), n)
           g == Ratio(Cardinality(grounded), n)
           u == Ratio(tp, G)
           v == Ratio(tp, L)
           marks == QA(labels, predicted)
           full == [accuracy |-> q, grounding |-> q, precision |-> p, recall |-> p, f1s |-> {p}]
<1>16. marks = [accuracy |-> a, grounding |-> g, precision |-> u, recall |-> v, f1s |-> F1s(u, v)]
  BY <1>2
<1>17. /\ a = q <=> \A x \in cases : Same(label[x].answer, given[x].answer)
       /\ g = q <=> \A x \in cases : IsGrounded(label[x], given[x])
       /\ u = p /\ v = p <=> \A x \in cases : label[x].chunks = given[x].chunks
  BY <1>6, <1>11, <1>14
<1> HIDE DEF a, g, u, v, marks
<1>18. marks = full => a = q /\ g = q /\ u = p /\ v = p
  <2> HIDE DEF p
  <2> QED
    BY <1>16, AnswerMarksAreEqual
<1>19. F1s(p, p) = {p}
  BY F1IsFull DEF SomeCited
<1> HIDE DEF p
<1>20. a = q /\ g = q /\ u = p /\ v = p => marks = full
  BY <1>16, <1>19
<1> HIDE DEF full
<1>21. a = q /\ g = q /\ u = p /\ v = p
         <=> \A c \in C : AnswersAgree(labels[c]) /\ AnswersAreCited(labels[c])
  BY <1>9, <1>10, <1>15, <1>17
<1> QED
  BY <1>18, <1>20, <1>21 DEF full, marks, p, q

(* The contracts of an indexed file are those that it lists: none is       *)
(* hidden by another of the same id.                                       *)
LEMMA ContractsAreListed ==
  ASSUME NEW V, NEW file \in Seq(V), Cardinality(IdsOf(file)) = Len(file)
  PROVE  /\ \A id \in IdsOf(file) : ContractOf(file, id) \in Range(file)
         /\ \A c \in Range(file) : \E id \in IdsOf(file) : ContractOf(file, id) = c
<1> DEFINE D == DOMAIN file
           g == [i \in D |-> file[i].id]
<1>1. IsFiniteSet(D) /\ Cardinality(D) = Len(file)
  BY PlacesOfList
<1>2. g \in Surjection(D, IdsOf(file))
  BY DEF Surjection, IdsOf
<1>3. g \in Injection(D, IdsOf(file))
  <2> HIDE DEF g, D
  <2> QED
    BY <1>1, <1>2, FS_SurjSameCardinalityImpliesInj
<1>4. \A i, j \in D : file[i].id = file[j].id => i = j
  BY <1>3 DEF Injection, IsInjective
<1>5. \A id \in IdsOf(file) : ContractOf(file, id) \in Range(file) /\ ContractOf(file, id).id = id
  BY ContractIsListed
<1>6. ASSUME NEW c \in Range(file)
      PROVE  \E id \in IdsOf(file) : ContractOf(file, id) = c
  <2>1. PICK i \in D : file[i] = c
    BY DEF Range
  <2>2. c.id \in IdsOf(file)
    BY <2>1 DEF IdsOf
  <2>3. PICK j \in D : file[j] = ContractOf(file, c.id)
    BY <1>5, <2>2 DEF Range
  <2>4. i = j
    BY <1>4, <1>5, <2>1, <2>2, <2>3
  <2> QED
    BY <2>1, <2>2, <2>3, <2>4
<1> QED
  BY <1>5, <1>6

(* Whatever files are scored, predictions that repeat the labels get full  *)
(* marks in every section, unless the labels of some contract leave out a  *)
(* field, have two risks of one key, answer one question in two ways or    *)
(* cite for no answer or not for one.                                      *)
THEOREM CopiesScoreFull == scored \subseteq Files => CopiedLabelsScoreFull
<1> SUFFICES ASSUME NEW files \in Files, IsCopy(files.labels, files.predicted), Scores(files) # Refused
             PROVE  IsFull(files.labels, Scores(files))
                    <=> \A label \in Range(files.labels) : Consistent(label)
  BY DEF CopiedLabelsScoreFull
<1> DEFINE file == files.labels
           other == files.predicted
           C == IdsOf(file)
           L(name) == Section(file, name)
           P(name) == Section(other, name)
           scores == Scores(files)
<1>1. /\ scores = [metadata |-> Metadata(L("metadata"), P("metadata")),
                   obligations |-> Obligations(L("obligations"), P("obligations")),
                   risks |-> Risks(L("risks"), P("risks")),
                   qa |-> QA(L("qa"), P("qa"))]
      /\ IdsOf(other) = C
      /\ Cardinality(C) = Len(file)
  BY DEF Scores, EvaluateFiles, IsIndexed
<1>2. /\ file \in Seq(Range(file)) /\ other \in Seq(Range(other))
      /\ \A c \in Range(file) \cup Range(other) :
           /\ c.obligations \in Seq(Values)
           /\ c.risks \in Seq([key : Values, level : Values])
           /\ c.qa \in Seq(Range(c.qa))
  BY FilesAreListed
<1>3. /\ \A id \in C : ContractOf(file, id) \in Range(file)
      /\ \A c \in Range(file) : \E id \in C : ContractOf(file, id) = c
      /\ \A id \in C : ContractOf(other, id) \in Range(other)
  BY <1>1, <1>2, ContractsAreListed, ContractIsListed
<1>4. IsFiniteSet(C) /\ (C # {} <=> file # <<>>)
  <2>1. IsFiniteSet(C)
    BY <1>2, IdsAreFinite
  <2>2. Cardinality(C) = 0 <=> C = {}
    BY <2>1, FS_EmptySet
  <2>3. Len(file) = 0 <=> file = <<>>
    BY <1>2
  <2> QED
    BY <1>1, <2>1, <2>2, <2>3
<1>5. ASSUME NEW name
      PROVE  /\ DOMAIN L(name) = C /\ DOMAIN P(name) = C
             /\ \A id \in C : /\ L(name)[id] = ContractOf(file, id)[name]
                              /\ P(name)[id] = ContractOf(other, id)[name]
  BY <1>1 DEF Section
<1> HIDE DEF L, P
<1>6. scores.metadata = [accuracy |-> Full(file # <<>>), perField |-> [f \in Fields |-> Full(file # <<>>)]]
      <=> \A id \in C : Fields \subseteq DOMAIN ContractOf(file, id).metadata
  <2>1. \A id \in C : P("metadata")[id] = L("metadata")[id]
    BY <1>5 DEF IsCopy
  <2>2. Cardinality(C) < 2 * Unit
    BY <1>1, FilesAreSmall
  <2> HIDE DEF C, file, other, scores
  <2>3. Metadata(L("metadata"), P("metadata"))
          = [accuracy |-> Full(C # {}), perField |-> [f \in Fields |-> Full(C # {})]]
        <=> \A id \in C : Fields \subseteq DOMAIN L("metadata")[id]
    BY <1>4, <1>5, <2>1, <2>2, CopiedMetadata
  <2>4. Full(C # {}) = Full(file # <<>>)
    BY <1>4 DEF Full
  <2>5. scores.metadata = Metadata(L("metadata"), P("metadata"))
    BY <1>1
  <2> QED
    BY <1>5, <2>3, <2>4, <2>5
<1>7. ASSUME NEW name
      PROVE  Full(SomeListed(L(name))) = Full(\E label \in Range(file) : label[name] # <<>>)
  <2>1. (\E id \in C : L(name)[id] # <<>>) <=> \E label \in Range(file) : label[name] # <<>>
    BY <1>3, <1>5
  <2> QED
    BY <1>5, <2>1 DEF Full, SomeListed
<1>8. /\ \A id \in C : \A name \in {"obligations", "risks", "qa"} : IsReordering(L(name)[id], P(name)[id])
      /\ \A id \in C : /\ L("obligations")[id] \in Seq(Values) /\ P("obligations")[id] \in Seq(Values)
                       /\ L("risks")[id] \in Seq([key : Values, level : Values])
                       /\ P("risks")[id] \in Seq([key : Values, level : Values])
                       /\ L("qa")[id] \in Seq(Range(L("qa")[id]))
                       /\ P("qa")[id] \in Seq(Range(P("qa")[id]))
  <2>1. \A id \in C : \A name \in {"obligations", "risks", "qa"} : IsReordering(L(name)[id], P(name)[id])
    BY <1>5 DEF IsCopy
  <2>2. \A id \in C : /\ L("obligations")[id] \in Seq(Values) /\ P("obligations")[id] \in Seq(Values)
                      /\ L("risks")[id] \in Seq([key : Values, level : Values])
                      /\ P("risks")[id] \in Seq([key : Values, level : Values])
                      /\ L("qa")[id] \in Seq(Range(L("qa")[id]))
                      /\ P("qa")[id] \in Seq(Range(P("qa")[id]))
    <3> SUFFICES ASSUME NEW id \in C
                 PROVE  /\ L("obligations")[id] \in Seq(Values) /\ P("obligations")[id] \in Seq(Values)
                        /\ L("risks")[id] \in Seq([key : Values, level : Values])
                        /\ P("risks")[id] \in Seq([key : Values, level : Values])
                        /\ L("qa")[id] \in Seq(Range(L("qa")[id]))
                        /\ P("qa")[id] \in Seq(Range(P("qa")[id]))
      OBVIOUS
    <3>1. /\ ContractOf(file, id) \in Range(file) \cup Range(other)
          /\ ContractOf(other, id) \in Range(file) \cup Range(other)
      BY <1>3
    <3>2. L("obligations")[id] \in Seq(Values) /\ P("obligations")[id] \in Seq(Values)
      BY <1>2, <1>5, <3>1
    <3>3. /\ L("risks")[id] \in Seq([key : Values, level : Values])
          /\ P("risks")[id] \in Seq([key : Values, level : Values])
      BY <1>2, <1>5, <3>1
    <3>4. L("qa")[id] \in Seq(Range(L("qa")[id])) /\ P("qa")[id] \in Seq(Range(P("qa")[id]))
      BY <1>2, <1>5, <3>1
    <3> QED
      BY <3>2, <3>3, <3>4
  <2> QED
    BY <2>1, <2>2
<1>9. LET o == Full(\E label \in Range(file) : label["obligations"] # <<>>)
      IN  scores.obligations.precision = o /\ scores.obligations.recall = o /\ scores.obligations.f1s = {o}
  <2> DEFINE o == Full(SomeListed(L("obligations")))
             given == Obligations(L("obligations"), P("obligations"))
  <2>1. scores.obligations = given
    BY <1>1
  <2>2. given.precision = o /\ given.recall = o /\ given.f1s = {o}
    <3> HIDE DEF C, file, other, scores
    <3> QED
      BY <1>4, <1>5, <1>8, CopiedObligations
  <2> HIDE DEF scores, given
  <2> QED
    BY <1>7, <2>1, <2>2
<1>10. LET r == Full(\E label \in Range(file) : label["risks"] # <<>>)
       IN  scores.risks = [accuracy |-> r, precision |-> r, recall |-> r]
           <=> \A id \in C : KeysAreDistinct(ContractOf(file, id).risks)
  <2> DEFINE r == Full(SomeListed(L("risks")))
             given == Risks(L("risks"), P("risks"))
  <2>1. scores.risks = given
    BY <1>1
  <2>2. SumFunctionOnSet([c \in C |-> Len(L("risks")[c])], C) < 2 * Unit
    <3>1. Sum(DOMAIN L("risks"), LAMBDA id : Len(L("risks")[id])) < 2 * Unit
      BY FilesAreSmall DEF L
    <3> QED
      BY <1>5, <3>1 DEF Sum, SumFunction
  <2>3. given = [accuracy |-> r, precision |-> r, recall |-> r] <=> \A id \in C : KeysAreDistinct(L("risks")[id])
    <3> HIDE DEF C, file, other, scores
    <3> QED
      BY <1>4, <1>5, <1>8, <2>2, CopiedRisks
  <2> HIDE DEF scores, given
  <2> QED
    BY <1>5, <1>7, <2>1, <2>3
<1>11. LET q == Full(\E label \in Range(file) : label["qa"] # <<>>)
           p == Full(\E label \in Range(file) : \E case \in Range(label.qa) : case.chunks # {})
       IN  scores.qa = [accuracy |-> q, grounding |-> q, precision |-> p, recall |-> p, f1s |-> {p}]
           <=> \A id \in C : AnswersAgree(ContractOf(file, id).qa) /\ AnswersAreCited(ContractOf(file, id).qa)
  <2> DEFINE cases == CasesOf(L("qa"))
             q == Full(SomeListed(L("qa")))
             p == Full(SomeCited(L("qa")))
             given == QA(L("qa"), P("qa"))
  <2>1. scores.qa = given
    BY <1>1
  <2>2. /\ Cardinality(cases) < 2 * Unit
        /\ Cardinality(cases) * Cardinality(UNION {L("qa")[x[1]][x[2]].chunks : x \in cases}) < 2 * Unit
    BY FilesAreSmall DEF L
  <2>3. \A id \in C : \A i \in DOMAIN L("qa")[id] :
          L("qa")[id][i].answer \in Values /\ IsFiniteSet(L("qa")[id][i].chunks)
    <3> SUFFICES ASSUME NEW id \in C, NEW i \in DOMAIN L("qa")[id]
                 PROVE  L("qa")[id][i].answer \in Values /\ IsFiniteSet(L("qa")[id][i].chunks)
      OBVIOUS
    <3>1. L("qa")[id][i] \in Range(ContractOf(file, id).qa)
      BY <1>5 DEF Range
    <3> QED
      BY <1>3, <3>1, LabelsAreValues
  <2>4. given = [accuracy |-> q, grounding |-> q, precision |-> p, recall |-> p, f1s |-> {p}]
        <=> \A id \in C : AnswersAgree(L("qa")[id]) /\ AnswersAreCited(L("qa")[id])
    <3> HIDE DEF C, file, other, scores
    <3> QED
      BY <1>4, <1>5, <1>8, <2>2, <2>3, CopiedCases
  <2>5. p = Full(\E label \in Range(file) : \E case \in Range(label.qa) : case.chunks # {})
    <3>1. ASSUME SomeCited(L("qa"))
          PROVE  \E label \in Range(file) : \E case \in Range(label.qa) : case.chunks # {}
      <4>1. PICK id \in C : \E i \in DOMAIN L("qa")[id] : L("qa")[id][i].chunks # {}
        BY <1>5, <3>1 DEF SomeCited
      <4>2. \E case \in Range(ContractOf(file, id).qa) : case.chunks # {}
        BY <1>5, <4>1 DEF Range
      <4> QED
        BY <1>3, <4>2
    <3>2. ASSUME NEW label \in Range(file), NEW case \in Range(label.qa), case.chunks # {}
          PROVE  SomeCited(L("qa"))
      <4>1. PICK id \in C : L("qa")[id] = label.qa
        BY <1>3, <1>5
      <4>2. \E i \in DOMAIN L("qa")[id] : L("qa")[id][i].chunks # {}
        BY <3>2, <4>1 DEF Range
      <4> QED
        BY <1>5, <4>2 DEF SomeCited
    <3>3. SomeCited(L("qa"))
            <=> \E label \in Range(file) : \E case \in Range(label.qa) : case.chunks # {}
      BY <3>1, <3>2
    <3> QED
      BY <3>3 DEF Full
  <2> HIDE DEF scores, given, p
  <2> QED
    BY <1>5, <1>7, <2>1, <2>4, <2>5
<1>12. IsFull(file, scores)
       <=> \A id \in C : /\ Fields \subseteq DOMAIN ContractOf(file, id).metadata
                         /\ KeysAreDistinct(ContractOf(file, id).risks)
                         /\ AnswersAgree(ContractOf(file, id).qa) /\ AnswersAreCited(ContractOf(file, id).qa)
  <2> HIDE DEF scores, C, file
  <2> QED
    BY <1>6, <1>9, <1>10, <1>11 DEF IsFull
<1>13. \A label : Consistent(label) <=> /\ Fields \subseteq DOMAIN label.metadata
                                        /\ KeysAreDistinct(label.risks)
                                        /\ AnswersAgree(label.qa) /\ AnswersAreCited(label.qa)
  BY DEF Consistent, KeysAreDistinct, AnswersAgree, AnswersAreCited
<1>14. (\A label \in Range(file) : Consistent(label)) <=> \A id \in C : Consistent(ContractOf(file, id))
  BY <1>3
<1> QED
  BY <1>12, <1>13, <1>14
=============================================================================
