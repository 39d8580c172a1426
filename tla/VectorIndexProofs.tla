-------------------------- MODULE VectorIndexProofs --------------------------
(***************************************************************************)
(* Theorems about VectorIndex, for any number of requests, models, byte    *)
(* variants and restarts.                                                  *)
(***************************************************************************)
EXTENDS VectorIndex, TLAPS

(* A step keeps every variable in its type.                                *)
LEMMA IndexTypeStep ==
  ASSUME TypeOK, [Next]_vars
  PROVE  TypeOK'
  <1> USE VectorAssumption DEF TypeOK, Requests, Goto, FilesKept, Fixed, LoadFails
  <1>1. ASSUME NEW r \in Requests, Start(r)
        PROVE  TypeOK'
    BY <1>1 DEF Start
  <1>2. ASSUME NEW r \in Requests, Step(r)
        PROVE  TypeOK'
    <2>1. CASE CheckExists(r) \/ ReadMetadata(r) \/ VerifyChecksum(r) \/ ReadIndex(r)
      BY <2>1 DEF CheckExists, ReadMetadata, VerifyChecksum, ReadIndex
    <2>2. CASE Encode(r)
      BY <2>2 DEF Encode, Indexes
    <2>3. CASE ReplaceIndex(r)
      BY <2>3 DEF ReplaceIndex, Disturb
    <2>4. CASE ReplaceMetadata(r)
      BY <2>4 DEF ReplaceMetadata, Disturb
    <2>5. CASE WriteFails(r)
      BY <2>5 DEF WriteFails
    <2> QED
      BY <1>2, <2>1, <2>2, <2>3, <2>4, <2>5 DEF Step
  <1>3. ASSUME NEW r \in Searches, Search(r)
        PROVE  TypeOK'
    BY <1>3 DEF Search
  <1>4. ASSUME NEW a \in Analyses, Compare(a) \/ Finish(a)
        PROVE  TypeOK'
    BY <1>4 DEF Compare, Finish
  <1>5. CASE Restart
    BY <1>5 DEF Restart
  <1>6. CASE UNCHANGED vars
    BY <1>6 DEF vars
  <1> QED
    BY <1>1, <1>2, <1>3, <1>4, <1>5, <1>6 DEF Next

(* The strengthening is kept by every step.                                *)
LEMMA IndexStep ==
  ASSUME IndexInv, [Next]_vars
  PROVE  IndexInv'
  <1>0. TypeOK'
    BY IndexTypeStep DEF IndexInv
  <1> USE VectorAssumption
      DEF IndexInv, FilesInv, ModelInv, RebuildInv, CompletedIsIndexed, Reading, TypeOK,
          Requests, Goto, FilesKept, Fixed
  <1>1. ASSUME NEW r \in Requests, Start(r)
        PROVE  IndexInv'
    BY <1>0, <1>1 DEF Start
  <1>2. ASSUME NEW r \in Requests, Step(r)
        PROVE  IndexInv'
    <2>1. CASE CheckExists(r)
      BY <1>0, <2>1 DEF CheckExists, LoadFails
    <2>2. CASE ReadMetadata(r)
      BY <1>0, <2>2 DEF ReadMetadata
    <2>3. CASE VerifyChecksum(r)
      BY <1>0, <2>3 DEF VerifyChecksum, LoadFails
    <2>4. CASE ReadIndex(r)
      BY <1>0, <2>4 DEF ReadIndex, LoadFails
    <2>5. CASE Encode(r)
      BY <1>0, <2>5 DEF Encode, Indexes
    <2>6. CASE ReplaceIndex(r)
      BY <1>0, <2>6 DEF ReplaceIndex, Disturb, Active
    <2>7. CASE ReplaceMetadata(r)
      BY <1>0, <2>7 DEF ReplaceMetadata, Disturb, Active
    <2>8. CASE WriteFails(r)
      BY <1>0, <2>8 DEF WriteFails
    <2> QED
      BY <1>2, <2>1, <2>2, <2>3, <2>4, <2>5, <2>6, <2>7, <2>8 DEF Step
  <1>3. ASSUME NEW r \in Searches, Search(r)
        PROVE  IndexInv'
    BY <1>0, <1>3 DEF Search
  <1>4. ASSUME NEW a \in Analyses, Compare(a) \/ Finish(a)
        PROVE  IndexInv'
    BY <1>0, <1>4 DEF Compare, Finish
  <1>5. CASE Restart
    <2>1. \A r \in Requests :
            \/ pc'[r] = "dead"
            \/ /\ pc'[r] = pc[r]
               /\ pc[r] \in {"idle", "served", "done", "unavailable", "mismatch", "error",
                            "dead"}
      BY <1>5 DEF Restart, Active
    <2>2. UNCHANGED <<indexFile, metadataFile, disturbed, completed, claim, meta, loaded, rebuilt>>
      BY <1>5 DEF Restart
    <2> QED
      BY <1>0, <2>1, <2>2
  <1>6. CASE UNCHANGED vars
    BY <1>0, <1>6 DEF vars
  <1> QED
    BY <1>1, <1>2, <1>3, <1>4, <1>5, <1>6 DEF Next

(* The files, the model of their vectors and what a rebuilding search      *)
(* finds, at every point of every request.                                 *)
THEOREM IndexInvariance == Spec => []IndexInv
  <1>1. Init => IndexInv
    <2> SUFFICES ASSUME Init PROVE IndexInv
      OBVIOUS
    <2>1. TypeOK
      <3>1. completed \in BOOLEAN
        BY DEF Init
      <3>2. restarts \in 0 .. MaxRestarts
        BY VectorAssumption DEF Init
      <3> QED
        BY <3>1, <3>2 DEF Init, TypeOK
    <2>2. \A r \in Requests : pc[r] = "idle"
      BY DEF Init
    <2>3. FilesInv /\ ModelInv /\ RebuildInv
      BY <2>2 DEF Init, FilesInv, ModelInv, RebuildInv, CompletedIsIndexed, Reading
    <2> QED
      BY <2>1, <2>2, <2>3 DEF IndexInv, Requests
  <1>2. IndexInv /\ [Next]_vars => IndexInv'
    BY IndexStep
  <1>3. QED
    BY <1>1, <1>2, PTL DEF Spec

(* A search that rebuilt the index is refused only after another write.    *)
THEOREM RefusalNeedsRace == Spec => []RefusedOnlyWhenDisturbed
  <1>1. IndexInv => RefusedOnlyWhenDisturbed
    BY DEF IndexInv, RebuildInv, RefusedOnlyWhenDisturbed
  <1> QED
    BY <1>1, IndexInvariance, PTL

(* A completed contract is never without its index files.                  *)
THEOREM CompletedHasIndex == Spec => []CompletedIsIndexed
  <1>1. IndexInv => CompletedIsIndexed
    BY DEF IndexInv, FilesInv
  <1> QED
    BY <1>1, IndexInvariance, PTL

(* Answers are never computed with the vectors of another model.           *)
THEOREM OwnModelOnly == Spec => SearchUsesOwnModel
  <1> DEFINE Served == \A r \in Searches :
               (pc[r] # "served" /\ pc'[r] = "served") => loaded[r].model = model
  <1>1. IndexInv /\ [Next]_vars => [Served]_vars
    <2> SUFFICES ASSUME IndexInv, [Next]_vars, NEW r \in Searches,
                        pc[r] # "served", pc'[r] = "served"
                 PROVE  loaded[r].model = model
      OBVIOUS
    <2> USE DEF IndexInv, TypeOK, Requests, Goto
    <2>1. ASSUME NEW q \in Requests, Start(q) \/ Step(q)
          PROVE  FALSE
      BY <2>1
      DEF Start, Step, CheckExists, ReadMetadata, VerifyChecksum, ReadIndex, Encode,
          ReplaceIndex, ReplaceMetadata, WriteFails, LoadFails
    <2>2. ASSUME NEW a \in Analyses, Compare(a) \/ Finish(a)
          PROVE  FALSE
      BY <2>2, VectorAssumption DEF Compare, Finish
    <2>3. ~ Restart /\ ~ UNCHANGED vars
      BY DEF Restart, Active, vars
    <2>4. PICK q \in Searches : Search(q)
      BY <2>1, <2>2, <2>3 DEF Next
    <2> QED
      BY <2>4 DEF Search, ModelInv
  <1>2. QED
    BY <1>1, IndexInvariance, PTL DEF Spec, SearchUsesOwnModel
=============================================================================
