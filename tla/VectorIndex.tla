----------------------------- MODULE VectorIndex -----------------------------
(***************************************************************************)
(* The vector index of one contract: two files, index.faiss and            *)
(* metadata.json, that the request threads of one API process read and     *)
(* replace without any lock, across restarts of the process that may       *)
(* change EMBEDDING_MODEL.                                                 *)
(*                                                                         *)
(* An index is the model whose vectors it holds and, because an encoder    *)
(* need not return the same bytes twice, a variant of its bytes.  The      *)
(* metadata names the model and the SHA-256 of the index it was written    *)
(* with, so a metadata file is represented by that index.  Chunks never    *)
(* change once a contract is stored, so the comparisons of chunk ids and   *)
(* of the source hash always succeed and are left out.  A file is read or  *)
(* replaced atomically (os.replace); temporary files have unique names.    *)
(***************************************************************************)
EXTENDS Naturals

CONSTANTS
  Searches,      \* requests that retrieve chunks (search, questions)
  Analyses,      \* analyses, which only make sure that the index is ready
  Models,        \* embedding models an operator may configure
  Variants,      \* byte variants of an index of one model
  NoFile,
  MaxRestarts    \* bound: restarts of the process

Requests == Searches \cup Analyses
Indexes == [model : Models, variant : Variants]

ASSUME VectorAssumption ==
  /\ Searches \cap Analyses = {}
  /\ NoFile \notin Indexes
  /\ MaxRestarts \in Nat

VARIABLES
  model,        \* embedding model of the running process
  indexFile,    \* index.faiss
  metadataFile, \* metadata.json
  completed,    \* the contract's analysis has completed
  claim,        \* the analysis that the contract is claimed for
  pc,           \* where each request is
  meta,         \* the metadata a request has read
  loaded,       \* the index a request has read or built
  rebuilt,      \* the searches that have rebuilt the index once
  disturbed,    \* those of them during whose second attempt another one wrote
  restarts      \* restarts so far, at most MaxRestarts

vars == <<model, indexFile, metadataFile, completed, claim, pc, meta, loaded, rebuilt,
          disturbed, restarts>>

Init ==
  /\ model \in Models
  /\ indexFile = NoFile
  /\ metadataFile = NoFile
  /\ completed = FALSE
  /\ claim = {}
  /\ pc = [r \in Requests |-> "idle"]
  /\ meta = [r \in Requests |-> NoFile]
  /\ loaded = [r \in Requests |-> NoFile]
  /\ rebuilt = {}
  /\ disturbed = {}
  /\ restarts = 0

Goto(r, label) == pc' = [pc EXCEPT ![r] = label]

Active(r) ==
  pc[r] \notin {"idle", "served", "done", "unavailable", "mismatch", "error", "dead"}

FilesKept == UNCHANGED <<indexFile, metadataFile, disturbed>>
Fixed == UNCHANGED <<model, completed, claim, restarts>>

-----------------------------------------------------------------------------
\* A search may come at any time.  An analysis that has claimed the contract comes
\* while it is not completed, perhaps while an earlier one still works: that one has
\* lost its database session, and the contract was recovered (AnalysisProtocol).

Start(r) ==
  /\ pc[r] = "idle"
  /\ r \in Analyses => ~ completed
  /\ claim' = IF r \in Analyses THEN {r} ELSE claim
  /\ Goto(r, "exists")
  /\ FilesKept /\ UNCHANGED <<model, completed, restarts, meta, loaded, rebuilt>>

\* The analysis whose index was made ready stores its results, or fails; without the
\* claim it cannot but fail.
Finish(a) ==
  /\ pc[a] = "ready"
  /\ Goto(a, "done")
  /\ completed' \in IF a \in claim THEN BOOLEAN ELSE {completed}
  /\ FilesKept /\ UNCHANGED <<model, claim, meta, loaded, rebuilt, restarts>>

-----------------------------------------------------------------------------
\* ContractVectorIndexStore.load, one file access at a time.

\* A VectorIndexError: rebuild, but a search does so once only.
LoadFails(r) ==
  IF r \in rebuilt THEN Goto(r, "unavailable") ELSE Goto(r, "encode")

CheckExists(r) ==
  /\ pc[r] = "exists"
  /\ \/ NoFile \in {indexFile, metadataFile} /\ LoadFails(r)
     \/ NoFile \notin {indexFile, metadataFile} /\ Goto(r, "metadata")
  /\ FilesKept /\ Fixed /\ UNCHANGED <<meta, loaded, rebuilt>>

ReadMetadata(r) ==
  /\ pc[r] = "metadata"
  /\ meta' = [meta EXCEPT ![r] = metadataFile]
  /\ Goto(r, "checksum")
  /\ FilesKept /\ Fixed /\ UNCHANGED <<loaded, rebuilt>>

\* Mutant of VerifyChecksum: the bytes are not compared with the metadata.
VerifyChecksumSkipped(r) ==
  /\ pc[r] = "checksum"
  /\ Goto(r, "read")
  /\ FilesKept /\ Fixed /\ UNCHANGED <<meta, loaded, rebuilt>>

VerifyChecksum(r) ==
  /\ pc[r] = "checksum"
  /\ \/ indexFile # meta[r] /\ LoadFails(r)
     \/ indexFile = meta[r] /\ Goto(r, "read")
  /\ FilesKept /\ Fixed /\ UNCHANGED <<meta, loaded, rebuilt>>

\* faiss opens the path again: the file may have been replaced since its bytes
\* were hashed.  Two models may or may not have the same dimension.
ReadIndex(r) ==
  /\ pc[r] = "read"
  /\ loaded' = [loaded EXCEPT ![r] = indexFile]
  /\ \/ indexFile.model # meta[r].model /\ LoadFails(r)
     \/ Goto(r, IF r \in Searches THEN "search" ELSE "compare")
  /\ FilesKept /\ Fixed /\ UNCHANGED <<meta, rebuilt>>

-----------------------------------------------------------------------------
\* What is done with a loaded index.

\* ensure_index reuses an index of the configured model.
Compare(a) ==
  /\ pc[a] = "compare"
  /\ Goto(a, IF meta[a].model = model THEN "ready" ELSE "encode")
  /\ FilesKept /\ Fixed /\ UNCHANGED <<meta, loaded, rebuilt>>

\* retrieve_contract_chunks: neither a wrong dimension nor a wrong model is a
\* VectorIndexError, so both end in a 500.
Search(r) ==
  /\ pc[r] = "search"
  /\ Goto(r, IF meta[r].model = model THEN "served" ELSE "mismatch")
  /\ FilesKept /\ Fixed /\ UNCHANGED <<meta, loaded, rebuilt>>

-----------------------------------------------------------------------------
\* build_contract_index and ContractVectorIndexStore.write.

Encode(r) ==
  /\ pc[r] = "encode"
  /\ \E v \in Variants :
       loaded' = [loaded EXCEPT ![r] = [model |-> model, variant |-> v]]
  /\ Goto(r, "replace_index")
  /\ FilesKept /\ Fixed /\ UNCHANGED <<meta, rebuilt>>

\* Another search that relies on what it has just written is disturbed.
Disturb(r) == disturbed' = disturbed \cup {s \in rebuilt \ {r} : Active(s)}

ReplaceIndex(r) ==
  /\ pc[r] = "replace_index"
  /\ indexFile' = loaded[r]
  /\ rebuilt' = IF r \in Searches THEN rebuilt \cup {r} ELSE rebuilt
  /\ Disturb(r)
  /\ Goto(r, "replace_metadata")
  /\ Fixed /\ UNCHANGED <<metadataFile, meta, loaded>>

\* Mutant of ReplaceMetadata: the checksum is taken of another serialisation.
ReplaceMetadataRehashed(r) ==
  /\ pc[r] = "replace_metadata"
  /\ \E v \in Variants : metadataFile' = [loaded[r] EXCEPT !.variant = v]
  /\ Disturb(r)
  /\ Goto(r, IF r \in Searches THEN "exists" ELSE "ready")
  /\ Fixed /\ UNCHANGED <<indexFile, meta, loaded, rebuilt>>

ReplaceMetadata(r) ==
  /\ pc[r] = "replace_metadata"
  /\ metadataFile' = loaded[r]
  /\ Disturb(r)
  /\ Goto(r, IF r \in Searches THEN "exists" ELSE "ready")
  /\ Fixed /\ UNCHANGED <<indexFile, meta, loaded, rebuilt>>

\* Mutant of WriteFails: the error is swallowed.
WriteFailsSilently(r) ==
  /\ pc[r] \in {"replace_index", "replace_metadata"}
  /\ Goto(r, IF r \in Searches THEN "exists" ELSE "ready")
  /\ FilesKept /\ Fixed /\ UNCHANGED <<meta, loaded, rebuilt>>

\* An operating system error while writing is not a VectorIndexError either.
WriteFails(r) ==
  /\ pc[r] \in {"replace_index", "replace_metadata"}
  /\ Goto(r, "error")
  /\ FilesKept /\ Fixed /\ UNCHANGED <<meta, loaded, rebuilt>>

\* The process stops, possibly between the two replacements, and comes back
\* with the model configured by then.
Restart ==
  /\ restarts < MaxRestarts
  /\ restarts' = restarts + 1
  /\ model' \in Models
  /\ pc' = [r \in Requests |-> IF Active(r) THEN "dead" ELSE pc[r]]
  /\ FilesKept /\ UNCHANGED <<completed, claim, meta, loaded, rebuilt>>

Step(r) ==
  \/ CheckExists(r) \/ ReadMetadata(r) \/ VerifyChecksum(r) \/ ReadIndex(r)
  \/ Encode(r) \/ ReplaceIndex(r) \/ ReplaceMetadata(r) \/ WriteFails(r)

Next ==
  \/ \E r \in Requests : Start(r) \/ Step(r)
  \/ \E r \in Searches : Search(r)
  \/ \E a \in Analyses : Compare(a) \/ Finish(a)
  \/ Restart

Spec == Init /\ [][Next]_vars

-----------------------------------------------------------------------------
\* Properties.

(* Every variable keeps its type.                                          *)
TypeOK ==
  /\ model \in Models
  /\ indexFile \in Indexes \cup {NoFile}
  /\ metadataFile \in Indexes \cup {NoFile}
  /\ completed \in BOOLEAN
  /\ claim \subseteq Analyses
  /\ pc \in [Requests ->
       {"idle", "exists", "metadata", "checksum", "read", "compare", "search", "encode",
        "replace_index", "replace_metadata", "served", "ready", "done",
        "unavailable", "mismatch", "error", "dead"}]
  /\ meta \in [Requests -> Indexes \cup {NoFile}]
  /\ loaded \in [Requests -> Indexes \cup {NoFile}]
  /\ rebuilt \subseteq Searches
  /\ disturbed \subseteq rebuilt
  /\ restarts \in 0 .. MaxRestarts

(* A query is only ever compared with vectors of the model that embedded   *)
(* it, although the index is read again after its checksum was verified    *)
(* and another thread may replace it in between (index.py:123-128).        *)
SearchUsesOwnModel ==
  [][\A r \in Searches :
       (pc[r] # "served" /\ pc'[r] = "served") => loaded[r].model = model]_vars

(* Whatever a crash or racing writers left on the disk, a search that      *)
(* rebuilds the index is refused only because another request wrote to the *)
(* files during its second attempt (retriever.py:83-92).                   *)
RefusedOnlyWhenDisturbed ==
  \A r \in Searches : pc[r] = "unavailable" => r \in disturbed

(* A completed contract has both index files: the analysis has written     *)
(* them, or found them, before it stores its results.                      *)
CompletedIsIndexed == completed => NoFile \notin {indexFile, metadataFile}

(* Why these hold: only the running model's vectors are ever written, so   *)
(* that a file of the running model is replaced by no other one; and an    *)
(* undisturbed search finds the pair of files that it has written.         *)
Reading == {"metadata", "checksum", "read", "compare", "search"}

FilesInv ==
  /\ \A r \in Requests :
       /\ pc[r] \in Reading \cup {"ready"} => NoFile \notin {indexFile, metadataFile}
       /\ pc[r] = "replace_metadata" => indexFile # NoFile
       /\ pc[r] \in Reading \ {"metadata"} => meta[r] # NoFile
       /\ pc[r] = "search" => loaded[r] # NoFile
  /\ CompletedIsIndexed

ModelInv ==
  \A r \in Requests :
    /\ pc[r] \in {"replace_index", "replace_metadata"} =>
         loaded[r] # NoFile /\ loaded[r].model = model
    /\ pc[r] = "read" => (meta[r].model = model => indexFile.model = model)
    /\ pc[r] = "search" => (meta[r].model = model => loaded[r].model = model)

RebuildInv ==
  \A s \in rebuilt :
    /\ pc[s] \notin {"idle", "encode", "replace_index"}
    /\ s \notin disturbed =>
         /\ pc[s] # "unavailable"
         /\ pc[s] = "replace_metadata" => indexFile = loaded[s]
         /\ pc[s] \in {"exists", "metadata", "checksum", "read"} =>
              indexFile = metadataFile /\ indexFile # NoFile
         /\ pc[s] \in {"checksum", "read"} => meta[s] = metadataFile

IndexInv ==
  /\ TypeOK /\ FilesInv /\ ModelInv /\ RebuildInv
  /\ \A r \in Searches : pc[r] = "unavailable" => r \in rebuilt
  /\ \A r \in Searches : pc[r] # "compare" /\ pc[r] # "ready"
  /\ \A a \in Analyses : pc[a] # "search"

(* README.md: "The service rebuilds an index when the embedding model or   *)
(* contract content changes."  A search answers 500 instead, and a         *)
(* completed contract is not analyzed, hence not indexed, again.           *)
ModelChangeIsFollowed ==
  completed => \A r \in Searches : pc[r] # "mismatch"
=============================================================================
