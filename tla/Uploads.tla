------------------------------- MODULE Uploads -------------------------------
(***************************************************************************)
(* POST /contracts, from the headers of the request to the stored contract *)
(* and its answer: the limits on the body as it streams in, the copy of    *)
(* the file, the checks of the PDF, the extraction of its pages, the cut   *)
(* into chunks and the transaction.  Uploads share nothing, so the module  *)
(* is about one of them; the client may hang up and the process may stop   *)
(* at any step.                                                            *)
(*                                                                         *)
(* Bytes and characters are counted and not looked at.                     *)
(***************************************************************************)
EXTENDS Naturals, Sequences, Functions

CONSTANTS
  MaxFile,       \* max_pdf_size_bytes
  MaxBody,       \* max_request_body_bytes, what may surround the file
  MaxPages,      \* max_pdf_pages
  MaxChars,      \* max_contract_text_chars
  MaxTitle,      \* the max_length of the title
  PieceSize,     \* what read_upload_safely reads at a time
  Declared,      \* values of Content-Length headers
  Sizes,         \* sizes of files
  Overheads,     \* sizes of what surrounds a file in its body
  Messages,      \* sizes of the messages that a body arrives in
  Titles,        \* lengths of titles
  Texts,         \* lengths of the cleaned texts of pages
  MaxChunks      \* bounds the chunks of a page

ASSUME UploadsAssumption ==
  /\ MaxFile \in Nat \ {0} /\ MaxBody \in Nat
  /\ MaxPages \in Nat \ {0} /\ MaxChars \in Nat /\ MaxTitle \in Nat
  /\ PieceSize \in Nat \ {0} /\ MaxChunks \in Nat \ {0}
  /\ Declared \subseteq Nat /\ Sizes \subseteq Nat /\ Overheads \subseteq Nat
  /\ Messages \subseteq Nat /\ Titles \subseteq Nat /\ Texts \subseteq Nat

VARIABLES
  upload,    \* what the client sends
  pc,        \* where the request is
  sent,      \* bytes of the body that the application took in
  copied,    \* bytes in the temporary file
  page,      \* pages extracted, then pages cut
  chars,     \* characters extracted
  chunks,    \* the page of each chunk, in the order of chunk_index
  stored,    \* whether the contract and its chunks are committed
  answer     \* the status code, 0 without an answer

document == <<page, chars, chunks>>
vars == <<upload, pc, sent, copied, document, stored, answer>>

Headers == UNION {[1 .. n -> Declared] : n \in 0 .. 2}

PageTexts == UNION {[1 .. n -> Texts] : n \in 0 .. MaxPages + 1}

\* isPDF covers name, media type, signature, password and damage.  title is the length
\* of the title given, 0 if none is, and titled is false when it, or the name of the
\* file that stands in for none, is blank.
Requests ==
  {r \in [declared : Headers, size : Sizes, overhead : Overheads, isPDF : BOOLEAN,
          title : Titles, titled : BOOLEAN, pages : PageTexts] :
     r.title <= r.overhead}

Init ==
  /\ upload \in Requests
  /\ pc = "arrived"
  /\ sent = 0 /\ copied = 0
  /\ page = 0 /\ chars = 0 /\ chunks = <<>>
  /\ stored = FALSE /\ answer = 0

\* The request ends with an answer, or without one, and its session with it.
End(code) ==
  /\ pc' = "done"
  /\ answer' = code
  /\ UNCHANGED <<upload, sent, copied, document, stored>>

-----------------------------------------------------------------------------
\* RequestBodyLimitMiddleware.

Limit == MaxBody + MaxFile

\* Several headers, and with them all that is not one nonnegative integer.
RefuseHeader ==
  /\ pc = "arrived" /\ Len(upload.declared) > 1
  /\ End(400)

RefuseLength ==
  /\ pc = "arrived" /\ Len(upload.declared) = 1 /\ upload.declared[1] > Limit
  /\ End(413)

Admit ==
  /\ pc = "arrived"
  /\ Len(upload.declared) <= 1
  /\ Len(upload.declared) = 1 => upload.declared[1] <= Limit
  /\ pc' = "streaming"
  /\ UNCHANGED <<upload, sent, copied, document, stored, answer>>

BodySize == upload.size + upload.overhead

ReceiveUncounted(n) ==                                         \* mutant of Receive
  /\ pc = "streaming" /\ sent + n <= BodySize
  /\ sent' = sent + n
  /\ UNCHANGED <<upload, pc, copied, document, stored, answer>>

\* The bytes of a message are counted before the application gets them.
Receive(n) ==
  /\ pc = "streaming" /\ sent + n <= BodySize
  /\ IF sent + n > Limit
     THEN End(413)
     ELSE /\ sent' = sent + n
          /\ UNCHANGED <<upload, pc, copied, document, stored, answer>>

\* The form is parsed when the body is complete, and a title that is too long refused;
\* ingest_contract cuts only one that it takes from the name of the file.
Parse ==
  /\ pc = "streaming" /\ sent = BodySize
  /\ IF upload.title > MaxTitle
     THEN End(422)
     ELSE /\ pc' = "parsed"
          /\ UNCHANGED <<upload, sent, copied, document, stored, answer>>

-----------------------------------------------------------------------------
\* read_upload_safely.

Piece == IF upload.size - copied < PieceSize THEN upload.size - copied ELSE PieceSize

CopyPiece ==
  /\ pc = "parsed" /\ copied < upload.size
  /\ IF copied + Piece > MaxFile
     THEN End(413)
     ELSE /\ copied' = copied + Piece
          /\ UNCHANGED <<upload, pc, sent, document, stored, answer>>

Copied ==
  /\ pc = "parsed" /\ copied = upload.size
  /\ pc' = "checking"
  /\ UNCHANGED <<upload, sent, copied, document, stored, answer>>

-----------------------------------------------------------------------------
\* ingest_contract, in a thread of the pool.

\* Mutant of IsValid: the limit itself is refused.
IsValidBelow ==
  upload.isPDF /\ upload.size > 0 /\ Len(upload.pages) \in 1 .. MaxPages - 1

\* validate_pdf
IsValid == upload.isPDF /\ upload.size > 0 /\ Len(upload.pages) \in 1 .. MaxPages

Validate ==
  /\ pc = "checking"
  /\ IF IsValid
     THEN /\ pc' = "extracting"
          /\ UNCHANGED <<upload, sent, copied, document, stored, answer>>
     ELSE End(422)

\* extract_pdf_pages: the text of the pages so far is limited.
ExtractPage ==
  /\ pc = "extracting" /\ page < Len(upload.pages)
  /\ LET total == chars + upload.pages[page + 1]
     IN  IF total > MaxChars
         THEN End(422)
         ELSE /\ page' = page + 1 /\ chars' = total
              /\ UNCHANGED <<upload, pc, sent, copied, chunks, stored, answer>>

\* There must be text, and a title.
Extracted ==
  /\ pc = "extracting" /\ page = Len(upload.pages)
  /\ IF chars > 0 /\ upload.titled
     THEN /\ pc' = "cutting" /\ page' = 0
          /\ UNCHANGED <<upload, sent, copied, chars, chunks, stored, answer>>
     ELSE End(422)

\* Mutant of Number: pages are numbered after the blank ones are dropped.
NumberOfKept(i) == Len(SelectSeq(SubSeq(upload.pages, 1, i), LAMBDA t : t > 0))

\* The number of a page counts the blank ones.
Number(i) == i

\* split_page_text: a page with text has one chunk or more, a blank one none.
CutPage(n) ==
  /\ pc = "cutting" /\ page < Len(upload.pages)
  /\ n = 0 <=> upload.pages[page + 1] = 0
  /\ page' = page + 1
  /\ chunks' = chunks \o [j \in 1 .. n |-> Number(page + 1)]
  /\ UNCHANGED <<upload, pc, sent, copied, chars, stored, answer>>

\* The contract and its chunks are flushed.
Flush ==
  /\ pc = "cutting" /\ page = Len(upload.pages)
  /\ pc' = "flushed"
  /\ UNCHANGED <<upload, sent, copied, document, stored, answer>>

\* persist_upload: the commit, then the contract is read back for the answer.
Commit ==
  /\ pc = "flushed"
  /\ stored' = TRUE
  /\ pc' = "committed"
  /\ UNCHANGED <<upload, sent, copied, document, answer>>

Answer ==
  /\ pc = "committed"
  /\ End(201)

\* The database fails before the commit, in it, so that it may have been made
\* all the same, or after it.
DatabaseFails ==
  /\ pc \in {"flushed", "committed"}
  /\ pc' = "done" /\ answer' = 500
  /\ stored' \in IF pc = "flushed" THEN BOOLEAN ELSE {stored}
  /\ UNCHANGED <<upload, sent, copied, document>>

\* The client hangs up while it sends, or the process stops.
Vanish ==
  /\ pc # "done"
  /\ End(0)

Next ==
  \/ RefuseHeader \/ RefuseLength \/ Admit
  \/ (\E n \in Messages : Receive(n)) \/ Parse
  \/ CopyPiece \/ Copied
  \/ Validate \/ ExtractPage \/ Extracted
  \/ (\E n \in 0 .. MaxChunks : CutPage(n)) \/ Flush
  \/ Commit \/ Answer \/ DatabaseFails
  \/ Vanish

Spec == Init /\ [][Next]_vars

-----------------------------------------------------------------------------
\* Properties.

(* The type of every variable.                                             *)
TypeOK ==
  /\ upload \in Requests
  /\ pc \in {"arrived", "streaming", "parsed", "checking", "extracting", "cutting",
             "flushed", "committed", "done"}
  /\ sent \in Nat /\ copied \in Nat /\ page \in Nat /\ chars \in Nat
  /\ chunks \in Seq(Nat)
  /\ stored \in BOOLEAN
  /\ answer \in {0, 201, 400, 413, 422, 500}

TextPages(n) == {i \in 1 .. n : upload.pages[i] > 0}

PagesOf(s) == {s[i] : i \in DOMAIN s}

Ordered(s) == \A i, j \in DOMAIN s : i < j => s[i] <= s[j]

(* What is held of a request never exceeds the limits, whatever its        *)
(* headers declare (request_limits.py:54-65, document_service.py:32-38).   *)
HeldInv ==
  /\ sent <= Limit /\ sent <= BodySize
  /\ copied <= MaxFile /\ copied <= upload.size
  /\ chars <= MaxChars
  /\ page <= Len(upload.pages)

(* The chunks cut so far are those of the pages with text, in their order. *)
ChunksInv ==
  /\ pc \in {"arrived", "streaming", "parsed", "checking", "extracting"} => chunks = <<>>
  /\ PagesOf(chunks) \subseteq TextPages(page)
  /\ pc \in {"cutting", "flushed", "committed"} =>
       TextPages(page) \subseteq PagesOf(chunks)
  /\ Ordered(chunks)

(* What is past a check has passed it, and what is stored has passed all.  *)
PassedInv ==
  /\ pc \notin {"arrived", "streaming", "done"} \/ stored =>
       sent = BodySize /\ upload.title <= MaxTitle
  /\ pc \in {"checking", "extracting", "cutting", "flushed", "committed"} \/ stored =>
       copied = upload.size
  /\ pc \in {"extracting", "cutting", "flushed", "committed"} \/ stored => IsValid
  /\ pc \in {"cutting", "flushed", "committed"} \/ stored => chars > 0 /\ upload.titled
  /\ pc \in {"flushed", "committed"} \/ stored =>
       /\ page = Len(upload.pages)
       /\ TextPages(page) = PagesOf(chunks)
  /\ stored => pc \in {"committed", "done"}
  /\ pc = "committed" => stored
  /\ pc # "done" => answer = 0
  /\ answer = 201 => stored
  /\ answer \in {400, 413, 422} => ~stored

TextOf(n) == SumFunctionOnSet(upload.pages, 1 .. n)

\* An upload that every limit allows.
WithinLimits ==
  /\ Len(upload.declared) <= 1
  /\ \A i \in DOMAIN upload.declared : upload.declared[i] <= MaxBody + MaxFile
  /\ upload.size + upload.overhead <= MaxBody + MaxFile
  /\ upload.isPDF /\ upload.size \in 1 .. MaxFile
  /\ Len(upload.pages) <= MaxPages
  /\ SumFunction(upload.pages) \in 1 .. MaxChars
  /\ upload.titled /\ upload.title <= MaxTitle

(* What is counted is the text of the pages so far, and then of them all;  *)
(* nobody is refused who is within the limits.                             *)
DecisionInv ==
  /\ pc \notin {"arrived", "done"} \/ stored =>
       /\ Len(upload.declared) <= 1
       /\ \A i \in DOMAIN upload.declared : upload.declared[i] <= Limit
  /\ pc \notin {"cutting", "flushed", "committed", "done"} => chars = TextOf(page)
  /\ pc \in {"cutting", "flushed", "committed"} \/ stored => chars = TextOf(Len(upload.pages))
  /\ pc \in {"arrived", "streaming", "parsed", "checking"} => page = 0
  /\ answer \in {400, 413, 422} => ~WithinLimits

(* The strengthening that is inductive (request_limits.py:17-67,           *)
(* document_service.py:20-85, contract_service.py:13-55).                  *)
UploadInv ==
  /\ TypeOK
  /\ HeldInv
  /\ ChunksInv
  /\ PassedInv
  /\ DecisionInv

(* Whether an upload is accepted depends on the limits and on nothing      *)
(* else: what is stored is within all of them, and what is refused is not, *)
(* however the body was cut into messages and whatever was declared of it  *)
(* (contracts.py:47-90).                                                   *)
DecidedByLimits ==
  /\ stored => WithinLimits
  /\ answer = 201 => stored
  /\ answer \in {400, 413, 422} => ~stored /\ ~WithinLimits

(* The chunks of a stored contract carry the numbers of the pages that     *)
(* have text, all of them and in order, so that evidence found in a chunk  *)
(* names its page in the PDF (contract_service.py:27-53).                  *)
EvidenceKeepsPages ==
  stored =>
    /\ PagesOf(chunks)
         = {i \in DOMAIN upload.pages : upload.pages[i] > 0}
    /\ Ordered(chunks)

=============================================================================
