---------------------------- MODULE UploadsProofs ----------------------------
(***************************************************************************)
(* Theorems about Uploads, for any limits and any upload.                  *)
(***************************************************************************)
EXTENDS Uploads, Inductions, SequenceTheorems

(* What an upload is made of.                                              *)
LEMMA UploadFields ==
  ASSUME upload \in Requests
  PROVE  /\ upload.size \in Nat /\ upload.overhead \in Nat /\ BodySize \in Nat
         /\ upload.isPDF \in BOOLEAN /\ upload.titled \in BOOLEAN
         /\ upload.title \in Nat /\ upload.declared \in Seq(Nat)
         /\ upload.pages \in Seq(Nat) /\ Len(upload.pages) \in Nat
         /\ \A i \in 1 .. Len(upload.pages) : upload.pages[i] \in Nat
         /\ Limit \in Nat
  <1>1. /\ upload.size \in Nat /\ upload.overhead \in Nat
        /\ upload.isPDF \in BOOLEAN /\ upload.titled \in BOOLEAN /\ upload.title \in Nat
        /\ upload.declared \in Headers /\ upload.pages \in PageTexts
    BY UploadsAssumption DEF Requests
  <1>2. upload.declared \in Seq(Nat)
    <2>1. PICK n \in 0 .. 2 : upload.declared \in [1 .. n -> Declared]
      BY <1>1 DEF Headers
    <2>2. n \in Nat
      BY UploadsAssumption
    <2>3. upload.declared \in [1 .. n -> Nat]
      BY <2>1, UploadsAssumption
    <2> QED
      BY <2>2, <2>3, SeqDef
  <1>3. upload.pages \in Seq(Nat)
    <2>1. PICK n \in 0 .. MaxPages + 1 : upload.pages \in [1 .. n -> Texts]
      BY <1>1 DEF PageTexts
    <2>2. n \in Nat
      BY UploadsAssumption
    <2>3. upload.pages \in [1 .. n -> Nat]
      BY <2>1, UploadsAssumption
    <2> QED
      BY <2>2, <2>3, SeqDef
  <1>4. Limit \in Nat
    BY UploadsAssumption DEF Limit
  <1>5. BodySize \in Nat
    BY <1>1 DEF BodySize
  <1> QED
    BY <1>1, <1>2, <1>3, <1>4, <1>5

(* A piece of the file is what is left of it at most.                      *)
LEMMA PieceFits ==
  ASSUME upload \in Requests, copied \in Nat, copied <= upload.size
  PROVE  Piece \in Nat /\ copied + Piece <= upload.size
  <1>1. upload.size \in Nat /\ PieceSize \in Nat
    BY UploadFields, UploadsAssumption
  <1>2. CASE upload.size - copied < PieceSize
    BY <1>1, <1>2 DEF Piece
  <1>3. CASE ~(upload.size - copied < PieceSize)
    BY <1>1, <1>3 DEF Piece
  <1> QED
    BY <1>2, <1>3

(* A page that is cut adds its number to the chunks, once or more if it    *)
(* has text, and nothing if it is blank.                                   *)
LEMMA CutAppends ==
  ASSUME chunks \in Seq(Nat), page \in Nat, NEW n \in Nat, NEW s,
         s = chunks \o [j \in 1 .. n |-> Number(page + 1)],
         PagesOf(chunks) \subseteq 1 .. page, Ordered(chunks)
  PROVE  /\ s \in Seq(Nat)
         /\ PagesOf(s) = PagesOf(chunks) \cup (IF n = 0 THEN {} ELSE {page + 1})
         /\ Ordered(s)
  <1> DEFINE added == [j \in 1 .. n |-> page + 1]
             L == Len(chunks)
  <1>1. s = chunks \o added /\ added \in Seq(Nat) /\ Len(added) = n /\ L \in Nat
    BY DEF Number
  <1>2. /\ s \in Seq(Nat) /\ Len(s) = L + n /\ DOMAIN s = 1 .. L + n
        /\ DOMAIN chunks = 1 .. L
        /\ \A i \in 1 .. L : s[i] = chunks[i]
        /\ \A i \in L + 1 .. L + n : s[i] = page + 1
    BY <1>1
  <1>3. \A i \in 1 .. L + n : i \in 1 .. L \/ i \in L + 1 .. L + n
    BY <1>1
  <1>4. \A i \in 1 .. L : chunks[i] \in 1 .. page
    BY <1>2 DEF PagesOf
  <1>5. \A i, j \in 1 .. L + n : i < j => s[i] <= s[j]
    <2> SUFFICES ASSUME NEW i \in 1 .. L + n, NEW j \in 1 .. L + n, i < j
                 PROVE  s[i] <= s[j]
      OBVIOUS
    <2>1. CASE j \in 1 .. L
      <3>1. i \in 1 .. L
        BY <1>1, <2>1
      <3>2. chunks[i] <= chunks[j]
        BY <1>2, <2>1, <3>1 DEF Ordered
      <3> QED
        BY <1>2, <2>1, <3>1, <3>2
    <2>2. CASE i \in 1 .. L /\ j \in L + 1 .. L + n
      BY <1>2, <1>4, <2>2
    <2>3. CASE i \in L + 1 .. L + n /\ j \in L + 1 .. L + n
      BY <1>2, <2>3
    <2> QED
      BY <1>1, <1>3, <2>1, <2>2, <2>3
  <1>6. {s[i] : i \in 1 .. L + n} =
          {chunks[i] : i \in 1 .. L} \cup (IF n = 0 THEN {} ELSE {page + 1})
    <2>1. CASE n = 0
      BY <1>1, <1>2, <2>1
    <2>2. CASE n # 0
      <3>1. L + 1 \in L + 1 .. L + n /\ L + 1 \in 1 .. L + n
        BY <1>1, <2>2
      <3>2. \A i \in 1 .. L : i \in 1 .. L + n
        BY <1>1
      <3> QED
        BY <1>2, <1>3, <2>2, <3>1, <3>2
    <2> QED
      BY <2>1, <2>2
  <1> QED
    BY <1>2, <1>5, <1>6 DEF PagesOf, Ordered

(* What is admitted has declared no more than the limit.                   *)
LEMMA OneHeader ==
  ASSUME upload \in Requests, Len(upload.declared) <= 1,
         Len(upload.declared) = 1 => upload.declared[1] <= Limit
  PROVE  \A i \in DOMAIN upload.declared : upload.declared[i] <= Limit
  <1>1. DOMAIN upload.declared = 1 .. Len(upload.declared) /\ Len(upload.declared) \in Nat
    BY UploadFields
  <1>2. \A n \in Nat : n <= 1 => \A i \in 1 .. n : i = 1 /\ n = 1
    OBVIOUS
  <1> QED
    BY <1>1, <1>2

(* The text of the pages so far, page by page, and of them all.            *)
LEMMA TextAdds ==
  ASSUME upload \in Requests, NEW n \in 0 .. Len(upload.pages)
  PROVE  /\ TextOf(0) = 0
         /\ TextOf(n) \in Nat
         /\ n < Len(upload.pages) => TextOf(n + 1) = TextOf(n) + upload.pages[n + 1]
         /\ TextOf(n) <= SumFunction(upload.pages)
         /\ TextOf(Len(upload.pages)) = SumFunction(upload.pages)
  <1> DEFINE L == Len(upload.pages)
  <1>1. /\ L \in Nat /\ DOMAIN upload.pages = 1 .. L
        /\ \A i \in 1 .. L : upload.pages[i] \in Nat
    BY UploadFields
  <1>2. IsFiniteSet(1 .. L) /\ IsFiniteSet(1 .. n)
    BY <1>1, FS_Interval
  <1>3. TextOf(0) = 0
    <2>1. 1 .. 0 = {}
      OBVIOUS
    <2> QED
      BY <2>1, SumEmpty DEF TextOf
  <1>4. TextOf(n) \in Nat
    BY <1>1, <1>2, SumIsNat DEF TextOf
  <1>5. ASSUME n < L
        PROVE  TextOf(n + 1) = TextOf(n) + upload.pages[n + 1]
    <2>1. n + 1 \in 1 .. n + 1 /\ (1 .. n + 1) \ {n + 1} = 1 .. n
      BY <1>1
    <2>2. IsFiniteSet(1 .. n + 1)
      BY <1>1, FS_Interval
    <2>3. \A i \in 1 .. n + 1 : upload.pages[i] \in Nat
      BY <1>1, <1>5
    <2>4. TextOf(n + 1) = upload.pages[n + 1] + TextOf(n)
      <3>1. SumFunctionOnSet(upload.pages, 1 .. n + 1) =
              upload.pages[n + 1] + SumFunctionOnSet(upload.pages, (1 .. n + 1) \ {n + 1})
        BY <2>1, <2>2, <2>3, SumTakesOut
      <3> QED
        BY <2>1, <3>1 DEF TextOf
    <2> QED
      BY <1>1, <1>4, <1>5, <2>4
  <1>6. TextOf(L) = SumFunction(upload.pages)
    BY <1>1 DEF TextOf, SumFunction
  <1>7. TextOf(n) <= TextOf(L)
    <2>1. 1 .. n \in SUBSET (1 .. L)
      BY <1>1
    <2> QED
      BY <1>1, <1>2, <2>1, SumOfPart DEF TextOf
  <1> QED
    BY <1>3, <1>4, <1>5, <1>6, <1>7

-----------------------------------------------------------------------------
\* The invariant.

(* A request that ends leaves all else alone.                              *)
LEMMA EndStep ==
  ASSUME UploadInv, NEW code \in {0, 201, 400, 413, 422, 500}, End(code),
         code = 201 => stored, code \in {400, 413, 422} => ~stored /\ ~WithinLimits
  PROVE  UploadInv'
  <1> USE DEF UploadInv
  <1>1. TypeOK'
    BY DEF End, TypeOK, document
  <1>2. HeldInv'
    BY DEF End, HeldInv, document, BodySize
  <1>3. ChunksInv'
    BY DEF End, ChunksInv, document, TextPages
  <1>4. PassedInv'
    BY DEF End, PassedInv, document, BodySize, IsValid, TextPages
  <1>5. DecisionInv'
    BY DEF End, DecisionInv, document, TextOf, WithinLimits
  <1> QED
    BY <1>1, <1>2, <1>3, <1>4, <1>5

(* The steps of the body and of its copy.                                  *)
LEMMA BodyStep ==
  ASSUME UploadInv,
         RefuseHeader \/ RefuseLength \/ Admit \/ (\E n \in Messages : Receive(n))
           \/ Parse \/ CopyPiece \/ Copied
  PROVE  UploadInv'
  <1> USE DEF UploadInv
  <1>0. upload \in Requests /\ ~(stored /\ pc \in {"arrived", "streaming", "parsed"})
    BY DEF TypeOK, PassedInv
  <1>1. CASE RefuseHeader \/ RefuseLength
    <2>1. ~WithinLimits
      <3>1. CASE RefuseHeader
        <4>1. Len(upload.declared) \in Nat /\ Len(upload.declared) > 1
          BY <1>0, <3>1, UploadFields DEF RefuseHeader
        <4> QED
          BY <4>1 DEF WithinLimits
      <3>2. CASE RefuseLength
        <4>1. /\ 1 \in DOMAIN upload.declared /\ upload.declared[1] \in Nat
              /\ upload.declared[1] > Limit /\ Limit \in Nat
          BY <1>0, <3>2, UploadFields DEF RefuseLength
        <4> QED
          BY <4>1, UploadsAssumption DEF WithinLimits, Limit
      <3> QED
        BY <1>1, <3>1, <3>2
    <2> QED
      BY <1>0, <1>1, <2>1, EndStep DEF RefuseHeader, RefuseLength
  <1>2. CASE Admit
    <2> USE <1>0, <1>2 DEF Admit, document
    <2>1. TypeOK'
      BY DEF TypeOK
    <2>2. HeldInv'
      BY DEF HeldInv, BodySize
    <2>3. ChunksInv'
      BY DEF ChunksInv, TextPages
    <2>4. PassedInv'
      BY DEF PassedInv, BodySize, IsValid, TextPages
    <2>5. DecisionInv'
      <3>2. \A i \in DOMAIN upload.declared : upload.declared[i] <= Limit
        BY OneHeader
      <3>3. UNCHANGED <<upload, page, chars, stored, answer>> /\ pc' = "streaming"
        OBVIOUS
      <3> QED
        BY <3>2, <3>3 DEF DecisionInv, TextOf, WithinLimits
    <2> QED
      BY <2>1, <2>2, <2>3, <2>4, <2>5
  <1>3. ASSUME NEW n \in Messages, Receive(n)
        PROVE  UploadInv'
    <2>1. CASE sent + n > Limit
      <3>1. ~WithinLimits
        <4>1. sent + n \in Nat /\ sent + n <= BodySize /\ BodySize \in Nat /\ Limit \in Nat
          BY <1>0, <1>3, UploadFields, UploadsAssumption DEF Receive, TypeOK
        <4>2. BodySize > Limit
          BY <2>1, <4>1
        <4> QED
          BY <4>1, <4>2 DEF WithinLimits, BodySize, Limit
      <3> QED
        BY <1>0, <1>3, <2>1, <3>1, EndStep DEF Receive
    <2>2. CASE ~(sent + n > Limit)
      <3> USE <1>0, <1>3, <2>2 DEF Receive, document
      <3>1. TypeOK'
        BY UploadsAssumption DEF TypeOK
      <3>2. HeldInv'
        BY <3>1, UploadFields, UploadsAssumption DEF HeldInv, BodySize, TypeOK, Limit
      <3>3. ChunksInv'
        BY DEF ChunksInv, TextPages
      <3>4. PassedInv'
        BY DEF PassedInv, BodySize, IsValid, TextPages
      <3>5. DecisionInv'
        BY DEF DecisionInv, TextOf, WithinLimits
      <3> QED
        BY <3>1, <3>2, <3>3, <3>4, <3>5
    <2> QED
      BY <2>1, <2>2
  <1>4. CASE Parse
    <2>0. upload.title \in Nat
      BY <1>0, UploadFields
    <2>1. CASE upload.title > MaxTitle
      <3>1. ~WithinLimits
        BY <2>0, <2>1, UploadsAssumption DEF WithinLimits
      <3>2. ~stored /\ End(422)
        BY <1>0, <1>4, <2>1 DEF Parse
      <3> QED
        BY <3>1, <3>2, EndStep
    <2>2. CASE ~(upload.title > MaxTitle)
      <3> USE <1>0, <1>4, <2>2 DEF Parse, document
      <3>1. TypeOK'
        BY DEF TypeOK
      <3>2. HeldInv'
        BY DEF HeldInv, BodySize
      <3>3. ChunksInv'
        BY DEF ChunksInv, TextPages
      <3>4. PassedInv'
        <4>1. upload.title <= MaxTitle
          BY <2>0, UploadsAssumption
        <4> QED
          BY <4>1 DEF PassedInv, BodySize, IsValid, TextPages
      <3>5. DecisionInv'
        BY DEF DecisionInv, TextOf, WithinLimits
      <3> QED
        BY <3>1, <3>2, <3>3, <3>4, <3>5
    <2> QED
      BY <2>1, <2>2
  <1>5. CASE Copied
    <2> USE <1>0, <1>5 DEF Copied, document
    <2>1. TypeOK'
      BY DEF TypeOK
    <2>2. HeldInv'
      BY DEF HeldInv, BodySize
    <2>3. ChunksInv'
      BY DEF ChunksInv, TextPages
    <2>4. PassedInv'
      BY DEF PassedInv, BodySize, IsValid, TextPages
    <2>5. DecisionInv'
      BY DEF DecisionInv, TextOf, WithinLimits
    <2> QED
      BY <2>1, <2>2, <2>3, <2>4, <2>5
  <1>6. CASE CopyPiece
    <2>1. CASE copied + Piece > MaxFile
      <3>1. copied + Piece <= upload.size /\ copied \in Nat /\ Piece \in Nat
        BY <1>0, PieceFits DEF TypeOK, HeldInv
      <3>2. ~(upload.size <= MaxFile)
        BY <2>1, <3>1, UploadFields, UploadsAssumption DEF TypeOK
      <3>3. ~WithinLimits
        BY <3>2 DEF WithinLimits
      <3> QED
        BY <1>0, <1>6, <2>1, <3>3, EndStep DEF CopyPiece
    <2>2. CASE ~(copied + Piece > MaxFile)
      <3> USE <1>0, <1>6, <2>2 DEF CopyPiece, document
      <3>0. Piece \in Nat /\ copied + Piece <= upload.size /\ copied \in Nat
        BY PieceFits DEF TypeOK, HeldInv
      <3>1. TypeOK'
        BY <3>0 DEF TypeOK
      <3>2. HeldInv'
        BY <3>0, UploadsAssumption DEF HeldInv, BodySize
      <3>3. ChunksInv'
        BY DEF ChunksInv, TextPages
      <3>4. PassedInv'
        BY DEF PassedInv, BodySize, IsValid, TextPages
      <3>5. DecisionInv'
        BY DEF DecisionInv, TextOf, WithinLimits
      <3> QED
        BY <3>1, <3>2, <3>3, <3>4, <3>5
    <2> QED
      BY <2>1, <2>2
  <1> QED
    BY <1>1, <1>2, <1>3, <1>4, <1>5, <1>6

(* The steps of the validation, of the extraction and of the cut.          *)
LEMMA IngestStep ==
  ASSUME UploadInv,
         Validate \/ ExtractPage \/ Extracted \/ (\E n \in 0 .. MaxChunks : CutPage(n))
           \/ Flush
  PROVE  UploadInv'
  <1> USE DEF UploadInv
  <1>0. /\ upload \in Requests /\ page \in Nat /\ chars \in Nat /\ chunks \in Seq(Nat)
        /\ ~(stored /\ pc \in {"checking", "extracting", "cutting"})
    BY DEF TypeOK, PassedInv
  <1>1. CASE Validate
    <2>1. CASE ~IsValid
      <3>1. ~WithinLimits
        <4> SUFFICES ASSUME WithinLimits
                     PROVE  FALSE
          OBVIOUS
        <4>1. upload.isPDF /\ upload.size > 0 /\ Len(upload.pages) <= MaxPages
          BY <1>0, UploadFields, UploadsAssumption DEF WithinLimits
        <4>2. Len(upload.pages) \in Nat /\ Len(upload.pages) # 0
          BY <1>0, UploadFields, TextAdds DEF WithinLimits
        <4> QED
          BY <2>1, <4>1, <4>2, UploadsAssumption DEF IsValid
      <3> QED
        BY <1>0, <1>1, <2>1, <3>1, EndStep DEF Validate
    <2>2. CASE IsValid
      <3> USE <1>0, <1>1, <2>2 DEF Validate, document
      <3>1. TypeOK'
        BY DEF TypeOK
      <3>2. HeldInv'
        BY DEF HeldInv, BodySize
      <3>3. ChunksInv'
        BY DEF ChunksInv, TextPages
      <3>4. PassedInv'
        BY DEF PassedInv, BodySize, IsValid, TextPages
      <3>5. DecisionInv'
        BY DEF DecisionInv, TextOf, WithinLimits
      <3> QED
        BY <3>1, <3>2, <3>3, <3>4, <3>5
    <2> QED
      BY <2>1, <2>2
  <1>2. CASE ExtractPage
    <2> DEFINE total == chars + upload.pages[page + 1]
    <2>0. /\ page < Len(upload.pages) /\ page \in 0 .. Len(upload.pages)
          /\ page + 1 \in 0 .. Len(upload.pages)
          /\ Len(upload.pages) \in Nat
      BY <1>0, <1>2, UploadFields DEF ExtractPage
    <2>3. total = TextOf(page + 1)
      BY <1>0, <1>2, <2>0, TextAdds DEF ExtractPage, DecisionInv
    <2>1. CASE total > MaxChars
      <3>1. ~WithinLimits
        <4>1. /\ TextOf(page + 1) <= SumFunction(upload.pages)
              /\ TextOf(page + 1) \in Nat
          BY <1>0, <2>0, TextAdds
        <4> QED
          BY <2>1, <2>3, <4>1, UploadsAssumption DEF WithinLimits
      <3> QED
        BY <1>0, <1>2, <2>1, <3>1, EndStep DEF ExtractPage
    <2>2. CASE ~(total > MaxChars)
      <3>0. /\ page' = page + 1 /\ chars' = total
            /\ UNCHANGED <<upload, pc, sent, copied, chunks, stored, answer>>
            /\ pc = "extracting" /\ chunks = <<>>
            /\ page + 1 <= Len(upload.pages)
        BY <1>0, <1>2, <2>2, UploadFields DEF ExtractPage, ChunksInv
      <3>1. upload.pages[page + 1] \in Nat /\ page + 1 \in 1 .. Len(upload.pages)
        BY <1>0, <3>0, UploadFields
      <3>2. TypeOK'
        BY <1>0, <3>0, <3>1 DEF TypeOK
      <3>3. HeldInv'
        BY <1>0, <2>2, <3>0, <3>1, UploadsAssumption DEF HeldInv, BodySize
      <3>4. ChunksInv'
        BY <3>0 DEF PagesOf, Ordered, ChunksInv
      <3>5. PassedInv'
        BY <1>0, <3>0 DEF PassedInv, BodySize, IsValid
      <3>6. DecisionInv'
        <4>1. TextOf(page)' = TextOf(page + 1)
          BY <3>0 DEF TextOf
        <4> QED
          BY <1>0, <2>3, <3>0, <4>1 DEF DecisionInv, WithinLimits
      <3> QED
        BY <3>2, <3>3, <3>4, <3>5, <3>6
    <2> QED
      BY <2>1, <2>2
  <1>3. CASE Extracted
    <2>3. page = Len(upload.pages) /\ chars = SumFunction(upload.pages)
      BY <1>0, <1>3, UploadFields, TextAdds DEF Extracted, DecisionInv
    <2>1. CASE ~(chars > 0 /\ upload.titled)
      <3>1. ~WithinLimits
        BY <1>0, <2>1, <2>3 DEF WithinLimits
      <3> QED
        BY <1>0, <1>3, <2>1, <3>1, EndStep DEF Extracted
    <2>2. CASE chars > 0 /\ upload.titled
      <3>0. /\ pc = "extracting" /\ pc' = "cutting" /\ page' = 0 /\ chunks = <<>>
            /\ UNCHANGED <<upload, sent, copied, chars, chunks, stored, answer>>
        BY <1>3, <2>2 DEF Extracted, ChunksInv
      <3>1. TypeOK'
        BY <3>0 DEF TypeOK
      <3>2. HeldInv'
        BY <1>0, <3>0, UploadFields DEF HeldInv, BodySize
      <3>3. ChunksInv'
        BY <3>0 DEF PagesOf, Ordered, ChunksInv, TextPages
      <3>4. PassedInv'
        BY <1>0, <2>2, <3>0 DEF PassedInv, BodySize, IsValid
      <3>5. DecisionInv'
        <4>1. TextOf(Len(upload.pages))' = TextOf(Len(upload.pages))
          BY <3>0 DEF TextOf
        <4> QED
          BY <1>0, <1>3, <3>0, <4>1 DEF Extracted, DecisionInv, WithinLimits
      <3> QED
        BY <3>1, <3>2, <3>3, <3>4, <3>5
    <2> QED
      BY <2>1, <2>2
  <1>4. ASSUME NEW n \in 0 .. MaxChunks, CutPage(n)
        PROVE  UploadInv'
    <2>1. /\ pc = "cutting" /\ page' = page + 1
          /\ chunks' = chunks \o [j \in 1 .. n |-> Number(page + 1)]
          /\ UNCHANGED <<upload, pc, sent, copied, chars, stored, answer>>
          /\ n = 0 <=> upload.pages[page + 1] = 0
          /\ page < Len(upload.pages)
      BY <1>4 DEF CutPage
    <2>2. n \in Nat /\ Len(upload.pages) \in Nat /\ page + 1 \in 1 .. Len(upload.pages)
      BY <1>0, <2>1, UploadFields, UploadsAssumption
    <2>3. upload.pages[page + 1] \in Nat
      BY <1>0, <2>2, UploadFields
    <2>4. PagesOf(chunks) = TextPages(page) /\ Ordered(chunks)
      BY <2>1 DEF ChunksInv
    <2>5. PagesOf(chunks) \subseteq 1 .. page
      BY <2>4 DEF TextPages
    <2>6. /\ chunks' \in Seq(Nat)
          /\ PagesOf(chunks') = PagesOf(chunks) \cup (IF n = 0 THEN {} ELSE {page + 1})
          /\ Ordered(chunks')
      BY <1>0, <2>1, <2>2, <2>4, <2>5, CutAppends
    <2>7. TextPages(page + 1) = TextPages(page) \cup (IF n = 0 THEN {} ELSE {page + 1})
      <3>1. \A i \in 1 .. page + 1 : i \in 1 .. page \/ i = page + 1
        BY <1>0
      <3>2. \A i \in 1 .. page : i \in 1 .. page + 1
        BY <1>0
      <3>3. page + 1 \in 1 .. page + 1
        BY <1>0
      <3>4. n # 0 <=> upload.pages[page + 1] > 0
        BY <2>1, <2>3
      <3> QED
        BY <3>1, <3>2, <3>3, <3>4 DEF TextPages
    <2>8. TextPages(page)' = TextPages(page + 1)
      BY <2>1 DEF TextPages
    <2>9. TypeOK'
      BY <1>0, <2>1, <2>6 DEF TypeOK
    <2>10. HeldInv'
      BY <1>0, <2>1, <2>2 DEF HeldInv, BodySize
    <2>11. ChunksInv'
      BY <2>1, <2>4, <2>6, <2>7, <2>8 DEF ChunksInv
    <2>12. PassedInv'
      BY <1>0, <2>1 DEF PassedInv, BodySize, IsValid
    <2>13. DecisionInv'
      BY <1>0, <2>1 DEF DecisionInv, TextOf, WithinLimits
    <2> QED
      BY <2>9, <2>10, <2>11, <2>12, <2>13
  <1>5. CASE Flush
    <2> USE <1>0, <1>5 DEF Flush, document
    <2>1. TypeOK'
      BY DEF TypeOK
    <2>2. HeldInv'
      BY DEF HeldInv, BodySize
    <2>3. ChunksInv'
      BY DEF ChunksInv, TextPages
    <2>4. PassedInv'
      BY DEF PassedInv, ChunksInv, BodySize, IsValid, TextPages
    <2>5. DecisionInv'
      BY DEF DecisionInv, TextOf, WithinLimits
    <2> QED
      BY <2>1, <2>2, <2>3, <2>4, <2>5
  <1> QED
    BY <1>1, <1>2, <1>3, <1>4, <1>5

(* The steps of the transaction, and the end of a request at any step.     *)
LEMMA CommitStep ==
  ASSUME UploadInv, Commit \/ Answer \/ DatabaseFails \/ Vanish
  PROVE  UploadInv'
  <1> USE DEF UploadInv
  <1>1. CASE Answer \/ Vanish
    BY <1>1, EndStep DEF Answer, Vanish, PassedInv
  <1>2. CASE Commit \/ DatabaseFails
    <2> USE <1>2 DEF Commit, DatabaseFails, document
    <2>1. TypeOK'
      <3>1. stored' \in BOOLEAN
        BY DEF TypeOK
      <3>2. pc' \in {"committed", "done"} /\ answer' \in {answer, 500}
        OBVIOUS
      <3>3. UNCHANGED <<upload, sent, copied, document>>
        OBVIOUS
      <3> QED
        BY <3>1, <3>2, <3>3 DEF TypeOK
    <2>2. HeldInv'
      BY DEF HeldInv, BodySize
    <2>3. ChunksInv'
      BY DEF ChunksInv, TextPages
    <2>4. PassedInv'
      BY DEF PassedInv, TypeOK, BodySize, IsValid, TextPages
    <2>5. DecisionInv'
      BY DEF DecisionInv, TextOf, WithinLimits
    <2> QED
      BY <2>1, <2>2, <2>3, <2>4, <2>5
  <1> QED
    BY <1>1, <1>2

-----------------------------------------------------------------------------
\* Theorems.

(* The invariant holds for any limits and any upload: what is held of a    *)
(* request stays within them, whatever it declares and however it arrives, *)
(* and only what passed every check is stored (request_limits.py:17-67,    *)
(* document_service.py:20-85, contract_service.py:13-55).                  *)
THEOREM UploadInvariance == Spec => []UploadInv
  <1>1. Init => UploadInv
    <2> SUFFICES ASSUME Init
                 PROVE  UploadInv
      OBVIOUS
    <2> USE DEF Init
    <2>1. TypeOK
      BY EmptySeq DEF TypeOK
    <2>2. HeldInv
      BY UploadFields, UploadsAssumption DEF HeldInv
    <2>3. ChunksInv
      BY DEF PagesOf, Ordered, ChunksInv, TextPages
    <2>4. PassedInv
      BY DEF PassedInv
    <2>5. DecisionInv
      BY TextAdds, UploadFields DEF DecisionInv
    <2> QED
      BY <2>1, <2>2, <2>3, <2>4, <2>5 DEF UploadInv
  <1>2. UploadInv /\ [Next]_vars => UploadInv'
    <2> SUFFICES ASSUME UploadInv, [Next]_vars
                 PROVE  UploadInv'
      OBVIOUS
    <2>1. CASE UNCHANGED vars
      BY <2>1 DEF vars, document, UploadInv, TypeOK, HeldInv, ChunksInv, PassedInv,
                  DecisionInv, BodySize, IsValid, TextPages, TextOf, WithinLimits
    <2> QED
      BY <2>1, BodyStep, IngestStep, CommitStep DEF Next
  <1> QED
    BY <1>1, <1>2, PTL DEF Spec

(* For any limits and any upload, however it is cut into messages and      *)
(* whatever its headers declare: what is stored is within every limit, and *)
(* what is refused exceeds one of them (contracts.py:47-90).               *)
THEOREM LimitsDecide == Spec => []DecidedByLimits
  <1>1. UploadInv => DecidedByLimits
    <2> SUFFICES ASSUME UploadInv
                 PROVE  DecidedByLimits
      OBVIOUS
    <2>1. ASSUME stored
          PROVE  WithinLimits
      <3>1. /\ Len(upload.declared) <= 1
            /\ \A i \in DOMAIN upload.declared : upload.declared[i] <= MaxBody + MaxFile
        BY <2>1 DEF UploadInv, DecisionInv, Limit
      <3>2. upload.size + upload.overhead <= MaxBody + MaxFile
        BY <2>1 DEF UploadInv, PassedInv, HeldInv, BodySize, Limit
      <3>3. /\ upload.isPDF /\ upload.size \in 1 .. MaxFile
            /\ Len(upload.pages) <= MaxPages /\ upload.titled /\ upload.title <= MaxTitle
        BY <2>1, UploadFields, UploadsAssumption DEF UploadInv, TypeOK, PassedInv, HeldInv, IsValid
      <3>4. SumFunction(upload.pages) \in 1 .. MaxChars
        <4>1. chars = SumFunction(upload.pages)
          BY <2>1, UploadFields, TextAdds DEF UploadInv, TypeOK, DecisionInv
        <4> QED
          BY <2>1, <4>1, UploadsAssumption DEF UploadInv, TypeOK, PassedInv, HeldInv
      <3> QED
        BY <3>1, <3>2, <3>3, <3>4 DEF WithinLimits
    <2> QED
      BY <2>1 DEF UploadInv, PassedInv, DecisionInv, DecidedByLimits
  <1> QED
    BY <1>1, UploadInvariance, PTL

(* The chunks of a stored contract carry the numbers of exactly the pages  *)
(* with text, in order, for any PDF and any cut into chunks                *)
(* (contract_service.py:27-53).                                            *)
THEOREM EvidenceIsPaged == Spec => []EvidenceKeepsPages
  <1>1. UploadInv => EvidenceKeepsPages
    <2> SUFFICES ASSUME UploadInv, stored
                 PROVE  EvidenceKeepsPages
      BY DEF EvidenceKeepsPages
    <2>1. DOMAIN upload.pages = 1 .. Len(upload.pages)
      BY UploadFields DEF UploadInv, TypeOK
    <2>2. TextPages(Len(upload.pages)) = PagesOf(chunks)
      BY DEF UploadInv, PassedInv
    <2> QED
      BY <2>1, <2>2 DEF EvidenceKeepsPages, UploadInv, ChunksInv, TextPages
  <1> QED
    BY <1>1, UploadInvariance, PTL

=============================================================================
