----------------------------- MODULE PageEvidence -----------------------------
(***************************************************************************)
(* How obligations, clauses and risks are checked against the contract:    *)
(* each quotes a passage and names its page, and the passage must occur in *)
(* the chunks of that page, joined in the order in which they were loaded, *)
(* once whitespace and letter case are made alike.  ModelRequests takes the*)
(* outcome (the set backed) as given; this module is the check itself.     *)
(*                                                                         *)
(* A text is a sequence of characters.  Case folding may turn one letter   *)
(* into several.                                                           *)
(***************************************************************************)
EXTENDS Naturals, Sequences, SequencesExt

CONSTANTS
  Letters,      \* characters that are not whitespace
  Blanks,       \* characters that \s matches
  Space,
  Fold,         \* str.casefold of each letter
  Pages,
  Contents,     \* contents of chunks
  Passages,     \* what a model may quote
  MaxChunks     \* bounds the chunks of a contract

ASSUME TextAssumption ==
  /\ Space \in Blanks
  /\ Letters \cap Blanks = {}
  /\ Fold \in [Letters -> Seq(Letters) \ {<<>>}]
  /\ Contents \subseteq Seq(Letters \cup Blanks)
  /\ Passages \subseteq Seq(Letters \cup Blanks)
  /\ MaxChunks \in Nat

VARIABLE quoted   \* an item that is checked, with the chunks of its contract: {} or one pair

Chunks == [page : Pages, content : Contents]

\* The chunks of a contract, in any order that the database returns them.
Loaded == BoundedSeq(Chunks, MaxChunks)

-----------------------------------------------------------------------------
\* _normalize.

\* Each run of whitespace becomes one space, of which none is left in front.
Collapse(done, c) ==
  IF c \notin Blanks THEN Append(done, c)
  ELSE IF done # <<>> /\ Last(done) # Space THEN Append(done, Space)
  ELSE done

Collapsed(text) ==
  LET done[n \in 0 .. Len(text)] == IF n = 0 THEN <<>> ELSE Collapse(done[n - 1], text[n])
  IN  done[Len(text)]

Stripped(text) ==
  IF text # <<>> /\ Last(text) = Space THEN Front(text) ELSE text

Casefold(text) ==
  FlattenSeq([i \in DOMAIN text |-> IF text[i] \in Letters THEN Fold[text[i]] ELSE <<text[i]>>])

Normalize(text) == Casefold(Stripped(Collapsed(text)))

-----------------------------------------------------------------------------
\* text_by_page and _validate_sources.

\* Mutant of TextByPage: the last chunk of a page replaces those before it.
TextByPageReplaced(chunks, page) ==
  LET onPage == SelectSeq(chunks, LAMBDA c : c.page = page)
  IN  IF onPage = <<>> THEN <<>> ELSE <<Last(onPage).content>>

TextByPage(chunks, page) ==
  LET texts[n \in 0 .. Len(chunks)] ==
        IF n = 0 THEN <<>>
        ELSE IF chunks[n].page = page THEN Append(texts[n - 1], chunks[n].content)
        ELSE texts[n - 1]
  IN  texts[Len(chunks)]

Joined(texts) == FlattenSeq(texts)                             \* mutant of Join

\* " ".join of at least one text.
Join(texts) == FlattenSeq([i \in DOMAIN texts |-> IF i = 1 THEN texts[i] ELSE <<Space>> \o texts[i]])

Occurs(part, text) == part \in SubSeqs(text)

\* One item of an extraction: a page without chunks is unknown.
Accepted(item, chunks) ==
  LET texts == TextByPage(chunks, item.page)
  IN  texts # <<>> /\ Occurs(Normalize(item.source), Normalize(Join(texts)))

-----------------------------------------------------------------------------
\* Properties.

\* The words of a text, with their case folded: a letter begins a word at the
\* start of the text and after a blank, and continues one after a letter.
Words(text) ==
  LET read[n \in 0 .. Len(text)] ==
        IF n = 0 THEN <<>>
        ELSE IF text[n] \in Blanks THEN read[n - 1]
        ELSE IF n = 1 \/ text[n - 1] \in Blanks THEN Append(read[n - 1], Fold[text[n]])
        ELSE Append(Front(read[n - 1]), Last(read[n - 1]) \o Fold[text[n]])
  IN  read[Len(text)]

\* Some of the text of the words: whole words, but the first may lack its
\* beginning and the last its end.
Excerpts(words, part) ==
  \E i \in 0 .. Len(words) - Len(part) :
    IF Len(part) = 1 THEN Occurs(part[1], words[i + 1])
    ELSE /\ IsSuffix(part[1], words[i + 1])
         /\ \A n \in 2 .. Len(part) - 1 : part[n] = words[i + n]
         /\ IsPrefix(Last(part), words[i + Len(part)])

\* What is checked: no passage is blank.
Quotations ==
  [item : [page : Pages, source : {p \in Passages : Words(p) # <<>>}], chunks : Loaded]

(* A passage copied from one chunk, with its page, is accepted in whatever *)
(* order the chunks of the page were loaded, whatever other chunks there   *)
(* are, and however the model wrote its whitespace and its letter case.    *)
PassagesAreFound ==
  \A q \in quoted :
    (\E c \in Range(q.chunks) :
       c.page = q.item.page /\ Excerpts(Words(c.content), Words(q.item.source)))
      => Accepted(q.item, q.chunks)

(* Conversely, what is accepted is written in the chunks of the page that  *)
(* the item names: a run of the page's words in the order in which its     *)
(* chunks were loaded, which may cross from one chunk into the next.       *)
AcceptedIsQuoted ==
  \A q \in quoted :
    Accepted(q.item, q.chunks) =>
      LET texts == TextByPage(q.chunks, q.item.page)
      IN  Excerpts(FlattenSeq([i \in DOMAIN texts |-> Words(texts[i])]), Words(q.item.source))
=============================================================================
