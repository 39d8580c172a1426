-------------------------------- MODULE Scoring --------------------------------
(***************************************************************************)
(* The offline evaluation (scripts/evaluate_extraction.py): predictions    *)
(* are compared with labels, contract by contract, and counted.  It is a   *)
(* function of three files, each a list of contracts in any order.         *)
(*                                                                         *)
(* What is compared are values: texts, keys made of several fields, lists  *)
(* of parties.  Normal maps a value to its normal form; two spellings are  *)
(* equal when they have the same.  A rate is an integer, in units of the   *)
(* fourth decimal.                                                         *)
(***************************************************************************)
EXTENDS Integers, Sequences, FiniteSets, FiniteSetsExt, SequencesExt

CONSTANTS
  Fields,       \* METADATA_FIELDS
  Values,
  Normal,       \* _normal
  Null,
  Missing,      \* MISSING, which equals no value
  Ids,          \* valid contract ids
  Files,        \* the three files, fewer than 32 items of each kind in them
  MaxPaired     \* bounds the lists whose pairings are enumerated

ASSUME ScoringAssumption ==
  /\ Normal \in [Values -> Values]
  /\ \A v \in Values : Normal[Normal[v]] = Normal[v]
  /\ Null \in Values /\ \A v \in Values : Normal[v] = Null <=> v = Null
  /\ Missing \notin Values
  /\ IsFiniteSet(Fields) /\ Fields # {}
  /\ MaxPaired \in Nat

\* The lists in labels and predictions, and the values in labels.
ASSUME FilesAreListed ==
  \A files \in Files : \A file \in {files.labels, files.predicted} :
    /\ file \in Seq(Range(file))
    /\ \A c \in Range(file) :
         /\ c.obligations \in Seq(Values)
         /\ c.risks \in Seq([key : Values, level : Values])
         /\ c.qa \in Seq(Range(c.qa))

ASSUME LabelsAreValues ==
  \A files \in Files : \A label \in Range(files.labels) :
    /\ \A f \in Fields \cap DOMAIN label.metadata : label.metadata[f] \in Values
    /\ \A case \in Range(label.qa) : case.answer \in Values /\ IsFiniteSet(case.chunks)

VARIABLE scored   \* the files that are scored: {} or one of Files

Sum(S, count(_)) == SumFunction([x \in S |-> count(x)])

NormalForm(v) == IF v = Missing THEN Missing ELSE Normal[v]
Same(v, w) == NormalForm(v) = NormalForm(w)

-----------------------------------------------------------------------------
\* _ratio and _f1.

Unit == 10000

\* To the nearest; with fewer than 32 items counted nothing is half-way.
Ratio(n, d) == IF d = 0 THEN 0 ELSE (2 * n * Unit + d) \div (2 * d)

MeansOf(p, r) == {(p + r) \div 2}                               \* mutant of F1s

\* What _f1 may return: half-way between two units, it depends on how the
\* decimal fractions p and r are stored.
F1s(p, r) ==
  IF p + r = 0 THEN {0}
  ELSE LET low == (2 * p * r) \div (p + r)
       IN  {f \in {low, low + 1} :
              LET twice == 2 * (f * (p + r) - 2 * p * r)
              IN  twice \in -(p + r) .. p + r}

-----------------------------------------------------------------------------
\* The four sections.  labels and predicted map each contract to what the files
\* say of it.

\* A label without a field says that there is none; a prediction must say it.
LabelFor(metadata, field) == IF field \in DOMAIN metadata THEN metadata[field] ELSE Null

Metadata(labels, predicted) ==
  LET correct(field) ==
        {c \in DOMAIN labels : /\ field \in DOMAIN predicted[c]
                               /\ Same(LabelFor(labels[c], field), predicted[c][field])}
      total == Cardinality(DOMAIN labels)
      allCorrect == Sum(Fields, LAMBDA f : Cardinality(correct(f)))
  IN  [accuracy |-> Ratio(allCorrect, total * Cardinality(Fields)),
       perField |-> [f \in Fields |-> Ratio(Cardinality(correct(f)), total)]]

Keys(list) == [i \in DOMAIN list |-> Normal[list[i]]]

CountOf(list, key) == Cardinality({i \in DOMAIN list : list[i] = key})

\* Mutant of Matches: a label matches as often as it is predicted.
MatchesRepeated(expected, predicted) ==
  Cardinality({i \in DOMAIN predicted : CountOf(expected, predicted[i]) > 0})

\* The intersection of two Counters.
Matches(expected, predicted) ==
  Sum(ToSet(expected), LAMBDA k : Min({CountOf(expected, k), CountOf(predicted, k)}))

Obligations(labels, predicted) ==
  LET tp == Sum(DOMAIN labels, LAMBDA c : Matches(Keys(labels[c]), Keys(predicted[c])))
      precision == Ratio(tp, Sum(DOMAIN labels, LAMBDA c : Len(predicted[c])))
      recall == Ratio(tp, Sum(DOMAIN labels, LAMBDA c : Len(labels[c])))
  IN  [truePositive |-> tp, precision |-> precision, recall |-> recall,
       f1s |-> F1s(precision, recall)]

\* A dict comprehension: the last item with a key is the one that is kept.
LastWith(list, Test(_)) == list[SelectLastInSeq(list, Test)]

ByKey(risks) ==
  [k \in {Normal[risks[i].key] : i \in DOMAIN risks} |->
     LastWith(risks, LAMBDA r : Normal[r.key] = k).level]

\* Mutant of MatchedRisks: the lists are compared place by place.
MatchedInPlace(expected, predicted) ==
  {Normal[expected[i].key] :
     i \in {i \in DOMAIN expected \cap DOMAIN predicted : Same(expected[i].key, predicted[i].key)}}

MatchedRisks(expected, predicted) == DOMAIN ByKey(expected) \cap DOMAIN ByKey(predicted)

Risks(labels, predicted) ==
  LET matched(c) == MatchedRisks(labels[c], predicted[c])
      correct(c) == {k \in matched(c) : Same(ByKey(labels[c])[k], ByKey(predicted[c])[k])}
      allExpected == Sum(DOMAIN labels, LAMBDA c : Len(labels[c]))
      allMatched == Sum(DOMAIN labels, LAMBDA c : Cardinality(matched(c)))
  IN  [accuracy |-> Ratio(Sum(DOMAIN labels, LAMBDA c : Cardinality(correct(c))), allExpected),
       precision |-> Ratio(allMatched, Sum(DOMAIN labels, LAMBDA c : Len(predicted[c]))),
       recall |-> Ratio(allMatched, allExpected)]

\* The prediction for a question, if any: the last one with its id.
Unanswered == [answer |-> Missing, chunks |-> {}]

PredictionFor(case, cases) ==
  IF \E i \in DOMAIN cases : cases[i].question = case.question
  THEN LET p == LastWith(cases, LAMBDA q : q.question = case.question)
       IN  [answer |-> p.answer, chunks |-> p.chunks]
  ELSE Unanswered

\* An answer that is Missing is not null, so a prediction without an answer that
\* cites labelled chunks is grounded.
IsGrounded(case, prediction) ==
  IF case.answer = Null
  THEN prediction.answer = Null /\ prediction.chunks = {}
  ELSE /\ prediction.answer # Null
       /\ prediction.chunks # {}
       /\ prediction.chunks \subseteq case.chunks

\* The cases of all contracts: a contract and a place in its list.
CasesOf(labels) == UNION {{c} \X (DOMAIN labels[c]) : c \in DOMAIN labels}

QA(labels, predicted) ==
  LET cases == CasesOf(labels)
      label(x) == labels[x[1]][x[2]]
      given(x) == PredictionFor(label(x), predicted[x[1]])
      share(S) == Ratio(Cardinality(S), Cardinality(cases))
      tp == Sum(cases, LAMBDA x : Cardinality(label(x).chunks \cap given(x).chunks))
      precision == Ratio(tp, Sum(cases, LAMBDA x : Cardinality(given(x).chunks)))
      recall == Ratio(tp, Sum(cases, LAMBDA x : Cardinality(label(x).chunks)))
  IN  [accuracy |-> share({x \in cases : Same(label(x).answer, given(x).answer)}),
       grounding |-> share({x \in cases : IsGrounded(label(x), given(x))}),
       precision |-> precision, recall |-> recall, f1s |-> F1s(precision, recall)]

-----------------------------------------------------------------------------
\* evaluate_files.  A file is a list of contracts: their chunk ids in a dataset,
\* the four sections in labels and predictions.

IdsOf(file) == {file[i].id : i \in DOMAIN file}

\* _index: ids are valid and occur once.
IsIndexed(file) ==
  /\ IdsOf(file) \subseteq Ids
  /\ Cardinality(IdsOf(file)) = Len(file)

ContractOf(file, id) == LastWith(file, LAMBDA c : c.id = id)

\* Chunk ids occur once, and the labels of a contract cite only its own.
CitesOwnChunks(entry, label) ==
  /\ IsInjective(entry.chunks)
  /\ \A i \in DOMAIN label.qa : label.qa[i].chunks \subseteq Range(entry.chunks)

Refused == [refused |-> TRUE]

Section(file, name) == [id \in IdsOf(file) |-> ContractOf(file, id)[name]]

EvaluateFiles(dataset, labels, predicted) ==
  IF /\ \A file \in {dataset, labels, predicted} : IsIndexed(file)
     /\ IdsOf(dataset) = IdsOf(labels) /\ IdsOf(dataset) = IdsOf(predicted)
     /\ \A id \in IdsOf(dataset) :
          CitesOwnChunks(ContractOf(dataset, id), ContractOf(labels, id))
  THEN [metadata |-> Metadata(Section(labels, "metadata"), Section(predicted, "metadata")),
        obligations |-> Obligations(Section(labels, "obligations"),
                                    Section(predicted, "obligations")),
        risks |-> Risks(Section(labels, "risks"), Section(predicted, "risks")),
        qa |-> QA(Section(labels, "qa"), Section(predicted, "qa"))]
  ELSE Refused

Scores(files) == EvaluateFiles(files.dataset, files.labels, files.predicted)

-----------------------------------------------------------------------------
\* Properties of the files that are scored.

\* Pairs of a label and a prediction that are equal, in which nothing occurs twice.
Pairings(expected, predicted) ==
  {m \in SUBSET ((DOMAIN expected) \X (DOMAIN predicted)) :
     /\ \A x \in m : Same(expected[x[1]], predicted[x[2]])
     /\ \A x, y \in m : (x[1] = y[1]) <=> (x[2] = y[2])}

ObligationsOf(file) == [id \in IdsOf(file) |-> ContractOf(file, id).obligations]

(* The true positives among obligations are as many as can be paired, each *)
(* label with one prediction of the same key, however often a key occurs   *)
(* on either side and in whatever order they are listed.                   *)
ObligationsAreMatched ==
  \A files \in scored :
    LET expected == ObligationsOf(files.labels)
        predicted == ObligationsOf(files.predicted)
        most(id) == Max({Cardinality(m) : m \in Pairings(expected[id], predicted[id])})
        small == \A id \in DOMAIN expected : Len(expected[id]) + Len(predicted[id]) <= MaxPaired
    IN  Scores(files) # Refused /\ small =>
          Scores(files).obligations.truePositive = Sum(DOMAIN expected, most)

\* With 20000 of a kind or more, four decimals would not tell all but one from all.
\* Each case may be answered with all chunks that are cited.
ASSUME FilesAreSmall ==
  \A files \in Files :
    LET labels == files.labels
        risks == Section(labels, "risks")
        qa == Section(labels, "qa")
        cases == CasesOf(qa)
        cited == UNION {qa[x[1]][x[2]].chunks : x \in cases}
    IN  /\ Len(labels) < 2 * Unit
        /\ Sum(DOMAIN risks, LAMBDA id : Len(risks[id])) < 2 * Unit
        /\ Cardinality(cases) < 2 * Unit
        /\ Cardinality(cases) * Cardinality(cited) < 2 * Unit

IsReordering(list, other) ==
  \A x \in Range(list) \cup Range(other) : CountOf(list, x) = CountOf(other, x)

\* Predictions that repeat the labels, in any order of contracts and of items.
IsCopy(labels, predicted) ==
  /\ IdsOf(labels) = IdsOf(predicted)
  /\ \A id \in IdsOf(labels) :
       LET label == ContractOf(labels, id)
           copy == ContractOf(predicted, id)
       IN  /\ label.metadata = copy.metadata
           /\ \A name \in {"obligations", "risks", "qa"} : IsReordering(label[name], copy[name])

\* Labels that can be met: every field named, no two risks with one key, no two
\* answers to one question, and chunks exactly for what has an answer.
Consistent(label) ==
  /\ Fields \subseteq DOMAIN label.metadata
  /\ \A i, j \in DOMAIN label.risks : Same(label.risks[i].key, label.risks[j].key) => i = j
  /\ \A i, j \in DOMAIN label.qa :
       label.qa[i].question = label.qa[j].question =>
         /\ Same(label.qa[i].answer, label.qa[j].answer)
         /\ label.qa[i].chunks = label.qa[j].chunks
  /\ \A i \in DOMAIN label.qa : label.qa[i].answer = Null <=> label.qa[i].chunks = {}

\* 1, or 0 when there was nothing to count.
Full(counted) == IF counted THEN Unit ELSE 0

\* Every rate is full.
IsFull(labels, scores) ==
  LET have(name) == \E label \in Range(labels) : label[name] # <<>>
      cite == \E label \in Range(labels) : \E case \in Range(label.qa) : case.chunks # {}
  IN  /\ scores.metadata = [accuracy |-> Full(labels # <<>>),
                            perField |-> [f \in Fields |-> Full(labels # <<>>)]]
      /\ LET o == Full(have("obligations"))
         IN  scores.obligations.precision = o /\ scores.obligations.recall = o
             /\ scores.obligations.f1s = {o}
      /\ LET r == Full(have("risks"))
         IN  scores.risks = [accuracy |-> r, precision |-> r, recall |-> r]
      /\ LET q == Full(have("qa"))
         IN  scores.qa = [accuracy |-> q, grounding |-> q, precision |-> Full(cite),
                          recall |-> Full(cite), f1s |-> {Full(cite)}]

(* Predictions that repeat the labels of an accepted set of files, in any  *)
(* order of contracts and of items, get full marks; unless some labels     *)
(* cannot be met by a copy of them, because a field is left out, a risk or *)
(* a question occurs twice or an answer and its evidence do not go         *)
(* together.                                                               *)
CopiedLabelsScoreFull ==
  \A files \in scored :
    IsCopy(files.labels, files.predicted) /\ Scores(files) # Refused =>
      (IsFull(files.labels, Scores(files)) <=> \A label \in Range(files.labels) : Consistent(label))

(* Rates are rounded before F1 is computed from them and rounded again: it *)
(* stays within two units of the fourth decimal of its exact value, twice  *)
(* the matches over all labels and predictions.                            *)
F1IsClose ==
  \A files \in scored :
    Scores(files) # Refused =>
      LET size(file) == Sum(IdsOf(file), LAMBDA id : Len(ObligationsOf(file)[id]))
          n == size(files.labels) + size(files.predicted)
          o == Scores(files).obligations
      IN  \A f \in o.f1s : f * n - 2 * o.truePositive * Unit \in -2 * n .. 2 * n
=============================================================================
