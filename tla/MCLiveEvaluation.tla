-------------------------- MODULE MCLiveEvaluation --------------------------
(* A small instance of LiveEvaluation: three fixtures, so that a resumed    *)
(* process finds none, some or all of them done, and three processes.       *)
(* Beside its behaviours, one state for each set of files that the scoring, *)
(* which its last step calls, is checked on.                                *)
EXTENDS LiveEvaluation, Scoring

MCInit ==
  /\ Init
  /\ \/ scored = {}
     \/ /\ system = CHOOSE s \in Systems : TRUE
        /\ labelFiles = CHOOSE v \in Versions : TRUE
        /\ \E f \in Files : scored = {f}

MCNext == scored = {} /\ Next /\ UNCHANGED scored

MCSpec == MCInit /\ [][MCNext]_<<vars, scored>>

-----------------------------------------------------------------------------
MCNormal == [v \in Values |-> IF v = "Net 30" THEN "net 30" ELSE v]

UpTo(n, S) == UNION {[1 .. k -> S] : k \in 0 .. n}

Label(id) == [id |-> id, metadata |-> [f \in Fields |-> "net 30"], obligations |-> <<>>,
              risks |-> <<>>, qa |-> <<>>]

Dataset(chunks) == <<[id |-> "c2", chunks |-> <<"k1">>], [id |-> "c1", chunks |-> chunks]>>

\* Obligations of one contract, in every order and spelling.
ObligationFiles ==
  {[dataset |-> SubSeq(Dataset(<<>>), 2, 2),
    labels |-> <<[Label("c1") EXCEPT !.obligations = expected]>>,
    predicted |-> <<[Label("c1") EXCEPT !.obligations = given]>>] :
   expected \in UpTo(3, Values), given \in UpTo(3, Values)}

\* Of two contracts, so many that match, are missed or are invented.
Many(value, n) == [i \in 1 .. n |-> value]

CountedFiles ==
  {[dataset |-> Dataset(<<>>),
    labels |-> <<[Label("c2") EXCEPT !.obligations = Many("net 30", n[1])],
                 [Label("c1") EXCEPT !.obligations = Many("null", n[2])]>>,
    predicted |-> <<[Label("c1") EXCEPT !.obligations = Many("net 30", n[3])],
                    [Label("c2") EXCEPT !.obligations = Many("Net 30", n[1])]>>] :
   n \in (0 .. 8) \X (0 .. 8) \X (0 .. 8)}

Cases == [question : {"q1", "q2"}, answer : {"null", "net 30"},
          chunks : {{}, {"k1"}, {"k1", "k2"}}]
Findings == [key : Values, level : {"net 30", "null"}]

\* One section at a time, and a contract that has all of them.
FirstLabels ==
  {[Label("c1") EXCEPT !.qa = list] : list \in UpTo(2, Cases)}
  \cup {[Label("c1") EXCEPT !.risks = list] : list \in UpTo(2, Findings)}
  \cup {[Label("c1") EXCEPT !.obligations = list] : list \in UpTo(2, Values)}
  \cup {[Label("c1") EXCEPT !.metadata = [f \in fields |-> "null"]] : fields \in SUBSET Fields}

SecondLabel ==
  [Label("c2") EXCEPT !.metadata = [f \in Fields |-> "null"],
                      !.obligations = <<"Net 30">>, !.risks = <<[key |-> "null", level |-> "Net 30"]>>,
                      !.qa = <<[question |-> "q1", answer |-> "Net 30", chunks |-> {"k1"}]>>]

Backwards(label) ==
  [label EXCEPT !.obligations = Reverse(@), !.risks = Reverse(@), !.qa = Reverse(@)]

\* Labels and their copies; also a repeated contract, an empty file, chunks that
\* occur twice and chunks of no contract.
CopiedFiles ==
  UNION {{[dataset |-> Dataset(chunks), labels |-> <<label, SecondLabel>>, predicted |-> copy] :
            copy \in {<<label, SecondLabel>>, <<SecondLabel, Backwards(label)>>},
            chunks \in {<<"k1">>, <<"k1", "k2">>, <<"k1", "k1">>}} : label \in FirstLabels}
  \cup {[dataset |-> Dataset(<<"k1">>), labels |-> file, predicted |-> file] :
           file \in {<<SecondLabel, SecondLabel>>, <<>>}}
  \cup {[dataset |-> <<>>, labels |-> <<>>, predicted |-> <<>>]}

MCFiles == ObligationFiles \cup CountedFiles \cup CopiedFiles
=============================================================================
