--------------------------- MODULE MCModelRequests ---------------------------
(* ModelRequests on small instances.  Beside its behaviours, one state for  *)
(* each short passage and each few chunks of a contract that the check of a *)
(* quotation, which decides what is backed, is tried on.                    *)
EXTENDS ModelRequests, PageEvidence, TLC

MCInit ==
  /\ Init
  /\ \/ quoted = {}
     \/ backed = [r \in Requests |-> {}] /\ \E q \in Quotations : quoted = {q}

MCNext == quoted = {} /\ Next /\ UNCHANGED quoted

MCSpec == MCInit /\ [][MCNext]_<<vars, quoted>>

Symmetry == Permutations(Items)

\* One letter folds into two, as the German sharp s does.
MCFold == [c \in Letters |-> IF c = "B" THEN <<"b", "b">> ELSE <<c>>]

ShortTexts == UNION {[1 .. n -> Letters \cup Blanks] : n \in 1 .. 3}

\* What crosses a chunk of one word from its neighbours.
LongTexts == {<<"b", " ", "a", " ", c>> : c \in Letters}

MCContents ==
  {<<"a">>, <<"B">>, <<"a", " ", "B">>, <<"B", "newline", "a">>, <<"a", "B", " ", "a">>}

MCPassages == ShortTexts \cup LongTexts
=============================================================================
