----------------------------- MODULE Inductions -----------------------------
(***************************************************************************)
(* Induction over finite sets, numbers and sequences, and what follows     *)
(* from it: about sums (the totals of an upload and of an evaluation are   *)
(* SumFunctionOnSet or SumFunction of module Functions) and about texts    *)
(* (put together by FlattenSeq of module SequencesExt), all recursive.     *)
(*                                                                         *)
(* What is proved by induction is said of a set C, not of an operator:     *)
(* every subset, number or sequence is in C once the smaller ones are.     *)
(***************************************************************************)
EXTENDS SequencesExt, SequenceTheorems, NaturalsInduction,
        FiniteSetTheorems, WellFoundedInduction, TLAPS

\* Finite sets and sums.

(* Induction over the subsets of a finite set: a smallest one that is not  *)
(* in C cannot be.                                                         *)
LEMMA SubsetInduction ==
  ASSUME NEW S, IsFiniteSet(S), NEW C,
         \A T \in SUBSET S : (\A U \in SUBSET T : U # T => U \in C) => T \in C
  PROVE  \A T \in SUBSET S : T \in C
  <1> DEFINE D == (SUBSET S) \ C
  <1> SUFFICES ASSUME D # {} PROVE FALSE
    OBVIOUS
  <1>1. IsWellFoundedOn(StrictSubsetOrdering(S), SUBSET S)
    <2>1. IsWellFoundedOn(StrictSubsetOrdering(S), FiniteSubsetsOf(S))
      BY FS_StrictSubsetOrderingWellFounded
    <2>2. FiniteSubsetsOf(S) = SUBSET S
      BY FS_FiniteSubsetsOfFinite
    <2> QED
      BY <2>1, <2>2
  <1>2. PICK X \in D : \A Y \in D : ~(<<Y, X>> \in StrictSubsetOrdering(S))
    <2>1. D \subseteq SUBSET S
      OBVIOUS
    <2> HIDE DEF D
    <2> QED
      BY <1>1, <2>1, WFMin
  <1>3. ASSUME NEW U \in SUBSET X, U # X PROVE U \in C
    <2>1. U \in SUBSET S /\ <<U, X>> \in StrictSubsetOrdering(S)
      BY <1>3 DEF StrictSubsetOrdering
    <2> QED
      BY <1>2, <2>1
  <1> QED
    BY <1>3

\* What a sum takes out of a set next.
Element(s) == CHOOSE x \in s : TRUE

\* A function that gives the sum of f over each subset of S.
IsIteration(g, f, S) ==
  g = [s \in SUBSET S |->
         IF s = {} THEN 0 ELSE f[Element(s)] + g[s \ {Element(s)}]]

(* What a sum is by its definition.                                        *)
LEMMA SumIsIterated ==
  ASSUME NEW f, NEW S
  PROVE  SumFunctionOnSet(f, S) = (CHOOSE g : IsIteration(g, f, S))[S]
  BY DEF SumFunctionOnSet, FoldFunctionOnSet, MapThenFoldSet, IsIteration, Element

(* What is taken out was in the set.                                       *)
LEMMA ElementIn ==
  ASSUME NEW s, s # {}
  PROVE  Element(s) \in s /\ s \ {Element(s)} \in SUBSET s /\ s \ {Element(s)} # s
  BY DEF Element

(* There is one such function at most,                                     *)
LEMMA IterationIsUnique ==
  ASSUME NEW f, NEW S, IsFiniteSet(S), NEW g, NEW h,
         IsIteration(g, f, S), IsIteration(h, f, S)
  PROVE  g = h
  <1> DEFINE C == {s \in SUBSET S : g[s] = h[s]}
  <1>1. \A s \in SUBSET S :
          /\ g[s] = IF s = {} THEN 0 ELSE f[Element(s)] + g[s \ {Element(s)}]
          /\ h[s] = IF s = {} THEN 0 ELSE f[Element(s)] + h[s \ {Element(s)}]
    BY DEF IsIteration
  <1>2. ASSUME NEW T \in SUBSET S, \A U \in SUBSET T : U # T => U \in C
        PROVE  T \in C
    <2>1. CASE T = {}
      BY <1>1, <2>1
    <2>2. CASE T # {}
      <3>1. T \ {Element(T)} \in C
        BY <1>2, <2>2, ElementIn
      <3> QED
        BY <1>1, <2>2, <3>1
    <2> QED
      BY <2>1, <2>2
  <1>3. \A T \in SUBSET S : T \in C
    <2> HIDE DEF C
    <2> QED
      BY <1>2, SubsetInduction
  <1> QED
    BY <1>3 DEF IsIteration

(* it serves for the subsets as well,                                      *)
LEMMA IterationRestricts ==
  ASSUME NEW f, NEW S, NEW T \in SUBSET S, NEW g, IsIteration(g, f, S)
  PROVE  IsIteration([s \in SUBSET T |-> g[s]], f, T)
  <1> DEFINE r == [s \in SUBSET T |-> g[s]]
  <1>1. ASSUME NEW s \in SUBSET T
        PROVE  r[s] = IF s = {} THEN 0 ELSE f[Element(s)] + r[s \ {Element(s)}]
    <2>1. s \in SUBSET S /\ s \ {Element(s)} \in SUBSET T /\ r[s] = g[s]
          /\ r[s \ {Element(s)}] = g[s \ {Element(s)}]
      OBVIOUS
    <2>2. g[s] = IF s = {} THEN 0 ELSE f[Element(s)] + g[s \ {Element(s)}]
      BY <2>1 DEF IsIteration
    <2> QED
      BY <2>1, <2>2
  <1> QED
    BY <1>1 DEF IsIteration

(* so that it gives their sums,                                            *)
LEMMA SumOnSubset ==
  ASSUME NEW f, NEW S, IsFiniteSet(S), NEW T \in SUBSET S, NEW g, IsIteration(g, f, S)
  PROVE  SumFunctionOnSet(f, T) = g[T]
  <1> DEFINE r == [s \in SUBSET T |-> g[s]]
  <1>1. IsIteration(r, f, T)
    BY IterationRestricts
  <1>2. IsFiniteSet(T)
    BY FS_Subset
  <1>3. IsIteration((CHOOSE h : IsIteration(h, f, T)), f, T)
    BY <1>1
  <1>4. r = (CHOOSE h : IsIteration(h, f, T))
    <2> HIDE DEF r
    <2> QED
      BY <1>1, <1>2, <1>3, IterationIsUnique
  <1> QED
    BY <1>4, SumIsIterated

(* and there is one.                                                       *)
LEMMA IterationExists ==
  ASSUME NEW f, NEW S, IsFiniteSet(S)
  PROVE  \E g : IsIteration(g, f, S)
  <1> DEFINE C == {T \in SUBSET S : \E g : IsIteration(g, f, T)}
  <1>1. ASSUME NEW T \in SUBSET S, \A U \in SUBSET T : U # T => U \in C
        PROVE  T \in C
    <2> DEFINE g == [s \in SUBSET T |->
                       IF s = {} THEN 0
                       ELSE f[Element(s)] + SumFunctionOnSet(f, s \ {Element(s)})]
    <2>1. ASSUME NEW s \in SUBSET T, s # T PROVE SumFunctionOnSet(f, s) = g[s]
      <3>1. PICK h : IsIteration(h, f, s)
        BY <1>1, <2>1
      <3>2. IsFiniteSet(s)
        BY FS_Subset
      <3>3. SumFunctionOnSet(f, s) = h[s]
            /\ SumFunctionOnSet(f, s \ {Element(s)}) = h[s \ {Element(s)}]
        BY <3>1, <3>2, SumOnSubset
      <3>4. h[s] = IF s = {} THEN 0 ELSE f[Element(s)] + h[s \ {Element(s)}]
        BY <3>1 DEF IsIteration
      <3> QED
        BY <3>3, <3>4
    <2>2. ASSUME NEW s \in SUBSET T, s # {}
          PROVE  g[s \ {Element(s)}] = SumFunctionOnSet(f, s \ {Element(s)})
      <3>1. s \ {Element(s)} \in SUBSET T /\ s \ {Element(s)} # T
        BY <2>2, ElementIn
      <3> HIDE DEF g
      <3> QED
        BY <2>1, <3>1
    <2>3. IsIteration(g, f, T)
      BY <2>2 DEF IsIteration
    <2> QED
      BY <2>3
  <1>2. S \in C
    <2> HIDE DEF C
    <2> QED
      BY <1>1, SubsetInduction
  <1> QED
    BY <1>2

(* Therefore a sum obeys the equation that it is defined by.               *)
LEMMA SumUnfolds ==
  ASSUME NEW f, NEW S, IsFiniteSet(S)
  PROVE  SumFunctionOnSet(f, S) =
           IF S = {} THEN 0
           ELSE f[Element(S)] + SumFunctionOnSet(f, S \ {Element(S)})
  <1>1. PICK g : IsIteration(g, f, S)
    BY IterationExists
  <1>2. SumFunctionOnSet(f, S) = g[S]
        /\ SumFunctionOnSet(f, S \ {Element(S)}) = g[S \ {Element(S)}]
    BY <1>1, SumOnSubset
  <1>3. g[S] = IF S = {} THEN 0 ELSE f[Element(S)] + g[S \ {Element(S)}]
    BY <1>1 DEF IsIteration
  <1> QED
    BY <1>2, <1>3

(* The sum of nothing is 0.                                                *)
LEMMA SumEmpty ==
  ASSUME NEW f
  PROVE  SumFunctionOnSet(f, {}) = 0
  BY SumUnfolds, FS_EmptySet

(* A sum of natural numbers is one.                                        *)
LEMMA SumIsNat ==
  ASSUME NEW S, IsFiniteSet(S), NEW f, \A x \in S : f[x] \in Nat
  PROVE  SumFunctionOnSet(f, S) \in Nat
  <1> DEFINE C == {T \in SUBSET S : SumFunctionOnSet(f, T) \in Nat}
  <1>1. ASSUME NEW T \in SUBSET S, \A U \in SUBSET T : U # T => U \in C
        PROVE  T \in C
    <2>1. IsFiniteSet(T)
      BY FS_Subset
    <2>2. CASE T = {}
      BY <2>2, SumEmpty
    <2>3. CASE T # {}
      <3>1. T \ {Element(T)} \in C /\ Element(T) \in S
        BY <1>1, <2>3, ElementIn
      <3> QED
        BY <2>1, <2>3, <3>1, SumUnfolds
    <2> QED
      BY <2>2, <2>3
  <1>2. S \in C
    <2> HIDE DEF C
    <2> QED
      BY <1>1, SubsetInduction
  <1> QED
    BY <1>2

(* Any element may be taken out first.                                     *)
LEMMA SumTakesOut ==
  ASSUME NEW S, IsFiniteSet(S), NEW f, \A x \in S : f[x] \in Nat, NEW e \in S
  PROVE  SumFunctionOnSet(f, S) = f[e] + SumFunctionOnSet(f, S \ {e})
  <1> DEFINE C == {T \in SUBSET S : \A x \in T :
                     SumFunctionOnSet(f, T) = f[x] + SumFunctionOnSet(f, T \ {x})}
  <1>1. ASSUME NEW T \in SUBSET S, \A U \in SUBSET T : U # T => U \in C
        PROVE  T \in C
    <2> SUFFICES ASSUME NEW x \in T
                 PROVE  SumFunctionOnSet(f, T) = f[x] + SumFunctionOnSet(f, T \ {x})
      OBVIOUS
    <2> DEFINE y == Element(T)
    <2>1. IsFiniteSet(T) /\ y \in T
      BY FS_Subset, ElementIn
    <2>2. SumFunctionOnSet(f, T) = f[y] + SumFunctionOnSet(f, T \ {y})
      BY <2>1, SumUnfolds
    <2> HIDE DEF y
    <2>3. CASE x = y
      BY <2>2, <2>3
    <2>4. CASE x # y
      <3>1. T \ {y} \in C /\ T \ {x} \in C /\ x \in T \ {y} /\ y \in T \ {x}
        BY <1>1, <2>1, <2>4
      <3>2. /\ SumFunctionOnSet(f, T \ {y}) = f[x] + SumFunctionOnSet(f, (T \ {y}) \ {x})
            /\ SumFunctionOnSet(f, T \ {x}) = f[y] + SumFunctionOnSet(f, (T \ {x}) \ {y})
        BY <3>1
      <3>3. (T \ {y}) \ {x} = (T \ {x}) \ {y}
        OBVIOUS
      <3>4. SumFunctionOnSet(f, (T \ {x}) \ {y}) \in Nat
        <4>1. IsFiniteSet((T \ {x}) \ {y})
          BY <2>1, FS_Subset
        <4> QED
          BY <4>1, SumIsNat
      <3> QED
        BY <2>1, <2>2, <3>2, <3>3, <3>4
    <2> QED
      BY <2>3, <2>4
  <1>2. S \in C
    <2> HIDE DEF C
    <2> QED
      BY <1>1, SubsetInduction
  <1> QED
    BY <1>2

(* A part has no more than the whole.                                      *)
LEMMA SumOfPart ==
  ASSUME NEW S, IsFiniteSet(S), NEW f, \A x \in S : f[x] \in Nat, NEW P \in SUBSET S
  PROVE  SumFunctionOnSet(f, P) <= SumFunctionOnSet(f, S)
  <1> DEFINE C == {T \in SUBSET S : P \subseteq T =>
                     SumFunctionOnSet(f, P) <= SumFunctionOnSet(f, T)}
  <1>1. ASSUME NEW T \in SUBSET S, \A U \in SUBSET T : U # T => U \in C
        PROVE  T \in C
    <2> SUFFICES ASSUME P \subseteq T
                 PROVE  SumFunctionOnSet(f, P) <= SumFunctionOnSet(f, T)
      OBVIOUS
    <2>1. IsFiniteSet(T) /\ IsFiniteSet(P)
      BY FS_Subset
    <2>2. SumFunctionOnSet(f, P) \in Nat
      BY <2>1, SumIsNat
    <2>3. CASE T = P
      BY <2>2, <2>3
    <2>4. CASE T # P
      <3>1. PICK e \in T : e \notin P
        BY <2>4
      <3>2. SumFunctionOnSet(f, P) <= SumFunctionOnSet(f, T \ {e})
        BY <1>1, <3>1
      <3>3. SumFunctionOnSet(f, T) = f[e] + SumFunctionOnSet(f, T \ {e})
        BY <2>1, SumTakesOut
      <3>4. SumFunctionOnSet(f, T \ {e}) \in Nat
        <4>1. IsFiniteSet(T \ {e})
          BY <2>1, FS_Subset
        <4> QED
          BY <4>1, SumIsNat
      <3> QED
        BY <2>2, <3>2, <3>3, <3>4
    <2> QED
      BY <2>3, <2>4
  <1>2. S \in C
    <2> HIDE DEF C
    <2> QED
      BY <1>1, SubsetInduction
  <1> QED
    BY <1>2


(* Nothing added to nothing is nothing.                                    *)
LEMMA SumIsZero ==
  ASSUME NEW S, IsFiniteSet(S), NEW f, \A x \in S : f[x] = 0
  PROVE  SumFunctionOnSet(f, S) = 0
  <1> DEFINE C == {T \in SUBSET S : SumFunctionOnSet(f, T) = 0}
  <1>1. ASSUME NEW T \in SUBSET S, \A U \in SUBSET T : U # T => U \in C
        PROVE  T \in C
    <2>1. IsFiniteSet(T)
      BY FS_Subset
    <2>2. CASE T = {}
      BY <2>2, SumEmpty
    <2>3. CASE T # {}
      <3>1. T \ {Element(T)} \in C /\ Element(T) \in S
        BY <1>1, <2>3, ElementIn
      <3> QED
        BY <2>1, <2>3, <3>1, SumUnfolds
    <2> QED
      BY <2>2, <2>3
  <1>2. S \in C
    <2> HIDE DEF C
    <2> QED
      BY <1>1, SubsetInduction
  <1> QED
    BY <1>2

(* A sum is no less than each of what it adds.                             *)
LEMMA SumHasPart ==
  ASSUME NEW S, IsFiniteSet(S), NEW f, \A x \in S : f[x] \in Nat, NEW e \in S
  PROVE  f[e] <= SumFunctionOnSet(f, S)
  <1>1. IsFiniteSet(S \ {e})
    BY FS_Subset
  <1>2. SumFunctionOnSet(f, S \ {e}) \in Nat
    BY <1>1, SumIsNat
  <1> QED
    BY <1>2, SumTakesOut

(* Of two sums, one adds no more of each element than the other: it is no  *)
(* more, and as much only if it adds as much of each.                      *)
LEMMA SumsCompare ==
  ASSUME NEW S, IsFiniteSet(S), NEW f, NEW h,
         \A x \in S : f[x] \in Nat /\ h[x] \in Nat /\ f[x] <= h[x]
  PROVE  /\ SumFunctionOnSet(f, S) <= SumFunctionOnSet(h, S)
         /\ SumFunctionOnSet(f, S) = SumFunctionOnSet(h, S) <=> \A x \in S : f[x] = h[x]
  <1> DEFINE C == {T \in SUBSET S :
                     /\ SumFunctionOnSet(f, T) <= SumFunctionOnSet(h, T)
                     /\ SumFunctionOnSet(f, T) = SumFunctionOnSet(h, T)
                          <=> \A x \in T : f[x] = h[x]}
  <1>1. ASSUME NEW T \in SUBSET S, \A U \in SUBSET T : U # T => U \in C
        PROVE  T \in C
    <2>1. IsFiniteSet(T)
      BY FS_Subset
    <2>2. CASE T = {}
      BY <2>2, SumEmpty
    <2>3. CASE T # {}
      <3> DEFINE e == Element(T)
                 R == T \ {e}
      <3>1. R \in C /\ e \in T /\ e \in S /\ IsFiniteSet(R) /\ R \in SUBSET S
        BY <1>1, <2>1, <2>3, ElementIn, FS_Subset
      <3>2. /\ SumFunctionOnSet(f, T) = f[e] + SumFunctionOnSet(f, R)
            /\ SumFunctionOnSet(h, T) = h[e] + SumFunctionOnSet(h, R)
        BY <2>1, <2>3, SumUnfolds
      <3>3. SumFunctionOnSet(f, R) \in Nat /\ SumFunctionOnSet(h, R) \in Nat
        BY <3>1, SumIsNat
      <3>4. /\ SumFunctionOnSet(f, R) <= SumFunctionOnSet(h, R)
            /\ SumFunctionOnSet(f, R) = SumFunctionOnSet(h, R) <=> \A x \in R : f[x] = h[x]
        BY <3>1
      <3>5. (\A x \in T : f[x] = h[x]) <=> f[e] = h[e] /\ \A x \in R : f[x] = h[x]
        BY <3>1
      <3>6. f[e] \in Nat /\ h[e] \in Nat /\ f[e] <= h[e]
        BY <3>1
      <3> HIDE DEF e, R
      <3> QED
        BY <3>2, <3>3, <3>4, <3>5, <3>6
    <2> QED
      BY <2>2, <2>3
  <1>2. S \in C
    <2> HIDE DEF C
    <2> QED
      BY <1>1, SubsetInduction
  <1> QED
    BY <1>2

(* A sum of equal numbers is a product.                                    *)
LEMMA SumOfEqual ==
  ASSUME NEW S, IsFiniteSet(S), NEW n \in Nat, NEW f, \A x \in S : f[x] = n
  PROVE  SumFunctionOnSet(f, S) = Cardinality(S) * n
  <1> DEFINE C == {T \in SUBSET S : SumFunctionOnSet(f, T) = Cardinality(T) * n}
  <1>1. ASSUME NEW T \in SUBSET S, \A U \in SUBSET T : U # T => U \in C
        PROVE  T \in C
    <2>1. IsFiniteSet(T)
      BY FS_Subset
    <2>2. CASE T = {}
      BY <2>2, SumEmpty, FS_EmptySet
    <2>3. CASE T # {}
      <3> DEFINE e == Element(T)
                 R == T \ {e}
                 k == Cardinality(R)
      <3>1. R \in C /\ e \in T /\ e \in S
        BY <1>1, <2>3, ElementIn
      <3>2. SumFunctionOnSet(f, T) = f[e] + SumFunctionOnSet(f, R)
        BY <2>1, <2>3, SumUnfolds
      <3>3. k \in Nat /\ Cardinality(T) = k + 1
        <4>1. IsFiniteSet(R) /\ Cardinality(R) = Cardinality(T) - 1
          BY <2>1, <3>1, FS_RemoveElement
        <4>2. Cardinality(R) \in Nat /\ Cardinality(T) \in Nat
          BY <2>1, <4>1, FS_CardinalityType
        <4> QED
          BY <4>1, <4>2
      <3>4. f[e] = n /\ SumFunctionOnSet(f, R) = k * n
        BY <3>1
      <3> HIDE DEF e, k, R
      <3>5. (k + 1) * n = n + k * n
        BY <3>3
      <3> QED
        BY <3>2, <3>3, <3>4, <3>5
    <2> QED
      BY <2>2, <2>3
  <1>2. S \in C
    <2> HIDE DEF C
    <2> QED
      BY <1>1, SubsetInduction
  <1> QED
    BY <1>2

(* A sum is above 0 when something that it adds is.                        *)
LEMMA SumIsPositive ==
  ASSUME NEW S, IsFiniteSet(S), NEW f, \A x \in S : f[x] \in Nat
  PROVE  SumFunctionOnSet(f, S) > 0 <=> \E x \in S : f[x] > 0
  <1>1. SumFunctionOnSet(f, S) \in Nat /\ \A x \in S : f[x] <= SumFunctionOnSet(f, S)
    BY SumIsNat, SumHasPart
  <1>2. (\A x \in S : f[x] = 0) => SumFunctionOnSet(f, S) = 0
    BY SumIsZero
  <1> QED
    BY <1>1, <1>2

(* A finite set of integers has a greatest one.                            *)
LEMMA GreatestExists ==
  ASSUME NEW S, IsFiniteSet(S), S \subseteq Int, S # {}
  PROVE  \E m \in S : \A y \in S : m >= y
  <1> DEFINE C == {T \in SUBSET S : T # {} => \E m \in T : \A y \in T : m >= y}
  <1>1. ASSUME NEW T \in SUBSET S, \A U \in SUBSET T : U # T => U \in C
        PROVE  T \in C
    <2> SUFFICES ASSUME T # {}
                 PROVE  \E m \in T : \A y \in T : m >= y
      OBVIOUS
    <2>1. PICK e \in T : TRUE
      OBVIOUS
    <2>2. CASE T \ {e} = {}
      <3>1. T = {e} /\ e \in Int
        BY <2>1, <2>2
      <3> QED
        BY <3>1
    <2>3. CASE T \ {e} # {}
      <3>1. T \ {e} \in C
        BY <1>1, <2>1
      <3>2. PICK m \in T \ {e} : \A y \in T \ {e} : m >= y
        BY <2>3, <3>1
      <3>3. e \in Int /\ m \in Int /\ \A y \in T : y \in Int
        BY <2>1
      <3>4. CASE m >= e
        BY <3>2, <3>3, <3>4
      <3>5. CASE ~(m >= e)
        <4>1. \A y \in T : e >= y
          BY <3>2, <3>3, <3>5
        <4> QED
          BY <2>1, <4>1
      <3> QED
        BY <3>4, <3>5
    <2> QED
      BY <2>2, <2>3
  <1>2. S \in C
    <2> HIDE DEF C
    <2> QED
      BY <1>1, SubsetInduction
  <1> QED
    BY <1>2

(* The sizes of disjoint sets add.                                         *)
LEMMA DisjointSizes ==
  ASSUME NEW A, NEW B, IsFiniteSet(A), IsFiniteSet(B), A \cap B = {}
  PROVE  Cardinality(A \cup B) = Cardinality(A) + Cardinality(B)
  <1>1. Cardinality(A \cap B) = 0
    BY FS_EmptySet
  <1>2. Cardinality(A \cup B) = Cardinality(A) + Cardinality(B) - Cardinality(A \cap B)
    BY FS_Union
  <1>3. Cardinality(A) \in Nat /\ Cardinality(B) \in Nat
    BY FS_CardinalityType
  <1> QED
    BY <1>1, <1>2, <1>3

-----------------------------------------------------------------------------
\* Numbers and sequences.

(* Induction over the natural numbers.                                     *)
LEMMA NatInductionOn ==
  ASSUME NEW C, 0 \in C, \A n \in Nat : n \in C => n + 1 \in C
  PROVE  \A n \in Nat : n \in C
  <1> DEFINE D == Nat \ C
             R == {p \in Nat \X Nat : p[1] < p[2]}
  <1> SUFFICES ASSUME D # {} PROVE FALSE
    OBVIOUS
  <1>1. IsWellFoundedOn(R, Nat)
    BY NatLessThanWellFounded DEF OpToRel
  <1>2. PICK n \in D : \A m \in D : ~(<<m, n>> \in R)
    <2>1. D \subseteq Nat
      OBVIOUS
    <2> HIDE DEF D, R
    <2> QED
      BY <1>1, <2>1, WFMin
  <1>3. n \in Nat /\ n # 0 /\ n - 1 \in Nat
    BY <1>2
  <1>4. <<n - 1, n>> \in R
    BY <1>3
  <1>5. n - 1 \in C
    <2> HIDE DEF R
    <2> QED
      BY <1>2, <1>3, <1>4
  <1>6. n \in C
    BY <1>3, <1>5
  <1> QED
    BY <1>2, <1>6

\* A function that is computed along 0 .. n.
IsRecursion(g, n, base, next) ==
  g = [i \in 0 .. n |-> IF i = 0 THEN base ELSE next[<<i, g[i - 1]>>]]

(* Whatever is computed step by step has a result.                         *)
LEMMA RecursionExists ==
  ASSUME NEW V, NEW base \in V, NEW n \in Nat, NEW next \in [(1 .. n) \X V -> V]
  PROVE  \E g \in [0 .. n -> V] : IsRecursion(g, n, base, next)
  <1> DEFINE C == {k \in Nat : k <= n => \E g \in [0 .. k -> V] : IsRecursion(g, k, base, next)}
  <1>1. 0 \in C
    <2> DEFINE g == [i \in 0 .. 0 |-> base]
    <2>1. g \in [0 .. 0 -> V] /\ IsRecursion(g, 0, base, next)
      BY DEF IsRecursion
    <2> QED
      BY <2>1
  <1>2. ASSUME NEW k \in Nat, k \in C
        PROVE  k + 1 \in C
    <2> SUFFICES ASSUME k + 1 <= n
                 PROVE  \E g \in [0 .. k + 1 -> V] : IsRecursion(g, k + 1, base, next)
      OBVIOUS
    <2>1. PICK h \in [0 .. k -> V] : IsRecursion(h, k, base, next)
      BY <1>2
    <2> DEFINE g == [i \in 0 .. k + 1 |-> IF i = k + 1 THEN next[<<i, h[k]>>] ELSE h[i]]
    <2>2. h[k] \in V /\ <<k + 1, h[k]>> \in (1 .. n) \X V
      OBVIOUS
    <2>3. g \in [0 .. k + 1 -> V]
      BY <2>2
    <2>4. \A i \in 0 .. k + 1 : g[i] = IF i = 0 THEN base ELSE next[<<i, g[i - 1]>>]
      <3> TAKE i \in 0 .. k + 1
      <3>1. CASE i = k + 1
        BY <3>1
      <3>2. CASE i # k + 1
        <4>1. i \in 0 .. k /\ g[i] = h[i]
          BY <3>2
        <4>2. i # 0 => i - 1 \in 0 .. k /\ g[i - 1] = h[i - 1]
          BY <4>1
        <4>3. h[i] = IF i = 0 THEN base ELSE next[<<i, h[i - 1]>>]
          BY <2>1, <4>1 DEF IsRecursion
        <4> QED
          BY <4>1, <4>2, <4>3
      <3> QED
        BY <3>1, <3>2
    <2>5. IsRecursion(g, k + 1, base, next)
      <3> HIDE DEF g
      <3> QED
        BY <2>3, <2>4 DEF IsRecursion
    <2> QED
      BY <2>3, <2>5
  <1>3. n \in C
    <2> HIDE DEF C
    <2> QED
      BY <1>1, <1>2, NatInductionOn
  <1> QED
    BY <1>3

(* Induction over sequences, by what is appended.                          *)
LEMMA SeqInductionOn ==
  ASSUME NEW V, NEW C, <<>> \in C, \A s \in Seq(V), e \in V : s \in C => Append(s, e) \in C
  PROVE  \A s \in Seq(V) : s \in C
  <1> DEFINE N == {n \in Nat : \A s \in Seq(V) : Len(s) = n => s \in C}
  <1>1. 0 \in N
    <2>1. \A s \in Seq(V) : Len(s) = 0 => s = <<>>
      BY EmptySeq
    <2> QED
      BY <2>1
  <1>2. ASSUME NEW n \in Nat, n \in N
        PROVE  n + 1 \in N
    <2> SUFFICES ASSUME NEW s \in Seq(V), Len(s) = n + 1
                 PROVE  s \in C
      OBVIOUS
    <2>1. s # <<>>
      OBVIOUS
    <2>2. PICK t \in Seq(V), e \in V : s = Append(t, e)
      BY <2>1, SequenceEmptyOrAppend
    <2>3. Len(t) = n
      BY <2>2
    <2> QED
      BY <1>2, <2>2, <2>3
  <1>3. \A n \in Nat : n \in N
    <2> HIDE DEF N
    <2> QED
      BY <1>1, <1>2, NatInductionOn
  <1> QED
    BY <1>3, LenProperties

(* Two computations that begin alike and take the same steps end alike.    *)
LEMMA SameSteps ==
  ASSUME NEW n \in Nat, NEW g, NEW h, g[0] = h[0],
         \A i \in 1 .. n : g[i - 1] = h[i - 1] => g[i] = h[i]
  PROVE  g[n] = h[n]
  <1> DEFINE C == {i \in Nat : i \in 0 .. n => g[i] = h[i]}
  <1>1. 0 \in C
    OBVIOUS
  <1>2. ASSUME NEW i \in Nat, i \in C
        PROVE  i + 1 \in C
    <2> SUFFICES ASSUME i + 1 \in 0 .. n
                 PROVE  g[i + 1] = h[i + 1]
      OBVIOUS
    <2>1. i + 1 \in 1 .. n /\ (i + 1) - 1 = i /\ i \in 0 .. n
      BY <1>2
    <2>2. g[i] = h[i]
      BY <1>2, <2>1
    <2> QED
      BY <2>1, <2>2
  <1>3. n \in C
    <2> HIDE DEF C
    <2> QED
      BY <1>1, <1>2, NatInductionOn
  <1> QED
    BY <1>3

\* A function that gives what the first i of some sequences make together.
IsFlattening(g, seqs) ==
  g = [i \in 1 .. Len(seqs) |-> IF i = 1 THEN seqs[i] ELSE g[i - 1] \o seqs[i]]

(* Sequences can be put together one after the other.                      *)
LEMMA FlatteningExists ==
  ASSUME NEW V, NEW seqs \in Seq(Seq(V))
  PROVE  \E g : IsFlattening(g, seqs)
  <1> DEFINE n == Len(seqs)
             next == [p \in (1 .. n) \X Seq(V) |-> p[2] \o seqs[p[1]]]
  <1>1. n \in Nat /\ \A i \in 1 .. n : seqs[i] \in Seq(V)
    OBVIOUS
  <1>2. next \in [(1 .. n) \X Seq(V) -> Seq(V)]
    BY <1>1
  <1>3. <<>> \in Seq(V)
    OBVIOUS
  <1>4. PICK h \in [0 .. n -> Seq(V)] : IsRecursion(h, n, <<>>, next)
    <2> HIDE DEF n, next
    <2> QED
      BY <1>1, <1>2, <1>3, RecursionExists
  <1>r. \A i \in 0 .. n : h[i] = IF i = 0 THEN <<>> ELSE next[<<i, h[i - 1]>>]
    BY <1>4 DEF IsRecursion
  <1>5. ASSUME NEW i \in 1 .. n
        PROVE  h[i] = h[i - 1] \o seqs[i] /\ i - 1 \in 0 .. n /\ h[i - 1] \in Seq(V)
    <2>1. i - 1 \in 0 .. n /\ i \in 0 .. n /\ i # 0
      BY <1>1
    <2>2. h[i - 1] \in Seq(V)
      BY <1>4, <2>1
    <2>3. h[i] = next[<<i, h[i - 1]>>]
      BY <1>r, <2>1
    <2> QED
      BY <2>1, <2>2, <2>3
  <1>6. h[0] = <<>>
    <2>1. 0 \in 0 .. n
      BY <1>1
    <2> HIDE DEF next, n
    <2> QED
      BY <1>r, <2>1
  <1> DEFINE g == [i \in 1 .. n |-> h[i]]
  <1>7. ASSUME NEW i \in 1 .. n
        PROVE  g[i] = IF i = 1 THEN seqs[i] ELSE g[i - 1] \o seqs[i]
    <2>1. CASE i = 1
      <3>1. h[1] = h[0] \o seqs[1] /\ seqs[1] \in Seq(V)
        <4>1. 1 \in 1 .. n /\ 1 - 1 = 0
          BY <2>1
        <4> HIDE DEF n
        <4> QED
          BY <1>1, <1>5, <4>1
      <3> QED
        BY <1>6, <2>1, <3>1, ConcatEmptySeq
    <2>2. CASE i # 1
      <3>1. i - 1 \in 1 .. n
        BY <1>1, <2>2
      <3> QED
        BY <1>5, <2>2, <3>1
    <2> QED
      BY <2>1, <2>2
  <1>8. IsFlattening(g, seqs)
    BY <1>7 DEF IsFlattening
  <1> QED
    BY <1>8

(* What FlattenSeq is by its definition, of at least one sequence.         *)
LEMMA FlattenIsFolded ==
  ASSUME NEW V, NEW seqs \in Seq(Seq(V)), Len(seqs) > 0
  PROVE  \E g : IsFlattening(g, seqs) /\ FlattenSeq(seqs) = g[Len(seqs)]
  <1> DEFINE g == CHOOSE h : IsFlattening(h, seqs)
  <1>1. IsFlattening(g, seqs)
    BY FlatteningExists
  <1>2. FlattenSeq(seqs) = g[Len(seqs)]
    BY DEF FlattenSeq, IsFlattening
  <1> QED
    BY <1>1, <1>2

(* FlattenSeq takes one more sequence at the end.                          *)
LEMMA FlattenPrefix ==
  ASSUME NEW V, NEW ss \in Seq(Seq(V)), NEW s \in Seq(V)
  PROVE  FlattenSeq(Append(ss, s)) = FlattenSeq(ss) \o s
  <1> DEFINE n == Len(ss)
             ts == Append(ss, s)
  <1>1. /\ n \in Nat /\ ts \in Seq(Seq(V)) /\ Len(ts) = n + 1 /\ ts[n + 1] = s
        /\ \A i \in 1 .. n : ts[i] = ss[i]
    OBVIOUS
  <1>2. PICK g : IsFlattening(g, ts) /\ FlattenSeq(ts) = g[n + 1]
    <2>1. Len(ts) > 0
      BY <1>1
    <2> HIDE DEF ts, n
    <2> QED
      BY <1>1, <2>1, FlattenIsFolded
  <1>3. \A i \in 1 .. n + 1 : g[i] = IF i = 1 THEN ts[i] ELSE g[i - 1] \o ts[i]
    <2> HIDE DEF ts
    <2> QED
      BY <1>1, <1>2 DEF IsFlattening
  <1> HIDE DEF ts
  <1>4. CASE n = 0
    <2>1. ss = <<>> /\ FlattenSeq(ss) = <<>>
      BY <1>4 DEF FlattenSeq
    <2>2. FlattenSeq(ts) = s
      BY <1>1, <1>2, <1>3, <1>4
    <2> QED
      BY <2>1, <2>2, ConcatEmptySeq DEF ts
  <1>5. CASE n > 0
    <2>1. PICK h : IsFlattening(h, ss) /\ FlattenSeq(ss) = h[n]
      BY <1>5, FlattenIsFolded
    <2>2. \A i \in 1 .. n : h[i] = IF i = 1 THEN ss[i] ELSE h[i - 1] \o ss[i]
      BY <2>1 DEF IsFlattening
    <2>3. ASSUME NEW i \in 1 .. n - 1, g[(i - 1) + 1] = h[(i - 1) + 1]
          PROVE  g[i + 1] = h[i + 1]
      <3>1. i \in 1 .. n /\ i + 1 \in 1 .. n + 1 /\ i + 1 \in 1 .. n /\ i + 1 # 1
            /\ (i + 1) - 1 = i /\ (i - 1) + 1 = i
        <4>1. n \in Nat
          BY <1>1
        <4> HIDE DEF n
        <4> QED
          BY <4>1
      <3>2. g[i + 1] = g[i] \o ts[i + 1]
        BY <1>3, <3>1
      <3>3. h[i + 1] = h[i] \o ss[i + 1]
        BY <2>2, <3>1
      <3> QED
        BY <1>1, <2>3, <3>1, <3>2, <3>3
    <2>5. g[n] = h[n]
      <3> DEFINE p == [i \in 0 .. n - 1 |-> g[i + 1]]
                 q == [i \in 0 .. n - 1 |-> h[i + 1]]
      <3>1. n - 1 \in Nat /\ p[0] = q[0]
        BY <1>1, <1>3, <1>5, <2>2
      <3>2. \A i \in 1 .. n - 1 : p[i - 1] = q[i - 1] => p[i] = q[i]
        BY <1>1, <2>3
      <3>3. p[n - 1] = q[n - 1]
        <4> HIDE DEF p, q
        <4> QED
          BY <3>1, <3>2, SameSteps
      <3> QED
        BY <1>1, <1>5, <3>3
    <2>6. g[n + 1] = g[n] \o s
      <3>1. n + 1 \in 1 .. n + 1 /\ n + 1 # 1 /\ (n + 1) - 1 = n
        BY <1>1, <1>5
      <3>2. g[n + 1] = g[n] \o ts[n + 1]
        BY <1>3, <3>1
      <3> QED
        BY <1>1, <3>2
    <2> QED
      BY <1>2, <2>1, <2>5, <2>6 DEF ts
  <1> QED
    BY <1>1, <1>4, <1>5

(* Of no sequences FlattenSeq makes the empty one.                         *)
LEMMA FlattenEmpty == FlattenSeq(<<>>) = <<>>
  BY DEF FlattenSeq

(* FlattenSeq makes a sequence of the same elements.                       *)
LEMMA FlattenIsSeq ==
  ASSUME NEW V, NEW ss \in Seq(Seq(V))
  PROVE  FlattenSeq(ss) \in Seq(V)
  <1> DEFINE C == {r \in Seq(Seq(V)) : FlattenSeq(r) \in Seq(V)}
  <1>1. <<>> \in C
    <2>1. <<>> \in Seq(Seq(V)) /\ <<>> \in Seq(V)
      OBVIOUS
    <2> QED
      BY <2>1, FlattenEmpty
  <1>2. ASSUME NEW r \in Seq(Seq(V)), NEW s \in Seq(V), r \in C
        PROVE  Append(r, s) \in C
    <2>1. Append(r, s) \in Seq(Seq(V)) /\ FlattenSeq(r) \o s \in Seq(V)
      BY <1>2
    <2>2. FlattenSeq(Append(r, s)) = FlattenSeq(r) \o s
      BY FlattenPrefix
    <2> QED
      BY <2>1, <2>2
  <1>3. \A r \in Seq(Seq(V)) : r \in C
    <2> HIDE DEF C
    <2> QED
      BY <1>1, <1>2, SeqInductionOn
  <1> QED
    BY <1>3

\* Concatenation, as a name that the provers do not expand.
Cat(a, b) == a \o b

(* Four sequences in a row are the same however they are grouped.          *)
LEMMA CatGroups ==
  ASSUME NEW V, NEW a \in Seq(V), NEW b \in Seq(V), NEW c \in Seq(V), NEW d \in Seq(V)
  PROVE  Cat(Cat(a, Cat(b, c)), d) = Cat(a, Cat(b, Cat(c, d)))
  <1>1. b \o c \in Seq(V) /\ c \o d \in Seq(V)
    OBVIOUS
  <1>2. (b \o c) \o d = b \o (c \o d)
    BY ConcatAssociative
  <1>3. (a \o (b \o c)) \o d = a \o ((b \o c) \o d)
    <2> DEFINE x == b \o c
    <2>1. x \in Seq(V)
      OBVIOUS
    <2> HIDE DEF x
    <2>2. (a \o x) \o d = a \o (x \o d)
      BY <2>1, ConcatAssociative
    <2> QED
      BY <2>2 DEF x
  <1>4. (a \o (b \o c)) \o d = a \o (b \o (c \o d))
    BY <1>2, <1>3
  <1> QED
    BY <1>4 DEF Cat

(* Front and Last take apart what Append puts together.                    *)
LEMMA FrontOfAppend ==
  ASSUME NEW V, NEW s \in Seq(V), NEW e \in V
  PROVE  Front(Append(s, e)) = s /\ Last(Append(s, e)) = e
  <1> DEFINE t == Append(s, e)
             n == Len(s)
  <1>1. n \in Nat /\ Len(t) = n + 1 /\ t[n + 1] = e /\ \A i \in 1 .. n : t[i] = s[i] /\ s[i] \in V
    OBVIOUS
  <1>2. Len(t) - 1 = n
    BY <1>1
  <1>3. SubSeq(t, 1, n) = s
    <2> HIDE DEF t
    <2>1. /\ SubSeq(t, 1, n) \in Seq(V)
          /\ Len(SubSeq(t, 1, n)) = IF 1 <= n THEN n - 1 + 1 ELSE 0
          /\ \A i \in 1 .. n - 1 + 1 : SubSeq(t, 1, n)[i] = t[1 + i - 1]
      <3> DEFINE m == n
      <3>1. m \in Int /\ 1 \in Int /\ \A i \in 1 .. m : t[i] \in V
        BY <1>1
      <3> HIDE DEF m
      <3>2. /\ SubSeq(t, 1, m) \in Seq(V)
            /\ Len(SubSeq(t, 1, m)) = IF 1 <= m THEN m - 1 + 1 ELSE 0
            /\ \A i \in 1 .. m - 1 + 1 : SubSeq(t, 1, m)[i] = t[1 + i - 1]
        BY <3>1, SubSeqProperties
      <3> QED
        BY <3>2 DEF m
    <2> DEFINE u == SubSeq(t, 1, n)
    <2>2. u \in Seq(V) /\ Len(u) = n /\ \A i \in 1 .. n : u[i] = s[i]
      <3>1. n - 1 + 1 = n /\ \A i \in 1 .. n : 1 + i - 1 = i
        BY <1>1
      <3> QED
        BY <1>1, <2>1, <3>1
    <2> HIDE DEF u, n
    <2>3. u = s
      BY <2>2, SeqEqual DEF n
    <2> QED
      BY <2>3 DEF u
  <1> QED
    BY <1>1, <1>2, <1>3 DEF Front, Last

(* Appending to the second of two sequences is appending to both.          *)
LEMMA AppendOfConcat ==
  ASSUME NEW V, NEW a \in Seq(V), NEW b \in Seq(V), NEW e \in V
  PROVE  Append(a \o b, e) = a \o Append(b, e) /\ a \o b \in Seq(V)
  OBVIOUS

(* The same of Cat.                                                        *)
LEMMA AppendOfCat ==
  ASSUME NEW V, NEW a \in Seq(V), NEW b \in Seq(V), NEW e \in V
  PROVE  Append(Cat(a, b), e) = Cat(a, Append(b, e)) /\ Cat(a, b) \in Seq(V)
  BY AppendOfConcat DEF Cat

(* Front and Last of two sequences are those of the second.                *)
LEMMA FrontOfConcat ==
  ASSUME NEW V, NEW a \in Seq(V), NEW b \in Seq(V), b # <<>>
  PROVE  Front(a \o b) = a \o Front(b) /\ Last(a \o b) = Last(b) /\ Front(b) \in Seq(V) /\ Last(b) \in V
  <1>1. PICK s \in Seq(V), e \in V : b = Append(s, e)
    BY SequenceEmptyOrAppend
  <1>2. Front(b) = s /\ Last(b) = e
    BY <1>1, FrontOfAppend
  <1> DEFINE x == a \o s
  <1>3. a \o b = Append(x, e) /\ x \in Seq(V)
    BY <1>1, AppendOfConcat
  <1> HIDE DEF x
  <1>4. Front(a \o b) = x /\ Last(a \o b) = e
    BY <1>1, <1>3, FrontOfAppend
  <1>5. Front(a \o b) = a \o Front(b)
    BY <1>2, <1>4 DEF x
  <1> QED
    BY <1>1, <1>2, <1>4, <1>5

\* part is written in text after its first k elements.
At(part, text, k) ==
  /\ k + Len(part) <= Len(text)
  /\ \A i \in 1 .. Len(part) : text[k + i] = part[i]

(* What SubSeq cuts out of a sequence, by the elements before it.          *)
LEMMA SubSeqAt ==
  ASSUME NEW V, NEW t \in Seq(V), NEW k \in Nat, NEW j \in Nat, k <= j, j <= Len(t)
  PROVE  /\ SubSeq(t, k + 1, j) \in Seq(V) /\ Len(SubSeq(t, k + 1, j)) = j - k
         /\ \A i \in 1 .. j - k : SubSeq(t, k + 1, j)[i] = t[k + i]
  <1> DEFINE a == k + 1
             u == SubSeq(t, a, j)
  <1>1. a \in Int /\ j \in Int /\ Len(t) \in Nat /\ \A i \in 1 .. Len(t) : t[i] \in V
    OBVIOUS
  <1>2. \A i \in a .. j : t[i] \in V
    BY <1>1
  <1> HIDE DEF a
  <1>3. /\ u \in Seq(V)
        /\ Len(u) = IF a <= j THEN j - a + 1 ELSE 0
        /\ \A i \in 1 .. j - a + 1 : u[i] = t[a + i - 1]
    BY <1>1, <1>2, SubSeqProperties
  <1> HIDE DEF u
  <1>4. j - a + 1 = j - k /\ (a <= j <=> k < j) /\ \A i \in 1 .. j - k : a + i - 1 = k + i
    BY DEF a
  <1>5. u \in Seq(V) /\ Len(u) = j - k /\ \A i \in 1 .. j - k : u[i] = t[k + i]
    <2>1. CASE k = j
      BY <1>3, <1>4, <2>1
    <2>2. CASE k # j
      <3>1. a <= j
        BY <1>4, <2>2
      <3>2. Len(u) = j - k /\ \A i \in 1 .. j - k : u[i] = t[a + i - 1]
        BY <1>3, <1>4, <3>1
      <3>3. \A i \in 1 .. j - k : u[i] = t[k + i]
        BY <1>4, <3>2
      <3> QED
        BY <1>3, <3>2, <3>3
    <2> QED
      BY <2>1, <2>2
  <1> QED
    BY <1>5 DEF u, a

(* A prefix is what is written after nothing.                              *)
LEMMA PrefixAt ==
  ASSUME NEW V, NEW a \in Seq(V), NEW b \in Seq(V)
  PROVE  IsPrefix(a, b) <=> At(a, b, 0)
  <1>0. Len(a) \in Nat /\ Len(b) \in Nat
    OBVIOUS
  <1>1. SubSeq(a, 1, Len(a)) = a
    <2> DEFINE u == SubSeq(a, 0 + 1, Len(a))
    <2>1. u \in Seq(V) /\ Len(u) = Len(a) - 0 /\ \A i \in 1 .. Len(a) - 0 : u[i] = a[0 + i]
      BY <1>0, SubSeqAt
    <2> HIDE DEF u
    <2>2. u = a
      BY <1>0, <2>1, SeqEqual
    <2> QED
      BY <2>2 DEF u
  <1>2. ASSUME Len(a) <= Len(b)
        PROVE  SubSeq(b, 1, Len(a)) = a <=> \A i \in 1 .. Len(a) : b[0 + i] = a[i]
    <2> DEFINE u == SubSeq(b, 0 + 1, Len(a))
    <2>1. u \in Seq(V) /\ Len(u) = Len(a) - 0 /\ \A i \in 1 .. Len(a) - 0 : u[i] = b[0 + i]
      BY <1>0, <1>2, SubSeqAt
    <2> HIDE DEF u
    <2>2. u = a <=> \A i \in 1 .. Len(a) : u[i] = a[i]
      BY <1>0, <2>1, SeqEqual
    <2>3. u = a <=> \A i \in 1 .. Len(a) : b[0 + i] = a[i]
      BY <1>0, <2>1, <2>2
    <2> QED
      BY <2>3 DEF u
  <1> QED
    BY <1>0, <1>1, <1>2 DEF IsPrefix, At

(* A suffix is what is written as far from the start as its length is from *)
(* the whole length.                                                       *)
LEMMA SuffixAt ==
  ASSUME NEW V, NEW a \in Seq(V), NEW b \in Seq(V)
  PROVE  IsSuffix(a, b) <=> Len(a) <= Len(b) /\ At(a, b, Len(b) - Len(a))
  <1> DEFINE m == Len(a)
             n == Len(b)
             ra == Reverse(a)
             rb == Reverse(b)
  <1>0. m \in Nat /\ n \in Nat
    OBVIOUS
  <1>1. /\ ra \in Seq(V) /\ Len(ra) = m /\ \A i \in 1 .. m : ra[i] = a[m - i + 1]
        /\ rb \in Seq(V) /\ Len(rb) = n /\ \A i \in 1 .. n : rb[i] = b[n - i + 1]
    <2>1. ASSUME NEW s \in Seq(V)
          PROVE  Reverse(s) \in Seq(V) /\ Len(Reverse(s)) = Len(s)
                 /\ \A i \in 1 .. Len(s) : Reverse(s)[i] = s[Len(s) - i + 1]
      <3> DEFINE l == Len(s)
      <3>1. l \in Nat /\ \A i \in 1 .. l : l - i + 1 \in 1 .. l /\ s[l - i + 1] \in V
        OBVIOUS
      <3>2. Reverse(s) = [i \in 1 .. l |-> s[l - i + 1]]
        BY DEF Reverse
      <3> HIDE DEF l
      <3>3. Reverse(s) \in [1 .. l -> V]
        BY <3>1, <3>2
      <3>4. Reverse(s) \in Seq(V) /\ Len(Reverse(s)) = l
        BY <3>1, <3>3, SeqDef, LenProperties
      <3> QED
        BY <3>2, <3>4 DEF l
    <2> QED
      BY <2>1
  <1> HIDE DEF m, n, ra, rb
  <1>2. IsSuffix(a, b) <=> At(ra, rb, 0)
    BY <1>1, PrefixAt DEF IsSuffix, ra, rb
  <1>3. At(ra, rb, 0) <=> m <= n /\ \A i \in 1 .. m : b[n - i + 1] = a[m - i + 1]
    <2>1. \A i \in 1 .. m : 0 + i = i /\ (m <= n => i \in 1 .. n)
      BY <1>0
    <2>2. 0 + m = m
      BY <1>0
    <2>3. At(ra, rb, 0) <=> m <= n /\ \A i \in 1 .. m : rb[i] = ra[i]
      BY <1>1, <2>1, <2>2 DEF At
    <2>4. m <= n => \A i \in 1 .. m : rb[i] = b[n - i + 1] /\ ra[i] = a[m - i + 1]
      BY <1>1, <2>1
    <2> QED
      BY <2>3, <2>4
  <1>4. ASSUME m <= n
        PROVE  (\A i \in 1 .. m : b[n - i + 1] = a[m - i + 1])
               <=> \A i \in 1 .. m : b[(n - m) + i] = a[i]
    <2>1. ASSUME \A i \in 1 .. m : b[n - i + 1] = a[m - i + 1], NEW i \in 1 .. m
          PROVE  b[(n - m) + i] = a[i]
      <3>1. m - i + 1 \in 1 .. m /\ n - (m - i + 1) + 1 = (n - m) + i /\ m - (m - i + 1) + 1 = i
        BY <1>0
      <3> QED
        BY <2>1, <3>1
    <2>2. ASSUME \A i \in 1 .. m : b[(n - m) + i] = a[i], NEW i \in 1 .. m
          PROVE  b[n - i + 1] = a[m - i + 1]
      <3>1. m - i + 1 \in 1 .. m /\ (n - m) + (m - i + 1) = n - i + 1
        BY <1>0
      <3> QED
        BY <2>2, <3>1
    <2> QED
      BY <2>1, <2>2
  <1>5. (n - m) + m <= n
    BY <1>0
  <1> QED
    BY <1>2, <1>3, <1>4, <1>5 DEF At, m, n
=============================================================================
