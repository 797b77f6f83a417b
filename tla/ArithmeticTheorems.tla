-------------------------- MODULE ArithmeticTheorems ---------------------------
(***************************************************************************)
(* Sums of integers over finite sets and over sequences: what the operator *)
(* SumFunctionOnSet of the community modules, which adds in an order it    *)
(* does not say, does when an element is added, removed or changed.  The   *)
(* models count bytes and packets with it.  And remainders: where an index *)
(* goes that runs past the end of a ring.                                  *)
(*                                                                         *)
(* Induction is over a set of numbers: its least element, which exists     *)
(* because < is well-founded on the naturals, is the smallest              *)
(* counterexample.                                                         *)
(***************************************************************************)
EXTENDS Integers, Sequences, FiniteSets, Functions, Folds, FiniteSetTheorems,
        WellFoundedInduction, TLAPS

-----------------------------------------------------------------------------
(* Induction.                                                              *)

\* A set of naturals that is not empty has a least element.
LEMMA LeastNatural ==
    ASSUME NEW T \in SUBSET Nat, T # {}
    PROVE  \E m \in T : \A k \in T : m <= k
<1>1. IsWellFoundedOn(OpToRel(<, Nat), Nat)
    BY NatLessThanWellFounded
<1>2. \E x \in T : \A y \in T : ~ (<<y, x>> \in OpToRel(<, Nat))
    BY <1>1, WFMin
<1>3. PICK x \in T : \A y \in T : ~ (<<y, x>> \in OpToRel(<, Nat))
    BY <1>2
<1>4. ASSUME NEW y \in T PROVE x <= y
  <2>1. <<y, x>> \in Nat \X Nat
      OBVIOUS
  <2>2. y < x => <<y, x>> \in OpToRel(<, Nat)
      BY <2>1 DEF OpToRel
  <2>3. ~ (y < x)
      BY <1>3, <2>2
  <2>4. x \in Nat /\ y \in Nat
      OBVIOUS
  <2> QED
      BY <2>3, <2>4
<1> QED
    BY <1>4

\* A set that contains 0 and with a number the next one contains all.
LEMMA NaturalsByInduction ==
    ASSUME NEW T, 0 \in T, \A n \in Nat : n \in T => n + 1 \in T
    PROVE  \A n \in Nat : n \in T
<1> DEFINE Rest == {n \in Nat : n \notin T}
<1>1. SUFFICES ASSUME Rest # {} PROVE FALSE
    OBVIOUS
<1>2. PICK m \in Rest : \A k \in Rest : m <= k
    BY <1>1, LeastNatural
<1>3. m \in Nat /\ m # 0 /\ m - 1 \in Nat
    BY <1>2
<1>4. m - 1 \in T
    BY <1>2, <1>3
<1>5. (m - 1) + 1 \in T
    BY <1>3, <1>4
<1> QED
    BY <1>2, <1>3, <1>5

\* A step done for one number after the other.
Iterates(X, x, m, F) ==
    \E g \in [0 .. m -> X] : g[0] = x /\ \A n \in 0 .. m - 1 : g[n + 1] = F[g[n]][n]

LEMMA StepByStep ==
    ASSUME NEW X, NEW x \in X, NEW m \in Nat, NEW F \in [X -> [0 .. m - 1 -> X]]
    PROVE  Iterates(X, x, m, F)
<1> DEFINE Goes(g, k) == g[0] = x /\ \A n \in 0 .. k - 1 : g[n + 1] = F[g[n]][n]
           T == {k \in Nat : k <= m => \E g \in [0 .. k -> X] : Goes(g, k)}
<1>1. 0 \in T
  <2> DEFINE g == [n \in 0 .. 0 |-> x]
  <2>1. g \in [0 .. 0 -> X] /\ Goes(g, 0)
      OBVIOUS
  <2> QED
      BY <2>1
<1>2. ASSUME NEW k \in Nat, k \in T PROVE k + 1 \in T
  <2>1. ASSUME k + 1 <= m PROVE \E g \in [0 .. k + 1 -> X] : Goes(g, k + 1)
    <3>1. k <= m /\ k \in 0 .. m - 1
        BY <2>1
    <3>2. PICK h \in [0 .. k -> X] : Goes(h, k)
        BY <1>2, <3>1
    <3> DEFINE g == [n \in 0 .. k + 1 |-> IF n = k + 1 THEN F[h[k]][k] ELSE h[n]]
    <3>3. h[k] \in X /\ F[h[k]][k] \in X
      <4>1. h[k] \in X
          BY <3>2
      <4>2. F[h[k]] \in [0 .. m - 1 -> X]
          BY <4>1
      <4> QED
          BY <3>1, <4>1, <4>2
    <3>4. \A n \in 0 .. k : g[n] = h[n] /\ n \in 0 .. k + 1 /\ n # k + 1
        OBVIOUS
    <3>5. g[k + 1] = F[h[k]][k]
        OBVIOUS
    <3>6. g \in [0 .. k + 1 -> X]
      <4>1. \A n \in 0 .. k + 1 : n = k + 1 \/ n \in 0 .. k
          OBVIOUS
      <4> QED
          BY <3>2, <3>3, <4>1
    <3> HIDE DEF g
    <3>7. Goes(g, k + 1)
      <4>1. g[0] = x
          BY <3>2, <3>4
      <4>2. ASSUME NEW n \in 0 .. (k + 1) - 1 PROVE g[n + 1] = F[g[n]][n]
        <5>1. n \in 0 .. k /\ g[n] = h[n]
            BY <3>4
        <5>2. CASE n = k
            BY <3>5, <5>1, <5>2
        <5>3. CASE n # k
          <6>1. n \in 0 .. k - 1 /\ n + 1 \in 0 .. k
              BY <5>1, <5>3
          <6>2. h[n + 1] = F[h[n]][n]
              BY <3>2, <6>1
          <6> QED
              BY <3>4, <5>1, <6>1, <6>2
        <5> QED
            BY <5>2, <5>3
      <4> QED
          BY <4>1, <4>2
    <3> QED
        BY <3>6, <3>7
  <2> HIDE DEF Goes
  <2> QED
      BY <2>1
<1> HIDE DEF T
<1>3. m \in T
    BY <1>1, <1>2, NaturalsByInduction
<1> QED
    BY <1>3 DEF T, Iterates

-----------------------------------------------------------------------------
(* Remainders.                                                             *)

LEMMA ModBelow == ASSUME NEW n \in Nat \ {0}, NEW a \in Nat, a < n PROVE a % n = a
OBVIOUS

LEMMA ModAbove ==
    ASSUME NEW n \in Nat \ {0}, NEW a \in Nat, n <= a, a < 2 * n PROVE a % n = a - n
OBVIOUS

\* An index that has run past the end starts again.
Wrap(k, n) == IF k < n THEN k ELSE k - n

LEMMA SlotOf ==
    ASSUME NEW n \in Nat \ {0}, NEW k \in Nat, k < 2 * n
    PROVE  k % n = Wrap(k, n) /\ Wrap(k, n) \in 0 .. n - 1
<1>1. CASE k < n
    BY <1>1, ModBelow DEF Wrap
<1>2. CASE ~(k < n)
  <2>1. n <= k
      BY <1>2
  <2>2. k % n = k - n
      BY <2>1, ModAbove
  <2> QED
      BY <1>2, <2>2 DEF Wrap
<1> QED
    BY <1>1, <1>2

-----------------------------------------------------------------------------
(* The recursion behind the sum.                                           *)

OneOf(s) == CHOOSE x \in s : TRUE

\* g is the sum of f over each set of D.
Adds(f, g, D) ==
    \A s \in D : g[s] = IF s = {} THEN 0 ELSE f[OneOf(s)] + g[s \ {OneOf(s)}]

Partial(f, S) ==
    CHOOSE g : g = [s \in SUBSET S |-> IF s = {} THEN 0 ELSE f[OneOf(s)] + g[s \ {OneOf(s)}]]

Ints(f, S) == \A x \in S : f[x] \in Int

LEMMA SumUnfolds ==
    ASSUME NEW f, NEW S
    PROVE  SumFunctionOnSet(f, S) = Partial(f, S)[S]
BY DEF SumFunctionOnSet, FoldFunctionOnSet, MapThenFoldSet, Partial, OneOf

\* The subsets with at most n elements.
Small(S, n) == {s \in SUBSET S : Cardinality(s) <= n}

LEMMA SmallSets ==
    ASSUME NEW S, IsFiniteSet(S), NEW s \in SUBSET S
    PROVE  /\ IsFiniteSet(s) /\ Cardinality(s) \in Nat /\ Cardinality(s) <= Cardinality(S)
           /\ s # {} => /\ OneOf(s) \in s /\ s \ {OneOf(s)} \in SUBSET S
                        /\ Cardinality(s \ {OneOf(s)}) = Cardinality(s) - 1
           /\ \A x \in s : Cardinality(s \ {x}) = Cardinality(s) - 1
           /\ Cardinality(s) = 0 <=> s = {}
<1>1. IsFiniteSet(s) /\ Cardinality(s) <= Cardinality(S)
    BY FS_Subset
<1>2. Cardinality(s) \in Nat
    BY <1>1, FS_CardinalityType
<1>3. \A x \in s : Cardinality(s \ {x}) = Cardinality(s) - 1
    BY <1>1, FS_RemoveElement
<1>4. s # {} => OneOf(s) \in s
    BY DEF OneOf
<1>5. Cardinality(s) = 0 <=> s = {}
    BY <1>1, FS_EmptySet
<1> QED
    BY <1>1, <1>2, <1>3, <1>4, <1>5

\* The partial sums exist, whatever element is taken first.
LEMMA PartialExists ==
    ASSUME NEW f, NEW S, IsFiniteSet(S), Ints(f, S)
    PROVE  \E g \in [SUBSET S -> Int] : Adds(f, g, SUBSET S)
<1> DEFINE T == {n \in Nat : \E g \in [Small(S, n) -> Int] : Adds(f, g, Small(S, n))}
<1>1. 0 \in T
  <2> DEFINE g == [s \in Small(S, 0) |-> 0]
  <2>1. g \in [Small(S, 0) -> Int]
      OBVIOUS
  <2>2. ASSUME NEW s \in Small(S, 0) PROVE s = {}
    <3>1. s \in SUBSET S /\ Cardinality(s) <= 0
        BY DEF Small
    <3>2. Cardinality(s) \in Nat /\ (Cardinality(s) = 0 <=> s = {})
        BY <3>1, SmallSets
    <3> QED
        BY <3>1, <3>2
  <2>3. Adds(f, g, Small(S, 0))
      BY <2>2 DEF Adds
  <2> QED
      BY <2>1, <2>3
<1>2. ASSUME NEW n \in Nat, n \in T PROVE n + 1 \in T
  <2>1. PICK h \in [Small(S, n) -> Int] : Adds(f, h, Small(S, n))
      BY <1>2
  <2> DEFINE g == [s \in Small(S, n + 1) |->
                      IF s \in Small(S, n) THEN h[s] ELSE f[OneOf(s)] + h[s \ {OneOf(s)}]]
  <2>2. ASSUME NEW s \in Small(S, n + 1), s \notin Small(S, n)
        PROVE  /\ s # {} /\ OneOf(s) \in S /\ s \ {OneOf(s)} \in Small(S, n)
    <3>1. s \in SUBSET S /\ Cardinality(s) <= n + 1 /\ ~ (Cardinality(s) <= n)
        BY <2>2 DEF Small
    <3>2. Cardinality(s) \in Nat /\ (Cardinality(s) = 0 <=> s = {})
        BY <3>1, SmallSets
    <3>3. s # {}
        BY <3>1, <3>2
    <3>4. OneOf(s) \in s /\ Cardinality(s \ {OneOf(s)}) = Cardinality(s) - 1
        BY <3>1, <3>3, SmallSets
    <3>5. Cardinality(s) - 1 <= n
        BY <3>1, <3>2
    <3> QED
        BY <3>1, <3>3, <3>4, <3>5 DEF Small
  <2>3. \A s \in Small(S, n) : s \in Small(S, n + 1)
    <3>1. ASSUME NEW s \in Small(S, n) PROVE s \in Small(S, n + 1)
      <4>1. s \in SUBSET S /\ Cardinality(s) <= n
          BY DEF Small
      <4>2. Cardinality(s) \in Nat
          BY <4>1, SmallSets
      <4> QED
          BY <4>1, <4>2 DEF Small
    <3> QED
        BY <3>1
  <2>4. g \in [Small(S, n + 1) -> Int]
      BY <2>2 DEF Ints
  <2>5. ASSUME NEW s \in Small(S, n + 1)
        PROVE  g[s] = IF s = {} THEN 0 ELSE f[OneOf(s)] + g[s \ {OneOf(s)}]
    <3>1. CASE s \in Small(S, n)
      <4>1. h[s] = IF s = {} THEN 0 ELSE f[OneOf(s)] + h[s \ {OneOf(s)}]
          BY <2>1, <3>1 DEF Adds
      <4>2. s # {} => s \ {OneOf(s)} \in Small(S, n)
        <5>1. s \in SUBSET S /\ Cardinality(s) <= n
            BY <3>1 DEF Small
        <5>2. Cardinality(s) \in Nat
            BY <5>1, SmallSets
        <5>3. s # {} => s \ {OneOf(s)} \in SUBSET S /\ Cardinality(s \ {OneOf(s)}) = Cardinality(s) - 1
            BY <5>1, SmallSets
        <5>4. Cardinality(s) - 1 <= n
            BY <5>1, <5>2
        <5> QED
            BY <5>3, <5>4 DEF Small
      <4> QED
          BY <2>3, <3>1, <4>1, <4>2
    <3>2. CASE s \notin Small(S, n)
      <4>1. s # {} /\ s \ {OneOf(s)} \in Small(S, n)
          BY <2>2, <3>2
      <4> QED
          BY <2>3, <3>2, <4>1
    <3> QED
        BY <3>1, <3>2
  <2>6. Adds(f, g, Small(S, n + 1))
      BY <2>5 DEF Adds
  <2> HIDE DEF g
  <2> QED
      BY <2>4, <2>6
<1> HIDE DEF T
<1>3. \A n \in Nat : n \in T
    BY <1>1, <1>2, NaturalsByInduction
<1>4. Cardinality(S) \in Nat
    BY FS_CardinalityType
<1>5. Small(S, Cardinality(S)) = SUBSET S
    BY SmallSets DEF Small
<1> QED
    BY <1>3, <1>4, <1>5 DEF T

Agree(f, g, S) == \A x \in S : f[x] = g[x]

\* Functions that agree on S have the same partial sums there.
LEMMA AddsAgree ==
    ASSUME NEW f, NEW g, NEW S, IsFiniteSet(S), Agree(f, g, S),
           NEW C, SUBSET S \subseteq C, NEW h, Adds(f, h, C),
           NEW D, SUBSET S \subseteq D, NEW k, Adds(g, k, D)
    PROVE  \A s \in SUBSET S : h[s] = k[s]
<1> DEFINE T == {n \in Nat : \A s \in Small(S, n) : h[s] = k[s]}
<1>1. 0 \in T
  <2>1. ASSUME NEW s \in Small(S, 0) PROVE h[s] = k[s]
    <3>1. s \in SUBSET S /\ Cardinality(s) <= 0
        BY DEF Small
    <3>2. Cardinality(s) \in Nat /\ (Cardinality(s) = 0 <=> s = {})
        BY <3>1, SmallSets
    <3>3. s = {} /\ s \in C /\ s \in D
        BY <3>1, <3>2
    <3> QED
        BY <3>3 DEF Adds
  <2> QED
      BY <2>1
<1>2. ASSUME NEW n \in Nat, n \in T PROVE n + 1 \in T
  <2>1. ASSUME NEW s \in Small(S, n + 1) PROVE h[s] = k[s]
    <3>1. s \in SUBSET S /\ Cardinality(s) <= n + 1
        BY DEF Small
    <3>2. s \in C /\ s \in D
        BY <3>1
    <3>3. CASE s = {}
        BY <3>2, <3>3 DEF Adds
    <3>4. CASE s # {}
      <4>1. /\ Cardinality(s) \in Nat /\ OneOf(s) \in s /\ s \ {OneOf(s)} \in SUBSET S
            /\ Cardinality(s \ {OneOf(s)}) = Cardinality(s) - 1
          BY <3>1, <3>4, SmallSets
      <4>2. Cardinality(s) - 1 <= n
          BY <3>1, <4>1
      <4>3. s \ {OneOf(s)} \in Small(S, n)
          BY <4>1, <4>2 DEF Small
      <4>4. h[s \ {OneOf(s)}] = k[s \ {OneOf(s)}]
          BY <1>2, <4>3
      <4>5. f[OneOf(s)] = g[OneOf(s)]
          BY <3>1, <4>1 DEF Agree
      <4> QED
          BY <3>2, <3>4, <4>4, <4>5 DEF Adds
    <3> QED
        BY <3>3, <3>4
  <2> QED
      BY <2>1
<1> HIDE DEF T
<1>3. \A n \in Nat : n \in T
    BY <1>1, <1>2, NaturalsByInduction
<1>4. ASSUME NEW s \in SUBSET S PROVE h[s] = k[s]
  <2>1. Cardinality(S) \in Nat /\ Cardinality(s) <= Cardinality(S)
      BY SmallSets, FS_CardinalityType
  <2>2. s \in Small(S, Cardinality(S))
      BY <2>1 DEF Small
  <2> QED
      BY <1>3, <2>1, <2>2 DEF T
<1> QED
    BY <1>4

\* A function has one partial sum on every set.
LEMMA AddsUnique ==
    ASSUME NEW f, NEW S, IsFiniteSet(S),
           NEW C, SUBSET S \subseteq C, NEW h, Adds(f, h, C),
           NEW D, SUBSET S \subseteq D, NEW k, Adds(f, k, D)
    PROVE  \A s \in SUBSET S : h[s] = k[s]
<1>1. Agree(f, f, S)
    BY DEF Agree
<1> QED
    BY <1>1, AddsAgree

\* The sum of f over any subset of S, as a function.
LEMMA PartialAdds ==
    ASSUME NEW f, NEW S, IsFiniteSet(S), Ints(f, S)
    PROVE  Partial(f, S) \in [SUBSET S -> Int] /\ Adds(f, Partial(f, S), SUBSET S)
<1> DEFINE Is(g) == g = [s \in SUBSET S |->
                           IF s = {} THEN 0 ELSE f[OneOf(s)] + g[s \ {OneOf(s)}]]
<1>1. PICK h \in [SUBSET S -> Int] : Adds(f, h, SUBSET S)
    BY PartialExists
<1>2. Is(h)
    BY <1>1 DEF Adds
<1>3. Partial(f, S) = CHOOSE g : Is(g)
    BY DEF Partial
<1> HIDE DEF Is
<1>4. Is(Partial(f, S))
    BY <1>2, <1>3
<1> DEFINE p == Partial(f, S)
<1>5. p = [s \in SUBSET S |-> IF s = {} THEN 0 ELSE f[OneOf(s)] + p[s \ {OneOf(s)}]]
    BY <1>4 DEF Is
<1> HIDE DEF p
<1>6. Adds(f, p, SUBSET S)
    BY <1>5 DEF Adds
<1> DEFINE D == SUBSET S
<1>d. SUBSET S \subseteq D /\ Adds(f, h, D) /\ Adds(f, p, D)
    BY <1>1, <1>6
<1> HIDE DEF D
<1>7. \A s \in SUBSET S : h[s] = p[s]
    BY <1>d, AddsUnique
<1>8. p \in [SUBSET S -> Int]
  <2>1. DOMAIN p = SUBSET S /\ p = [s \in DOMAIN p |-> p[s]]
      BY <1>5
  <2> QED
      BY <1>1, <1>7, <2>1
<1> QED
    BY <1>6, <1>8 DEF p

\* A sum over S is the partial sum of any larger set.
LEMMA SumIsPartial ==
    ASSUME NEW f, NEW S, IsFiniteSet(S), Ints(f, S), NEW s \in SUBSET S
    PROVE  SumFunctionOnSet(f, s) = Partial(f, S)[s]
<1>1. IsFiniteSet(s) /\ Ints(f, s)
    BY SmallSets DEF Ints
<1>2. Adds(f, Partial(f, s), SUBSET s) /\ Adds(f, Partial(f, S), SUBSET S)
    BY <1>1, PartialAdds
<1> DEFINE C == SUBSET s
           D == SUBSET S
           h == Partial(f, s)
           k == Partial(f, S)
<1>3. /\ SUBSET s \subseteq C /\ SUBSET s \subseteq D
      /\ Adds(f, h, C) /\ Adds(f, k, D)
    BY <1>2
<1> HIDE DEF C, D, h, k
<1>4. \A t \in SUBSET s : h[t] = k[t]
    BY <1>1, <1>3, AddsUnique
<1>5. h[s] = k[s]
    BY <1>4
<1> QED
    BY <1>5, SumUnfolds DEF h, k

-----------------------------------------------------------------------------
(* The laws of sums.                                                       *)

\* A sum of integers is an integer; the sum of nothing is 0.
LEMMA SumType ==
    ASSUME NEW f, NEW S, IsFiniteSet(S), Ints(f, S)
    PROVE  /\ SumFunctionOnSet(f, S) \in Int
           /\ S = {} => SumFunctionOnSet(f, S) = 0
<1>1. Partial(f, S) \in [SUBSET S -> Int] /\ Adds(f, Partial(f, S), SUBSET S)
    BY PartialAdds
<1>2. S \in SUBSET S
    OBVIOUS
<1> QED
    BY <1>1, <1>2, SumUnfolds DEF Adds

\* Only the values on S matter.
LEMMA SumSame ==
    ASSUME NEW f, NEW g, NEW S, IsFiniteSet(S), Ints(f, S), \A x \in S : f[x] = g[x]
    PROVE  SumFunctionOnSet(f, S) = SumFunctionOnSet(g, S)
<1>1. Ints(g, S)
    BY DEF Ints
<1>2. Adds(f, Partial(f, S), SUBSET S) /\ Adds(g, Partial(g, S), SUBSET S)
    BY <1>1, PartialAdds
<1> DEFINE D == SUBSET S
           h == Partial(f, S)
           k == Partial(g, S)
<1>a. Agree(f, g, S) /\ SUBSET S \subseteq D /\ Adds(f, h, D) /\ Adds(g, k, D)
    BY <1>2 DEF Agree
<1> HIDE DEF D, h, k
<1>3. h[S] = k[S]
    BY <1>a, AddsAgree
<1> QED
    BY <1>3, SumUnfolds DEF h, k

\* OneOf element of S can be taken out, not only the one the recursion takes.
LEMMA SumRemove ==
    ASSUME NEW f, NEW S, IsFiniteSet(S), Ints(f, S)
    PROVE  \A x \in S : SumFunctionOnSet(f, S) = f[x] + SumFunctionOnSet(f, S \ {x})
<1> DEFINE p == Partial(f, S)
<1>1. p \in [SUBSET S -> Int] /\ Adds(f, p, SUBSET S)
    BY PartialAdds
<1>p. p = Partial(f, S)
    OBVIOUS
<1> HIDE DEF p
<1> DEFINE T == {n \in Nat : \A s \in Small(S, n) : \A x \in s : p[s] = f[x] + p[s \ {x}]}
<1>2. 0 \in T
  <2>1. ASSUME NEW s \in Small(S, 0) PROVE s = {}
    <3>1. s \in SUBSET S /\ Cardinality(s) <= 0
        BY DEF Small
    <3>2. Cardinality(s) \in Nat /\ (Cardinality(s) = 0 <=> s = {})
        BY <3>1, SmallSets
    <3> QED
        BY <3>1, <3>2
  <2> QED
      BY <2>1
<1>3. ASSUME NEW n \in Nat, n \in T PROVE n + 1 \in T
  <2>1. ASSUME NEW s \in Small(S, n + 1), NEW x \in s PROVE p[s] = f[x] + p[s \ {x}]
    <3> DEFINE y == OneOf(s)
    <3>1. s \in SUBSET S /\ Cardinality(s) <= n + 1 /\ s # {}
        BY DEF Small
    <3>c. \A z \in s : Cardinality(s \ {z}) = Cardinality(s) - 1
        BY <3>1, SmallSets
    <3>d. Cardinality(s) \in Nat
        BY <3>1, SmallSets
    <3>e. y \in s
        BY <3>1 DEF OneOf
    <3>2. /\ Cardinality(s) \in Nat /\ y \in s
          /\ s \ {x} \in SUBSET S /\ Cardinality(s \ {x}) = Cardinality(s) - 1
          /\ s \ {y} \in SUBSET S /\ Cardinality(s \ {y}) = Cardinality(s) - 1
        BY <3>1, <3>c, <3>d, <3>e
    <3>3. p[s] = f[y] + p[s \ {y}]
        BY <1>1, <3>1 DEF Adds
    <3> HIDE DEF y
    <3>4. CASE x = y
        BY <3>3, <3>4
    <3>5. CASE x # y
      <4>1. Cardinality(s) - 1 <= n
          BY <3>1, <3>2
      <4>2. s \ {x} \in Small(S, n) /\ s \ {y} \in Small(S, n)
          BY <3>2, <4>1 DEF Small
      <4>3. y \in s \ {x} /\ x \in s \ {y}
          BY <3>2, <3>5
      <4>4. p[s \ {x}] = f[y] + p[(s \ {x}) \ {y}] /\ p[s \ {y}] = f[x] + p[(s \ {y}) \ {x}]
          BY <1>3, <4>2, <4>3
      <4>5. (s \ {x}) \ {y} = (s \ {y}) \ {x} /\ (s \ {y}) \ {x} \in SUBSET S
          BY <3>1
      <4>6. f[x] \in Int /\ f[y] \in Int
          BY <3>1, <3>2 DEF Ints
      <4>7. p[(s \ {y}) \ {x}] \in Int
          BY <1>1, <4>5
      <4> DEFINE z == p[(s \ {y}) \ {x}]
      <4>8. p[s] = f[y] + (f[x] + z) /\ p[s \ {x}] = f[y] + z /\ z \in Int
          BY <3>3, <4>4, <4>5, <4>7
      <4> HIDE DEF z
      <4> QED
          BY <4>6, <4>8
    <3> QED
        BY <3>4, <3>5
  <2> QED
      BY <2>1
<1> HIDE DEF T
<1>4. \A n \in Nat : n \in T
    BY <1>2, <1>3, NaturalsByInduction
<1>5. Cardinality(S) \in Nat /\ S \in Small(S, Cardinality(S))
    BY FS_CardinalityType DEF Small
<1>6. ASSUME NEW x \in S PROVE p[S] = f[x] + p[S \ {x}]
    BY <1>4, <1>5 DEF T
<1>7. ASSUME NEW x \in S PROVE SumFunctionOnSet(f, S \ {x}) = p[S \ {x}]
    BY <1>p, SumIsPartial
<1> QED
    BY <1>p, <1>6, <1>7, SumUnfolds

\* A set of subsets that contains the empty one and grows element by element
\* contains the whole of a finite set.
LEMMA FiniteSetsByInduction ==
    ASSUME NEW S, IsFiniteSet(S), NEW T, {} \in T,
           \A s \in SUBSET S : \A x \in S \ s : s \in T => s \cup {x} \in T
    PROVE  S \in T
<1> DEFINE N == {n \in Nat : \A s \in Small(S, n) : s \in T}
<1>1. 0 \in N
  <2>1. ASSUME NEW s \in Small(S, 0) PROVE s = {}
    <3>1. s \in SUBSET S /\ Cardinality(s) <= 0
        BY DEF Small
    <3>2. Cardinality(s) \in Nat /\ (Cardinality(s) = 0 <=> s = {})
        BY <3>1, SmallSets
    <3> QED
        BY <3>1, <3>2
  <2> QED
      BY <2>1
<1>2. ASSUME NEW n \in Nat, n \in N PROVE n + 1 \in N
  <2>1. ASSUME NEW s \in Small(S, n + 1) PROVE s \in T
    <3>1. s \in SUBSET S /\ Cardinality(s) <= n + 1
        BY DEF Small
    <3>2. CASE s # {}
      <4>1. /\ Cardinality(s) \in Nat /\ OneOf(s) \in s /\ s \ {OneOf(s)} \in SUBSET S
            /\ Cardinality(s \ {OneOf(s)}) = Cardinality(s) - 1
          BY <3>1, <3>2, SmallSets
      <4>2. Cardinality(s) - 1 <= n
          BY <3>1, <4>1
      <4>3. s \ {OneOf(s)} \in T
          BY <1>2, <4>1, <4>2 DEF Small
      <4>4. (s \ {OneOf(s)}) \cup {OneOf(s)} \in T
          BY <3>1, <4>1, <4>3
      <4>5. (s \ {OneOf(s)}) \cup {OneOf(s)} = s
          BY <4>1
      <4> QED
          BY <4>4, <4>5
    <3> QED
        BY <3>2
  <2> QED
      BY <2>1
<1> HIDE DEF N
<1>3. \A n \in Nat : n \in N
    BY <1>1, <1>2, NaturalsByInduction
<1>4. Cardinality(S) \in Nat /\ S \in Small(S, Cardinality(S))
    BY FS_CardinalityType DEF Small
<1> QED
    BY <1>3, <1>4 DEF N

\* One element more.
LEMMA SumInsert ==
    ASSUME NEW f, NEW S, IsFiniteSet(S), Ints(f, S), NEW x, x \notin S, f[x] \in Int
    PROVE  SumFunctionOnSet(f, S \cup {x}) = f[x] + SumFunctionOnSet(f, S)
<1> DEFINE U == S \cup {x}
<1>1. IsFiniteSet(U) /\ Ints(f, U) /\ x \in U /\ U \ {x} = S
    BY FS_AddElement DEF Ints
<1> HIDE DEF U
<1>2. SumFunctionOnSet(f, U) = f[x] + SumFunctionOnSet(f, U \ {x})
    BY <1>1, SumRemove
<1> QED
    BY <1>1, <1>2 DEF U

\* One value changes.
LEMMA SumChange ==
    ASSUME NEW f, NEW g, NEW S, IsFiniteSet(S), Ints(f, S), Ints(g, S), NEW x \in S,
           Agree(f, g, S \ {x})
    PROVE  SumFunctionOnSet(g, S) = SumFunctionOnSet(f, S) - f[x] + g[x]
<1> DEFINE R == S \ {x}
<1>1. IsFiniteSet(R) /\ Ints(f, R) /\ \A y \in R : f[y] = g[y]
    BY FS_RemoveElement DEF Ints, Agree
<1>2. SumFunctionOnSet(f, R) = SumFunctionOnSet(g, R) /\ SumFunctionOnSet(f, R) \in Int
    BY <1>1, SumSame, SumType
<1>3. SumFunctionOnSet(f, S) = f[x] + SumFunctionOnSet(f, R)
    BY SumRemove
<1>4. SumFunctionOnSet(g, S) = g[x] + SumFunctionOnSet(g, R)
    BY SumRemove
<1>5. f[x] \in Int /\ g[x] \in Int
    BY DEF Ints
<1> HIDE DEF R
<1> QED
    BY <1>2, <1>3, <1>4, <1>5

\* A sum grows with its values.
LEMMA SumMonotone ==
    ASSUME NEW f, NEW g, NEW S, IsFiniteSet(S), Ints(f, S), Ints(g, S),
           \A x \in S : f[x] <= g[x]
    PROVE  SumFunctionOnSet(f, S) <= SumFunctionOnSet(g, S)
<1> DEFINE T == {s \in SUBSET S : SumFunctionOnSet(f, s) <= SumFunctionOnSet(g, s)}
<1>1. {} \in T
  <2>1. IsFiniteSet({}) /\ Ints(f, {}) /\ Ints(g, {})
      BY FS_EmptySet DEF Ints
  <2>2. SumFunctionOnSet(f, {}) = 0 /\ SumFunctionOnSet(g, {}) = 0
      BY <2>1, SumType
  <2> QED
      BY <2>2
<1>2. ASSUME NEW s \in SUBSET S, NEW x \in S \ s, s \in T PROVE s \cup {x} \in T
  <2>1. IsFiniteSet(s) /\ Ints(f, s) /\ Ints(g, s) /\ f[x] \in Int /\ g[x] \in Int
      BY SmallSets DEF Ints
  <2>2. SumFunctionOnSet(f, s) \in Int /\ SumFunctionOnSet(g, s) \in Int
      BY <2>1, SumType
  <2>3. /\ SumFunctionOnSet(f, s \cup {x}) = f[x] + SumFunctionOnSet(f, s)
        /\ SumFunctionOnSet(g, s \cup {x}) = g[x] + SumFunctionOnSet(g, s)
      BY <2>1, SumInsert
  <2>4. f[x] <= g[x] /\ SumFunctionOnSet(f, s) <= SumFunctionOnSet(g, s)
      BY <1>2
  <2>5. f[x] + SumFunctionOnSet(f, s) <= g[x] + SumFunctionOnSet(g, s)
      BY <2>1, <2>2, <2>4
  <2> QED
      BY <2>3, <2>5
<1> HIDE DEF T
<1>3. S \in T
    BY <1>1, <1>2, FiniteSetsByInduction
<1> QED
    BY <1>3 DEF T

\* A sum of what is not negative is not negative, and at least any of its parts.
LEMMA SumNatural ==
    ASSUME NEW f, NEW S, IsFiniteSet(S), \A x \in S : f[x] \in Nat
    PROVE  /\ SumFunctionOnSet(f, S) \in Nat
           /\ \A x \in S : f[x] <= SumFunctionOnSet(f, S)
<1> DEFINE T == {s \in SUBSET S : SumFunctionOnSet(f, s) \in Nat}
<1>1. {} \in T
  <2>1. IsFiniteSet({}) /\ Ints(f, {})
      BY FS_EmptySet DEF Ints
  <2>2. SumFunctionOnSet(f, {}) = 0
      BY <2>1, SumType
  <2> QED
      BY <2>2
<1>2. ASSUME NEW s \in SUBSET S, NEW x \in S \ s, s \in T PROVE s \cup {x} \in T
  <2>n. f[x] \in Nat /\ \A y \in s : f[y] \in Nat
      OBVIOUS
  <2>f. IsFiniteSet(s)
      BY SmallSets
  <2>1. IsFiniteSet(s) /\ Ints(f, s) /\ f[x] \in Int /\ f[x] \in Nat
      BY <2>n, <2>f DEF Ints
  <2>2. SumFunctionOnSet(f, s \cup {x}) = f[x] + SumFunctionOnSet(f, s)
      BY <2>1, SumInsert
  <2>3. SumFunctionOnSet(f, s) \in Nat
      BY <1>2
  <2> QED
      BY <2>1, <2>2, <2>3
<1>3. ASSUME NEW s \in SUBSET S PROVE s \in T
  <2>1. IsFiniteSet(s)
      BY SmallSets
  <2>2. \A t \in SUBSET s : \A x \in s \ t : t \in T => t \cup {x} \in T
      BY <1>2
  <2> HIDE DEF T
  <2> QED
      BY <1>1, <2>1, <2>2, FiniteSetsByInduction
<1>4. ASSUME NEW x \in S PROVE f[x] <= SumFunctionOnSet(f, S)
  <2>1. Ints(f, S) /\ f[x] \in Nat
      BY DEF Ints
  <2>2. SumFunctionOnSet(f, S) = f[x] + SumFunctionOnSet(f, S \ {x})
      BY <2>1, SumRemove
  <2>3. SumFunctionOnSet(f, S \ {x}) \in Nat
      BY <1>3
  <2> QED
      BY <2>1, <2>2, <2>3
<1> QED
    BY <1>3, <1>4

\* A sum of zeros.
LEMMA SumZero ==
    ASSUME NEW f, NEW S, IsFiniteSet(S), \A x \in S : f[x] = 0
    PROVE  SumFunctionOnSet(f, S) = 0
<1> DEFINE T == {s \in SUBSET S : SumFunctionOnSet(f, s) = 0}
<1>1. {} \in T
  <2>1. IsFiniteSet({}) /\ Ints(f, {})
      BY FS_EmptySet DEF Ints
  <2> QED
      BY <2>1, SumType
<1>2. ASSUME NEW s \in SUBSET S, NEW x \in S \ s, s \in T PROVE s \cup {x} \in T
  <2>1. IsFiniteSet(s)
      BY SmallSets
  <2>2. Ints(f, s) /\ f[x] = 0 /\ f[x] \in Int
      BY DEF Ints
  <2>3. SumFunctionOnSet(f, s \cup {x}) = f[x] + SumFunctionOnSet(f, s)
      BY <2>1, <2>2, SumInsert
  <2>4. SumFunctionOnSet(f, s) = 0
      BY <1>2
  <2> QED
      BY <2>2, <2>3, <2>4
<1> HIDE DEF T
<1>3. S \in T
    BY <1>1, <1>2, FiniteSetsByInduction
<1> QED
    BY <1>3 DEF T

-----------------------------------------------------------------------------
(* Sums over the items of a sequence, by their places.                     *)

\* One place more.
LEMMA SumLast ==
    ASSUME NEW n \in Nat, NEW f, Ints(f, 1 .. n + 1)
    PROVE  SumFunctionOnSet(f, 1 .. n + 1) = SumFunctionOnSet(f, 1 .. n) + f[n + 1]
<1>1. IsFiniteSet(1 .. n + 1) /\ IsFiniteSet(1 .. n)
    BY FS_Interval
<1>2. n + 1 \in 1 .. n + 1 /\ (1 .. n + 1) \ {n + 1} = 1 .. n
    OBVIOUS
<1>3. Ints(f, 1 .. n) /\ f[n + 1] \in Int
    BY DEF Ints
<1>4. SumFunctionOnSet(f, 1 .. n + 1) = f[n + 1] + SumFunctionOnSet(f, (1 .. n + 1) \ {n + 1})
    BY <1>1, <1>2, SumRemove
<1>5. SumFunctionOnSet(f, 1 .. n) \in Int
    BY <1>1, <1>3, SumType
<1>6. SumFunctionOnSet(f, 1 .. n + 1) = f[n + 1] + SumFunctionOnSet(f, 1 .. n)
    BY <1>2, <1>4
<1> DEFINE a == SumFunctionOnSet(f, 1 .. n)
<1>7. f[n + 1] + a = a + f[n + 1]
    BY <1>3, <1>5
<1> QED
    BY <1>6, <1>7

\* The first place is left out, and the others move up by one.
LEMMA SumFirst ==
    ASSUME NEW n \in Nat, NEW f, Ints(f, 1 .. n + 1), NEW g,
           \A i \in 1 .. n : g[i] = f[i + 1]
    PROVE  SumFunctionOnSet(f, 1 .. n + 1) = f[1] + SumFunctionOnSet(g, 1 .. n)
<1> DEFINE T == {m \in Nat : m <= n =>
                     SumFunctionOnSet(f, 1 .. m + 1) = f[1] + SumFunctionOnSet(g, 1 .. m)}
<1>a. \A i \in 1 .. n + 1 : f[i] \in Int
    BY DEF Ints
<1>1. 0 \in T
  <2>1. IsFiniteSet({}) /\ Ints(f, {}) /\ Ints(g, {})
      BY FS_EmptySet DEF Ints
  <2>2. SumFunctionOnSet(f, {}) = 0 /\ SumFunctionOnSet(g, {}) = 0
      BY <2>1, SumType
  <2>3. Ints(f, 1 .. 0 + 1) /\ f[1] \in Int
      BY <1>a DEF Ints
  <2>4. SumFunctionOnSet(f, 1 .. 0 + 1) = SumFunctionOnSet(f, 1 .. 0) + f[0 + 1]
      BY <2>3, SumLast
  <2>5. 1 .. 0 = {}
      OBVIOUS
  <2> QED
      BY <2>2, <2>3, <2>4, <2>5
<1>2. ASSUME NEW m \in Nat, m \in T PROVE m + 1 \in T
  <2>1. SUFFICES ASSUME m + 1 <= n
                 PROVE  SumFunctionOnSet(f, 1 .. m + 1 + 1) = f[1] + SumFunctionOnSet(g, 1 .. m + 1)
      OBVIOUS
  <2>2. Ints(f, 1 .. m + 1 + 1) /\ Ints(f, 1 .. m + 1) /\ f[1] \in Int
      BY <1>a, <2>1 DEF Ints
  <2>3. Ints(g, 1 .. m + 1) /\ Ints(g, 1 .. m)
    <3>1. \A i \in 1 .. m + 1 : i \in 1 .. n /\ i + 1 \in 1 .. n + 1
        BY <2>1
    <3> QED
        BY <1>a, <3>1 DEF Ints
  <2>4. SumFunctionOnSet(f, 1 .. m + 1 + 1) = SumFunctionOnSet(f, 1 .. m + 1) + f[m + 1 + 1]
      BY <2>2, SumLast
  <2>5. SumFunctionOnSet(g, 1 .. m + 1) = SumFunctionOnSet(g, 1 .. m) + g[m + 1]
      BY <2>3, SumLast
  <2>6. SumFunctionOnSet(f, 1 .. m + 1) = f[1] + SumFunctionOnSet(g, 1 .. m)
      BY <1>2, <2>1
  <2>7. g[m + 1] = f[m + 1 + 1] /\ f[m + 1 + 1] \in Int
      BY <1>a, <2>1
  <2>8. IsFiniteSet(1 .. m)
      BY FS_Interval
  <2>9. SumFunctionOnSet(g, 1 .. m) \in Int
      BY <2>3, <2>8, SumType
  <2> QED
      BY <2>2, <2>4, <2>5, <2>6, <2>7, <2>9
<1> HIDE DEF T
<1>3. \A m \in Nat : m \in T
    BY <1>1, <1>2, NaturalsByInduction
<1> QED
    BY <1>3 DEF T

=============================================================================
