------------------------------ MODULE SumFacts ------------------------------
(***************************************************************************)
(* Facts about the sum of a function over a finite set.  The induction     *)
(* theorems of the library take an operator; the two lemmas here take a    *)
(* set of the numbers, or of the subsets, that have the property.          *)
(***************************************************************************)
EXTENDS FiniteSetsExt, FiniteSetTheorems, TLAPS

\* Induction over the natural numbers.
LEMMA NatSetInduction ==
  ASSUME NEW P \in SUBSET Nat, 0 \in P, \A n \in P : n + 1 \in P
  PROVE  P = Nat
<1> DEFINE Bad == Nat \ P
           R == {ss \in Nat \X Nat : ss[1] < ss[2]}
<1>1. IsWellFoundedOn(R, Nat)
  BY NatLessThanWellFounded, Zenon DEF OpToRel
<1>2. SUFFICES ASSUME Bad # {}
               PROVE  FALSE
  OBVIOUS
<1> HIDE DEF R
<1>3. PICK n \in Bad : \A k \in Bad : <<k, n>> \notin R
  BY <1>1, <1>2, WFMin
<1>4. n \in Nat /\ n # 0
  OBVIOUS
<1>5. n - 1 \in Nat /\ n - 1 < n /\ (n - 1) + 1 = n
  BY <1>4
<1>6. <<n - 1, n>> \in R
  BY <1>4, <1>5 DEF R
<1> QED BY <1>3, <1>5, <1>6

\* Induction over the subsets of a finite set, one element at a time.
LEMMA SubsetInduction ==
  ASSUME NEW S, IsFiniteSet(S), NEW P \in SUBSET SUBSET S, {} \in P,
         \A A \in SUBSET S :
           A # {} /\ A \ {CHOOSE x \in A : TRUE} \in P => A \in P
  PROVE  P = SUBSET S
<1> DEFINE Bad == (SUBSET S) \ P
           R == StrictSubsetOrdering(S)
<1>1. IsWellFoundedOn(R, SUBSET S)
  BY FS_StrictSubsetOrderingWellFounded, FS_FiniteSubsetsOfFinite
<1>2. SUFFICES ASSUME Bad # {}
               PROVE  FALSE
  OBVIOUS
<1>3. PICK A \in Bad : \A B \in Bad : <<B, A>> \notin R
  <2>1. Bad \subseteq SUBSET S
    OBVIOUS
  <2> HIDE DEF R, Bad
  <2> QED BY <1>1, <1>2, <2>1, WFMin
<1> DEFINE B == A \ {CHOOSE x \in A : TRUE}
<1>4. A # {} /\ (CHOOSE x \in A : TRUE) \in A
  OBVIOUS
<1>5. <<B, A>> \in R
  BY <1>4 DEF StrictSubsetOrdering
<1>6. B \in P
  BY <1>3, <1>5
<1> QED BY <1>4, <1>6

-----------------------------------------------------------------------------
(***************************************************************************)
(* The sum, which the library defines by recursion over subsets            *)
(***************************************************************************)
Total(f, S) == MapThenSumSet(LAMBDA x : f[x], S)

\* The element that the recursion takes next, and what it leaves.
First(s) == CHOOSE x \in s : TRUE
Others(s) == s \ {First(s)}

\* The right hand side of the recursion, with g for the function defined.
Step(f, g, s) == IF s = {} THEN 0 ELSE f[First(s)] + g[Others(s)]

Recursion(f, S, g) == g = [s \in SUBSET S |-> Step(f, g, s)]

LEMMA TotalUnfolded ==
  ASSUME NEW f, NEW S
  PROVE  Total(f, S) = (CHOOSE g : Recursion(f, S, g))[S]
BY Zenon DEF Total, MapThenSumSet, MapThenFoldSet, Recursion, Step, First,
             Others

\* A smaller set is left.
LEMMA OthersSmaller ==
  ASSUME NEW S, IsFiniteSet(S), NEW s \in SUBSET S, s # {}
  PROVE  /\ First(s) \in s
         /\ Others(s) \in SUBSET S
         /\ Cardinality(s) \in Nat
         /\ Cardinality(Others(s)) = Cardinality(s) - 1
<1>1. First(s) \in s
  BY DEF First
<1>2. IsFiniteSet(s)
  BY FS_Subset
<1>3. Cardinality(s) \in Nat
  BY <1>2, FS_CardinalityType
<1>4. Cardinality(Others(s)) = Cardinality(s) - 1
  BY <1>1, <1>2, FS_RemoveElement DEF Others
<1> QED BY <1>1, <1>3, <1>4 DEF Others

\* Some function satisfies the recursion: by induction on the cardinality up
\* to which it does.
LEMMA RecursionSolved ==
  ASSUME NEW S, IsFiniteSet(S), NEW f \in [S -> Nat]
  PROVE  \E g \in [SUBSET S -> Nat] : Recursion(f, S, g)
<1> DEFINE UpTo(n, g) ==
      \A s \in SUBSET S : Cardinality(s) <= n => g[s] = Step(f, g, s)
           Reached == {n \in Nat : \E g \in [SUBSET S -> Nat] : UpTo(n, g)}
<1>1. 0 \in Reached
  <2> DEFINE g == [s \in SUBSET S |-> 0]
  <2>1. ASSUME NEW s \in SUBSET S, Cardinality(s) <= 0
        PROVE  s = {}
    BY <2>1, FS_Subset, FS_CardinalityType, FS_EmptySet
  <2>2. UpTo(0, g)
    BY <2>1 DEF Step
  <2>3. g \in [SUBSET S -> Nat]
    OBVIOUS
  <2> QED BY <2>2, <2>3
<1>2. ASSUME NEW n \in Reached
      PROVE  n + 1 \in Reached
  <2>1. PICK g \in [SUBSET S -> Nat] : UpTo(n, g)
    OBVIOUS
  <2> DEFINE h == [s \in SUBSET S |->
                     IF Cardinality(s) <= n THEN g[s] ELSE Step(f, g, s)]
  <2>2. ASSUME NEW s \in SUBSET S
        PROVE  Step(f, g, s) \in Nat
    BY <2>2, OthersSmaller DEF Step
  <2>3. h \in [SUBSET S -> Nat]
    BY <2>2
  <2>4. ASSUME NEW s \in SUBSET S, Cardinality(s) <= n + 1
        PROVE  h[s] = Step(f, h, s)
    <3>1. h[s] = Step(f, g, s)
      BY <2>1
    <3>2. CASE s = {}
      BY <3>1, <3>2 DEF Step
    <3>3. CASE s # {}
      <4>1. Others(s) \in SUBSET S /\ Cardinality(Others(s)) <= n
        BY <2>4, <3>3, OthersSmaller
      <4>2. h[Others(s)] = g[Others(s)]
        BY <4>1
      <4> QED BY <3>1, <3>3, <4>2 DEF Step
    <3> QED BY <3>2, <3>3
  <2> HIDE DEF h
  <2> QED BY <2>3, <2>4
<1>3. Reached = Nat
  <2> HIDE DEF Reached
  <2>1. Reached \in SUBSET Nat
    BY DEF Reached
  <2> QED BY <1>1, <1>2, <2>1, NatSetInduction
<1>4. Cardinality(S) \in Nat
  BY FS_CardinalityType
<1>5. PICK g \in [SUBSET S -> Nat] : UpTo(Cardinality(S), g)
  BY <1>3, <1>4
<1>6. ASSUME NEW s \in SUBSET S
      PROVE  g[s] = Step(f, g, s)
  BY <1>5, FS_Subset
<1>7. Recursion(f, S, g)
  BY <1>6 DEF Recursion
<1> QED BY <1>7

\* The function that the library sums with.
Sums(f, S) == CHOOSE g : Recursion(f, S, g)

\* It satisfies the recursion, and its values are natural numbers.
LEMMA SumsDefined ==
  ASSUME NEW S, IsFiniteSet(S), NEW f \in [S -> Nat]
  PROVE  /\ \A s \in SUBSET S : Sums(f, S)[s] = Step(f, Sums(f, S), s)
         /\ \A s \in SUBSET S : Sums(f, S)[s] \in Nat
<1> DEFINE g == Sums(f, S)
<1>1. Recursion(f, S, g)
  BY RecursionSolved, Zenon DEF Sums
<1> HIDE DEF g
<1>2. \A s \in SUBSET S : g[s] = Step(f, g, s)
  BY <1>1 DEF Recursion
<1> DEFINE P == {s \in SUBSET S : g[s] \in Nat}
<1>3. {} \in P
  <2>1. g[{}] = Step(f, g, {})
    BY <1>2
  <2> QED BY <2>1 DEF Step
<1>4. ASSUME NEW s \in SUBSET S, s # {}, Others(s) \in P
      PROVE  s \in P
  BY <1>2, <1>4, OthersSmaller DEF Step
<1>5. P = SUBSET S
  <2> HIDE DEF P
  <2>1. P \in SUBSET SUBSET S
    BY DEF P
  <2> QED BY <1>3, <1>4, <2>1, SubsetInduction DEF Others, First
<1> QED BY <1>2, <1>5 DEF g

\* A sum of natural numbers is one.
LEMMA TotalType ==
  ASSUME NEW S, IsFiniteSet(S), NEW f \in [S -> Nat]
  PROVE  Total(f, S) \in Nat
<1>1. Total(f, S) = Sums(f, S)[S]
  BY TotalUnfolded DEF Sums
<1> QED BY <1>1, SumsDefined

\* The sum of nothing but zeros.
LEMMA TotalOfZeros ==
  ASSUME NEW S, IsFiniteSet(S)
  PROVE  Total([x \in S |-> 0], S) = 0
<1> DEFINE f == [x \in S |-> 0]
           g == Sums(f, S)
           P == {s \in SUBSET S : g[s] = 0}
<1>1. f \in [S -> Nat]
  OBVIOUS
<1>2. \A s \in SUBSET S : g[s] = Step(f, g, s)
  BY <1>1, SumsDefined
<1> HIDE DEF g
<1>3. {} \in P
  BY <1>2 DEF Step
<1>4. ASSUME NEW s \in SUBSET S, s # {}, Others(s) \in P
      PROVE  s \in P
  <2>1. f[First(s)] = 0
    BY <1>4, OthersSmaller
  <2> QED BY <1>2, <1>4, <2>1 DEF Step
<1>5. P = SUBSET S
  <2> HIDE DEF P
  <2>1. P \in SUBSET SUBSET S
    BY DEF P
  <2> QED BY <1>3, <1>4, <2>1, SubsetInduction DEF Others, First
<1>6. Total(f, S) = g[S]
  BY TotalUnfolded DEF Sums, g
<1> QED BY <1>5, <1>6

\* When one value changes, the sum changes by as much.
LEMMA TotalChanged ==
  ASSUME NEW S, IsFiniteSet(S), NEW f \in [S -> Nat], NEW e \in [S -> Nat],
         NEW x \in S, \A y \in S : y # x => e[y] = f[y]
  PROVE  Total(e, S) = Total(f, S) - f[x] + e[x]
<1> DEFINE a == Sums(f, S)
           b == Sums(e, S)
           P == {s \in SUBSET S :
                   b[s] = IF x \in s THEN a[s] - f[x] + e[x] ELSE a[s]}
<1>1. /\ \A s \in SUBSET S : a[s] = Step(f, a, s) /\ a[s] \in Nat
      /\ \A s \in SUBSET S : b[s] = Step(e, b, s) /\ b[s] \in Nat
  BY SumsDefined
<1> HIDE DEF a, b
<1>2. {} \in P
  BY <1>1 DEF Step
<1>3. ASSUME NEW s \in SUBSET S, s # {}, Others(s) \in P
      PROVE  s \in P
  <2>1. First(s) \in s /\ Others(s) \in SUBSET S
    BY <1>3, OthersSmaller
  <2>2. /\ a[s] = f[First(s)] + a[Others(s)]
        /\ b[s] = e[First(s)] + b[Others(s)]
    BY <1>1, <1>3 DEF Step
  <2>3. a[Others(s)] \in Nat /\ b[Others(s)] \in Nat
    BY <1>1, <2>1
  <2>4. x \in Others(s) <=> x \in s /\ x # First(s)
    BY DEF Others
  <2>5. /\ First(s) \in S
        /\ f[First(s)] \in Nat /\ f[x] \in Nat /\ e[x] \in Nat
    BY <2>1
  <2>6. e[First(s)] = IF First(s) = x THEN e[x] ELSE f[First(s)]
    BY <2>5
  <2>7. b[Others(s)] = IF x \in Others(s) THEN a[Others(s)] - f[x] + e[x]
                                          ELSE a[Others(s)]
    BY <1>3
  <2>8. b[s] = IF x \in s THEN a[s] - f[x] + e[x] ELSE a[s]
    <3>1. CASE First(s) = x
      BY <2>1, <2>2, <2>3, <2>4, <2>5, <2>6, <2>7, <3>1
    <3>2. CASE First(s) # x
      BY <2>1, <2>2, <2>3, <2>4, <2>5, <2>6, <2>7, <3>2
    <3> QED BY <3>1, <3>2
  <2> QED BY <2>8
<1>4. P = SUBSET S
  <2> HIDE DEF P
  <2>1. P \in SUBSET SUBSET S
    BY DEF P
  <2> QED BY <1>2, <1>3, <2>1, SubsetInduction DEF Others, First
<1>5. Total(f, S) = a[S] /\ Total(e, S) = b[S]
  BY TotalUnfolded DEF Sums, a, b
<1> QED BY <1>4, <1>5
=============================================================================
