-------------------------------- MODULE Order --------------------------------
(***************************************************************************)
(* Facts that the proofs of the other modules rest on: least and greatest  *)
(* elements of sets of naturals, induction stated for sets, and the sums   *)
(* that MapThenSumSet computes over finite sets.                           *)
(***************************************************************************)
EXTENDS Naturals, FiniteSets, FiniteSetsExt, FiniteSetTheorems,
        WellFoundedInduction, TLAPS

\* A set of naturals that is not empty has a least element: its shortest
\* initial segment 0..x.
LEMMA LeastElement ==
    ASSUME NEW T \in SUBSET Nat, T # {}
    PROVE  \E x \in T : \A y \in T : x <= y
<1> DEFINE Segments == {0..x : x \in T}
<1>1. IsWellFoundedOn(StrictSubsetOrdering(Nat), FiniteSubsetsOf(Nat))
  BY FS_StrictSubsetOrderingWellFounded
<1>2. ASSUME NEW x \in T PROVE 0..x \in FiniteSubsetsOf(Nat)
  <2>1. IsFiniteSet(0..x)
    BY FS_Interval
  <2> QED BY <2>1 DEF FiniteSubsetsOf
<1>3. Segments \subseteq FiniteSubsetsOf(Nat) /\ Segments # {}
  BY <1>2
<1>4. PICK s \in Segments : \A r \in Segments : ~ (<<r, s>> \in StrictSubsetOrdering(Nat))
  <2> HIDE DEF Segments
  <2> QED BY <1>1, <1>3, WFMin
<1>5. PICK x \in T : s = 0..x
  OBVIOUS
<1>6. ASSUME NEW y \in T, y < x PROVE FALSE
  <2>1. 0..y \in SUBSET Nat /\ 0..x \in SUBSET Nat /\ 0..y \in Segments
    OBVIOUS
  <2>2. 0..y \subseteq 0..x /\ 0..y # 0..x
    BY <1>6
  <2>3. <<0..y, 0..x>> \in StrictSubsetOrdering(Nat)
    BY <2>1, <2>2 DEF StrictSubsetOrdering
  <2> QED BY <1>4, <1>5, <2>1, <2>3
<1> QED BY <1>6

\* A bounded set of naturals that is not empty has a greatest element, Max.
LEMMA GreatestElement ==
    ASSUME NEW T \in SUBSET Nat, T # {}, NEW n \in Nat, \A x \in T : x <= n
    PROVE  Max(T) \in T /\ \A y \in T : y <= Max(T)
<1> DEFINE Bounds == {b \in Nat : \A x \in T : x <= b}
<1>1. PICK m \in Bounds : \A b \in Bounds : m <= b
  <2>1. Bounds \in SUBSET Nat /\ n \in Bounds
    OBVIOUS
  <2> HIDE DEF Bounds
  <2> QED BY <2>1, LeastElement
<1>2. m \in T
  <2>1. SUFFICES ASSUME m \notin T PROVE FALSE
    OBVIOUS
  <2>2. PICK x \in T : TRUE
    OBVIOUS
  <2>3. x < m /\ m - 1 \in Nat
    BY <2>1
  <2>4. m - 1 \in Bounds
    BY <2>1, <2>3
  <2> QED BY <1>1, <2>4
<1>3. \E x \in T : \A y \in T : x >= y
  BY <1>1, <1>2
<1> QED BY <1>3 DEF Max

\* Induction over the naturals.
LEMMA SetInduction ==
    ASSUME NEW S, 0 \in S, \A n \in Nat : n \in S => n + 1 \in S
    PROVE  Nat \subseteq S
<1> DEFINE T == Nat \ S
<1>1. SUFFICES ASSUME T # {} PROVE FALSE
  OBVIOUS
<1>2. PICK x \in T : \A y \in T : x <= y
  <2>1. T \in SUBSET Nat
    OBVIOUS
  <2> HIDE DEF T
  <2> QED BY <1>1, <2>1, LeastElement
<1>3. x \in Nat \ {0} /\ x - 1 \in Nat /\ x - 1 \notin T
  BY <1>2
<1> QED BY <1>2, <1>3

-----------------------------------------------------------------------------
(* Sums over finite sets.                                                  *)

SumOver(g, S) == MapThenSumSet(LAMBDA x : g[x], S)

\* The element a fold takes first.
Pick(s) == CHOOSE x \in s : TRUE

\* It is an element.
LEMMA PickIn == ASSUME NEW s, s # {} PROVE Pick(s) \in s
BY DEF Pick

\* What the fold over the subset s of S adds up, given the sums f of smaller sets.
SumStep(f, g, s) == IF s = {} THEN 0 ELSE g[Pick(s)] + f[s \ {Pick(s)}]

IsSum(f, g, S) == f = [s \in SUBSET S |-> SumStep(f, g, s)]

\* A sum is the fold it is defined by.
LEMMA SumUnfold ==
    ASSUME NEW g, NEW S
    PROVE  SumOver(g, S) = (CHOOSE f : IsSum(f, g, S))[S]
BY Zenon DEF SumOver, MapThenSumSet, MapThenFoldSet, IsSum, SumStep, Pick

\* Induction over the subsets of a finite set.
LEMMA SubsetInduction ==
    ASSUME NEW S, IsFiniteSet(S), NEW G, {} \in G,
           \A s \in SUBSET S : \A x \in S \ s : s \in G => s \cup {x} \in G
    PROVE  SUBSET S \subseteq G
<1> DEFINE N == {n \in Nat : \A s \in SUBSET S : Cardinality(s) = n => s \in G}
<1>1. ASSUME NEW s \in SUBSET S PROVE IsFiniteSet(s) /\ Cardinality(s) \in Nat
  BY FS_Subset, FS_CardinalityType
<1>2. 0 \in N
  BY <1>1, FS_EmptySet
<1>3. ASSUME NEW n \in Nat, n \in N PROVE n + 1 \in N
  <2>1. SUFFICES ASSUME NEW s \in SUBSET S, Cardinality(s) = n + 1 PROVE s \in G
    OBVIOUS
  <2>2. s # {}
    BY <2>1, FS_EmptySet
  <2>3. PICK x \in s : TRUE
    BY <2>2
  <2> DEFINE r == s \ {x}
  <2>4. Cardinality(r) = n
    <3>1. IsFiniteSet(s) /\ Cardinality(s) \in Nat
      BY <1>1
    <3>2. Cardinality(s \ {x}) = Cardinality(s) - 1
      BY <2>3, <3>1, FS_RemoveElement
    <3> QED BY <2>1, <3>1, <3>2
  <2>5. r \in SUBSET S /\ x \in S \ r /\ s = r \cup {x}
    OBVIOUS
  <2>6. r \in G
    BY <1>3, <2>4, <2>5
  <2> QED BY <2>5, <2>6
<1> HIDE DEF N
<1>4. Nat \subseteq N
  BY <1>2, <1>3, SetInduction
<1> QED BY <1>1, <1>4 DEF N

\* The fold exists for every finite set.
LEMMA SumExists ==
    ASSUME NEW S, IsFiniteSet(S), NEW g
    PROVE  \E f : IsSum(f, g, S)
<1> DEFINE Upto(f, n) == \A s \in SUBSET S : Cardinality(s) <= n => f[s] = SumStep(f, g, s)
           N == {n \in Nat : \E f : Upto(f, n)}
<1>1. ASSUME NEW s \in SUBSET S PROVE IsFiniteSet(s) /\ Cardinality(s) \in Nat /\ Cardinality(s) <= Cardinality(S)
  BY FS_Subset, FS_CardinalityType
<1>2. 0 \in N
  <2> DEFINE f == [s \in SUBSET S |-> 0]
  <2>1. Upto(f, 0)
    BY <1>1, FS_EmptySet DEF SumStep
  <2> QED BY <2>1
<1>3. ASSUME NEW n \in Nat, n \in N PROVE n + 1 \in N
  <2>1. PICK f : Upto(f, n)
    BY <1>3
  <2> DEFINE h == [s \in SUBSET S |-> IF Cardinality(s) <= n THEN f[s] ELSE SumStep(f, g, s)]
  <2>2. ASSUME NEW s \in SUBSET S, Cardinality(s) <= n + 1 PROVE h[s] = SumStep(h, g, s)
    <3>1. h[s] = SumStep(f, g, s)
      BY <2>1
    <3>2. CASE s = {}
      BY <3>1, <3>2 DEF SumStep
    <3>3. CASE s # {}
      <4>1. Pick(s) \in s
        BY <3>3, PickIn
      <4>2. Cardinality(s \ {Pick(s)}) <= n /\ s \ {Pick(s)} \in SUBSET S
        BY <1>1, <2>2, <4>1, FS_RemoveElement
      <4>3. h[s \ {Pick(s)}] = f[s \ {Pick(s)}]
        BY <4>2
      <4> HIDE DEF h
      <4> QED BY <3>1, <4>3 DEF SumStep
    <3> QED BY <3>2, <3>3
  <2>3. Upto(h, n + 1)
    BY <2>2
  <2>4. n + 1 \in Nat
    OBVIOUS
  <2> HIDE DEF h, Upto
  <2> QED BY <2>3, <2>4
<1> HIDE DEF N
<1>4. Cardinality(S) \in N
  BY <1>2, <1>3, SetInduction, FS_CardinalityType
<1>5. PICK f : Upto(f, Cardinality(S))
  BY <1>4 DEF N
<1> DEFINE h == [s \in SUBSET S |-> f[s]]
<1>6. ASSUME NEW s \in SUBSET S PROVE h[s] = SumStep(h, g, s)
  <2>1. h[s] = SumStep(f, g, s)
    BY <1>1, <1>5
  <2>2. s # {} => h[s \ {Pick(s)}] = f[s \ {Pick(s)}]
    OBVIOUS
  <2> HIDE DEF h
  <2> QED BY <2>1, <2>2 DEF SumStep
<1>7. h = [s \in SUBSET S |-> SumStep(h, g, s)]
  <2> DEFINE h2 == [s \in SUBSET S |-> SumStep(h, g, s)]
  <2>1. DOMAIN h = SUBSET S /\ h = [s \in SUBSET S |-> h[s]]
    OBVIOUS
  <2> HIDE DEF h
  <2> QED BY <1>6, <2>1
<1> QED BY <1>7 DEF IsSum

\* The value of a sum, whichever element the fold takes first.
LEMMA SumAny ==
    ASSUME NEW S, IsFiniteSet(S), NEW g, \A x \in S : g[x] \in Int, NEW f, IsSum(f, g, S)
    PROVE  \A s \in SUBSET S : f[s] \in Int /\ \A x \in s : f[s] = g[x] + f[s \ {x}]
<1> DEFINE Good(s) == f[s] \in Int /\ \A x \in s : f[s] = g[x] + f[s \ {x}]
           N == {n \in Nat : \A s \in SUBSET S : Cardinality(s) <= n => Good(s)}
<1>1. ASSUME NEW s \in SUBSET S PROVE IsFiniteSet(s) /\ Cardinality(s) \in Nat /\ Cardinality(s) <= Cardinality(S)
  BY FS_Subset, FS_CardinalityType
<1>2. ASSUME NEW s \in SUBSET S PROVE f[s] = SumStep(f, g, s)
  BY DEF IsSum
<1>0. Good({})
  BY <1>2 DEF SumStep
<1>3. 0 \in N
  <2>1. ASSUME NEW s \in SUBSET S, Cardinality(s) <= 0 PROVE s = {}
    BY <1>1, <2>1, FS_EmptySet
  <2> QED BY <2>1, <1>0
<1>4. ASSUME NEW n \in Nat, n \in N PROVE n + 1 \in N
  <2>1. SUFFICES ASSUME NEW s \in SUBSET S, Cardinality(s) <= n + 1, s # {} PROVE Good(s)
    <3> HIDE DEF Good
    <3> QED BY <1>0
  <2> DEFINE p == Pick(s)
  <2>2. p \in s
    BY <2>1, PickIn
  <2>3. f[s] = g[p] + f[s \ {p}]
    BY <1>2, <2>1 DEF SumStep
  <2> HIDE DEF p
  <2>4. ASSUME NEW x \in s PROVE Good(s \ {x})
    <3>1. Cardinality(s \ {x}) <= n
      BY <1>1, <2>1, FS_RemoveElement
    <3> QED BY <1>4, <3>1
  <2>5. ASSUME NEW x \in s, x # p PROVE f[s] = g[x] + f[s \ {x}]
    <3> DEFINE r == s \ {x, p}
    <3>1. f[s \ {p}] = g[x] + f[r] /\ f[s \ {x}] = g[p] + f[r]
      <4>1. (s \ {p}) \ {x} = r /\ (s \ {x}) \ {p} = r
        OBVIOUS
      <4> QED BY <2>2, <2>4, <2>5, <4>1
    <3>2. r \in SUBSET S /\ Cardinality(r) <= n /\ r = (s \ {x}) \ {p}
      <4>1. r \in SUBSET (s \ {x}) /\ s \ {x} \in SUBSET S
        OBVIOUS
      <4>2. Cardinality(r) <= Cardinality(s \ {x}) /\ Cardinality(s \ {x}) <= n
        BY <1>1, <2>1, <4>1, FS_RemoveElement, FS_Subset
      <4> QED BY <1>1, <4>1, <4>2
    <3>3. f[r] \in Int /\ g[x] \in Int /\ g[p] \in Int
      BY <1>4, <2>2, <3>2
    <3> HIDE DEF r
    <3> QED BY <2>3, <3>1, <3>3
  <2>6. f[s] \in Int
    <3>1. g[p] \in Int /\ f[s \ {p}] \in Int
      BY <2>2, <2>4
    <3> QED BY <2>3, <3>1
  <2> QED BY <2>3, <2>5, <2>6
<1> HIDE DEF N
<1>5. Nat \subseteq N
  BY <1>3, <1>4, SetInduction
<1> QED BY <1>1, <1>5 DEF N

\* Sums over different sets agree on common subsets.
LEMMA SumSame ==
    ASSUME NEW S, NEW T, IsFiniteSet(S), IsFiniteSet(T), NEW g, NEW h, 
           NEW r \in SUBSET (S \cap T), \A x \in r : g[x] = h[x],
           NEW f, IsSum(f, g, S), NEW e, IsSum(e, h, T)
    PROVE  f[r] = e[r]
<1> DEFINE N == {n \in Nat : \A s \in SUBSET r : Cardinality(s) <= n => f[s] = e[s]}
<1>1. ASSUME NEW s \in SUBSET r PROVE IsFiniteSet(s) /\ Cardinality(s) \in Nat
  BY FS_Subset, FS_CardinalityType
<1>2. ASSUME NEW s \in SUBSET r PROVE f[s] = SumStep(f, g, s) /\ e[s] = SumStep(e, h, s)
  BY DEF IsSum
<1>3. 0 \in N
  <2>1. ASSUME NEW s \in SUBSET r, Cardinality(s) <= 0 PROVE s = {}
    BY <1>1, <2>1, FS_EmptySet
  <2> QED BY <1>2, <2>1 DEF SumStep
<1>4. ASSUME NEW n \in Nat, n \in N PROVE n + 1 \in N
  <2>0. f[{}] = e[{}]
    BY <1>2 DEF SumStep
  <2>1. SUFFICES ASSUME NEW s \in SUBSET r, Cardinality(s) <= n + 1, s # {} PROVE f[s] = e[s]
    BY <2>0
  <2>2. Pick(s) \in s
    BY <2>1, PickIn
  <2>3. Cardinality(s \ {Pick(s)}) <= n
    BY <1>1, <2>1, <2>2, FS_RemoveElement
  <2>4. f[s \ {Pick(s)}] = e[s \ {Pick(s)}]
    BY <1>4, <2>3
  <2> QED BY <1>2, <2>1, <2>2, <2>4 DEF SumStep
<1> HIDE DEF N
<1>5. Nat \subseteq N
  BY <1>3, <1>4, SetInduction
<1> QED BY <1>1, <1>5 DEF N

\* So a sum satisfies the recursion of the fold, on every subset.
LEMMA SumIs ==
    ASSUME NEW S, IsFiniteSet(S), NEW g
    PROVE  \E f : IsSum(f, g, S) /\ SumOver(g, S) = f[S]
<1>1. IsSum(CHOOSE f : IsSum(f, g, S), g, S)
  BY SumExists, Zenon
<1> QED BY <1>1, SumUnfold, Zenon

\* A sum over a finite set: of nothing, of one element more, of equal summands.
LEMMA SumEmpty ==
    ASSUME NEW g
    PROVE  SumOver(g, {}) = 0
<1>1. PICK f : IsSum(f, g, {}) /\ SumOver(g, {}) = f[{}]
  BY SumIs, FS_EmptySet
<1>2. f[{}] = SumStep(f, g, {})
  BY <1>1 DEF IsSum
<1> QED BY <1>1, <1>2 DEF SumStep

\* A sum of integers is an integer.
LEMMA SumInt ==
    ASSUME NEW S, IsFiniteSet(S), NEW g, \A x \in S : g[x] \in Int
    PROVE  SumOver(g, S) \in Int
<1>1. PICK f : IsSum(f, g, S) /\ SumOver(g, S) = f[S]
  BY SumIs
<1> QED BY <1>1, SumAny

\* An element more adds its value.
LEMMA SumAdd ==
    ASSUME NEW S, IsFiniteSet(S), NEW x, x \notin S, NEW T, T = S \cup {x},
           NEW g, \A y \in T : g[y] \in Int
    PROVE  SumOver(g, T) = SumOver(g, S) + g[x]
<1>1. IsFiniteSet(T)
  BY FS_AddElement
<1>2. PICK f : IsSum(f, g, S) /\ SumOver(g, S) = f[S]
  BY SumIs
<1>3. PICK e : IsSum(e, g, T) /\ SumOver(g, T) = e[T]
  BY <1>1, SumIs
<1>4. \A s \in SUBSET T : e[s] \in Int /\ \A y \in s : e[s] = g[y] + e[s \ {y}]
  <2>1. IsSum(e, g, T)
    BY <1>3
  <2> HIDE <1>2, <1>3
  <2> QED BY <1>1, <2>1, SumAny
<1>5. T \in SUBSET T /\ x \in T /\ T \ {x} = S /\ S \in SUBSET (T \cap S)
  OBVIOUS
<1>6. e[T] = g[x] + e[S]
  BY <1>4, <1>5
<1>7. e[S] = f[S]
  BY <1>1, <1>2, <1>3, <1>5, SumSame
<1>8. SumOver(g, S) \in Int /\ g[x] \in Int
  BY SumInt
<1> QED BY <1>2, <1>3, <1>6, <1>7, <1>8

\* Equal values have equal sums.
LEMMA SumEqual ==
    ASSUME NEW S, IsFiniteSet(S), NEW g, NEW h, \A x \in S : g[x] = h[x]
    PROVE  SumOver(g, S) = SumOver(h, S)
<1>1. PICK f : IsSum(f, g, S) /\ SumOver(g, S) = f[S]
  BY SumIs
<1>2. PICK e : IsSum(e, h, S) /\ SumOver(h, S) = e[S]
  BY SumIs
<1>3. S \in SUBSET (S \cap S)
  OBVIOUS
<1>4. f[S] = e[S]
  BY <1>1, <1>2, <1>3, SumSame
<1> QED BY <1>1, <1>2, <1>4

\* A finite set of naturals has an upper bound.
LEMMA FiniteBounded ==
    ASSUME NEW S \in SUBSET Nat, IsFiniteSet(S)
    PROVE  \E m \in Nat : \A x \in S : x <= m
<1> DEFINE G == {s \in SUBSET S : \E m \in Nat : \A x \in s : x <= m}
<1>1. {} \in G
  <2>1. 0 \in Nat
    OBVIOUS
  <2> QED BY <2>1
<1>2. ASSUME NEW s \in SUBSET S, NEW y \in S \ s, s \in G PROVE s \cup {y} \in G
  <2>1. PICK m \in Nat : \A x \in s : x <= m
    BY <1>2
  <2>2. y \in Nat /\ \A x \in s : x \in Nat
    OBVIOUS
  <2>3. ASSUME NEW x \in s \cup {y} PROVE x <= m + y
    <3>1. CASE x = y
      BY <2>2, <3>1
    <3>2. CASE x \in s
      <4>1. x \in Nat /\ x <= m
        BY <2>1, <2>2, <3>2
      <4> QED BY <2>2, <4>1
    <3> QED BY <3>1, <3>2
  <2>4. m + y \in Nat
    BY <2>2
  <2> QED BY <2>3, <2>4
<1>3. SUBSET S \subseteq G
  <2> HIDE DEF G
  <2> QED BY <1>1, <1>2, SubsetInduction
<1> QED BY <1>3
=============================================================================
