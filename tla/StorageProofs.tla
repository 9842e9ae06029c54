--------------------------- MODULE StorageProofs ---------------------------
(***************************************************************************)
(* Storage.tla for every set of keys and values, every length, height,     *)
(* block size and hash function: the skip list answers what was last put,  *)
(* a flushed file answers what the MemTable held, and a merge writes the   *)
(* newest readable entry of every key.                                     *)
(*                                                                         *)
(* The operators of the model compute with recursive functions and folds.  *)
(* Each is first shown to be the function that satisfies its own recursion *)
(* (Unfold), which is then shown to exist and to compute what is claimed,  *)
(* by induction over the positions the code moves through: nodes to the    *)
(* right, levels upwards, the width of the range still searched.           *)
(***************************************************************************)
EXTENDS Storage, Order, TLAPS

-----------------------------------------------------------------------------
(* The skip list.                                                          *)

\* Node n comes before key x: the head comes before every key.
Before(n, x) == n = HeadNode \/ (n \in Keys /\ n < x)

\* m is the node behind n in a list of the keys S.
IsNext(S, n, m) ==
    /\ m \in S \cup {Nil}
    /\ m \in S => Before(n, m) /\ \A x \in S : Before(n, x) => m <= x
    /\ m = Nil => \A x \in S : ~Before(n, x)

\* A level, given by its links, has the keys S.
LevelOK(S, nx) ==
    \A n \in Nodes : IF n \in S \cup {HeadNode} THEN IsNext(S, n, nx[n]) ELSE nx[n] = Nil

\* Level i of l links exactly the keys S[i], in their order; every level is part
\* of the one below, and the bottom one has every key with an entry.
Linked(l, S) ==
    /\ S \in [Levels -> SUBSET Keys]
    /\ l.next \in [Levels -> [Nodes -> Keys \cup {Nil}]]
    /\ \A i \in Levels : LevelOK(S[i], l.next[i])
    /\ \A i, j \in Levels : i <= j => S[j] \subseteq S[i]
    /\ l.level \in Levels /\ \A i \in Levels : i > l.level => S[i] = {}
    /\ l.ent \in Table /\ S[1] = KeysOf(l.ent)

\* The last node before k in a list of the keys S.
Pred(S, k) == IF \E x \in S : x < k THEN Max({x \in S : x < k}) ELSE HeadNode

\* Pred is before k, and no key of S lies between.
LEMMA PredIs ==
    ASSUME NEW S \in SUBSET Keys, NEW k \in Keys
    PROVE  /\ Pred(S, k) \in S \cup {HeadNode} /\ Before(Pred(S, k), k)
           /\ \A x \in S : x < k => Pred(S, k) \in Keys /\ x <= Pred(S, k)
<1>1. CASE \E x \in S : x < k
  <2> DEFINE T == {x \in S : x < k}
  <2>0. k \in Nat /\ \A x \in S : x \in Nat
    BY KeysAssumption
  <2>1. T \in SUBSET Nat /\ T # {} /\ k \in Nat /\ \A x \in T : x <= k
    <3>1. ASSUME NEW x \in T PROVE x \in Nat /\ x <= k
      <4>1. x \in Nat /\ x < k
        BY <2>0
      <4> QED BY <2>0, <4>1
    <3> QED BY <1>1, <2>0, <3>1
  <2>2. Max(T) \in T /\ \A y \in T : y <= Max(T)
    BY <2>1, GreatestElement
  <2> QED BY <1>1, <2>2 DEF Pred, Before
<1>2. CASE ~ \E x \in S : x < k
  BY <1>2 DEF Pred, Before
<1> QED BY <1>1, <1>2

GoStep(l, k, i, f, n) ==
    IF l.next[i][n] # Nil /\ l.next[i][n] < k THEN f[l.next[i][n]] ELSE n

IsGo(f, l, k, i) == f = [n \in Nodes |-> GoStep(l, k, i, f, n)]

\* RightmostBelow is the function that satisfies its recursion.
LEMMA RightmostUnfold ==
    ASSUME NEW l, NEW k, NEW i, NEW start
    PROVE  RightmostBelow(l, k, i, start) = (CHOOSE f : IsGo(f, l, k, i))[start]
BY Zenon DEF RightmostBelow, IsGo, GoStep

\* Where a level's traversal for k ends, from any node of the level before k.
LEMMA RightmostIsPred ==
    ASSUME NEW l, NEW S, Linked(l, S), NEW i \in Levels, NEW k \in Keys,
           NEW start \in S[i] \cup {HeadNode}, Before(start, k)
    PROVE  RightmostBelow(l, k, i, start) = Pred(S[i], k)
<1> DEFINE T == S[i]
           P == Pred(T, k)
           nxt == l.next[i]
           On(n) == n \in T \cup {HeadNode} /\ Before(n, k)
           G == [n \in Nodes |-> IF On(n) THEN P ELSE n]
<1>1. /\ T \in SUBSET Keys /\ (\A x \in T : x \in Nat /\ x \in Keys) /\ k \in Nat /\ nxt \in [Nodes -> Keys \cup {Nil}]
      /\ HeadNode \notin Keys /\ Nil \notin Keys /\ Nil # HeadNode
  BY KeysAssumption, SkipListAssumption DEF Linked
<1>2. /\ P \in T \cup {HeadNode} /\ Before(P, k)
      /\ \A x \in T : x < k => P \in Keys /\ x <= P
  BY <1>1, PredIs
<1>3. ASSUME NEW n \in Nodes PROVE IF n \in T \cup {HeadNode} THEN IsNext(T, n, nxt[n]) ELSE nxt[n] = Nil
  BY DEF Linked, LevelOK
<1> HIDE DEF T, P, nxt
\* One step of the traversal.
<1>4. ASSUME NEW n \in Nodes, On(n), nxt[n] # Nil, nxt[n] < k PROVE nxt[n] \in T /\ On(nxt[n]) /\ Before(n, nxt[n])
  BY <1>1, <1>3, <1>4 DEF IsNext, Before
<1>5. ASSUME NEW n \in Nodes, On(n), ~(nxt[n] # Nil /\ nxt[n] < k) PROVE n = P
  <2>1. ASSUME NEW x \in T, x < k, Before(n, x) PROVE FALSE
    <3>1. IsNext(T, n, nxt[n]) /\ x \in Nat
      BY <1>1, <1>3, <1>5
    <3>2. nxt[n] \in T /\ nxt[n] <= x
      BY <2>1, <3>1 DEF IsNext
    <3>3. nxt[n] \in Nat /\ nxt[n] # Nil
      BY <1>1, <3>2
    <3>4. nxt[n] < k
      BY <1>1, <2>1, <3>1, <3>2, <3>3
    <3> QED BY <1>5, <3>3, <3>4
  <2>2. CASE n = HeadNode
    BY <1>1, <1>2, <2>1, <2>2 DEF Before
  <2>3. CASE n # HeadNode
    <3>1. n \in T /\ n < k
      BY <1>5, <2>3 DEF Before
    <3>2. P \in Keys /\ n <= P /\ P \in T /\ P < k
      BY <1>1, <1>2, <3>1 DEF Before
    <3>3. ~(n < P)
      BY <1>1, <2>1, <3>1, <3>2 DEF Before
    <3> QED BY <1>1, <3>1, <3>2, <3>3
  <2> QED BY <2>2, <2>3
<1>6. ASSUME NEW n \in Nodes, ~On(n) PROVE ~(nxt[n] # Nil /\ nxt[n] < k)
  <2>1. CASE n \in T
    <3>1. n \in Nat /\ k <= n
      BY <1>1, <1>6, <2>1 DEF Before
    <3>2. nxt[n] \in T => n < nxt[n]
      BY <1>1, <1>3, <2>1 DEF IsNext, Before
    <3>3. nxt[n] \in T \/ nxt[n] = Nil
      BY <1>3, <2>1 DEF IsNext
    <3>4. ASSUME nxt[n] \in T PROVE ~(nxt[n] < k)
      <4>1. nxt[n] \in Nat /\ n < nxt[n]
        BY <1>1, <3>2, <3>4
      <4> QED BY <1>1, <3>1, <4>1
    <3> QED BY <3>3, <3>4
  <2>2. CASE n \notin T
    BY <1>1, <1>3, <1>6, <2>2 DEF Before
  <2> QED BY <2>1, <2>2
<1>7. ASSUME NEW n \in Nodes PROVE G[n] = GoStep(l, k, i, G, n)
  <2>1. CASE On(n) /\ nxt[n] # Nil /\ nxt[n] < k
    <3>1. nxt[n] \in Nodes /\ On(nxt[n]) /\ G[n] = P
      BY <1>1, <1>4, <2>1 DEF Nodes
    <3> QED BY <2>1, <3>1 DEF GoStep, nxt
  <2>2. CASE On(n) /\ ~(nxt[n] # Nil /\ nxt[n] < k)
    BY <1>5, <2>2 DEF GoStep, nxt
  <2>3. CASE ~On(n)
    BY <1>6, <2>3 DEF GoStep, nxt
  <2> QED BY <2>1, <2>2, <2>3
<1>8. IsGo(G, l, k, i)
  <2>1. G = [n \in Nodes |-> G[n]]
    OBVIOUS
  <2> HIDE DEF G
  <2> QED BY <1>7, <2>1 DEF IsGo
<1> DEFINE F == CHOOSE f : IsGo(f, l, k, i)
<1>9. IsGo(F, l, k, i)
  <2> HIDE DEF G
  <2> QED BY <1>8, Zenon
<1> HIDE DEF F, G
<1>10. ASSUME NEW n \in Nodes PROVE F[n] = IF nxt[n] # Nil /\ nxt[n] < k THEN F[nxt[n]] ELSE n
  BY <1>9 DEF IsGo, GoStep, nxt
<1>11. ASSUME NEW n \in T, n < k PROVE F[n] = P
  <2> DEFINE B == {x \in T : x < k /\ F[x] # P}
  <2>1. SUFFICES ASSUME B # {} PROVE FALSE
    BY <1>11
  <2>2. B \in SUBSET Nat /\ \A x \in B : x <= k
    <3>1. \A x \in B : x \in Nat /\ x < k
      BY <1>1
    <3> HIDE DEF B
    <3> QED BY <1>1, <3>1
  <2>3. Max(B) \in B /\ \A y \in B : y <= Max(B)
    <3> HIDE DEF B
    <3> QED BY <1>1, <2>1, <2>2, GreatestElement
  <2> DEFINE b == Max(B)
  <2> HIDE DEF b
  <2>4. b \in T /\ b < k /\ F[b] # P /\ (\A y \in B : y <= b) /\ b \in Nodes /\ On(b) /\ b \in Nat
    BY <1>1, <2>3 DEF b, Before, Nodes
  <2>5. CASE nxt[b] # Nil /\ nxt[b] < k
    <3>1. nxt[b] \in T /\ Before(b, nxt[b]) /\ b < nxt[b]
      BY <1>1, <1>4, <2>4, <2>5 DEF Before
    <3>2. F[nxt[b]] = P
      <4>0. nxt[b] \in Nat
        BY <1>1, <3>1
      <4>1. nxt[b] \notin B
        BY <2>4, <3>1, <4>0
      <4> QED BY <2>5, <3>1, <4>1
    <3> QED BY <1>10, <2>4, <2>5, <3>2
  <2>6. CASE ~(nxt[b] # Nil /\ nxt[b] < k)
    BY <1>5, <1>10, <2>4, <2>6
  <2> QED BY <2>5, <2>6
<1>12. F[HeadNode] = P
  <2>1. HeadNode \in Nodes /\ On(HeadNode)
    BY DEF Nodes, Before
  <2>2. CASE nxt[HeadNode] # Nil /\ nxt[HeadNode] < k
    BY <1>4, <1>10, <1>11, <2>1, <2>2
  <2>3. CASE ~(nxt[HeadNode] # Nil /\ nxt[HeadNode] < k)
    BY <1>5, <1>10, <2>1, <2>3
  <2> QED BY <2>2, <2>3
<1>13. F[start] = P
  <2>1. CASE start = HeadNode
    BY <1>12, <2>1
  <2>2. CASE start # HeadNode
    BY <1>11, <2>2 DEF Before, T
  <2> QED BY <2>1, <2>2
<1> QED BY <1>13, RightmostUnfold DEF F, P, T

LeftStep(l, k, f, i) == IF i > l.level THEN HeadNode ELSE RightmostBelow(l, k, i, f[i + 1])

IsLeft(f, l, k) == f = [i \in 1..(l.level + 1) |-> LeftStep(l, k, f, i)]

\* So is Update.
LEMMA UpdateUnfold ==
    ASSUME NEW l, NEW k
    PROVE  Update(l, k) = CHOOSE f : IsLeft(f, l, k)
BY Zenon DEF Update, IsLeft, LeftStep

\* Update holds, per level in use, the last node before k.
LEMMA UpdateIsPred ==
    ASSUME NEW l, NEW S, Linked(l, S), NEW k \in Keys
    PROVE  \A i \in 1..l.level : Update(l, k)[i] = Pred(S[i], k)
<1> DEFINE n == l.level
           U == [i \in 1..(n + 1) |-> IF i > n THEN HeadNode ELSE Pred(S[i], k)]
<1>1. n \in Nat /\ n >= 1 /\ \A i \in 1..n : i \in Levels /\ i \in Nat
  BY SkipListAssumption DEF Linked, Levels
<1>2. ASSUME NEW i \in 1..n PROVE U[i + 1] \in S[i] \cup {HeadNode} /\ Before(U[i + 1], k)
  <2>1. CASE i = n
    <3>1. U[i + 1] = HeadNode
      BY <1>1, <2>1
    <3> QED BY <3>1 DEF Before
  <2>2. CASE i # n
    <3>1. i + 1 \in 1..n /\ i + 1 \in Levels /\ i \in Levels /\ i <= i + 1
      BY <1>1, <2>2
    <3>2. U[i + 1] = Pred(S[i + 1], k)
      BY <1>1, <3>1
    <3>3. S[i + 1] \in SUBSET Keys /\ S[i + 1] \subseteq S[i]
      BY <3>1 DEF Linked
    <3>4. Pred(S[i + 1], k) \in S[i + 1] \cup {HeadNode} /\ Before(Pred(S[i + 1], k), k)
      BY <3>3, PredIs
    <3> QED BY <3>2, <3>3, <3>4
  <2> QED BY <2>1, <2>2
<1>3. ASSUME NEW i \in 1..n PROVE RightmostBelow(l, k, i, U[i + 1]) = Pred(S[i], k)
  <2>1. i \in Levels
    BY <1>1
  <2> HIDE DEF U
  <2> QED BY <1>2, <2>1, RightmostIsPred
<1>4. ASSUME NEW i \in 1..(n + 1) PROVE U[i] = LeftStep(l, k, U, i)
  <2>1. CASE i > n
    BY <2>1 DEF LeftStep
  <2>2. CASE ~(i > n)
    <3>1. i \in 1..n /\ U[i] = Pred(S[i], k)
      BY <1>1, <2>2
    <3> HIDE DEF U
    <3> QED BY <1>3, <2>2, <3>1 DEF LeftStep
  <2> QED BY <2>1, <2>2
<1>5. IsLeft(U, l, k)
  <2>1. U = [i \in 1..(n + 1) |-> U[i]]
    OBVIOUS
  <2> HIDE DEF U
  <2> QED BY <1>4, <2>1 DEF IsLeft
<1> DEFINE F == CHOOSE f : IsLeft(f, l, k)
<1>6. IsLeft(F, l, k)
  <2> HIDE DEF U
  <2> QED BY <1>5, Zenon
<1>7. ASSUME NEW i \in 1..n PROVE U[i] = Pred(S[i], k)
  BY <1>1
<1>8. F[n + 1] = HeadNode /\ U[n + 1] = HeadNode
  <2>1. n + 1 > n /\ n + 1 \in 1..(n + 1)
    BY <1>1
  <2>2. U[n + 1] = HeadNode
    BY <2>1
  <2> HIDE DEF F, U
  <2> QED BY <1>6, <2>1, <2>2 DEF IsLeft, LeftStep
<1> HIDE DEF F, U
<1>9. ASSUME NEW i \in 1..n PROVE F[i] = RightmostBelow(l, k, i, F[i + 1])
  <2>1. i \in 1..(n + 1) /\ ~(i > n)
    BY <1>1
  <2> QED BY <1>6, <2>1 DEF IsLeft, LeftStep
<1>10. ASSUME NEW i \in 1..n PROVE F[i] = U[i]
  <2> DEFINE B == {x \in 1..n : F[x] # U[x]}
  <2>1. SUFFICES ASSUME B # {} PROVE FALSE
    OBVIOUS
  <2>2. B \in SUBSET Nat /\ \A x \in B : x <= n
    BY <1>1
  <2>3. Max(B) \in B /\ \A y \in B : y <= Max(B)
    <3> HIDE DEF B
    <3> QED BY <1>1, <2>1, <2>2, GreatestElement
  <2> DEFINE b == Max(B)
  <2> HIDE DEF b
  <2>4. b \in 1..n /\ F[b] # U[b] /\ (\A y \in B : y <= b)
    BY <2>3 DEF b
  <2>5. F[b + 1] = U[b + 1]
    <3>1. CASE b = n
      BY <1>8, <3>1
    <3>2. CASE b # n
      <4>1. b + 1 \in 1..n /\ ~(b + 1 <= b)
        BY <1>1, <2>4, <3>2
      <4> QED BY <2>4, <4>1
    <3> QED BY <3>1, <3>2
  <2> QED BY <1>3, <1>7, <1>9, <2>4, <2>5
<1> QED BY <1>7, <1>10, UpdateUnfold DEF F

\* The node behind the traversal has the key if and only if the list has an entry for it.
LEMMA CandidateIs ==
    ASSUME NEW l, NEW S, Linked(l, S), NEW k \in Keys
    PROVE  Candidate(l, k) = k <=> l.ent[k] # NoEntry
<1> DEFINE P == Pred(S[1], k)
           c == l.next[1][P]
<1>1. /\ 1 \in Levels /\ S[1] \in SUBSET Keys /\ 1 \in 1..l.level /\ k \in Nat
      /\ \A x \in S[1] : x \in Nat
  BY SkipListAssumption, KeysAssumption DEF Linked, Levels
<1>2. P \in S[1] \cup {HeadNode} /\ Before(P, k) /\ \A x \in S[1] : x < k => P \in Keys /\ x <= P
  BY <1>1, PredIs
<1>3. Candidate(l, k) = c
  BY <1>1, UpdateIsPred DEF Candidate
<1>4. IsNext(S[1], P, c)
  <2>1. LevelOK(S[1], l.next[1])
    BY <1>1 DEF Linked
  <2>2. P \in Nodes
    BY <1>1, <1>2 DEF Nodes
  <2> HIDE DEF P
  <2> QED BY <1>2, <2>1, <2>2 DEF LevelOK
<1>5. k \in S[1] <=> l.ent[k] # NoEntry
  BY DEF Linked, KeysOf
<1> HIDE DEF P, c
<1>6. ASSUME k \in S[1] PROVE c = k
  <2>1. c \in S[1] /\ c <= k /\ Before(P, c) /\ c \in Nat
    BY <1>1, <1>2, <1>4, <1>6 DEF IsNext
  <2>2. ~(c < k)
    <3>1. SUFFICES ASSUME c < k PROVE FALSE
      OBVIOUS
    <3>2. P \in Keys /\ c <= P /\ P \in Nat /\ P # HeadNode
      BY <1>2, <2>1, <3>1, KeysAssumption, SkipListAssumption
    <3>3. P < c
      BY <2>1, <3>2 DEF Before
    <3> QED BY <2>1, <3>2, <3>3
  <2> QED BY <1>1, <2>1, <2>2
<1>7. ASSUME c = k PROVE k \in S[1]
  BY <1>4, <1>7, SkipListAssumption DEF IsNext
<1> QED BY <1>3, <1>5, <1>6, <1>7

\* get returns the entry of the key.
LEMMA LookupIs ==
    ASSUME NEW l, NEW S, Linked(l, S), NEW k \in Keys
    PROVE  Lookup(l, k) = l.ent[k]
BY CandidateIs DEF Lookup

\* The fields of a skip list.
IsList(l) ==
    l = [next |-> l.next, ent |-> l.ent, level |-> l.level, length |-> l.length,
         byteSize |-> l.byteSize]

\* Linking k in behind its predecessor.
LEMMA InsertLevel ==
    ASSUME NEW T \in SUBSET Keys, NEW k \in Keys \ T, NEW nx \in [Nodes -> Keys \cup {Nil}],
           LevelOK(T, nx), NEW u, u = Pred(T, k)
    PROVE  LET nx2 == [nx EXCEPT ![k] = nx[u], ![u] = k]
           IN  nx2 \in [Nodes -> Keys \cup {Nil}] /\ LevelOK(T \cup {k}, nx2)
<1> DEFINE nx2 == [nx EXCEPT ![k] = nx[u], ![u] = k]
           T2 == T \cup {k}
<1>1. /\ k \in Nat /\ HeadNode \notin Keys /\ Nil \notin Keys /\ Nil # HeadNode
      /\ \A x \in T : x \in Nat /\ x \in Keys
  BY KeysAssumption, SkipListAssumption
<1>2. u \in T \cup {HeadNode} /\ Before(u, k) /\ u # k /\ u \in Nodes /\ k \in Nodes
  <2>1. u \in T \cup {HeadNode} /\ Before(u, k)
    BY PredIs
  <2> QED BY <1>1, <2>1 DEF Nodes
<1>3. ASSUME NEW x \in T, Before(u, x) PROVE k < x
  <2>1. x \in Nat /\ x # k
    BY <1>1
  <2>2. ASSUME x < k PROVE FALSE
    <3>1. u \in Keys /\ x <= u
      BY <2>2, PredIs
    <3>2. u \in Nat /\ u < x
      BY <1>1, <1>3, <3>1, KeysAssumption DEF Before
    <3> QED BY <2>1, <3>1, <3>2
  <2> QED BY <1>1, <2>1, <2>2
<1>4. IsNext(T, u, nx[u])
  BY <1>2 DEF LevelOK
<1>5. nx2[u] = k /\ nx2[k] = nx[u] /\ (\A n \in Nodes : n # u /\ n # k => nx2[n] = nx[n])
  BY <1>2
<1>6. nx2 \in [Nodes -> Keys \cup {Nil}]
  BY <1>2
<1> HIDE DEF nx2
<1>7. IsNext(T2, u, k)
  <2>1. ASSUME NEW x \in T2, Before(u, x) PROVE k <= x
    <3>1. CASE x = k
      BY <1>1, <3>1
    <3>2. CASE x \in T
      BY <1>1, <1>3, <2>1, <3>2
    <3> QED BY <3>1, <3>2
  <2> QED BY <1>1, <1>2, <2>1 DEF IsNext
<1>8. IsNext(T2, k, nx[u])
  <2>1. ASSUME NEW x \in T2, Before(k, x) PROVE x \in T /\ Before(u, x)
    <3>1. k < x /\ x # k
      BY <1>1, <2>1 DEF Before
    <3>2. x \in T /\ x \in Nat
      BY <1>1, <3>1
    <3>3. CASE u = HeadNode
      BY <3>2, <3>3 DEF Before
    <3>4. CASE u # HeadNode
      <4>1. u \in Nat /\ u < k /\ u \in Keys
        BY <1>1, <1>2, <3>4 DEF Before
      <4> QED BY <1>1, <3>1, <3>2, <4>1 DEF Before
    <3> QED BY <3>3, <3>4
  <2>2. ASSUME nx[u] \in T2 PROVE Before(k, nx[u]) /\ \A x \in T2 : Before(k, x) => nx[u] <= x
    <3>1. nx[u] \in T
      BY <1>1, <1>4, <2>2 DEF IsNext
    <3>2. Before(u, nx[u]) /\ \A x \in T : Before(u, x) => nx[u] <= x
      BY <1>4, <3>1 DEF IsNext
    <3>3. k < nx[u]
      BY <1>3, <3>1, <3>2
    <3> QED BY <2>1, <3>2, <3>3 DEF Before
  <2>3. ASSUME nx[u] = Nil PROVE \A x \in T2 : ~Before(k, x)
    BY <1>4, <2>1, <2>3 DEF IsNext
  <2>4. nx[u] \in T2 \cup {Nil}
    BY <1>4 DEF IsNext
  <2> QED BY <2>2, <2>3, <2>4 DEF IsNext
<1>9. ASSUME NEW n \in Nodes, n # u, n # k, n \in T \cup {HeadNode} PROVE IsNext(T2, n, nx[n])
  <2>1. IsNext(T, n, nx[n])
    BY <1>9 DEF LevelOK
  <2>2. ASSUME Before(n, k) PROVE u \in T /\ Before(n, u)
    <3>1. CASE n = HeadNode
      BY <1>2, <1>9, <3>1 DEF Before
    <3>2. CASE n # HeadNode
      <4>1. n \in T /\ n < k /\ n \in Nat
        BY <1>1, <1>9, <2>2, <3>2 DEF Before
      <4>2. u \in Keys /\ n <= u
        BY <4>1, PredIs
      <4>3. u \in T /\ u \in Nat /\ n < u /\ n \in Keys
        BY <1>1, <1>2, <1>9, <4>1, <4>2
      <4> QED BY <4>3 DEF Before
    <3> QED BY <3>1, <3>2
  <2>3. ASSUME nx[n] \in T2 PROVE Before(n, nx[n]) /\ \A x \in T2 : Before(n, x) => nx[n] <= x
    <3>1. nx[n] \in T
      BY <1>1, <2>1, <2>3 DEF IsNext
    <3>2. Before(n, nx[n]) /\ \A x \in T : Before(n, x) => nx[n] <= x
      BY <2>1, <3>1 DEF IsNext
    <3>3. ASSUME Before(n, k) PROVE nx[n] <= k
      <4>1. u \in T /\ nx[n] <= u
        BY <2>2, <3>2, <3>3
      <4>2. u < k /\ u \in Nat /\ nx[n] \in Nat
        BY <1>1, <1>2, <3>1, <4>1 DEF Before
      <4> QED BY <1>1, <4>1, <4>2
    <3> QED BY <3>2, <3>3
  <2>4. ASSUME nx[n] = Nil PROVE \A x \in T2 : ~Before(n, x)
    BY <2>1, <2>2, <2>4 DEF IsNext
  <2>5. nx[n] \in T2 \cup {Nil}
    BY <2>1 DEF IsNext
  <2> QED BY <2>3, <2>4, <2>5 DEF IsNext
<1>10. ASSUME NEW n \in Nodes PROVE IF n \in T2 \cup {HeadNode} THEN IsNext(T2, n, nx2[n]) ELSE nx2[n] = Nil
  <2>1. CASE n = u
    BY <1>2, <1>5, <1>7, <2>1
  <2>2. CASE n = k
    BY <1>5, <1>8, <2>2
  <2>3. CASE n # u /\ n # k
    <3>1. nx2[n] = nx[n]
      BY <1>5, <2>3
    <3>2. n \in T \cup {HeadNode} \/ nx[n] = Nil
      BY DEF LevelOK
    <3>3. n \in T2 \cup {HeadNode} <=> n \in T \cup {HeadNode}
      BY <2>3
    <3> QED BY <1>9, <2>3, <3>1, <3>2, <3>3
  <2> QED BY <2>1, <2>2, <2>3
<1>11. LevelOK(T2, nx2)
  BY <1>10 DEF LevelOK
<1> QED BY <1>6, <1>11 DEF nx2

\* Every put keeps the list in order, whatever height is drawn.
LEMMA PutLinked ==
    ASSUME NEW l, IsList(l), NEW S, Linked(l, S), NEW k \in Keys, NEW e \in Entries, NEW lvl \in Levels
    PROVE  /\ \E S2 : Linked(Put(l, k, e, lvl), S2)
           /\ IsList(Put(l, k, e, lvl))
           /\ Put(l, k, e, lvl).ent = [l.ent EXCEPT ![k] = e]
<1> DEFINE p == Put(l, k, e, lvl)
<1>0. e # NoEntry /\ l.ent \in Table
  BY EntryAssumption DEF Entries, Linked
<1>1. KeysOf([l.ent EXCEPT ![k] = e]) = KeysOf(l.ent) \cup {k} /\ [l.ent EXCEPT ![k] = e] \in Table
  BY <1>0 DEF Table, KeysOf
<1>2. CASE l.ent[k] # NoEntry
  <2>1. Candidate(l, k) = k
    BY <1>2, CandidateIs
  <2>2. p = [l EXCEPT !.byteSize = @ - ReplacedLen(l, k) + EntryLen(e), !.ent[k] = e]
    BY <2>1 DEF Put
  <2>3. p = [next |-> l.next, ent |-> [l.ent EXCEPT ![k] = e], level |-> l.level, length |-> l.length,
             byteSize |-> l.byteSize - ReplacedLen(l, k) + EntryLen(e)]
    BY <2>2 DEF IsList
  <2> HIDE DEF p
  <2>4. p.next = l.next /\ p.ent = [l.ent EXCEPT ![k] = e] /\ p.level = l.level /\ IsList(p)
    BY <2>3 DEF IsList
  <2>5. KeysOf(p.ent) = KeysOf(l.ent)
    BY <1>1, <1>2, <2>4 DEF KeysOf
  <2>6. Linked(p, S)
    BY <1>1, <2>4, <2>5 DEF Linked
  <2> QED BY <2>4, <2>6 DEF p
<1>3. CASE l.ent[k] = NoEntry
  <2>1. Candidate(l, k) # k
    BY <1>3, CandidateIs
  <2> DEFINE up == IF lvl > l.level THEN lvl ELSE l.level
             S2 == [i \in Levels |-> IF i > lvl THEN S[i] ELSE S[i] \cup {k}]
  <2>2. p = [next |-> Link(l, k, lvl), ent |-> [l.ent EXCEPT ![k] = e], level |-> up,
             length |-> l.length + 1, byteSize |-> l.byteSize + KeyLen + EntryLen(e)]
    BY <2>1 DEF Put
  <2> HIDE DEF p
  <2>3. p.next = Link(l, k, lvl) /\ p.ent = [l.ent EXCEPT ![k] = e] /\ p.level = up /\ IsList(p)
    BY <2>2 DEF IsList
  <2>4. \A i \in Levels : i \in Nat
    BY SkipListAssumption DEF Levels
  <2>5. S \in [Levels -> SUBSET Keys] /\ l.level \in Levels /\ 1 \in Levels /\ S[1] = KeysOf(l.ent)
    BY SkipListAssumption DEF Linked, Levels
  <2>6. ASSUME NEW i \in Levels PROVE k \notin S[i]
    <3>1. 1 <= i
      BY DEF Levels
    <3>2. S[i] \subseteq S[1]
      BY <2>5, <3>1 DEF Linked
    <3> QED BY <1>3, <2>5, <3>2 DEF KeysOf
  <2>7. ASSUME NEW i \in Levels PROVE p.next[i] \in [Nodes -> Keys \cup {Nil}] /\ LevelOK(S2[i], p.next[i])
    <3>1. l.next[i] \in [Nodes -> Keys \cup {Nil}] /\ LevelOK(S[i], l.next[i]) /\ S[i] \in SUBSET Keys
      BY DEF Linked
    <3>2. CASE i > lvl
      BY <2>3, <3>1, <3>2 DEF Link
    <3>3. CASE ~(i > lvl)
      <4> DEFINE u == IF i <= l.level THEN Update(l, k)[i] ELSE HeadNode
                 nx2 == [l.next[i] EXCEPT ![k] = l.next[i][u], ![u] = k]
      <4>1. u = Pred(S[i], k)
        <5>1. CASE i <= l.level
          <6>1. i \in 1..l.level
            BY <2>4, <2>5, <5>1 DEF Levels
          <6> QED BY <5>1, <6>1, UpdateIsPred
        <5>2. CASE ~(i <= l.level)
          <6>1. S[i] = {}
            BY <2>4, <2>5, <5>2 DEF Linked
          <6> QED BY <5>2, <6>1 DEF Pred
        <5> QED BY <5>1, <5>2
      <4>2. p.next[i] = nx2
        BY <2>3, <3>3 DEF Link
      <4>3. S2[i] = S[i] \cup {k} /\ k \in Keys \ S[i]
        BY <2>6, <3>3
      <4> HIDE DEF u, S2
      <4>4. nx2 \in [Nodes -> Keys \cup {Nil}] /\ LevelOK(S[i] \cup {k}, nx2)
        BY <3>1, <4>1, <4>3, InsertLevel
      <4> QED BY <4>2, <4>3, <4>4
    <3> QED BY <3>2, <3>3
  <2>8. S2 \in [Levels -> SUBSET Keys] /\ p.next \in [Levels -> [Nodes -> Keys \cup {Nil}]]
    <3>1. S2 \in [Levels -> SUBSET Keys]
      BY <2>5
    <3>2. p.next = [i \in Levels |-> p.next[i]]
      BY <2>3 DEF Link
    <3> QED BY <2>7, <3>1, <3>2
  <2>9. ASSUME NEW i \in Levels, NEW j \in Levels, i <= j PROVE S2[j] \subseteq S2[i]
    <3>1. S[j] \subseteq S[i]
      BY <2>9 DEF Linked
    <3>2. i > lvl => j > lvl
      BY <2>4, <2>9
    <3> QED BY <3>1, <3>2
  <2>10. up \in Levels /\ lvl <= up /\ l.level <= up
    BY <2>4, <2>5
  <2>11. ASSUME NEW i \in Levels, i > up PROVE S2[i] = {}
    <3>1. i > lvl /\ i > l.level
      BY <2>4, <2>5, <2>10, <2>11
    <3> QED BY <3>1 DEF Linked
  <2>12. S2[1] = KeysOf(p.ent) /\ p.ent \in Table
    <3>1. ~(1 > lvl)
      BY DEF Levels
    <3>2. S2[1] = S[1] \cup {k}
      BY <2>5, <3>1
    <3> HIDE DEF S2
    <3> QED BY <1>1, <2>3, <2>5, <3>2
  <2> HIDE DEF S2, up
  <2>13. Linked(p, S2)
    BY <2>3, <2>7, <2>8, <2>9, <2>10, <2>11, <2>12 DEF Linked
  <2> QED BY <2>3, <2>13 DEF p
<1> QED BY <1>2, <1>3

\* An empty list is linked.
LEMMA NewListLinked ==
    /\ \E S : Linked(NewSkipList, S)
    /\ IsList(NewSkipList) /\ NewSkipList.ent = EmptyTable
<1> DEFINE S == [i \in Levels |-> {}]
           l == NewSkipList
<1>1. /\ l.next = [i \in Levels |-> [n \in Nodes |-> Nil]] /\ l.ent = EmptyTable /\ l.level = 1
      /\ IsList(l)
  BY DEF NewSkipList, IsList
<1>2. KeysOf(EmptyTable) = {} /\ EmptyTable \in Table /\ 1 \in Levels
  BY SkipListAssumption DEF KeysOf, EmptyTable, Table, Levels
<1>3. ASSUME NEW i \in Levels PROVE LevelOK(S[i], l.next[i])
  BY <1>1 DEF LevelOK, IsNext
<1>4. Linked(l, S)
  BY <1>1, <1>2, <1>3 DEF Linked
<1> QED BY <1>1, <1>4

WalkStep(l, i, f, n) ==
    IF l.next[i][n] = Nil THEN <<>> ELSE <<l.next[i][n]>> \o f[l.next[i][n]]

IsWalk(f, l, i) == f = [n \in Nodes |-> WalkStep(l, i, f, n)]

\* LevelKeys is the function that satisfies its recursion.
LEMMA LevelKeysUnfold ==
    ASSUME NEW l, NEW i
    PROVE  LevelKeys(l, i) = (CHOOSE f : IsWalk(f, l, i))[HeadNode]
BY Zenon DEF LevelKeys, IsWalk, WalkStep

\* A level in order can be walked to its end.
LEMMA WalkExists ==
    ASSUME NEW l, NEW S, Linked(l, S), NEW i \in Levels
    PROVE  \E f : IsWalk(f, l, i)
<1> DEFINE nxt == l.next[i]
<1>1. \A n \in Nodes : nxt[n] # Nil => nxt[n] \in Keys /\ (n \in Keys => n < nxt[n])
  <2>1. LevelOK(S[i], nxt) /\ nxt \in [Nodes -> Keys \cup {Nil}]
    BY DEF Linked
  <2> HIDE DEF nxt
  <2> QED BY <2>1, SkipListAssumption DEF LevelOK, IsNext, Before
<1>2. \A n \in Keys : n \in Nat
  BY KeysAssumption
<1>3. PICK M \in Nat : \A n \in Keys : n <= M
  BY KeysAssumption, FiniteBounded
<1> DEFINE From(m, n) == n \in Keys /\ n + m >= M + 1
           Upto(f, m) == \A n \in Nodes : From(m, n) => f[n] = WalkStep(l, i, f, n)
           N == {m \in Nat : \E f : Upto(f, m)}
<1>4. 0 \in N
  <2>1. \A n \in Nodes : ~From(0, n)
    BY <1>2, <1>3
  <2> HIDE DEF From
  <2> QED BY <2>1
<1>5. ASSUME NEW m \in Nat, m \in N PROVE m + 1 \in N
  <2>1. PICK f : Upto(f, m)
    BY <1>5
  <2> DEFINE h == [n \in Nodes |-> IF From(m, n) THEN f[n] ELSE WalkStep(l, i, f, n)]
  <2>2. ASSUME NEW n \in Nodes, From(m + 1, n) PROVE h[n] = WalkStep(l, i, h, n)
    <3>1. h[n] = WalkStep(l, i, f, n)
      BY <2>1
    <3>2. ASSUME nxt[n] # Nil PROVE h[nxt[n]] = f[nxt[n]]
      <4>1. nxt[n] \in Keys /\ n < nxt[n] /\ n \in Nat /\ nxt[n] \in Nat /\ nxt[n] \in Nodes
        BY <1>1, <1>2, <2>2, <3>2 DEF Nodes
      <4>2. nxt[n] + m >= M + 1
        BY <2>2, <4>1
      <4>3. From(m, nxt[n])
        BY <4>1, <4>2
      <4> HIDE DEF From
      <4> QED BY <4>1, <4>3
    <3> HIDE DEF h, From
    <3> QED BY <3>1, <3>2 DEF WalkStep
  <2>3. Upto(h, m + 1) /\ m + 1 \in Nat
    BY <2>2
  <2> HIDE DEF h, Upto
  <2> QED BY <2>3
<1>6. M + 1 \in N
  <2> HIDE DEF N
  <2> QED BY <1>4, <1>5, SetInduction
<1>7. PICK f : Upto(f, M + 1)
  BY <1>6
<1> DEFINE h == [n \in Nodes |-> IF n \in Keys THEN f[n] ELSE WalkStep(l, i, f, n)]
<1>8. ASSUME NEW n \in Nodes PROVE h[n] = WalkStep(l, i, h, n)
  <2>1. n \in Keys => From(M + 1, n)
    BY <1>2
  <2>2. h[n] = WalkStep(l, i, f, n)
    BY <1>7, <2>1
  <2>3. nxt[n] # Nil => h[nxt[n]] = f[nxt[n]]
    BY <1>1 DEF Nodes
  <2> HIDE DEF h
  <2> QED BY <2>2, <2>3 DEF WalkStep
<1>9. h = [n \in Nodes |-> h[n]]
  OBVIOUS
<1> HIDE DEF h
<1>10. IsWalk(h, l, i)
  BY <1>8, <1>9 DEF IsWalk
<1> QED BY <1>10

Sorted(s) == \A a, b \in DOMAIN s : a < b => s[a] < s[b]

\* A smaller key in front keeps a sequence sorted.
LEMMA ConsSorted ==
    ASSUME NEW x \in Keys, NEW s \in Seq(Keys), Sorted(s), \A y \in ToSet(s) : x < y
    PROVE  /\ <<x>> \o s \in Seq(Keys) /\ Sorted(<<x>> \o s)
           /\ ToSet(<<x>> \o s) = {x} \cup ToSet(s)
<1> DEFINE t == <<x>> \o s
<1>1. /\ t \in Seq(Keys) /\ Len(t) = Len(s) + 1 /\ t[1] = x /\ Len(s) \in Nat
      /\ \A a \in 2..Len(t) : t[a] = s[a - 1]
      /\ DOMAIN t = 1..Len(t) /\ DOMAIN s = 1..Len(s)
  OBVIOUS
<1> HIDE DEF t
<1>2. ASSUME NEW a \in DOMAIN t, NEW b \in DOMAIN t, a < b PROVE t[a] < t[b]
  <2>1. b \in 2..Len(t) /\ b - 1 \in DOMAIN s
    BY <1>1, <1>2
  <2>2. t[b] = s[b - 1] /\ s[b - 1] \in ToSet(s)
    BY <1>1, <2>1 DEF ToSet
  <2>3. CASE a = 1
    BY <1>1, <2>2, <2>3
  <2>4. CASE a # 1
    <3>1. a \in 2..Len(t) /\ a - 1 \in DOMAIN s /\ a - 1 < b - 1
      BY <1>1, <1>2, <2>4
    <3> QED BY <1>1, <2>1, <2>2, <3>1 DEF Sorted
  <2> QED BY <2>3, <2>4
<1>3. ToSet(t) = {x} \cup ToSet(s)
  <2>1. ASSUME NEW y \in ToSet(t) PROVE y \in {x} \cup ToSet(s)
    <3>1. PICK a \in DOMAIN t : y = t[a]
      BY DEF ToSet
    <3>2. CASE a = 1
      BY <1>1, <3>1, <3>2
    <3>3. CASE a # 1
      <4>1. a \in 2..Len(t) /\ a - 1 \in DOMAIN s
        BY <1>1, <3>1, <3>3
      <4> QED BY <1>1, <3>1, <4>1 DEF ToSet
    <3> QED BY <3>2, <3>3
  <2>2. x \in ToSet(t)
    <3>1. 1 \in DOMAIN t
      BY <1>1
    <3> QED BY <1>1, <3>1 DEF ToSet
  <2>3. ASSUME NEW y \in ToSet(s) PROVE y \in ToSet(t)
    <3>1. PICK a \in DOMAIN s : y = s[a]
      BY DEF ToSet
    <3>2. a + 1 \in 2..Len(t) /\ (a + 1) - 1 = a /\ a + 1 \in DOMAIN t
      BY <1>1
    <3>3. t[a + 1] = y
      BY <1>1, <3>1, <3>2
    <3> QED BY <3>2, <3>3 DEF ToSet
  <2> QED BY <2>1, <2>2, <2>3
<1> QED BY <1>1, <1>2, <1>3 DEF Sorted, t

\* A walk from the head shows the keys of the level in their order.
LEMMA LevelKeysIs ==
    ASSUME NEW l, NEW S, Linked(l, S), NEW i \in Levels
    PROVE  /\ LevelKeys(l, i) \in Seq(Keys) /\ Sorted(LevelKeys(l, i))
           /\ ToSet(LevelKeys(l, i)) = S[i]
<1> DEFINE T == S[i]
           nxt == l.next[i]
           F == CHOOSE f : IsWalk(f, l, i)
           After(n) == {x \in T : Before(n, x)}
           Good(n) == F[n] \in Seq(Keys) /\ Sorted(F[n]) /\ ToSet(F[n]) = After(n)
<1>1. LevelOK(T, nxt) /\ nxt \in [Nodes -> Keys \cup {Nil}] /\ T \in SUBSET Keys /\ (\A x \in T : x \in Nat)
  BY KeysAssumption DEF Linked
<1>2. IsWalk(F, l, i)
  BY WalkExists, Zenon
<1> HIDE DEF F, T, nxt
<1>3. ASSUME NEW n \in Nodes PROVE F[n] = IF nxt[n] = Nil THEN <<>> ELSE <<nxt[n]>> \o F[nxt[n]]
  BY <1>2 DEF IsWalk, WalkStep, nxt
<1>4. ASSUME NEW n \in T \cup {HeadNode}, nxt[n] = Nil \/ Good(nxt[n]) PROVE Good(n)
  <2>1. n \in Nodes /\ IsNext(T, n, nxt[n])
    BY <1>1 DEF LevelOK, Nodes
  <2>2. CASE nxt[n] = Nil
    <3>1. F[n] = <<>>
      BY <1>3, <2>1, <2>2
    <3>2. After(n) = {}
      BY <2>1, <2>2 DEF IsNext
    <3>3. <<>> \in Seq(Keys) /\ Sorted(<<>>) /\ ToSet(<<>>) = {}
      BY DEF Sorted, ToSet
    <3> QED BY <3>1, <3>2, <3>3
  <2>3. CASE nxt[n] # Nil
    <3> DEFINE x == nxt[n]
    <3>1. /\ x \in T /\ Before(n, x) /\ (\A y \in T : Before(n, y) => x <= y)
          /\ F[n] = <<x>> \o F[x] /\ Good(x) /\ x \in Nat /\ x \in Keys
      BY <1>1, <1>3, <1>4, <2>1, <2>3 DEF IsNext
    <3> HIDE DEF x
    <3>2. \A y \in After(x) : x < y
      BY <3>1, SkipListAssumption DEF Before
    <3>3. /\ <<x>> \o F[x] \in Seq(Keys) /\ Sorted(<<x>> \o F[x])
          /\ ToSet(<<x>> \o F[x]) = {x} \cup After(x)
      BY <3>1, <3>2, ConsSorted
    <3>4. {x} \cup After(x) = After(n)
      <4>1. ASSUME NEW y \in After(n) PROVE y = x \/ y \in After(x)
        <5>1. y \in T /\ x <= y /\ y \in Nat
          BY <1>1, <3>1
        <5>2. y = x \/ x < y
          BY <3>1, <5>1
        <5> QED BY <3>1, <5>1, <5>2 DEF Before
      <4>2. ASSUME NEW y \in After(x) PROVE y \in After(n)
        <5>1. y \in T /\ x < y /\ y \in Nat
          BY <1>1, <3>2
        <5>2. CASE n = HeadNode
          BY <5>1, <5>2 DEF Before
        <5>3. CASE n # HeadNode
          <6>1. n \in T /\ n \in Keys /\ n \in Nat /\ n < x
            BY <1>1, <3>1, <5>3 DEF Before
          <6> QED BY <3>1, <5>1, <6>1 DEF Before
        <5> QED BY <5>2, <5>3
      <4>3. x \in After(n)
        BY <3>1
      <4> QED BY <4>1, <4>2, <4>3
    <3> QED BY <3>1, <3>3, <3>4
  <2> QED BY <2>2, <2>3
<1>5. ASSUME NEW n \in T PROVE Good(n)
  <2> DEFINE B == {x \in T : ~Good(x)}
  <2>1. SUFFICES ASSUME B # {} PROVE FALSE
    OBVIOUS
  <2>2. PICK M \in Nat : \A x \in Keys : x <= M
    BY KeysAssumption, FiniteBounded
  <2>3. B \in SUBSET Nat /\ \A x \in B : x <= M
    BY <1>1, <2>2
  <2>4. Max(B) \in B /\ \A y \in B : y <= Max(B)
    <3> HIDE DEF B
    <3> QED BY <2>1, <2>2, <2>3, GreatestElement
  <2> DEFINE b == Max(B)
  <2>5. b \in T /\ ~Good(b) /\ b \in Nat /\ \A y \in B : y <= b
    BY <1>1, <2>4
  <2> HIDE DEF b, Good
  <2>6. nxt[b] # Nil
    BY <1>4, <2>5
  <2>7. nxt[b] \in T /\ nxt[b] \in Nat /\ b < nxt[b]
    <3>1. IsNext(T, b, nxt[b]) /\ b # HeadNode
      BY <1>1, <2>5, SkipListAssumption DEF LevelOK, Nodes
    <3> QED BY <1>1, <2>6, <3>1 DEF IsNext, Before
  <2>8. Good(nxt[b])
    <3>1. nxt[b] \notin B
      BY <2>5, <2>7
    <3> QED BY <2>7, <3>1
  <2> QED BY <1>4, <2>5, <2>8
<1>6. Good(HeadNode)
  <2>1. nxt[HeadNode] = Nil \/ nxt[HeadNode] \in T
    BY <1>1 DEF LevelOK, Nodes, IsNext
  <2> HIDE DEF Good
  <2> QED BY <1>4, <1>5, <2>1
<1>7. After(HeadNode) = T
  BY DEF Before
<1> QED BY <1>6, <1>7, LevelKeysUnfold DEF F, T

\* The bytes an entry of table t counts for, and the fold that adds them up.
EntryBytes(t) == [k \in Keys |-> KeyLen + EntryLen(t[k])]

ByteStep(t, f, s) ==
    IF s = {} THEN 0 ELSE (KeyLen + EntryLen(t[Pick(s)])) + f[s \ {Pick(s)}]

IsByteSum(f, t) == f = [s \in SUBSET KeysOf(t) |-> ByteStep(t, f, s)]

\* ByteSize is the fold it is defined by, and that is a sum over the keys.
LEMMA ByteSizeUnfold ==
    ASSUME NEW t
    PROVE  ByteSize(t) = (CHOOSE f : IsByteSum(f, t))[KeysOf(t)]
BY Zenon DEF ByteSize, MapThenSumSet, MapThenFoldSet, IsByteSum, ByteStep, Pick

\* The bytes of a table are the sum of the bytes of its entries.
LEMMA ByteSizeIsSum ==
    ASSUME NEW t
    PROVE  ByteSize(t) = SumOver(EntryBytes(t), KeysOf(t))
<1> DEFINE K == KeysOf(t)
           g == EntryBytes(t)
<1>1. IsFiniteSet(K)
  BY KeysAssumption, FS_Subset DEF KeysOf
<1>2. ASSUME NEW f, NEW s \in SUBSET K PROVE ByteStep(t, f, s) = SumStep(f, g, s)
  <2>1. s # {} => Pick(s) \in Keys
    BY PickIn DEF KeysOf
  <2> QED BY <2>1 DEF ByteStep, SumStep, EntryBytes
<1>3. ASSUME NEW f PROVE IsByteSum(f, t) <=> IsSum(f, g, K)
  BY <1>2 DEF IsByteSum, IsSum
<1>4. (CHOOSE f : IsByteSum(f, t)) = (CHOOSE f : IsSum(f, g, K))
  BY <1>3, Zenon
<1> QED BY <1>4, ByteSizeUnfold, SumUnfold

\* A length is a natural number.
LEMMA EntryLenNat ==
    ASSUME NEW e
    PROVE  EntryLen(e) \in Nat
BY LenAssumption DEF EntryLen

\* What a put does to the number of entries and to their bytes.
LEMMA SizesPut ==
    ASSUME NEW t \in Table, NEW k \in Keys, NEW e \in Entries
    PROVE  LET t2 == [t EXCEPT ![k] = e]
           IN  /\ t[k] # NoEntry => /\ TableLen(t2) = TableLen(t)
                                    /\ ByteSize(t2) = ByteSize(t) - EntryLen(t[k]) + EntryLen(e)
               /\ t[k] = NoEntry => /\ TableLen(t2) = TableLen(t) + 1
                                    /\ ByteSize(t2) = ByteSize(t) + KeyLen + EntryLen(e)
<1> DEFINE t2 == [t EXCEPT ![k] = e]
           K == KeysOf(t)
           K0 == K \ {k}
           g == EntryBytes(t)
           g2 == EntryBytes(t2)
<1>1. t2 \in Table /\ KeysOf(t2) = K0 \cup {k} /\ k \notin K0 /\ K0 \subseteq Keys
  <2>1. e # NoEntry
    BY EntryAssumption DEF Entries
  <2> QED BY <2>1 DEF KeysOf, Table, Entries
<1>2. IsFiniteSet(K0) /\ IsFiniteSet(K)
  BY KeysAssumption, FS_Subset DEF KeysOf
<1>3. g2[k] = KeyLen + EntryLen(e) /\ g[k] = KeyLen + EntryLen(t[k]) /\ \A x \in K0 : g[x] = g2[x]
  BY DEF EntryBytes, Table, KeysOf
<1>4. \A x \in Keys : g[x] \in Int /\ g2[x] \in Int
  BY EntryLenNat, LenAssumption DEF EntryBytes
<1> HIDE DEF t2, g, g2
<1>5. ByteSize(t2) = SumOver(g2, K0) + g2[k]
  <2>1. \A y \in K0 \cup {k} : g2[y] \in Int
    BY <1>1, <1>4
  <2>2. SumOver(g2, K0 \cup {k}) = SumOver(g2, K0) + g2[k]
    BY <1>1, <1>2, <2>1, SumAdd
  <2> QED BY <1>1, <2>2, ByteSizeIsSum DEF g2
<1>6. SumOver(g2, K0) = SumOver(g, K0) /\ SumOver(g, K0) \in Int
  <2>1. \A x \in K0 : g[x] \in Int
    BY <1>1, <1>4
  <2> QED BY <1>2, <1>3, <2>1, SumEqual, SumInt
<1>7. EntryLen(e) \in Nat /\ EntryLen(t[k]) \in Nat /\ KeyLen \in Nat
  BY EntryLenNat, LenAssumption
<1>8. CASE t[k] # NoEntry
  <2>1. K = K0 \cup {k}
    BY <1>8 DEF KeysOf
  <2>2. ByteSize(t) = SumOver(g, K0) + g[k]
    <3>1. \A y \in K : g[y] \in Int
      BY <1>4 DEF KeysOf
    <3>2. SumOver(g, K) = SumOver(g, K0) + g[k]
      BY <1>1, <1>2, <2>1, <3>1, SumAdd
    <3> QED BY <3>2, ByteSizeIsSum DEF g
  <2>3. ByteSize(t2) = ByteSize(t) - EntryLen(t[k]) + EntryLen(e)
    BY <1>3, <1>5, <1>6, <1>7, <2>2
  <2>4. TableLen(t2) = TableLen(t)
    BY <1>1, <2>1 DEF TableLen
  <2> QED BY <1>8, <2>3, <2>4 DEF t2
<1>9. CASE t[k] = NoEntry
  <2>1. K = K0
    BY <1>9 DEF KeysOf
  <2>2. ByteSize(t) = SumOver(g, K0)
    BY <2>1, ByteSizeIsSum DEF g
  <2>3. ByteSize(t2) = ByteSize(t) + KeyLen + EntryLen(e)
    BY <1>3, <1>5, <1>6, <1>7, <2>2
  <2>4. TableLen(t2) = TableLen(t) + 1
    BY <1>1, <1>2, <2>1, FS_AddElement DEF TableLen
  <2> QED BY <1>9, <2>3, <2>4 DEF t2
<1> QED BY <1>8, <1>9

\* A new MemTable has no entries and no bytes.
LEMMA SizesEmpty == TableLen(EmptyTable) = 0 /\ ByteSize(EmptyTable) = 0
<1>1. KeysOf(EmptyTable) = {}
  BY DEF KeysOf, EmptyTable
<1> QED BY <1>1, ByteSizeIsSum, SumEmpty, FS_EmptySet DEF TableLen

-----------------------------------------------------------------------------
(* The MemTable in the specification.                                      *)

\* What holds of the MemTable in every reachable state.
MemOK ==
    /\ IsList(mem) /\ mem.ent = wantMem
    /\ \E S : Linked(mem, S)
    /\ mem.length = TableLen(wantMem) /\ mem.byteSize = ByteSize(wantMem)

\* A new MemTable satisfies the invariant.
LEMMA MemNew ==
    ASSUME mem' = NewSkipList, wantMem' = EmptyTable
    PROVE  MemOK'
<1>1. NewSkipList.length = 0 /\ NewSkipList.byteSize = 0
  BY DEF NewSkipList
<1> QED BY <1>1, NewListLinked, SizesEmpty DEF MemOK

\* set and delete keep the invariant, whatever height is drawn.
LEMMA MemPut ==
    ASSUME MemOK, NEW k \in Keys, NEW e \in Entries, NEW lvl \in Levels,
           mem' = Put(mem, k, e, lvl), wantMem' = [wantMem EXCEPT ![k] = e]
    PROVE  MemOK'
<1>1. PICK S : Linked(mem, S)
  BY DEF MemOK
<1>2. IsList(mem) /\ mem.ent = wantMem /\ wantMem \in Table
  BY <1>1 DEF MemOK, Linked
<1>3. mem.length = TableLen(wantMem) /\ mem.byteSize = ByteSize(wantMem)
  BY DEF MemOK
<1>4. IsList(mem') /\ mem'.ent = wantMem' /\ \E S2 : Linked(mem', S2)
  <2> DEFINE p == Put(mem, k, e, lvl)
  <2>1. (\E S2 : Linked(p, S2)) /\ IsList(p) /\ p.ent = [mem.ent EXCEPT ![k] = e]
    <3>1. \E S2 : Linked(p, S2)
      BY <1>1, <1>2, PutLinked
    <3>2. IsList(p)
      BY <1>1, <1>2, PutLinked
    <3>3. p.ent = [mem.ent EXCEPT ![k] = e]
      BY <1>2 DEF Put, IsList
    <3> QED BY <3>1, <3>2, <3>3
  <2>2. mem' = p
    OBVIOUS
  <2> HIDE DEF p
  <2> QED BY <1>2, <2>1, <2>2
<1>5. mem'.length = TableLen(wantMem') /\ mem'.byteSize = ByteSize(wantMem')
  <2>1. CASE wantMem[k] # NoEntry
    <3>1. Candidate(mem, k) = k
      BY <1>1, <1>2, <2>1, CandidateIs
    <3>2. mem' = [mem EXCEPT !.byteSize = @ - ReplacedLen(mem, k) + EntryLen(e), !.ent[k] = e]
      BY <3>1 DEF Put
    <3>3. mem'.length = mem.length /\ mem'.byteSize = mem.byteSize - EntryLen(mem.ent[k]) + EntryLen(e)
      BY <1>2, <3>2 DEF IsList, ReplacedLen
    <3> QED BY <1>2, <1>3, <2>1, <3>3, SizesPut
  <2>2. CASE wantMem[k] = NoEntry
    <3>1. Candidate(mem, k) # k
      BY <1>1, <1>2, <2>2, CandidateIs
    <3>2. mem'.length = mem.length + 1 /\ mem'.byteSize = mem.byteSize + KeyLen + EntryLen(e)
      BY <3>1 DEF Put
    <3>3. TableLen(wantMem') = TableLen(wantMem) + 1 /\ ByteSize(wantMem') = ByteSize(wantMem) + KeyLen + EntryLen(e)
      <4> DEFINE t2 == [wantMem EXCEPT ![k] = e]
      <4>1. TableLen(t2) = TableLen(wantMem) + 1 /\ ByteSize(t2) = ByteSize(wantMem) + KeyLen + EntryLen(e)
        BY <1>2, <2>2, SizesPut, Zenon
      <4>2. wantMem' = t2
        OBVIOUS
      <4> HIDE DEF t2
      <4> QED BY <4>1, <4>2
    <3> QED BY <1>3, <3>2, <3>3
  <2> QED BY <2>1, <2>2
<1> QED BY <1>4, <1>5 DEF MemOK

\* Only Write, FlushFinish and Crash touch the MemTable.
LEMMA MemStep ==
    ASSUME MemOK, [Next]_vars
    PROVE  MemOK'
<1>1. CASE Write
  BY <1>1, MemPut DEF Write
<1>2. CASE FlushFinish
  BY <1>2, MemNew DEF FlushFinish
<1>3. CASE Crash
  BY <1>3, MemNew DEF Crash
<1>4. ASSUME UNCHANGED <<mem, wantMem>> PROVE MemOK'
  BY <1>4 DEF MemOK
<1> QED
  BY <1>1, <1>2, <1>3, <1>4 DEF Next, vars, memVars, BeginFlush, FlushAdd, Damage, BeginMerge,
                    AddFile, MergeStep, MergeFinish

\* The invariant contains the two properties.
LEMMA MemOKImplies ==
    ASSUME MemOK
    PROVE  MemTableRight /\ CountsRight
<1>1. PICK S : Linked(mem, S)
  BY DEF MemOK
<1>2. mem.ent = wantMem
  BY DEF MemOK
<1>3. ASSUME NEW k \in Keys PROVE Lookup(mem, k) = wantMem[k]
  BY <1>1, <1>2, LookupIs
<1>4. 1 \in Levels /\ \A i \in Levels : i \in Nat /\ (i > 1 => i - 1 \in Levels /\ i - 1 <= i)
  BY SkipListAssumption DEF Levels
<1>5. ToSet(LevelKeys(mem, 1)) = KeysOf(wantMem)
  BY <1>1, <1>2, <1>4, LevelKeysIs DEF Linked
<1>6. ASSUME NEW i \in Levels
      PROVE  LET s == LevelKeys(mem, i)
             IN  /\ \A a, b \in DOMAIN s : a < b => s[a] < s[b]
                 /\ i > 1 => ToSet(s) \subseteq ToSet(LevelKeys(mem, i - 1))
                 /\ i > mem.level => s = <<>>
  <2> DEFINE s == LevelKeys(mem, i)
  <2>1. s \in Seq(Keys) /\ Sorted(s) /\ ToSet(s) = S[i]
    BY <1>1, LevelKeysIs
  <2> HIDE DEF s
  <2>2. ASSUME i > 1 PROVE ToSet(s) \subseteq ToSet(LevelKeys(mem, i - 1))
    <3>1. i - 1 \in Levels /\ i - 1 <= i
      BY <1>4, <2>2
    <3>2. ToSet(LevelKeys(mem, i - 1)) = S[i - 1]
      BY <1>1, <3>1, LevelKeysIs
    <3> QED BY <1>1, <2>1, <3>1, <3>2 DEF Linked
  <2>3. ASSUME i > mem.level PROVE s = <<>>
    <3>1. ToSet(s) = {}
      BY <1>1, <2>1, <2>3 DEF Linked
    <3>2. ASSUME s # <<>> PROVE FALSE
      <4>1. 1 \in DOMAIN s
        BY <2>1, <3>2
      <4> QED BY <3>1, <4>1 DEF ToSet
    <3> QED BY <3>2
  <2> QED BY <2>1, <2>2, <2>3 DEF s, Sorted
<1> QED BY <1>3, <1>5, <1>6 DEF MemTableRight, CountsRight, MemOK

\* The MemTable invariant holds in every behaviour.
LEMMA MemInvariant == Spec => []MemOK
<1>1. Init => MemOK
  <2>1. NewSkipList.length = 0 /\ NewSkipList.byteSize = 0
    BY DEF NewSkipList
  <2> QED BY <2>1, NewListLinked, SizesEmpty DEF MemOK, Init
<1>2. MemOK /\ [Next]_vars => MemOK'
  BY MemStep
<1> QED BY <1>1, <1>2, PTL DEF Spec

(***************************************************************************)
(* MemTable.Get, for every number of keys and every height randomLevel     *)
(* draws: the skip list answers what was last put, its bottom level is all *)
(* of it in the order of keys, and every level is a sorted part of the one *)
(* below.                                                                  *)
(***************************************************************************)
THEOREM MemTableAnswers == Spec => []MemTableRight
<1>1. MemOK => MemTableRight
  BY MemOKImplies
<1> QED BY <1>1, MemInvariant, PTL

(***************************************************************************)
(* The counters that set and delete keep up are the number of entries and  *)
(* their bytes, so the engine rotates a MemTable when it should.           *)
(***************************************************************************)
THEOREM CountsKept == Spec => []CountsRight
<1>1. MemOK => CountsRight
  BY MemOKImplies
<1> QED BY <1>1, MemInvariant, PTL

-----------------------------------------------------------------------------
(* The Bloom filter.                                                       *)

\* A filter of at least one key has at least one byte.
LEMMA BloomBytesNat ==
    ASSUME NEW n \in Nat \ {0}
    PROVE  BloomBytes(n) \in Nat \ {0}
BY DEF BloomBytes

\* A position below 8 * b has its byte among the first b and its bit among 0..7.
LEMMA BitPosition ==
    ASSUME NEW b \in Nat, NEW p \in 0..(8 * b - 1)
    PROVE  /\ p % 8 \in 0..7
           /\ p \div 8 + 1 \in 1..b
           /\ p = 8 * ((p \div 8 + 1) - 1) + (p % 8)
OBVIOUS

\* A hash taken modulo the number of bits is a position in the bit array.
LEMMA ModRange ==
    ASSUME NEW h \in Nat, NEW m \in Nat \ {0}
    PROVE  h % m \in 0..(m - 1)
OBVIOUS

\* Encode and Decode are inverse on what Build returns.
LEMMA DecodeEncode ==
    ASSUME NEW keys \in Seq(Keys)
    PROVE  Decode(Encode(Build(keys))) = Build(keys)
<1> DEFINE f == Build(keys)
           n == BloomBytes(Len(keys))
<1>1. Len(keys) \in Nat
  OBVIOUS
<1>2. n \in Nat
  BY <1>1 DEF BloomBytes
<1>3. /\ f = [k |-> f.k, m |-> f.m, bits |-> f.bits]
      /\ f.bits \in Seq(SUBSET (0..7)) /\ Len(f.bits) = n
  BY <1>2 DEF Build
<1> HIDE DEF f
<1>4. /\ Len(Encode(f)) = n + 2
      /\ Encode(f)[1] = f.k /\ Encode(f)[2] = f.m
      /\ \A i \in 1..n : Encode(f)[i + 2] = f.bits[i]
  BY <1>2, <1>3 DEF Encode
<1>5. SubSeq(Encode(f), 3, Len(Encode(f))) = f.bits
  BY <1>2, <1>3, <1>4 
<1> QED
  BY <1>2, <1>3, <1>4, <1>5 DEF Decode, f

(***************************************************************************)
(* No false negatives: whatever the hash functions and whatever keys a     *)
(* table has, the filter that Writer.Finish stores with it and Open loads  *)
(* says "maybe" for each of them, so Reader.Get goes on to the block.      *)
(***************************************************************************)
THEOREM NoFalseNegative ==
    ASSUME NEW keys \in Seq(Keys), NEW i \in DOMAIN keys
    PROVE  MayContain(Decode(Encode(Build(keys))), keys[i])
<1> DEFINE n == BloomBytes(Len(keys))
           m == 8 * n
           f == Build(keys)
<1>1. Len(keys) \in Nat \ {0} /\ keys[i] \in Keys
  OBVIOUS
<1>2. n \in Nat \ {0} /\ m \in Nat \ {0}
  BY <1>1, BloomBytesNat
<1>3. f.m = m /\ f.bits = [b \in 1..n |-> {j \in 0..7 : \E x \in DOMAIN keys, s \in Seeds :
                                      Hash[s][keys[x]] % m = 8 * (b - 1) + j}]
  BY DEF Build
<1>4. ASSUME NEW s \in Seeds PROVE GetBit(f.bits, Hash[s][keys[i]] % f.m)
  <2> DEFINE p == Hash[s][keys[i]] % m
  <2>1. Hash[s][keys[i]] \in Nat
    BY <1>1, HashAssumption
  <2>2. p \in 0..(8 * n - 1)
    BY <1>2, <2>1, ModRange
  <2>3. p % 8 \in 0..7 /\ p \div 8 + 1 \in 1..n /\ p = 8 * ((p \div 8 + 1) - 1) + (p % 8)
    BY <1>2, <2>2, BitPosition
  <2>4. Hash[s][keys[i]] % m = p
    OBVIOUS
  <2> HIDE DEF p, m, n, f
  <2>5. p % 8 \in f.bits[p \div 8 + 1]
    <3> DEFINE b0 == p \div 8 + 1
               j0 == p % 8
    <3>1. \E x \in DOMAIN keys, t \in Seeds : Hash[t][keys[x]] % m = 8 * (b0 - 1) + j0
      BY <2>3, <2>4
    <3>2. b0 \in 1..n /\ j0 \in 0..7
      BY <2>3
    <3> HIDE DEF b0, j0
    <3>3. j0 \in f.bits[b0]
      BY <1>3, <3>1, <3>2
    <3> QED
      BY <3>3 DEF b0, j0
  <2> QED
    BY <1>3, <2>4, <2>5 DEF GetBit
<1> QED
  BY <1>2, <1>3, <1>4, DecodeEncode DEF MayContain

-----------------------------------------------------------------------------
(* Byte offsets in a file.                                                 *)

Sizes(file) == [j \in DOMAIN file |-> file[j].size]

OffsetStep(file, f, s) == IF s = {} THEN 0 ELSE file[Pick(s)].size + f[s \ {Pick(s)}]

IsOffsetSum(f, file, S) == f = [s \in SUBSET S |-> OffsetStep(file, f, s)]

\* Offset is the fold it is defined by.
LEMMA OffsetUnfold ==
    ASSUME NEW file, NEW i
    PROVE  Offset(file, i) = (CHOOSE f : IsOffsetSum(f, file, 1..(i - 1)))[1..(i - 1)]
BY Zenon DEF Offset, MapThenSumSet, MapThenFoldSet, IsOffsetSum, OffsetStep, Pick

\* A file: sections with their sizes.
IsFile(file) == \E T : file \in Seq(T) /\ \A j \in DOMAIN file : file[j].size \in Nat

\* An offset is the sum of the sizes in front.
LEMMA OffsetIsSum ==
    ASSUME NEW file, IsFile(file), NEW i \in 1..(Len(file) + 1)
    PROVE  Offset(file, i) = SumOver(Sizes(file), 1..(i - 1))
<1> DEFINE S == 1..(i - 1)
           g == Sizes(file)
<1>1. S \subseteq DOMAIN file
  BY DEF IsFile
<1>2. ASSUME NEW f, NEW s \in SUBSET S PROVE OffsetStep(file, f, s) = SumStep(f, g, s)
  <2>1. s # {} => Pick(s) \in DOMAIN file
    BY <1>1, PickIn
  <2> QED BY <2>1 DEF OffsetStep, SumStep, Sizes
<1> HIDE DEF S
<1>3. ASSUME NEW f PROVE IsOffsetSum(f, file, S) <=> IsSum(f, g, S)
  BY <1>2 DEF IsOffsetSum, IsSum
<1>4. (CHOOSE f : IsOffsetSum(f, file, S)) = (CHOOSE f : IsSum(f, g, S))
  BY <1>3, Zenon
<1> QED BY <1>4, OffsetUnfold, SumUnfold DEF S

\* Offsets grow by the sizes of the sections.
LEMMA OffsetStart ==
    ASSUME NEW file, IsFile(file)
    PROVE  Offset(file, 1) = 0
<1>1. Len(file) \in Nat
  BY DEF IsFile
<1>2. 1 \in 1..(Len(file) + 1) /\ 1..(1 - 1) = {}
  BY <1>1
<1> QED BY <1>2, OffsetIsSum, SumEmpty

\* The next section begins where a section ends.
LEMMA OffsetNext ==
    ASSUME NEW file, IsFile(file), NEW i \in 1..Len(file)
    PROVE  Offset(file, i + 1) = Offset(file, i) + file[i].size /\ Offset(file, i) \in Int
<1>1. Len(file) \in Nat /\ DOMAIN file = 1..Len(file) /\ \A j \in DOMAIN file : file[j].size \in Nat
  BY DEF IsFile
<1>2. i \in 1..(Len(file) + 1) /\ i + 1 \in 1..(Len(file) + 1)
  BY <1>1
<1> DEFINE S == 1..(i - 1)
           T == 1..((i + 1) - 1)
           g == Sizes(file)
<1>3. T = S \cup {i} /\ i \notin S /\ IsFiniteSet(S) /\ S \subseteq DOMAIN file /\ T \subseteq DOMAIN file
  <2>1. IsFiniteSet(S)
    BY <1>1, FS_Interval
  <2> QED BY <1>1, <2>1
<1>4. (\A j \in DOMAIN file : g[j] \in Int) /\ g[i] = file[i].size
  BY <1>1 DEF Sizes
<1>5. Offset(file, i + 1) = SumOver(g, T) /\ Offset(file, i) = SumOver(g, S)
  BY <1>2, OffsetIsSum
<1> HIDE DEF S, T, g
<1>6. (\A y \in T : g[y] \in Int) /\ (\A y \in S : g[y] \in Int)
  BY <1>3, <1>4
<1>7. SumOver(g, T) = SumOver(g, S) + g[i] /\ SumOver(g, S) \in Int
  BY <1>3, <1>6, SumAdd, SumInt
<1> QED BY <1>4, <1>5, <1>7

\* A prefix of a file has the same offsets.
LEMMA OffsetPrefix ==
    ASSUME NEW file, IsFile(file), NEW more, IsFile(more), Len(file) <= Len(more),
           \A j \in 1..Len(file) : more[j] = file[j], NEW i \in 1..(Len(file) + 1)
    PROVE  Offset(more, i) = Offset(file, i)
<1>1. Len(file) \in Nat /\ Len(more) \in Nat /\ DOMAIN file = 1..Len(file) /\ DOMAIN more = 1..Len(more)
  BY DEF IsFile
<1> DEFINE S == 1..(i - 1)
<1>2. i \in 1..(Len(more) + 1) /\ IsFiniteSet(S) /\ \A j \in S : j \in DOMAIN file /\ j \in DOMAIN more
  <2>1. IsFiniteSet(S)
    BY <1>1, FS_Interval
  <2>2. \A j \in S : j \in 1..Len(file) /\ j \in 1..Len(more)
    BY <1>1
  <2>3. i \in 1..(Len(more) + 1)
    BY <1>1
  <2> HIDE DEF S
  <2> QED BY <1>1, <2>1, <2>2, <2>3
<1>3. \A j \in S : Sizes(file)[j] = Sizes(more)[j]
  BY <1>1, <1>2 DEF Sizes
<1> HIDE DEF S
<1>4. SumOver(Sizes(file), S) = SumOver(Sizes(more), S)
  BY <1>2, <1>3, SumEqual
<1> QED BY <1>2, <1>4, OffsetIsSum DEF S

\* Offsets never decrease.
LEMMA OffsetOrder ==
    ASSUME NEW file, IsFile(file), NEW i \in 1..Len(file), NEW j \in 1..(Len(file) + 1), i < j
    PROVE  Offset(file, i) + file[i].size <= Offset(file, j)
<1> DEFINE Good(m) == i + 1 + m <= Len(file) + 1 =>
                         Offset(file, i) + file[i].size <= Offset(file, i + 1 + m)
           N == {m \in Nat : Good(m)}
<1>1. Len(file) \in Nat /\ i \in Nat /\ file[i].size \in Nat
  BY DEF IsFile
<1>2. Offset(file, i + 1) = Offset(file, i) + file[i].size /\ Offset(file, i) \in Int
  BY OffsetNext
<1>3. 0 \in N
  <2>1. i + 1 + 0 = i + 1
    BY <1>1
  <2>2. Good(0)
    BY <1>1, <1>2, <2>1
  <2> QED BY <2>2
<1>4. ASSUME NEW m \in Nat, m \in N PROVE m + 1 \in N
  <2>1. SUFFICES ASSUME i + 1 + (m + 1) <= Len(file) + 1
                 PROVE  Offset(file, i) + file[i].size <= Offset(file, i + 1 + (m + 1))
    OBVIOUS
  <2> DEFINE x == i + 1 + m
  <2>2. x \in 1..Len(file) /\ x <= Len(file) + 1 /\ i + 1 + (m + 1) = x + 1
    BY <1>1, <2>1
  <2>3. Offset(file, i) + file[i].size <= Offset(file, x)
    BY <1>4, <2>2
  <2> HIDE DEF x
  <2>4. Offset(file, x + 1) = Offset(file, x) + file[x].size /\ Offset(file, x) \in Int
    BY <2>2, OffsetNext
  <2>5. file[x].size \in Nat
    BY <2>2 DEF IsFile
  <2>6. Offset(file, i) + file[i].size <= Offset(file, x) + file[x].size
    BY <1>1, <1>2, <2>3, <2>4, <2>5
  <2> QED BY <2>2, <2>4, <2>6
<1> DEFINE d == j - (i + 1)
<1>5. d \in Nat /\ i + 1 + d = j /\ j <= Len(file) + 1
  BY <1>1
<1>6. d \in N
  <2> HIDE DEF N, d
  <2> QED BY <1>3, <1>4, <1>5, SetInduction
<1> QED BY <1>5, <1>6

\* The contents of a section are found by its offset and length, unless another
\* one of size 0 is there too.
LEMMA ReadAtIs ==
    ASSUME NEW file, IsFile(file), NEW i \in 1..Len(file),
           \A j \in 1..Len(file) : file[j].size = 0 /\ file[i].size = 0 => j = i
    PROVE  ReadAt(file, Offset(file, i), file[i].size) = file[i].data
<1> DEFINE S == {j \in DOMAIN file : Offset(file, j) = Offset(file, i) /\ file[j].size = file[i].size}
<1>1. Len(file) \in Nat /\ DOMAIN file = 1..Len(file) /\ \A j \in DOMAIN file : file[j].size \in Nat
  BY DEF IsFile
<1>2. i \in S
  BY <1>1
<1>3. ASSUME NEW j \in S PROVE j = i
  <2>1. j \in 1..Len(file) /\ Offset(file, j) = Offset(file, i) /\ file[j].size = file[i].size
    BY <1>1
  <2>2. Offset(file, i) \in Int /\ file[i].size \in Nat /\ i \in Nat /\ j \in Nat /\ file[j].size \in Nat
    BY <1>1, <2>1, OffsetNext
  <2>3. i \in 1..(Len(file) + 1) /\ j \in 1..(Len(file) + 1)
    BY <1>1, <2>1
  <2>4. CASE i < j
    <3>1. Offset(file, i) + file[i].size <= Offset(file, j)
      BY <2>3, <2>4, OffsetOrder
    <3>2. file[i].size = 0
      BY <2>1, <2>2, <3>1
    <3> QED BY <2>1, <3>2
  <2>5. CASE j < i
    <3>1. Offset(file, j) + file[j].size <= Offset(file, i)
      BY <2>1, <2>3, <2>5, OffsetOrder
    <3>2. file[j].size = 0
      BY <2>1, <2>2, <3>1
    <3> QED BY <2>1, <3>2
  <2> QED BY <2>2, <2>4, <2>5
<1>4. S = {i}
  BY <1>2, <1>3
<1> HIDE DEF S
<1>5. Max(S) = i
  <2>1. i <= i
    BY <1>1
  <2> QED BY <1>4, <2>1 DEF Max
<1> QED BY <1>4, <1>5 DEF ReadAt, S

-----------------------------------------------------------------------------
(* The search in the index.                                                *)

Ranges(n) == [lo : 1..(n + 1), hi : 0..n, result : 0..n]

Mid(s) == (s.lo + s.hi) \div 2

SearchStep(index, k, f, s) ==
    IF s.lo > s.hi THEN s.result
    ELSE IF index[Mid(s)].firstKey <= k THEN f[[s EXCEPT !.lo = Mid(s) + 1, !.result = Mid(s)]]
                                        ELSE f[[s EXCEPT !.hi = Mid(s) - 1]]

IsSearch(f, index, k) == f = [s \in Ranges(Len(index)) |-> SearchStep(index, k, f, s)]

\* SearchIndex is the function that satisfies its recursion.
LEMMA SearchUnfold ==
    ASSUME NEW index, NEW k
    PROVE  SearchIndex(index, k) = (CHOOSE f : IsSearch(f, index, k))[[lo |-> 1, hi |-> Len(index), result |-> 0]]
BY Zenon DEF SearchIndex, IsSearch, SearchStep, Ranges, Mid

\* The middle of a range lies in it, and both halves are shorter.
LEMMA MidIn ==
    ASSUME NEW n \in Nat, NEW s \in Ranges(n), s.lo <= s.hi
    PROVE  /\ Mid(s) \in 1..n /\ s.lo <= Mid(s) /\ Mid(s) <= s.hi
           /\ [s EXCEPT !.lo = Mid(s) + 1, !.result = Mid(s)] \in Ranges(n)
           /\ [s EXCEPT !.hi = Mid(s) - 1] \in Ranges(n)
           /\ LET r == [s EXCEPT !.lo = Mid(s) + 1, !.result = Mid(s)]
              IN  r.lo = Mid(s) + 1 /\ r.hi = s.hi /\ r.result = Mid(s)
           /\ LET r == [s EXCEPT !.hi = Mid(s) - 1]
              IN  r.lo = s.lo /\ r.hi = Mid(s) - 1 /\ r.result = s.result
<1>1. s.lo \in 1..(n + 1) /\ s.hi \in 0..n /\ s.result \in 0..n
  BY DEF Ranges
<1>2. Mid(s) \in 1..n /\ s.lo <= Mid(s) /\ Mid(s) <= s.hi
  BY <1>1 DEF Mid
<1> DEFINE a == [s EXCEPT !.lo = Mid(s) + 1, !.result = Mid(s)]
           b == [s EXCEPT !.hi = Mid(s) - 1]
<1>3. s = [lo |-> s.lo, hi |-> s.hi, result |-> s.result]
  BY DEF Ranges
<1>4. a.lo = Mid(s) + 1 /\ a.hi = s.hi /\ a.result = Mid(s)
  BY <1>3
<1>5. b = [lo |-> s.lo, hi |-> Mid(s) - 1, result |-> s.result]
  BY <1>3
<1>6. Mid(s) + 1 \in 1..(n + 1) /\ Mid(s) - 1 \in 0..n /\ Mid(s) \in 0..n
  BY <1>2
<1>7. a \in Ranges(n)
  BY <1>1, <1>6 DEF Ranges
<1> HIDE DEF a, b
<1>9. b \in Ranges(n)
  BY <1>1, <1>5, <1>6 DEF Ranges
<1>8. a.lo = Mid(s) + 1 /\ a.hi = s.hi /\ a.result = Mid(s)
      /\ b.lo = s.lo /\ b.hi = Mid(s) - 1 /\ b.result = s.result
  BY <1>4, <1>5
<1> QED BY <1>2, <1>7, <1>8, <1>9 DEF a, b

Span(s) == s.hi - s.lo + 1

\* There is such a function: every turn of the loop narrows the range.
LEMMA SearchExists ==
    ASSUME NEW index, Len(index) \in Nat, NEW k
    PROVE  \E f : IsSearch(f, index, k)
<1> DEFINE n == Len(index)
           D == Ranges(n)
           Upto(f, m) == \A s \in D : Span(s) <= m => f[s] = SearchStep(index, k, f, s)
           N == {m \in Nat : \E f : Upto(f, m)}
<1> HIDE DEF n, D
<1>1. n \in Nat /\ D = Ranges(n)
  BY DEF n, D
<1>2. ASSUME NEW s \in D PROVE s.lo \in 1..(n + 1) /\ s.hi \in 0..n /\ s.result \in 0..n /\ Span(s) \in Int /\ Span(s) <= n
  <2>1. s.lo \in 1..(n + 1) /\ s.hi \in 0..n /\ s.result \in 0..n
    BY <1>1 DEF Ranges
  <2> QED BY <1>1, <2>1 DEF Span
<1>3. ASSUME NEW f, NEW h, NEW s \in D, \A r \in D : Span(r) < Span(s) => f[r] = h[r]
      PROVE  SearchStep(index, k, f, s) = SearchStep(index, k, h, s)
  <2>1. CASE s.lo > s.hi
    BY <2>1 DEF SearchStep
  <2>2. CASE ~(s.lo > s.hi)
    <3>0. s.lo <= s.hi /\ s \in Ranges(n)
      BY <1>1, <1>2, <2>2
    <3>1. s.lo <= s.hi /\ Mid(s) \in 1..n
      BY <1>1, <3>0, MidIn
    <3> DEFINE a == [s EXCEPT !.lo = Mid(s) + 1, !.result = Mid(s)]
               b == [s EXCEPT !.hi = Mid(s) - 1]
    <3>2. a \in D /\ b \in D /\ a.lo = Mid(s) + 1 /\ a.hi = s.hi /\ b.lo = s.lo /\ b.hi = Mid(s) - 1
          /\ s.lo <= Mid(s) /\ Mid(s) <= s.hi
      BY <1>1, <3>0, MidIn
    <3> HIDE DEF a, b
    <3>3. Span(a) < Span(s) /\ Span(b) < Span(s)
      <4>1. s.lo \in Int /\ s.hi \in Int /\ Mid(s) \in Int
        BY <1>1, <1>2, <3>1
      <4>2. Span(a) = s.hi - (Mid(s) + 1) + 1 /\ Span(b) = (Mid(s) - 1) - s.lo + 1 /\ Span(s) = s.hi - s.lo + 1
        BY <3>2 DEF Span
      <4> QED BY <3>2, <4>1, <4>2
    <3>4. f[a] = h[a] /\ f[b] = h[b]
      BY <1>3, <3>2, <3>3
    <3> QED BY <3>4 DEF SearchStep, a, b
  <2> QED BY <2>1, <2>2
<1>4. 0 \in N
  <2> DEFINE f == [s \in D |-> s.result]
  <2>1. ASSUME NEW s \in D, Span(s) <= 0 PROVE f[s] = SearchStep(index, k, f, s)
    <3>1. s.lo > s.hi
      BY <1>1, <1>2, <2>1 DEF Span
    <3> QED BY <3>1 DEF SearchStep
  <2>2. Upto(f, 0)
    BY <2>1
  <2> HIDE DEF f, Upto
  <2> QED BY <2>2
<1>5. ASSUME NEW m \in Nat, m \in N PROVE m + 1 \in N
  <2>1. PICK f : Upto(f, m)
    BY <1>5
  <2> DEFINE h == [s \in D |-> IF Span(s) <= m THEN f[s] ELSE SearchStep(index, k, f, s)]
  <2>2. ASSUME NEW s \in D, Span(s) <= m + 1 PROVE h[s] = SearchStep(index, k, h, s)
    <3>1. h[s] = SearchStep(index, k, f, s)
      BY <2>1
    <3>2. ASSUME NEW r \in D, Span(r) < Span(s) PROVE f[r] = h[r]
      <4>1. Span(r) \in Int /\ Span(s) \in Int
        BY <1>2
      <4>2. Span(r) <= m
        BY <2>2, <3>2, <4>1
      <4> QED BY <4>2
    <3> HIDE DEF h
    <3> QED BY <1>3, <3>1, <3>2
  <2>3. Upto(h, m + 1) /\ m + 1 \in Nat
    BY <2>2
  <2> HIDE DEF h, Upto
  <2> QED BY <2>3
<1>6. n \in N
  <2> HIDE DEF N
  <2> QED BY <1>1, <1>4, <1>5, SetInduction
<1>7. PICK f : Upto(f, n)
  BY <1>6
<1> DEFINE h == [s \in D |-> f[s]]
<1>8. ASSUME NEW s \in D PROVE h[s] = SearchStep(index, k, h, s)
  <2>1. h[s] = SearchStep(index, k, f, s)
    BY <1>2, <1>7
  <2>2. \A r \in D : f[r] = h[r]
    OBVIOUS
  <2> HIDE DEF h
  <2> QED BY <1>3, <2>1, <2>2
<1>9. h = [s \in D |-> h[s]]
  OBVIOUS
<1> HIDE DEF h
<1>10. IsSearch(h, index, k)
  BY <1>1, <1>8, <1>9 DEF IsSearch, n
<1> QED BY <1>10

(***************************************************************************)
(* Reader.searchIndex: the binary search finds the last block that begins  *)
(* with a key not above k, for an index of any length.                     *)
(***************************************************************************)
THEOREM SearchFinds ==
    ASSUME NEW index, NEW n \in Nat, Len(index) = n, NEW k \in Nat,
           \A i \in 1..n : index[i].firstKey \in Nat,
           \A i, j \in 1..n : i < j => index[i].firstKey < index[j].firstKey
    PROVE  LET b == SearchIndex(index, k)
           IN  /\ b \in 0..n /\ (b > 0 => index[b].firstKey <= k)
               /\ \A j \in 1..n : j > b => k < index[j].firstKey
<1> DEFINE D == Ranges(n)
           F == CHOOSE f : IsSearch(f, index, k)
           fk(i) == index[i].firstKey
           Right(b) == /\ b \in 0..n /\ (b > 0 => fk(b) <= k)
                       /\ \A j \in 1..n : j > b => k < fk(j)
           Loop(s) == /\ s.result = s.lo - 1 /\ s.lo <= s.hi + 1
                      /\ s.lo > 1 => fk(s.lo - 1) <= k
                      /\ \A j \in 1..n : j > s.hi => k < fk(j)
           N == {m \in Nat : \A s \in D : Loop(s) /\ Span(s) <= m => Right(F[s])}
<1>1. IsSearch(F, index, k)
  BY SearchExists, Zenon
<1> HIDE DEF F
<1>2. ASSUME NEW s \in D PROVE F[s] = SearchStep(index, k, F, s)
  BY <1>1 DEF IsSearch
<1>3. ASSUME NEW s \in D PROVE s.lo \in 1..(n + 1) /\ s.hi \in 0..n /\ s.result \in 0..n /\ Span(s) \in Int /\ Span(s) <= n
  <2>1. s.lo \in 1..(n + 1) /\ s.hi \in 0..n /\ s.result \in 0..n
    BY DEF Ranges
  <2> QED BY <2>1 DEF Span
<1> HIDE DEF D
<1>4. ASSUME NEW s \in D, Loop(s), s.lo > s.hi PROVE Right(F[s])
  <2>1. F[s] = s.result
    BY <1>2, <1>4 DEF SearchStep
  <2>2. s.result = s.hi /\ s.result = s.lo - 1
    BY <1>3, <1>4
  <2> QED BY <1>3, <1>4, <2>1, <2>2
<1>5. 0 \in N
  <2>1. ASSUME NEW s \in D, Loop(s), Span(s) <= 0 PROVE Right(F[s])
    <3>1. s.lo > s.hi
      BY <1>3, <2>1 DEF Span
    <3> HIDE DEF Right, Loop
    <3> QED BY <1>4, <2>1, <3>1
  <2> HIDE DEF Right, Loop
  <2> QED BY <2>1
<1>6. ASSUME NEW m \in Nat, m \in N PROVE m + 1 \in N
  <2>1. SUFFICES ASSUME NEW s \in D, Loop(s), Span(s) <= m + 1 PROVE Right(F[s])
    <3> HIDE DEF Right, Loop
    <3> QED OBVIOUS
  <2>2. CASE s.lo > s.hi
    <3> HIDE DEF Right, Loop
    <3> QED BY <1>4, <2>1, <2>2
  <2>3. CASE ~(s.lo > s.hi)
    <3> DEFINE mid == Mid(s)
               a == [s EXCEPT !.lo = mid + 1, !.result = mid]
               b == [s EXCEPT !.hi = mid - 1]
    <3>0. s.lo <= s.hi /\ s \in Ranges(n)
      BY <1>3, <2>3 DEF D
    <3>1. /\ mid \in 1..n /\ s.lo <= mid /\ mid <= s.hi /\ a \in D /\ b \in D
          /\ a.lo = mid + 1 /\ a.hi = s.hi /\ a.result = mid
          /\ b.lo = s.lo /\ b.hi = mid - 1 /\ b.result = s.result
      BY <3>0, MidIn DEF D
    <3>2. F[s] = IF fk(mid) <= k THEN F[a] ELSE F[b]
      BY <1>2, <2>3 DEF SearchStep
    <3> HIDE DEF a, b, mid
    <3>3. Span(a) <= m /\ Span(b) <= m
      <4>1. s.lo \in Int /\ s.hi \in Int /\ mid \in Int
        BY <1>3, <3>1
      <4>2. Span(a) = s.hi - (mid + 1) + 1 /\ Span(b) = (mid - 1) - s.lo + 1 /\ Span(s) = s.hi - s.lo + 1
        BY <3>1 DEF Span
      <4> QED BY <2>1, <3>1, <4>1, <4>2
    <3>4. CASE fk(mid) <= k
      <4>1. Loop(a)
        <5>1. a.lo - 1 = mid
          BY <3>1
        <5>2. a.lo <= a.hi + 1
          BY <1>3, <3>1
        <5>3. \A j \in 1..n : j > a.hi => k < fk(j)
          BY <2>1, <3>1
        <5> QED BY <3>1, <3>4, <5>1, <5>2, <5>3
      <4> HIDE DEF Loop, Right
      <4> QED BY <1>6, <3>1, <3>2, <3>3, <3>4, <4>1
    <3>5. CASE ~(fk(mid) <= k)
      <4>1. ASSUME NEW j \in 1..n, j > mid - 1 PROVE k < fk(j)
        <5>1. fk(mid) \in Nat /\ fk(j) \in Nat /\ k < fk(mid)
          BY <3>1, <3>5
        <5>2. j = mid \/ mid < j
          BY <3>1, <4>1
        <5>3. mid < j => fk(mid) < fk(j)
          BY <3>1
        <5> QED BY <5>1, <5>2, <5>3
      <4>2. b.lo <= b.hi + 1
        BY <1>3, <3>1
      <4>3. Loop(b)
        <5> HIDE DEF fk
        <5> QED BY <2>1, <3>1, <4>1, <4>2
      <4> HIDE DEF Loop, Right
      <4> QED BY <1>6, <3>1, <3>2, <3>3, <3>5, <4>3
    <3> QED BY <3>4, <3>5
  <2> QED BY <2>2, <2>3
<1>7. n \in N
  <2> HIDE DEF N
  <2> QED BY <1>5, <1>6, SetInduction
<1> DEFINE s0 == [lo |-> 1, hi |-> n, result |-> 0]
<1>8. s0 \in D /\ Loop(s0) /\ Span(s0) <= n
  BY DEF D, Ranges, Span
<1>9. Right(F[s0])
  <2> HIDE DEF s0, Loop, Right
  <2> QED BY <1>7, <1>8
<1>10. SearchIndex(index, k) = F[s0]
  BY SearchUnfold DEF F
<1> QED BY <1>9, <1>10

-----------------------------------------------------------------------------
(* The writer.                                                             *)

KV == [key : Keys, ent : Entries]

\* The blocks B hold the entries of the table t, each once, in the order of keys.
BlocksOK(B, t) ==
    /\ B \in Seq(Seq(KV)) /\ \A i \in DOMAIN B : B[i] # <<>>
    /\ \A i, j \in DOMAIN B : \A a \in DOMAIN B[i], b \in DOMAIN B[j] :
          i < j \/ (i = j /\ a < b) => B[i][a].key < B[j][b].key
    /\ t \in Table
    /\ \A i \in DOMAIN B : \A a \in DOMAIN B[i] : t[B[i][a].key] = B[i][a].ent
    /\ \A k \in KeysOf(t) : \E i \in DOMAIN B : \E a \in DOMAIN B[i] : B[i][a].key = k

\* The blocks of a writer, the one it is filling included.
WBlocks(wr) ==
    [i \in 1..(Len(wr.out) + (IF wr.block = <<>> THEN 0 ELSE 1)) |->
        IF i <= Len(wr.out) THEN wr.out[i].data ELSE wr.block]

IsWriter(wr) ==
    wr = [blockSize |-> wr.blockSize, block |-> wr.block, blockBytes |-> wr.blockBytes,
          blockStart |-> wr.blockStart, offset |-> wr.offset, index |-> wr.index,
          allKeys |-> wr.allKeys, out |-> wr.out]

DataSections == [size : Nat \ {0}, data : Seq(KV), magic : {FALSE}]
IndexEntries == [firstKey : Keys, offset : Int, len : Nat]

\* The index entry for section i of a file.
EntryFor(out, i) ==
    [firstKey |-> out[i].data[1].key, offset |-> Offset(out, i), len |-> out[i].size]

\* The writer has been given the entries of t.
WriterOK(wr, t) ==
    /\ IsWriter(wr) /\ BlocksOK(WBlocks(wr), t)
    /\ wr.out \in Seq(DataSections)
    /\ wr.block \in Seq(KV) /\ wr.blockBytes \in Nat /\ (wr.block = <<>> => wr.blockBytes = 0)
    /\ wr.block # <<>> => wr.blockStart = wr.offset
    /\ wr.offset = Offset(wr.out, Len(wr.out) + 1) /\ wr.offset \in Int
    /\ wr.index \in Seq(IndexEntries) /\ Len(wr.index) = Len(wr.out)
    /\ \A i \in 1..Len(wr.out) : wr.index[i] = EntryFor(wr.out, i)
    /\ wr.allKeys \in Seq(Keys) /\ ToSet(wr.allKeys) = KeysOf(t) /\ Len(wr.allKeys) = TableLen(t)
    /\ wr.offset - 4 * Len(wr.out) + wr.blockBytes = 9 * TableLen(t) + ByteSize(t)

\* The blocks of a writer, one by one.
LEMMA WBlocksIs ==
    ASSUME NEW wr, Len(wr.out) \in Nat
    PROVE  LET n == Len(wr.out)
               B == WBlocks(wr)
           IN  /\ wr.block = <<>> => DOMAIN B = 1..n /\ Len(B) = n
               /\ wr.block # <<>> => DOMAIN B = 1..(n + 1) /\ Len(B) = n + 1 /\ B[n + 1] = wr.block
               /\ \A i \in 1..n : B[i] = wr.out[i].data
<1> DEFINE n == Len(wr.out)
           B == WBlocks(wr)
<1>1. ASSUME wr.block = <<>> PROVE DOMAIN B = 1..n /\ Len(B) = n
  BY <1>1 DEF WBlocks
<1>2. ASSUME wr.block # <<>> PROVE DOMAIN B = 1..(n + 1) /\ Len(B) = n + 1 /\ B[n + 1] = wr.block
  BY <1>2 DEF WBlocks
<1>3. ASSUME NEW i \in 1..n PROVE B[i] = wr.out[i].data
  <2>1. i <= n /\ i \in 1..(n + (IF wr.block = <<>> THEN 0 ELSE 1))
    <3>1. CASE wr.block = <<>>
      BY <3>1
    <3>2. CASE wr.block # <<>>
      BY <3>2
    <3> QED BY <3>1, <3>2
  <2> QED BY <2>1 DEF WBlocks
<1> QED BY <1>1, <1>2, <1>3

\* A table's entries are not NoEntry.
LEMMA BlockKeys ==
    ASSUME NEW B, NEW t, BlocksOK(B, t), NEW i \in DOMAIN B, NEW a \in DOMAIN B[i]
    PROVE  B[i][a] \in KV /\ B[i][a].key \in KeysOf(t) /\ B[i][a].key \in Nat
<1>1. B[i] \in Seq(KV)
  BY DEF BlocksOK
<1>2. B[i][a] \in KV
  BY <1>1
<1>3. B[i][a].key \in Keys /\ B[i][a].ent \in Entries /\ t[B[i][a].key] = B[i][a].ent
  BY <1>2 DEF KV, BlocksOK
<1> QED BY <1>2, <1>3, KeysAssumption, EntryAssumption DEF KeysOf, Entries

\* An entry with a greater key goes behind all others.
LEMMA BlocksAdd ==
    ASSUME NEW B, NEW t, BlocksOK(B, t), NEW k \in Keys, NEW e \in Entries, \A x \in KeysOf(t) : x < k,
           NEW m \in Nat \ {0}, NEW b0 \in Seq(KV),
           (Len(B) = m /\ B[m] = b0) \/ (Len(B) = m - 1 /\ b0 = <<>>),
           NEW B2 \in Seq(Seq(KV)), Len(B2) = m, B2[m] = Append(b0, [key |-> k, ent |-> e]),
           \A i \in 1..(m - 1) : B2[i] = B[i]
    PROVE  BlocksOK(B2, [t EXCEPT ![k] = e])
<1> DEFINE kv == [key |-> k, ent |-> e]
           t2 == [t EXCEPT ![k] = e]
           z == Len(b0) + 1
<1>1. /\ kv.key = k /\ kv.ent = e /\ Len(b0) \in Nat /\ z \in Nat
      /\ B2[m] \in Seq(KV) /\ Len(B2[m]) = z /\ B2[m][z] = kv /\ (\A a \in 1..Len(b0) : B2[m][a] = b0[a])
      /\ DOMAIN B2 = 1..m /\ DOMAIN B2[m] = 1..z /\ k \in Nat
  BY KeysAssumption DEF KV
<1>2. /\ t \in Table /\ t2 \in Table /\ KeysOf(t2) = KeysOf(t) \cup {k} /\ t2[k] = e
      /\ \A x \in KeysOf(t) : t2[x] = t[x] /\ x # k
  <2>1. e # NoEntry /\ t \in Table
    BY EntryAssumption DEF Entries, BlocksOK
  <2>2. k \notin KeysOf(t)
    <3>1. ~(k < k)
      BY <1>1
    <3> QED BY <3>1
  <2> QED BY <2>1, <2>2 DEF Table, KeysOf
<1> HIDE DEF kv, t2, z
<1>3. B \in Seq(Seq(KV)) /\ DOMAIN B = 1..Len(B)
  BY DEF BlocksOK
<1>31. Len(B) \in Nat /\ m - 1 <= Len(B) /\ Len(B) <= m
  <2>1. Len(B) \in Nat
    BY <1>3
  <2>2. CASE Len(B) = m
    BY <2>2
  <2>3. CASE Len(B) = m - 1
    BY <2>3
  <2> QED BY <2>1, <2>2, <2>3
\* Every position is an old one or the new one.
<1>4. ASSUME NEW i \in DOMAIN B2, NEW a \in DOMAIN B2[i]
      PROVE  \/ i = m /\ a = z /\ B2[i][a] = kv
             \/ i \in DOMAIN B /\ a \in DOMAIN B[i] /\ B2[i][a] = B[i][a] /\ (i < m \/ a < z)
  <2>1. CASE i = m
    <3>1. a \in 1..z
      BY <1>1, <2>1
    <3>2. CASE a = z
      BY <1>1, <2>1, <3>2
    <3>3. CASE a # z
      <4>1. a \in 1..Len(b0) /\ a < z
        BY <1>1, <3>1, <3>3 DEF z
      <4>2. b0 # <<>>
        BY <4>1
      <4>3. Len(B) = m /\ B[m] = b0 /\ DOMAIN b0 = 1..Len(b0)
        BY <4>2
      <4> QED BY <1>1, <1>3, <2>1, <4>1, <4>3
    <3> QED BY <3>2, <3>3
  <2>2. CASE i # m
    <3>1. i \in 1..(m - 1) /\ i < m
      BY <1>1, <2>2
    <3>2. i \in DOMAIN B /\ B2[i] = B[i]
      <4>1. i \in 1..Len(B)
        BY <1>31, <3>1
      <4> QED BY <1>3, <3>1, <4>1
    <3> QED BY <3>1, <3>2
  <2> QED BY <2>1, <2>2
\* Every old position is still there.
<1>5. ASSUME NEW i \in DOMAIN B, NEW a \in DOMAIN B[i]
      PROVE  i \in DOMAIN B2 /\ a \in DOMAIN B2[i] /\ B2[i][a] = B[i][a]
  <2>1. CASE i = m
    <3>0. m \in 1..Len(B)
      BY <1>3, <2>1
    <3>1. Len(B) = m /\ B[m] = b0
      <4>1. Len(B) # m - 1
        BY <1>31, <3>0
      <4> QED BY <4>1
    <3>2. a \in 1..Len(b0)
      BY <2>1, <3>1
    <3>3. a \in 1..z
      BY <1>1, <3>2 DEF z
    <3>4. m \in DOMAIN B2 /\ a \in DOMAIN B2[m] /\ B2[m][a] = b0[a]
      BY <1>1, <3>2, <3>3
    <3> QED BY <2>1, <3>1, <3>4
  <2>2. CASE i # m
    <3>1. i \in 1..(m - 1)
      BY <1>3, <2>2
    <3> QED BY <1>1, <3>1
  <2> QED BY <2>1, <2>2
<1>6. ASSUME NEW i \in DOMAIN B PROVE \A a \in DOMAIN B[i] : B[i][a].key \in KeysOf(t) /\ B[i][a].key < k
  BY BlockKeys
<1>7. ASSUME NEW i \in DOMAIN B2, NEW j \in DOMAIN B2, NEW a \in DOMAIN B2[i], NEW b \in DOMAIN B2[j],
             i < j \/ (i = j /\ a < b)
      PROVE  B2[i][a].key < B2[j][b].key
  <2>0. i \in 1..m /\ j \in 1..m /\ a \in Nat /\ b \in Nat
    <3>1. B2[i] \in Seq(KV) /\ B2[j] \in Seq(KV)
      OBVIOUS
    <3> QED BY <1>1, <3>1
  <2>1. CASE i = m /\ a = z
    <3>1. j = m /\ z < b
      BY <1>7, <2>0, <2>1
    <3>2. b \in 1..z
      BY <1>1, <3>1
    <3> QED BY <1>1, <3>1, <3>2
  <2>2. CASE ~(i = m /\ a = z)
    <3>1. i \in DOMAIN B /\ a \in DOMAIN B[i] /\ B2[i][a] = B[i][a]
      BY <1>4, <2>2
    <3>2. CASE j = m /\ b = z
      <4>1. B2[j][b] = kv
        BY <1>1, <3>2
      <4> QED BY <1>1, <1>6, <3>1, <4>1
    <3>3. CASE ~(j = m /\ b = z)
      <4>1. j \in DOMAIN B /\ b \in DOMAIN B[j] /\ B2[j][b] = B[j][b]
        BY <1>4, <3>3
      <4>2. B[i][a].key < B[j][b].key
        BY <1>7, <3>1, <4>1 DEF BlocksOK
      <4> QED BY <3>1, <4>1, <4>2
    <3> QED BY <3>2, <3>3
  <2> QED BY <2>1, <2>2
<1>8. ASSUME NEW i \in DOMAIN B2, NEW a \in DOMAIN B2[i] PROVE t2[B2[i][a].key] = B2[i][a].ent
  <2>1. CASE i = m /\ a = z
    BY <1>1, <1>2, <2>1
  <2>2. CASE ~(i = m /\ a = z)
    <3>1. i \in DOMAIN B /\ a \in DOMAIN B[i] /\ B2[i][a] = B[i][a]
      BY <1>4, <2>2
    <3>2. t[B[i][a].key] = B[i][a].ent /\ B[i][a].key \in KeysOf(t)
      BY <1>6, <3>1 DEF BlocksOK
    <3> QED BY <1>2, <3>1, <3>2
  <2> QED BY <2>1, <2>2
<1>9. ASSUME NEW x \in KeysOf(t2) PROVE \E i \in DOMAIN B2 : \E a \in DOMAIN B2[i] : B2[i][a].key = x
  <2>1. CASE x = k
    <3>1. m \in DOMAIN B2 /\ z \in DOMAIN B2[m] /\ B2[m][z].key = k
      BY <1>1 DEF z
    <3> QED BY <2>1, <3>1
  <2>2. CASE x \in KeysOf(t)
    <3>1. PICK i \in DOMAIN B : \E a \in DOMAIN B[i] : B[i][a].key = x
      BY <2>2 DEF BlocksOK
    <3>2. PICK a \in DOMAIN B[i] : B[i][a].key = x
      BY <3>1
    <3> QED BY <1>5, <3>2
  <2> QED BY <1>2, <2>1, <2>2
<1>10. ASSUME NEW i \in DOMAIN B2 PROVE B2[i] # <<>>
  <2>1. CASE i = m
    <3>1. Len(B2[m]) # 0
      BY <1>1 DEF z
    <3> QED BY <2>1, <3>1
  <2>2. CASE i # m
    <3>1. i \in 1..(m - 1)
      BY <1>1, <2>2
    <3>2. i \in DOMAIN B
      BY <1>3, <3>1
    <3> QED BY <3>1, <3>2 DEF BlocksOK
  <2> QED BY <2>1, <2>2
<1> QED BY <1>2, <1>7, <1>8, <1>9, <1>10 DEF BlocksOK, t2

\* Data sections are sections of a file, and none of them is empty.
LEMMA DataFile ==
    ASSUME NEW out \in Seq(DataSections)
    PROVE  /\ IsFile(out) /\ Len(out) \in Nat
           /\ \A j \in 1..Len(out) : out[j] \in DataSections /\ out[j].size \in Nat \ {0} /\ out[j].data \in Seq(KV)
<1>1. Len(out) \in Nat /\ DOMAIN out = 1..Len(out) /\ \A j \in 1..Len(out) : out[j] \in DataSections
  OBVIOUS
<1>2. \A j \in 1..Len(out) : out[j].size \in Nat \ {0} /\ out[j].data \in Seq(KV)
  BY <1>1 DEF DataSections
<1> QED BY <1>1, <1>2 DEF IsFile

\* NewWriter has been given nothing.
LEMMA WriterNew ==
    ASSUME NEW bs
    PROVE  WriterOK(NewWriter(bs), EmptyTable)
<1> DEFINE wr == NewWriter(bs)
<1>1. /\ IsWriter(wr) /\ wr.block = <<>> /\ wr.blockBytes = 0 /\ wr.offset = 0
      /\ wr.index = <<>> /\ wr.allKeys = <<>> /\ wr.out = <<>>
  BY DEF NewWriter, IsWriter
<1> HIDE DEF wr
<1>2. EmptyTable \in Table /\ KeysOf(EmptyTable) = {} /\ TableLen(EmptyTable) = 0 /\ ByteSize(EmptyTable) = 0
  BY SizesEmpty DEF EmptyTable, Table, KeysOf
<1>3. wr.out \in Seq(DataSections) /\ Len(wr.out) = 0 /\ IsFile(wr.out)
  <2>1. <<>> \in Seq(DataSections) /\ Len(<<>>) = 0
    OBVIOUS
  <2> QED BY <1>1, <2>1, DataFile
<1>4. Offset(wr.out, 1) = 0
  BY <1>3, OffsetStart
<1>5. WBlocks(wr) = <<>>
  <2>1. DOMAIN WBlocks(wr) = 1..0 /\ WBlocks(wr) = [i \in 1..0 |-> WBlocks(wr)[i]]
    BY <1>1, <1>3 DEF WBlocks
  <2> QED BY <2>1
<1>6. BlocksOK(<<>>, EmptyTable)
  BY <1>2 DEF BlocksOK
<1>7. ToSet(<<>>) = {}
  BY DEF ToSet
<1>8. wr.offset - 4 * Len(wr.out) + wr.blockBytes = 9 * TableLen(EmptyTable) + ByteSize(EmptyTable)
  <2>1. 0 - 4 * 0 + 0 = 9 * 0 + 0
    OBVIOUS
  <2> QED BY <1>1, <1>2, <1>3, <2>1
<1> QED BY <1>1, <1>2, <1>3, <1>4, <1>5, <1>6, <1>7, <1>8 DEF WriterOK, wr

\* Writing out the current block changes nothing of what the writer holds.
LEMMA WriterFlush ==
    ASSUME NEW wr, NEW t, WriterOK(wr, t)
    PROVE  WriterOK(FlushBlock(wr), t) /\ FlushBlock(wr).block = <<>>
<1>1. CASE wr.block = <<>>
  BY <1>1 DEF FlushBlock
<1>2. CASE wr.block # <<>>
  <2> DEFINE f == FlushBlock(wr)
             n == Len(wr.out)
             sec == [size |-> wr.blockBytes + TrailerSize, data |-> wr.block, magic |-> FALSE]
             ie == [firstKey |-> wr.block[1].key, offset |-> wr.blockStart, len |-> wr.blockBytes + TrailerSize]
  <2>1. f = [wr EXCEPT !.out = Append(@, sec), !.offset = @ + wr.blockBytes + TrailerSize,
                       !.index = Append(@, ie), !.block = <<>>, !.blockBytes = 0]
    BY <1>2 DEF FlushBlock, Section
  <2>2. IsWriter(wr)
    BY DEF WriterOK
  <2>3. f = [blockSize |-> wr.blockSize, block |-> <<>>, blockBytes |-> 0, blockStart |-> wr.blockStart,
             offset |-> wr.offset + wr.blockBytes + TrailerSize, index |-> Append(wr.index, ie),
             allKeys |-> wr.allKeys, out |-> Append(wr.out, sec)]
    BY <2>1, <2>2 DEF IsWriter
  <2>4. /\ IsWriter(f) /\ f.block = <<>> /\ f.blockBytes = 0 /\ f.allKeys = wr.allKeys
        /\ f.offset = wr.offset + wr.blockBytes + TrailerSize
        /\ f.index = Append(wr.index, ie) /\ f.out = Append(wr.out, sec)
    BY <2>3 DEF IsWriter
  <2> HIDE DEF f
  <2>5. /\ wr.out \in Seq(DataSections) /\ n \in Nat /\ wr.block \in Seq(KV) /\ wr.blockBytes \in Nat
        /\ wr.offset \in Int /\ wr.index \in Seq(IndexEntries) /\ Len(wr.index) = n
    BY DEF WriterOK
  <2>6. sec \in DataSections /\ sec.size = wr.blockBytes + 4 /\ sec.data = wr.block
    BY <2>5 DEF DataSections, TrailerSize
  <2>7. wr.block[1] \in KV /\ wr.block[1].key \in Keys
    <3>1. wr.block[1] \in KV
      BY <1>2, <2>5
    <3> QED BY <3>1 DEF KV
  <2> HIDE DEF sec
  <2>8. /\ f.out \in Seq(DataSections) /\ Len(f.out) = n + 1 /\ f.out[n + 1] = sec
        /\ \A i \in 1..n : f.out[i] = wr.out[i]
    BY <2>4, <2>5, <2>6
  <2>9. IsFile(wr.out) /\ IsFile(f.out)
    BY <2>5, <2>8, DataFile
  <2>10. \A i \in 1..(n + 1) : Offset(f.out, i) = Offset(wr.out, i)
    BY <2>5, <2>8, <2>9, OffsetPrefix
  <2>11. wr.offset = Offset(wr.out, n + 1) /\ wr.blockStart = wr.offset
    BY <1>2 DEF WriterOK
  <2>12. f.offset = Offset(f.out, Len(f.out) + 1) /\ f.offset \in Int
    <3>1. n + 1 \in 1..Len(f.out)
      BY <2>5, <2>8
    <3>2. Offset(f.out, (n + 1) + 1) = Offset(f.out, n + 1) + f.out[n + 1].size
      BY <2>9, <3>1, OffsetNext
    <3>3. Offset(f.out, n + 1) = wr.offset
      BY <2>5, <2>10, <2>11
    <3> QED BY <2>4, <2>5, <2>6, <2>8, <3>2, <3>3 DEF TrailerSize
  <2>13. ie \in IndexEntries /\ ie = EntryFor(f.out, n + 1)
    <3>1. Offset(f.out, n + 1) = wr.blockStart
      BY <2>5, <2>10, <2>11
    <3>2. ie = EntryFor(f.out, n + 1)
      BY <2>6, <2>8, <3>1 DEF EntryFor, TrailerSize
    <3> QED BY <2>5, <2>7, <2>11, <3>2 DEF IndexEntries, TrailerSize
  <2> HIDE DEF ie
  <2>14. f.index \in Seq(IndexEntries) /\ Len(f.index) = Len(f.out)
    BY <2>4, <2>5, <2>8, <2>13
  <2>15. ASSUME NEW i \in 1..Len(f.out) PROVE f.index[i] = EntryFor(f.out, i)
    <3>1. CASE i = n + 1
      BY <2>4, <2>5, <2>13, <3>1
    <3>2. CASE i # n + 1
      <4>1. i \in 1..n /\ i \in 1..(n + 1)
        BY <2>5, <2>8, <3>2
      <4>2. f.index[i] = wr.index[i]
        BY <2>4, <2>5, <4>1
      <4>3. wr.index[i] = EntryFor(wr.out, i)
        BY <4>1 DEF WriterOK
      <4> QED BY <2>8, <2>10, <4>1, <4>2, <4>3 DEF EntryFor
    <3> QED BY <3>1, <3>2
  <2>16. WBlocks(f) = WBlocks(wr)
    <3>1. DOMAIN WBlocks(f) = 1..(n + 1) /\ DOMAIN WBlocks(wr) = 1..(n + 1)
      BY <1>2, <2>4, <2>5, <2>8, WBlocksIs
    <3>2. ASSUME NEW i \in 1..(n + 1) PROVE WBlocks(f)[i] = WBlocks(wr)[i]
      <4>1. WBlocks(f)[i] = f.out[i].data
        BY <2>5, <2>8, WBlocksIs
      <4>2. CASE i = n + 1
        BY <1>2, <2>5, <2>6, <2>8, <4>1, <4>2, WBlocksIs
      <4>3. CASE i # n + 1
        <5>1. i \in 1..n
          BY <2>5, <4>3
        <5> QED BY <2>5, <2>8, <4>1, <5>1, WBlocksIs
      <4> QED BY <4>2, <4>3
    <3>3. WBlocks(f) = [i \in 1..(n + 1) |-> WBlocks(f)[i]] /\ WBlocks(wr) = [i \in 1..(n + 1) |-> WBlocks(wr)[i]]
      BY <3>1 DEF WBlocks
    <3> QED BY <3>2, <3>3
  <2>17. f.offset - 4 * Len(f.out) + f.blockBytes = 9 * TableLen(t) + ByteSize(t)
    <3>1. wr.offset - 4 * n + wr.blockBytes = 9 * TableLen(t) + ByteSize(t)
      BY DEF WriterOK
    <3>2. (wr.offset + wr.blockBytes + 4) - 4 * (n + 1) + 0 = wr.offset - 4 * n + wr.blockBytes
      BY <2>5
    <3> QED BY <2>4, <2>8, <3>1, <3>2 DEF TrailerSize
  <2>18. BlocksOK(WBlocks(f), t) /\ wr.allKeys \in Seq(Keys) /\ ToSet(wr.allKeys) = KeysOf(t) /\ Len(wr.allKeys) = TableLen(t)
    BY <2>16 DEF WriterOK
  <2>19. f.block \in Seq(KV) /\ f.blockBytes \in Nat
    BY <2>4
  <2>20. WriterOK(f, t)
    BY <2>4, <2>8, <2>12, <2>14, <2>15, <2>17, <2>18, <2>19 DEF WriterOK
  <2> QED BY <2>4, <2>20 DEF f
<1> QED BY <1>1, <1>2

\* Add puts the next entry behind the others, in the current block or a new one.
LEMMA WriterAdd ==
    ASSUME NEW wr, NEW t, WriterOK(wr, t), NEW k \in Keys, NEW e \in Entries, \A x \in KeysOf(t) : x < k
    PROVE  WriterOK(Add(wr, k, e), [t EXCEPT ![k] = e])
<1> DEFINE kv == [key |-> k, ent |-> e]
           t2 == [t EXCEPT ![k] = e]
           n == Len(wr.out)
           start == IF wr.block = <<>> THEN wr.offset ELSE wr.blockStart
           w1 == [wr EXCEPT !.block = Append(@, kv),
                            !.blockBytes = @ + EntryHeaderSize + KeyLen + EntryLen(e),
                            !.blockStart = start,
                            !.allKeys = Append(@, k)]
<1>1. IsWriter(wr)
  BY DEF WriterOK
<1>2. w1 = [wr EXCEPT !.block = Append(wr.block, kv),
                      !.blockBytes = wr.blockBytes + EntryHeaderSize + KeyLen + EntryLen(e),
                      !.blockStart = start,
                      !.allKeys = Append(wr.allKeys, k)]
  OBVIOUS
<1>3. Add(wr, k, e) = IF w1.blockBytes >= wr.blockSize THEN FlushBlock(w1) ELSE w1
  BY DEF Add
<1> HIDE DEF w1, start
<1>4. /\ IsWriter(w1) /\ w1.block = Append(wr.block, kv)
      /\ w1.blockBytes = wr.blockBytes + EntryHeaderSize + KeyLen + EntryLen(e)
      /\ w1.blockStart = start
      /\ w1.offset = wr.offset /\ w1.index = wr.index /\ w1.allKeys = Append(wr.allKeys, k) /\ w1.out = wr.out
  <2> DEFINE a == Append(wr.block, kv)
             b == wr.blockBytes + EntryHeaderSize + KeyLen + EntryLen(e)
             d == Append(wr.allKeys, k)
  <2>1. w1 = [wr EXCEPT !.block = a, !.blockBytes = b, !.blockStart = start, !.allKeys = d]
    BY <1>2
  <2> HIDE DEF a, b, d
  <2>2. /\ IsWriter(w1) /\ w1.block = a /\ w1.blockBytes = b /\ w1.blockStart = start /\ w1.allKeys = d
        /\ w1.offset = wr.offset /\ w1.index = wr.index /\ w1.out = wr.out
    <3>1. w1 = [blockSize |-> wr.blockSize, block |-> a, blockBytes |-> b, blockStart |-> start,
                offset |-> wr.offset, index |-> wr.index, allKeys |-> d, out |-> wr.out]
      BY <1>1, <2>1 DEF IsWriter
    <3> QED BY <3>1 DEF IsWriter
  <2> QED BY <2>2 DEF a, b, d
<1>5. /\ wr.out \in Seq(DataSections) /\ n \in Nat /\ wr.block \in Seq(KV) /\ wr.blockBytes \in Nat
      /\ wr.offset \in Int /\ wr.allKeys \in Seq(Keys) /\ BlocksOK(WBlocks(wr), t)
      /\ ToSet(wr.allKeys) = KeysOf(t) /\ Len(wr.allKeys) = TableLen(t) /\ TableLen(t) \in Nat
  <2>1. /\ wr.out \in Seq(DataSections) /\ wr.block \in Seq(KV) /\ wr.blockBytes \in Nat
        /\ wr.offset \in Int /\ wr.allKeys \in Seq(Keys) /\ BlocksOK(WBlocks(wr), t)
        /\ ToSet(wr.allKeys) = KeysOf(t) /\ Len(wr.allKeys) = TableLen(t)
    BY DEF WriterOK
  <2>2. n \in Nat /\ Len(wr.allKeys) \in Nat
    BY <2>1
  <2> QED BY <2>1, <2>2
<1>6. kv \in KV /\ t \in Table /\ k \in Nat
  BY <1>5, KeysAssumption DEF KV, BlocksOK
<1> HIDE DEF kv
<1>7. w1.block \in Seq(KV) /\ w1.block # <<>>
  <2>1. Append(wr.block, kv) \in Seq(KV) /\ Len(Append(wr.block, kv)) = Len(wr.block) + 1 /\ Len(wr.block) \in Nat
    BY <1>5, <1>6
  <2>2. Len(Append(wr.block, kv)) # 0
    BY <2>1
  <2> QED BY <1>4, <2>1, <2>2
<1>8. k \notin KeysOf(t) /\ t[k] = NoEntry
  <2>1. ~(k < k)
    BY <1>6
  <2> QED BY <2>1 DEF KeysOf
<1>9. TableLen(t2) = TableLen(t) + 1 /\ ByteSize(t2) = ByteSize(t) + KeyLen + EntryLen(e) /\ ByteSize(t) \in Int
  <2>1. TableLen(t2) = TableLen(t) + 1 /\ ByteSize(t2) = ByteSize(t) + KeyLen + EntryLen(e)
    BY <1>6, <1>8, SizesPut
  <2>2. IsFiniteSet(KeysOf(t))
    BY KeysAssumption, FS_Subset DEF KeysOf
  <2>3. \A x \in KeysOf(t) : EntryBytes(t)[x] \in Int
    BY EntryLenNat, LenAssumption DEF KeysOf, EntryBytes
  <2>4. ByteSize(t) \in Int
    BY <2>2, <2>3, ByteSizeIsSum, SumInt
  <2> QED BY <2>1, <2>4
<1>10. w1.blockBytes \in Nat
  <2> DEFINE a == wr.blockBytes
             l == EntryLen(e)
  <2>1. a \in Nat /\ KeyLen \in Nat /\ l \in Nat
    BY <1>5, EntryLenNat, LenAssumption
  <2>2. w1.blockBytes = a + 9 + KeyLen + l
    BY <1>4 DEF EntryHeaderSize
  <2> HIDE DEF a, l
  <2> QED BY <2>1, <2>2
<1>11. w1.offset - 4 * Len(w1.out) + w1.blockBytes = 9 * TableLen(t2) + ByteSize(t2)
  <2>1. wr.offset - 4 * n + wr.blockBytes = 9 * TableLen(t) + ByteSize(t)
    BY DEF WriterOK
  <2>2. KeyLen \in Nat /\ EntryLen(e) \in Nat
    BY EntryLenNat, LenAssumption
  <2>3. w1.offset - 4 * Len(w1.out) + w1.blockBytes = wr.offset - 4 * n + (wr.blockBytes + 9 + KeyLen + EntryLen(e))
    BY <1>4 DEF EntryHeaderSize
  <2>4. 9 * TableLen(t2) + ByteSize(t2) = 9 * (TableLen(t) + 1) + (ByteSize(t) + KeyLen + EntryLen(e))
    BY <1>9
  <2>5. ASSUME NEW a \in Int, NEW b \in Int, NEW c \in Int, NEW d \in Int, NEW g \in Int, NEW x \in Int, NEW y \in Int,
               a - 4 * b + c = 9 * x + y
        PROVE  a - 4 * b + (c + 9 + d + g) = 9 * (x + 1) + (y + d + g)
    BY <2>5
  <2>6. wr.offset - 4 * n + (wr.blockBytes + 9 + KeyLen + EntryLen(e)) = 9 * (TableLen(t) + 1) + (ByteSize(t) + KeyLen + EntryLen(e))
    <3>1. ByteSize(t) \in Int /\ TableLen(t) \in Int /\ n \in Int /\ KeyLen \in Int /\ EntryLen(e) \in Int
          /\ wr.blockBytes \in Int /\ wr.offset \in Int
      BY <1>5, <1>9, <2>2
    <3> DEFINE bt == ByteSize(t)
               tl == TableLen(t)
               el == EntryLen(e)
               wb == wr.blockBytes
               wo == wr.offset
    <3>2. wo - 4 * n + wb = 9 * tl + bt /\ bt \in Int /\ tl \in Int /\ n \in Int /\ KeyLen \in Int /\ el \in Int
          /\ wb \in Int /\ wo \in Int
      BY <2>1, <3>1
    <3> HIDE DEF bt, tl, el, wb, wo, n
    <3>3. wo - 4 * n + (wb + 9 + KeyLen + el) = 9 * (tl + 1) + (bt + KeyLen + el)
      BY <3>2
    <3> QED BY <3>3 DEF bt, tl, el, wb, wo
  <2> HIDE DEF t2, n
  <2> QED BY <2>3, <2>4, <2>6
<1>12. w1.allKeys \in Seq(Keys) /\ ToSet(w1.allKeys) = KeysOf(t2) /\ Len(w1.allKeys) = TableLen(t2)
  <2> DEFINE s == wr.allKeys
             s2 == Append(s, k)
  <2>1. /\ s2 \in Seq(Keys) /\ Len(s2) = Len(s) + 1 /\ Len(s) \in Nat /\ DOMAIN s2 = 1..(Len(s) + 1)
        /\ DOMAIN s = 1..Len(s) /\ s2[Len(s) + 1] = k /\ \A i \in 1..Len(s) : s2[i] = s[i]
    BY <1>5
  <2> HIDE DEF s2
  <2>2. ToSet(s2) = ToSet(s) \cup {k}
    <3>1. ASSUME NEW y \in ToSet(s2) PROVE y \in ToSet(s) \cup {k}
      <4>1. PICK i \in DOMAIN s2 : y = s2[i]
        BY DEF ToSet
      <4>2. CASE i = Len(s) + 1
        BY <2>1, <4>1, <4>2
      <4>3. CASE i # Len(s) + 1
        <5>1. i \in 1..Len(s)
          BY <2>1, <4>1, <4>3
        <5> QED BY <2>1, <4>1, <5>1 DEF ToSet
      <4> QED BY <4>2, <4>3
    <3>2. ASSUME NEW y \in ToSet(s) PROVE y \in ToSet(s2)
      <4>1. PICK i \in DOMAIN s : y = s[i]
        BY DEF ToSet
      <4>2. i \in DOMAIN s2 /\ s2[i] = y
        BY <2>1, <4>1
      <4> QED BY <4>2 DEF ToSet
    <3>3. k \in ToSet(s2)
      <4>1. Len(s) + 1 \in DOMAIN s2
        BY <2>1
      <4> QED BY <2>1, <4>1 DEF ToSet
    <3> QED BY <3>1, <3>2, <3>3
  <2>3. KeysOf(t2) = KeysOf(t) \cup {k}
    <3>1. e # NoEntry
      BY EntryAssumption DEF Entries
    <3> QED BY <1>6, <3>1 DEF KeysOf, Table
  <2> QED BY <1>4, <1>5, <1>9, <2>1, <2>2, <2>3 DEF s2
<1>13. BlocksOK(WBlocks(w1), t2)
  <2> DEFINE B == WBlocks(wr)
             B2 == WBlocks(w1)
             m == n + 1
  <2>1. /\ DOMAIN B2 = 1..m /\ Len(B2) = m /\ B2[m] = Append(wr.block, kv)
        /\ \A i \in 1..n : B2[i] = wr.out[i].data
    BY <1>4, <1>5, <1>7, WBlocksIs
  <2>2. \A i \in 1..n : B[i] = wr.out[i].data
    BY <1>5, WBlocksIs
  <2>3. (Len(B) = m /\ B[m] = wr.block) \/ (Len(B) = m - 1 /\ wr.block = <<>>)
    <3>1. CASE wr.block = <<>>
      <4>1. Len(B) = n /\ m - 1 = n
        BY <1>5, <3>1, WBlocksIs
      <4> QED BY <3>1, <4>1
    <3>2. CASE wr.block # <<>>
      BY <1>5, <3>2, WBlocksIs
    <3> QED BY <3>1, <3>2
  <2>4. B2 \in Seq(Seq(KV))
    <3>1. ASSUME NEW i \in 1..m PROVE B2[i] \in Seq(KV)
      <4>1. CASE i = m
        BY <1>4, <1>7, <2>1, <4>1
      <4>2. CASE i # m
        <5>1. i \in 1..n
          BY <1>5, <4>2
        <5>2. wr.out[i].data \in Seq(KV)
          BY <1>5, <5>1, DataFile
        <5> QED BY <2>1, <5>1, <5>2
      <4> QED BY <4>1, <4>2
    <3>2. B2 = [i \in 1..m |-> B2[i]] /\ m \in Nat
      <4>1. B2 = [i \in DOMAIN B2 |-> B2[i]]
        BY DEF WBlocks
      <4> HIDE DEF B2
      <4> QED BY <1>5, <2>1, <4>1
    <3> HIDE DEF B2, m
    <3> QED BY <3>1, <3>2
  <2>5. m \in Nat \ {0} /\ m - 1 = n
    BY <1>5
  <2>6. \A i \in 1..(m - 1) : B2[i] = B[i]
    BY <2>1, <2>2, <2>5
  <2> HIDE DEF B, B2, m
  <2>7. BlocksOK(B, t)
    BY <1>5 DEF B
  <2>8. B2[m] = Append(wr.block, [key |-> k, ent |-> e]) /\ Len(B2) = m /\ wr.block \in Seq(KV)
    BY <1>5, <2>1 DEF kv
  <2>9. BlocksOK(B2, [t EXCEPT ![k] = e])
    BY <2>3, <2>4, <2>5, <2>6, <2>7, <2>8, BlocksAdd
  <2> QED BY <2>9 DEF B2
<1>14. w1.blockStart = w1.offset
  <2>1. wr.block # <<>> => wr.blockStart = wr.offset
    BY DEF WriterOK
  <2> QED BY <1>4, <2>1 DEF start
<1> HIDE DEF t2
<1>15. WriterOK(w1, t2)
  <2>1. /\ wr.offset = Offset(wr.out, Len(wr.out) + 1) /\ wr.offset \in Int
        /\ wr.index \in Seq(IndexEntries) /\ Len(wr.index) = Len(wr.out)
        /\ \A i \in 1..Len(wr.out) : wr.index[i] = EntryFor(wr.out, i)
    BY DEF WriterOK
  <2> QED BY <1>4, <1>5, <1>7, <1>10, <1>11, <1>12, <1>13, <1>14, <2>1 DEF WriterOK
<1> QED BY <1>3, <1>15, WriterFlush DEF t2

-----------------------------------------------------------------------------
(* A finished file.                                                        *)

IndexSection(wr) == Section(Len(wr.index) * (IndexEntryHeaderSize + KeyLen), wr.index)
BloomSection(wr) == Section(EncodedSize(Build(wr.allKeys)), Encode(Build(wr.allKeys)))
Footer(wr) ==
    [indexOffset |-> wr.offset, indexLen |-> IndexSection(wr).size,
     bloomOffset |-> wr.offset + IndexSection(wr).size, bloomLen |-> BloomSection(wr).size,
     numEntries  |-> Len(wr.allKeys)]
FooterSection(wr) == [size |-> FooterSize, data |-> Footer(wr), magic |-> TRUE]

\* A writer that holds the entries of t, all of them in blocks it has written.
Complete(wr, t) == WriterOK(wr, t) /\ wr.block = <<>>

\* Finish writes out the last block first.
LEMMA FinishComplete ==
    ASSUME NEW wr, NEW t, WriterOK(wr, t)
    PROVE  Complete(FlushBlock(wr), t) /\ Finish(wr) = Finish(FlushBlock(wr))
<1> DEFINE f == FlushBlock(wr)
<1>1. WriterOK(f, t) /\ f.block = <<>>
  BY WriterFlush
<1>2. FlushBlock(f) = f
  BY <1>1 DEF FlushBlock
<1>3. Finish(wr) = Finish(f)
  <2> HIDE DEF f
  <2>1. f = FlushBlock(wr)
    BY DEF f
  <2> QED BY <1>2, <2>1 DEF Finish
<1> QED BY <1>1, <1>3 DEF Complete

\* A product of naturals is a natural.
LEMMA NatTimes ==
    ASSUME NEW a \in Nat, NEW b \in Nat
    PROVE  a * b \in Nat
OBVIOUS

\* So is the size of a filter.
LEMMA BloomBytesIsNat ==
    ASSUME NEW n \in Nat
    PROVE  BloomBytes(n) \in Nat
BY DEF BloomBytes

\* Three sections behind the others.
LEMMA ThreeMore ==
    ASSUME NEW T, NEW s \in Seq(T), NEW a \in T, NEW b \in T, NEW c \in T
    PROVE  LET u == s \o <<a, b, c>>
               n == Len(s)
           IN  /\ u \in Seq(T) /\ n \in Nat /\ Len(u) = n + 3 /\ DOMAIN u = 1..(n + 3)
               /\ (\A i \in 1..n : u[i] = s[i])
               /\ u[n + 1] = a /\ u[n + 2] = b /\ u[n + 3] = c
<1> DEFINE v == <<a, b, c>>
           u == s \o v
           n == Len(s)
<1>1. v \in Seq(T) /\ Len(v) = 3 /\ v[1] = a /\ v[2] = b /\ v[3] = c
  OBVIOUS
<1> HIDE DEF v
<1>2. /\ u \in Seq(T) /\ n \in Nat /\ Len(u) = n + 3 /\ DOMAIN u = 1..(n + 3)
  <2>1. n \in Nat
    OBVIOUS
  <2>2. u \in Seq(T)
    BY <1>1
  <2>3. Len(u) = n + 3
    <3>1. ASSUME NEW y \in Seq(T) PROVE Len(s \o y) = Len(s) + Len(y)
      OBVIOUS
    <3>2. Len(s \o v) = Len(s) + Len(v)
      BY <1>1, <3>1
    <3> QED BY <1>1, <3>2
  <2>4. DOMAIN u = 1..Len(u)
    BY <2>2
  <2> QED BY <2>1, <2>2, <2>3, <2>4
<1>4. \A i \in 1..n : u[i] = s[i]
  BY <1>1, <1>2
<1>5. u[n + 1] = v[1]
  BY <1>1, <1>2
<1>6. u[n + 2] = v[2]
  BY <1>1, <1>2
<1>7. u[n + 3] = v[3]
  BY <1>1, <1>2
<1> QED BY <1>1, <1>2, <1>4, <1>5, <1>6, <1>7 DEF v

\* A finished file: data blocks, index, filter and footer.
LEMMA FinishSections ==
    ASSUME NEW wr, NEW t, Complete(wr, t)
    PROVE  LET n == Len(wr.out)
               file == Finish(wr)
           IN  /\ n \in Nat /\ Len(file) = n + 3 /\ IsFile(file) /\ DOMAIN file = 1..(n + 3)
               /\ \A i \in 1..n : file[i] = wr.out[i]
               /\ file[n + 1] = IndexSection(wr) /\ file[n + 2] = BloomSection(wr)
               /\ file[n + 3] = FooterSection(wr)
               /\ IndexSection(wr).size = n * (16 + KeyLen) /\ IndexSection(wr).size \in Nat
               /\ IndexSection(wr).data = wr.index
               /\ BloomSection(wr).size = 5 + BloomBytes(Len(wr.allKeys)) /\ BloomSection(wr).size \in Nat \ {0}
               /\ BloomSection(wr).data = Encode(Build(wr.allKeys))
               /\ FooterSection(wr).size = 48 /\ FooterSection(wr).data = Footer(wr) /\ FooterSection(wr).magic
               /\ IndexSection(wr).magic = FALSE /\ BloomSection(wr).magic = FALSE
<1> DEFINE n == Len(wr.out)
           file == Finish(wr)
           idx == IndexSection(wr)
           blm == BloomSection(wr)
           ft == FooterSection(wr)
           T == DataSections \cup {idx, blm, ft}
<1>1. /\ wr.out \in Seq(DataSections) /\ n \in Nat /\ Len(wr.index) = n /\ wr.allKeys \in Seq(Keys)
      /\ FlushBlock(wr) = wr
  BY DEF Complete, WriterOK, FlushBlock
<1>2. file = wr.out \o <<idx, blm, ft>>
  BY <1>1 DEF Finish, IndexSection, BloomSection, FooterSection, Footer
<1>3. /\ idx.size = n * (16 + KeyLen) /\ idx.size \in Nat /\ idx.data = wr.index /\ idx.magic = FALSE
  <2>1. n * (16 + KeyLen) \in Nat
    <3>1. 16 + KeyLen \in Nat
      BY LenAssumption
    <3> QED BY <1>1, <3>1, NatTimes
  <2> QED BY <1>1, <2>1 DEF IndexSection, Section, IndexEntryHeaderSize
<1>4. /\ blm.size = 5 + BloomBytes(Len(wr.allKeys)) /\ blm.size \in Nat \ {0}
      /\ blm.data = Encode(Build(wr.allKeys)) /\ blm.magic = FALSE
  <2> DEFINE b == BloomBytes(Len(wr.allKeys))
  <2>1. b \in Nat
    <3>1. Len(wr.allKeys) \in Nat
      BY <1>1
    <3> QED BY <3>1, BloomBytesIsNat
  <2>2. Len(Build(wr.allKeys).bits) = b
    BY <2>1 DEF Build
  <2> QED BY <2>1, <2>2 DEF BloomSection, Section, EncodedSize
<1>5. ft.size = 48 /\ ft.data = Footer(wr) /\ ft.magic
  BY DEF FooterSection, FooterSize
<1> HIDE DEF idx, blm, ft
<1>6. /\ file \in Seq(T) /\ Len(file) = n + 3 /\ DOMAIN file = 1..(n + 3)
      /\ \A i \in 1..n : file[i] = wr.out[i]
      /\ file[n + 1] = idx /\ file[n + 2] = blm /\ file[n + 3] = ft
  <2>1. wr.out \in Seq(T) /\ idx \in T /\ blm \in T /\ ft \in T
    BY <1>1
  <2> HIDE DEF T, file
  <2> QED BY <1>2, <2>1, ThreeMore
<1> HIDE DEF file
<1>7. ASSUME NEW i \in DOMAIN file PROVE file[i].size \in Nat
  <2>1. CASE i \in 1..n
    BY <1>1, <1>6, <2>1, DataFile
  <2>2. CASE i \in {n + 1, n + 2, n + 3}
    <3>1. idx.size \in Nat /\ blm.size \in Nat /\ ft.size \in Nat
      BY <1>3, <1>4, <1>5
    <3>2. file[n + 1] = idx /\ file[n + 2] = blm /\ file[n + 3] = ft
      BY <1>6
    <3> QED BY <2>2, <3>1, <3>2
  <2> QED BY <1>1, <1>6, <2>1, <2>2
<1>8. IsFile(file)
  BY <1>6, <1>7 DEF IsFile
<1> QED BY <1>1, <1>3, <1>4, <1>5, <1>6, <1>8 DEF file, idx, blm, ft

\* The sections of a finished file begin where index and footer say.
LEMMA FinishOffsets ==
    ASSUME NEW wr, NEW t, Complete(wr, t)
    PROVE  LET n == Len(wr.out)
               file == Finish(wr)
           IN  /\ \A i \in 1..n : Offset(file, i) = Offset(wr.out, i)
               /\ Offset(file, n + 1) = wr.offset /\ wr.offset \in Int
               /\ Offset(file, n + 2) = wr.offset + IndexSection(wr).size
               /\ FileBytes(file) = wr.offset + IndexSection(wr).size + BloomSection(wr).size + 48
<1> DEFINE n == Len(wr.out)
           file == Finish(wr)
           i0 == IndexSection(wr).size
           b0 == BloomSection(wr).size
<1>1. /\ n \in Nat /\ Len(file) = n + 3 /\ IsFile(file)
      /\ \A i \in 1..n : file[i] = wr.out[i]
      /\ file[n + 1].size = i0 /\ file[n + 2].size = b0 /\ file[n + 3].size = 48
      /\ i0 \in Nat /\ b0 \in Nat
  BY FinishSections
<1>2. wr.out \in Seq(DataSections) /\ wr.offset = Offset(wr.out, n + 1) /\ wr.offset \in Int
  BY DEF Complete, WriterOK
<1>3. IsFile(wr.out)
  BY <1>2, DataFile
<1> HIDE DEF file, i0, b0
<1>4. \A i \in 1..(n + 1) : Offset(file, i) = Offset(wr.out, i)
  <2>1. n <= Len(file)
    BY <1>1
  <2> QED BY <1>1, <1>3, <2>1, OffsetPrefix
<1>5. Offset(file, n + 1) = wr.offset
  BY <1>1, <1>2, <1>4
<1>6. n + 1 \in 1..Len(file) /\ n + 2 \in 1..Len(file) /\ n + 3 \in 1..Len(file)
  BY <1>1
<1>7. /\ Offset(file, (n + 1) + 1) = Offset(file, n + 1) + file[n + 1].size
      /\ Offset(file, (n + 2) + 1) = Offset(file, n + 2) + file[n + 2].size
      /\ Offset(file, (n + 3) + 1) = Offset(file, n + 3) + file[n + 3].size
  BY <1>1, <1>6, OffsetNext
<1>8. (n + 1) + 1 = n + 2 /\ (n + 2) + 1 = n + 3 /\ (n + 3) + 1 = Len(file) + 1
  BY <1>1
<1>9. Offset(file, n + 2) = wr.offset + i0 /\ Offset(file, n + 3) = wr.offset + i0 + b0
  BY <1>1, <1>5, <1>7, <1>8
<1>10. FileBytes(file) = wr.offset + i0 + b0 + 48
  BY <1>1, <1>7, <1>8, <1>9 DEF FileBytes
<1>11. \A i \in 1..n : Offset(file, i) = Offset(wr.out, i)
  BY <1>1, <1>4
<1> QED BY <1>2, <1>5, <1>9, <1>10, <1>11 DEF file, i0, b0

\* Open finds the index and the filter the writer left, and readBlock its blocks.
LEMMA OpenFinished ==
    ASSUME NEW wr, NEW t, Complete(wr, t)
    PROVE  LET file == Finish(wr)
               r == OpenTable(file)
           IN  /\ HasFooter(file)
               /\ r.file = file /\ r.index = wr.index /\ r.filter = Build(wr.allKeys)
               /\ \A b \in 1..Len(wr.out) : ReadAt(file, wr.index[b].offset, wr.index[b].len) = wr.out[b].data
<1> DEFINE n == Len(wr.out)
           file == Finish(wr)
           r == OpenTable(file)
<1>1. /\ n \in Nat /\ Len(file) = n + 3 /\ IsFile(file) /\ DOMAIN file = 1..(n + 3)
      /\ \A i \in 1..n : file[i] = wr.out[i]
      /\ file[n + 1] = IndexSection(wr) /\ file[n + 2] = BloomSection(wr) /\ file[n + 3] = FooterSection(wr)
      /\ IndexSection(wr).data = wr.index
      /\ BloomSection(wr).size \in Nat \ {0}
      /\ BloomSection(wr).data = Encode(Build(wr.allKeys))
      /\ FooterSection(wr).data = Footer(wr) /\ FooterSection(wr).magic /\ FooterSection(wr).size = 48
  BY FinishSections
<1>2. /\ \A i \in 1..n : Offset(file, i) = Offset(wr.out, i)
      /\ Offset(file, n + 1) = wr.offset
      /\ Offset(file, n + 2) = wr.offset + IndexSection(wr).size
  BY FinishOffsets
<1>3. wr.out \in Seq(DataSections) /\ wr.allKeys \in Seq(Keys) /\ \A i \in 1..n : wr.index[i] = EntryFor(wr.out, i)
  BY DEF Complete, WriterOK
<1>4. \A i \in 1..n : wr.out[i].size \in Nat \ {0}
  BY <1>3, DataFile
<1> HIDE DEF file
\* Only the index section can be empty.
<1>5. ASSUME NEW i \in 1..Len(file), file[i].size = 0 PROVE i = n + 1
  <2>1. CASE i \in 1..n
    BY <1>1, <1>4, <1>5, <2>1
  <2>2. CASE i = n + 2
    BY <1>1, <1>5, <2>2
  <2>3. CASE i = n + 3
    BY <1>1, <1>5, <2>3
  <2> QED BY <1>1, <2>1, <2>2, <2>3
<1>6. \A i \in 1..Len(file) : ReadAt(file, Offset(file, i), file[i].size) = file[i].data
  <2>1. TAKE i \in 1..Len(file)
  <2>2. \A j \in 1..Len(file) : file[j].size = 0 /\ file[i].size = 0 => j = i
    BY <1>5
  <2> QED BY <1>1, <2>2, ReadAtIs
<1>7. Last(file) = FooterSection(wr) /\ file # <<>>
  <2>1. Len(file) # 0
    BY <1>1
  <2> QED BY <1>1, <2>1 DEF Last
<1>8. HasFooter(file)
  BY <1>1, <1>7 DEF HasFooter
<1>9. ReadAt(file, wr.offset, IndexSection(wr).size) = wr.index
  <2>1. n + 1 \in 1..Len(file)
    BY <1>1
  <2>2. ReadAt(file, Offset(file, n + 1), file[n + 1].size) = file[n + 1].data
    BY <1>6, <2>1
  <2> QED BY <1>1, <1>2, <2>2
<1>10. ReadAt(file, wr.offset + IndexSection(wr).size, BloomSection(wr).size) = Encode(Build(wr.allKeys))
  <2>1. n + 2 \in 1..Len(file)
    BY <1>1
  <2>2. ReadAt(file, Offset(file, n + 2), file[n + 2].size) = file[n + 2].data
    BY <1>6, <2>1
  <2> QED BY <1>1, <1>2, <2>2
<1>11. r = [file |-> file, numEntries |-> Footer(wr).numEntries,
            index  |-> ReadAt(file, Footer(wr).indexOffset, Footer(wr).indexLen),
            filter |-> Decode(ReadAt(file, Footer(wr).bloomOffset, Footer(wr).bloomLen))]
  BY <1>1, <1>7, <1>8 DEF OpenTable
<1>12. /\ Footer(wr).indexOffset = wr.offset /\ Footer(wr).indexLen = IndexSection(wr).size
       /\ Footer(wr).bloomOffset = wr.offset + IndexSection(wr).size
       /\ Footer(wr).bloomLen = BloomSection(wr).size
  BY DEF Footer
<1>13. r.file = file /\ r.index = wr.index /\ r.filter = Decode(Encode(Build(wr.allKeys)))
  BY <1>9, <1>10, <1>11, <1>12
<1>14. ASSUME NEW b \in 1..n PROVE ReadAt(file, wr.index[b].offset, wr.index[b].len) = wr.out[b].data
  <2>1. b \in 1..Len(file)
    BY <1>1
  <2>2. wr.index[b].offset = Offset(wr.out, b) /\ wr.index[b].len = wr.out[b].size
    <3>1. wr.index[b] = EntryFor(wr.out, b)
      BY <1>3
    <3> QED BY <3>1 DEF EntryFor
  <2> QED BY <1>1, <1>2, <1>6, <2>1, <2>2
<1> QED BY <1>3, <1>8, <1>13, <1>14, DecodeEncode DEF file

\* scanBlock on a block in the order of keys.
LEMMA ScanIs ==
    ASSUME NEW block \in Seq(KV), \A a, b \in DOMAIN block : a < b => block[a].key < block[b].key, NEW k \in Nat
    PROVE  /\ \A a \in DOMAIN block : block[a].key = k => ScanBlock(block, k) = block[a].ent
           /\ (\A a \in DOMAIN block : block[a].key # k) => ScanBlock(block, k) = NoEntry
<1> DEFINE S == {i \in DOMAIN block : block[i].key >= k}
           ky(i) == block[i].key
<1>1. DOMAIN block \subseteq Nat /\ \A i \in DOMAIN block : ky(i) \in Nat
  <2>1. ASSUME NEW i \in DOMAIN block PROVE ky(i) \in Nat
    <3>1. block[i] \in KV
      OBVIOUS
    <3> QED BY <3>1, KeysAssumption DEF KV
  <2> QED BY <2>1
<1>2. ASSUME S # {} PROVE Min(S) \in S /\ \A y \in S : Min(S) <= y
  <2>1. S \in SUBSET Nat
    BY <1>1
  <2>2. \E x \in S : \A y \in S : x <= y
    <3> HIDE DEF S
    <3> QED BY <1>2, <2>1, LeastElement
  <2> QED BY <2>2 DEF Min
<1>3. ScanBlock(block, k) = IF S = {} \/ block[Min(S)].key # k THEN NoEntry ELSE block[Min(S)].ent
  BY DEF ScanBlock
<1>4. ASSUME NEW a \in DOMAIN block, block[a].key = k PROVE ScanBlock(block, k) = block[a].ent
  <2>1. a \in S
    BY <1>1, <1>4
  <2>2. Min(S) \in S /\ Min(S) <= a
    BY <1>2, <2>1
  <2>3. Min(S) \in DOMAIN block /\ ky(Min(S)) >= k /\ Min(S) \in Nat /\ a \in Nat
    BY <1>1, <2>2
  <2> DEFINE m == Min(S)
  <2>4. m \in DOMAIN block /\ ky(m) >= k /\ m \in Nat /\ m <= a /\ ky(m) \in Nat
    BY <1>1, <2>2, <2>3
  <2> HIDE DEF m
  <2>5. m = a
    <3>1. ASSUME m < a PROVE FALSE
      <4>1. block[m].key < block[a].key
        BY <2>4, <3>1
      <4> QED BY <1>4, <2>4, <4>1
    <3> QED BY <2>3, <2>4, <3>1
  <2>6. S # {} /\ block[m].key = k
    BY <1>4, <2>1, <2>5
  <2> QED BY <1>3, <2>5, <2>6 DEF m
<1>5. ASSUME \A a \in DOMAIN block : block[a].key # k PROVE ScanBlock(block, k) = NoEntry
  <2>1. CASE S = {}
    BY <1>3, <2>1
  <2>2. CASE S # {}
    <3>1. Min(S) \in DOMAIN block
      BY <1>2, <2>2
    <3> QED BY <1>3, <1>5, <3>1
  <2> QED BY <2>1, <2>2
<1> QED BY <1>4, <1>5

\* The blocks a complete writer has written, and their first keys.
LEMMA CompleteBlocks ==
    ASSUME NEW wr, NEW t, Complete(wr, t)
    PROVE  LET n == Len(wr.out)
               B == WBlocks(wr)
           IN  /\ n \in Nat /\ DOMAIN B = 1..n /\ BlocksOK(B, t) /\ Len(wr.index) = n
               /\ DOMAIN wr.index = 1..n
               /\ \A i \in 1..n : /\ B[i] = wr.out[i].data /\ B[i] \in Seq(KV) /\ 1 \in DOMAIN B[i]
                                  /\ wr.index[i].firstKey = B[i][1].key
                                  /\ wr.index[i].firstKey \in KeysOf(t)
                                  /\ wr.index[i].firstKey \in Nat
               /\ \A i, j \in 1..n : i < j => wr.index[i].firstKey < wr.index[j].firstKey
<1> DEFINE n == Len(wr.out)
           B == WBlocks(wr)
<1>1. /\ wr.out \in Seq(DataSections) /\ wr.block = <<>> /\ BlocksOK(B, t) /\ Len(wr.index) = n
      /\ wr.index \in Seq(IndexEntries) /\ \A i \in 1..n : wr.index[i] = EntryFor(wr.out, i)
  BY DEF Complete, WriterOK
<1>2. n \in Nat /\ DOMAIN wr.index = 1..n
  BY <1>1
<1>3. DOMAIN B = 1..n /\ \A i \in 1..n : B[i] = wr.out[i].data
  BY <1>1, <1>2, WBlocksIs
<1> HIDE DEF B
<1>4. ASSUME NEW i \in 1..n
      PROVE  /\ B[i] \in Seq(KV) /\ 1 \in DOMAIN B[i] /\ wr.index[i].firstKey = B[i][1].key
             /\ wr.index[i].firstKey \in KeysOf(t) /\ wr.index[i].firstKey \in Nat
  <2>1. B[i] \in Seq(KV) /\ B[i] # <<>>
    <3>1. B \in Seq(Seq(KV)) /\ i \in DOMAIN B
      BY <1>1, <1>3 DEF BlocksOK
    <3>2. B[i] # <<>>
      BY <1>1, <3>1 DEF BlocksOK
    <3> QED BY <3>1, <3>2
  <2>2. 1 \in DOMAIN B[i]
    BY <2>1
  <2>3. wr.index[i].firstKey = B[i][1].key
    <3>1. wr.index[i] = EntryFor(wr.out, i)
      BY <1>1
    <3>2. wr.index[i].firstKey = wr.out[i].data[1].key
      BY <3>1 DEF EntryFor
    <3> QED BY <1>3, <3>2
  <2>4. B[i][1].key \in KeysOf(t) /\ B[i][1].key \in Nat
    BY <1>1, <1>3, <2>2, BlockKeys
  <2> QED BY <2>1, <2>2, <2>3, <2>4
<1>5. ASSUME NEW i \in 1..n, NEW j \in 1..n, i < j PROVE wr.index[i].firstKey < wr.index[j].firstKey
  <2>1. B[i][1].key < B[j][1].key
    BY <1>1, <1>3, <1>4, <1>5 DEF BlocksOK
  <2> QED BY <1>4, <2>1
<1> QED BY <1>1, <1>2, <1>3, <1>4, <1>5 DEF B

\* Entry b of the index is the last one that does not start behind k.
InBlock(index, b, k) ==
    index[b].firstKey <= k /\ \A j \in 1..Len(index) : j > b => k < index[j].firstKey

(***************************************************************************)
(* Reader.Get on what Writer.Finish wrote for any table: the filter, the   *)
(* index and the scan find every entry and invent none; only when the one  *)
(* block that k belongs into cannot be read does it fail.                  *)
(***************************************************************************)
THEOREM GetAnswers ==
    ASSUME NEW wr, NEW t, Complete(wr, t), NEW k \in Keys, NEW bd
    PROVE  LET answer == ReaderGet(OpenTable(Finish(wr)), k, bd)
           IN  \/ answer = t[k]
               \/ answer = Unreadable /\ \E b \in 1..Len(wr.index) : wr.index[b].offset \in bd /\ InBlock(wr.index, b, k)
<1> DEFINE n == Len(wr.out)
           B == WBlocks(wr)
           file == Finish(wr)
           r == OpenTable(file)
           b == SearchIndex(wr.index, k)
           block == ReadBlock(r, wr.index[b], bd)
           answer == ReaderGet(r, k, bd)
           fk(i) == wr.index[i].firstKey
<1>1. /\ n \in Nat /\ DOMAIN B = 1..n /\ BlocksOK(B, t) /\ Len(wr.index) = n
      /\ \A i \in 1..n : /\ B[i] = wr.out[i].data /\ B[i] \in Seq(KV) /\ 1 \in DOMAIN B[i]
                         /\ fk(i) = B[i][1].key /\ fk(i) \in Nat
      /\ \A i, j \in 1..n : i < j => fk(i) < fk(j)
  BY CompleteBlocks
<1>2. /\ r.file = file /\ r.index = wr.index /\ r.filter = Build(wr.allKeys)
      /\ \A i \in 1..n : ReadAt(file, wr.index[i].offset, wr.index[i].len) = wr.out[i].data
  BY OpenFinished
<1>3. k \in Nat /\ t \in Table
  BY <1>1, KeysAssumption DEF BlocksOK
<1>4. b \in 0..n /\ (b > 0 => fk(b) <= k) /\ \A j \in 1..n : j > b => k < fk(j)
  <2> HIDE DEF n
  <2> QED BY <1>1, <1>3, SearchFinds
<1>5. answer = IF ~MayContain(Build(wr.allKeys), k) \/ b = 0 THEN NoEntry
               ELSE IF block = Unreadable THEN Unreadable ELSE ScanBlock(block, k)
  BY <1>2 DEF ReaderGet
<1> HIDE DEF n, B, file, r, b
<1>6. ASSUME b # 0, wr.index[b].offset \notin bd PROVE block = B[b] /\ block # Unreadable /\ b \in 1..n
  <2>1. b \in 1..n
    BY <1>1, <1>4, <1>6
  <2>2. block = B[b]
    BY <1>1, <1>2, <1>6, <2>1 DEF ReadBlock
  <2> QED BY <1>1, <2>1, <2>2, UnreadableAssumption DEF KV
<1>7. ASSUME b # 0, wr.index[b].offset \in bd
      PROVE  block = Unreadable /\ \E i \in 1..Len(wr.index) : wr.index[i].offset \in bd /\ InBlock(wr.index, i, k)
  <2>1. b \in 1..n /\ fk(b) <= k
    BY <1>1, <1>4, <1>7
  <2>2. block = Unreadable
    BY <1>7 DEF ReadBlock
  <2>3. InBlock(wr.index, b, k)
    BY <1>1, <1>4, <2>1 DEF InBlock
  <2> QED BY <1>1, <1>7, <2>1, <2>2, <2>3
<1>8. ASSUME b # 0 PROVE \A x, y \in DOMAIN B[b] : x < y => B[b][x].key < B[b][y].key
  <2>1. b \in DOMAIN B
    BY <1>1, <1>4, <1>8
  <2> QED BY <1>1, <2>1 DEF BlocksOK
<1> HIDE DEF block, answer
<1>9. CASE k \in KeysOf(t)
  <2>1. MayContain(Build(wr.allKeys), k)
    <3>1. wr.allKeys \in Seq(Keys) /\ k \in ToSet(wr.allKeys)
      BY <1>9 DEF Complete, WriterOK
    <3>2. PICK i \in DOMAIN wr.allKeys : wr.allKeys[i] = k
      BY <3>1 DEF ToSet
    <3>3. MayContain(Decode(Encode(Build(wr.allKeys))), wr.allKeys[i])
      BY <3>1, <3>2, NoFalseNegative
    <3> QED BY <3>1, <3>2, <3>3, DecodeEncode
  <2>2. PICK i \in DOMAIN B : \E a \in DOMAIN B[i] : B[i][a].key = k
    BY <1>1, <1>9 DEF BlocksOK
  <2>3. PICK a \in DOMAIN B[i] : B[i][a].key = k
    BY <2>2
  <2>4. i \in 1..n /\ B[i] \in Seq(KV) /\ 1 \in DOMAIN B[i] /\ a \in Nat /\ 1 <= a /\ fk(i) = B[i][1].key /\ fk(i) \in Nat
    <3>1. i \in 1..n
      BY <1>1, <2>2
    <3>2. B[i] \in Seq(KV)
      BY <1>1, <3>1
    <3>3. a \in Nat /\ 1 <= a
      BY <2>3, <3>2
    <3> QED BY <1>1, <3>1, <3>2, <3>3
  <2>5. fk(i) <= k
    <3>1. CASE a = 1
      BY <1>3, <2>3, <2>4, <3>1
    <3>2. CASE a # 1
      <4>1. 1 < a
        BY <2>4, <3>2
      <4>2. B[i][1].key < B[i][a].key
        BY <1>1, <2>2, <2>3, <2>4, <4>1 DEF BlocksOK
      <4> QED BY <1>3, <2>3, <2>4, <4>2
    <3> QED BY <3>1, <3>2
  <2>6. i = b
    <3>1. ~(i > b)
      BY <1>3, <1>4, <2>4, <2>5
    <3>2. ASSUME i < b PROVE FALSE
      <4>1. b \in 1..n /\ fk(b) <= k
        BY <1>1, <1>4, <2>4, <3>2
      <4>2. fk(b) = B[b][1].key /\ 1 \in DOMAIN B[b] /\ b \in DOMAIN B /\ fk(b) \in Nat
        BY <1>1, <4>1
      <4>3. B[i][a].key < B[b][1].key
        BY <1>1, <2>2, <2>3, <3>2, <4>2 DEF BlocksOK
      <4> QED BY <1>3, <2>3, <4>1, <4>2, <4>3
    <3> QED BY <1>1, <1>4, <2>4, <3>1, <3>2
  <2>7. b # 0
    BY <2>4, <2>6
  <2>8. CASE wr.index[b].offset \in bd
    BY <1>5, <1>7, <2>1, <2>7, <2>8 DEF answer, r, file
  <2>9. CASE wr.index[b].offset \notin bd
    <3>1. block = B[b] /\ block # Unreadable
      BY <1>6, <2>7, <2>9
    <3>2. ScanBlock(B[b], k) = B[b][a].ent
      BY <1>3, <1>8, <2>3, <2>4, <2>6, <2>7, ScanIs
    <3>3. t[k] = B[i][a].ent
      BY <1>1, <2>2, <2>3 DEF BlocksOK
    <3>4. answer = t[k]
      BY <1>5, <2>1, <2>6, <2>7, <3>1, <3>2, <3>3
    <3> QED BY <3>4 DEF answer, r, file
  <2> QED BY <2>8, <2>9
<1>10. CASE k \notin KeysOf(t)
  <2>1. t[k] = NoEntry
    BY <1>10 DEF KeysOf
  <2>2. CASE ~MayContain(Build(wr.allKeys), k) \/ b = 0
    BY <1>5, <2>1, <2>2 DEF answer, r, file
  <2>3. CASE MayContain(Build(wr.allKeys), k) /\ b # 0 /\ wr.index[b].offset \in bd
    BY <1>5, <1>7, <2>3 DEF answer, r, file
  <2>4. CASE MayContain(Build(wr.allKeys), k) /\ b # 0 /\ wr.index[b].offset \notin bd
    <3>1. block = B[b] /\ block # Unreadable /\ b \in 1..n
      BY <1>6, <2>4
    <3>2. B[b] \in Seq(KV) /\ b \in DOMAIN B
      BY <1>1, <3>1
    <3>3. \A a \in DOMAIN B[b] : B[b][a].key # k
      BY <1>1, <1>10, <3>2, BlockKeys
    <3>4. ScanBlock(B[b], k) = NoEntry
      BY <1>3, <1>8, <2>4, <3>2, <3>3, ScanIs
    <3>5. answer = t[k]
      BY <1>5, <2>1, <2>4, <3>1, <3>4
    <3> QED BY <3>5 DEF answer, r, file
  <2> QED BY <2>2, <2>3, <2>4
<1> QED BY <1>9, <1>10

\* The size of a finished file with at most one data block.
LEMMA SizeIs ==
    ASSUME NEW wr, NEW t, Complete(wr, t), Len(wr.index) <= 1
    PROVE  FileBytes(Finish(wr)) = FileSize(t)
<1> DEFINE n == Len(wr.out)
           B == WBlocks(wr)
           tl == TableLen(t)
           bs == ByteSize(t)
           bb == BloomBytes(tl)
           wo == wr.offset
<1>1. /\ n \in Nat /\ DOMAIN B = 1..n /\ BlocksOK(B, t) /\ Len(wr.index) = n
      /\ \A i \in 1..n : wr.index[i].firstKey \in KeysOf(t)
  BY CompleteBlocks
<1>2. /\ FileBytes(Finish(wr)) = wo + IndexSection(wr).size + BloomSection(wr).size + 48 /\ wo \in Int
  BY FinishOffsets
<1>3. IndexSection(wr).size = n * (16 + KeyLen) /\ BloomSection(wr).size = 5 + BloomBytes(Len(wr.allKeys))
  BY FinishSections
<1>4. wo - 4 * n + 0 = 9 * tl + bs /\ Len(wr.allKeys) = tl
  BY DEF Complete, WriterOK
<1>5. IsFiniteSet(KeysOf(t))
  BY KeysAssumption, FS_Subset DEF KeysOf
<1>6. tl \in Nat /\ (tl = 0 <=> KeysOf(t) = {})
  BY <1>5, FS_CardinalityType, FS_EmptySet DEF TableLen
<1>7. bs \in Int /\ (KeysOf(t) = {} => bs = 0)
  <2>1. \A x \in KeysOf(t) : EntryBytes(t)[x] \in Int
    BY EntryLenNat, LenAssumption DEF KeysOf, EntryBytes
  <2> QED BY <1>5, <2>1, ByteSizeIsSum, SumInt, SumEmpty
<1>8. bb \in Nat /\ KeyLen \in Nat
  BY <1>6, BloomBytesIsNat, LenAssumption
<1>9. FileBytes(Finish(wr)) = wo + n * (16 + KeyLen) + (5 + bb) + 48
  BY <1>2, <1>3, <1>4
<1>10. FileSize(t) = (IF tl = 0 THEN 0 ELSE 9 * tl + bs + 4) + (IF tl = 0 THEN 0 ELSE 16 + KeyLen) + (5 + bb) + 48
  BY DEF FileSize
<1> HIDE DEF tl, bs, bb, wo, n
<1>11. CASE n = 0
  <2>1. KeysOf(t) = {}
    <3>1. ASSUME NEW x \in KeysOf(t) PROVE FALSE
      <4>1. PICK i \in DOMAIN B : TRUE
        BY <1>1, <3>1 DEF BlocksOK
      <4> QED BY <1>1, <1>11, <4>1
    <3> QED BY <3>1
  <2>2. tl = 0 /\ bs = 0
    BY <1>6, <1>7, <2>1
  <2>3. wo = 0
    BY <1>2, <1>4, <1>11, <2>2
  <2>4. 0 + 0 * (16 + KeyLen) + (5 + bb) + 48 = 0 + 0 + (5 + bb) + 48
    BY <1>8
  <2> QED BY <1>9, <1>10, <1>11, <2>2, <2>3, <2>4
<1>12. CASE n = 1
  <2>1. tl # 0
    BY <1>1, <1>6, <1>12
  <2>2. wo = 9 * tl + bs + 4
    BY <1>2, <1>4, <1>6, <1>7, <1>12
  <2>3. 1 * (16 + KeyLen) = 16 + KeyLen
    BY <1>8
  <2> QED BY <1>9, <1>10, <1>12, <2>1, <2>2, <2>3
<1> QED BY <1>1, <1>11, <1>12

-----------------------------------------------------------------------------
(* Files cut by a crash.                                                   *)

\* If only the last section of a file has the magic number, a part of the file
\* is accepted only if it is the whole.
LEMMA CutIs ==
    ASSUME NEW T, NEW file \in Seq(T), \A i \in 1..(Len(file) - 1) : file[i].magic = FALSE,
           NEW cut \in Cuts(file), HasFooter(cut)
    PROVE  cut = file
<1> DEFINE n == Len(file)
<1>0. n \in Nat
  OBVIOUS
<1>1. CASE \E m \in 0..n : cut = SubSeq(file, 1, m)
  <2>1. PICK m \in 0..n : cut = SubSeq(file, 1, m)
    BY <1>1
  <2>2. cut \in Seq(T) /\ Len(cut) = m /\ \A i \in 1..m : cut[i] = file[i]
    BY <1>0, <2>1
  <2>3. CASE m = n
    BY <1>0, <2>2, <2>3
  <2>4. CASE m = 0
    BY <2>2, <2>4 DEF HasFooter
  <2>5. CASE m # n /\ m # 0
    <3>1. m \in 1..(n - 1) /\ m \in 1..m
      BY <1>0, <2>1, <2>5
    <3>2. Last(cut) = file[m]
      BY <2>2, <3>1 DEF Last
    <3> QED BY <3>1, <3>2 DEF HasFooter
  <2> QED BY <2>3, <2>4, <2>5
<1>2. CASE \E m \in 0..(n - 1) : cut = Append(SubSeq(file, 1, m), Torn)
  <2>1. PICK m \in 0..(n - 1) : cut = Append(SubSeq(file, 1, m), Torn)
    BY <1>2
  <2> DEFINE s == SubSeq(file, 1, m)
  <2>2. s \in Seq(T) /\ Len(s) = m /\ m \in Nat
    BY <1>0, <2>1
  <2> HIDE DEF s
  <2>3. s \in Seq(T \cup {Torn}) /\ Torn \in T \cup {Torn}
    BY <2>2
  <2>4. Len(Append(s, Torn)) = m + 1 /\ Append(s, Torn)[m + 1] = Torn
    BY <2>2, <2>3
  <2>5. Last(cut) = Torn
    BY <2>1, <2>4 DEF Last, s
  <2>6. Torn.magic = FALSE
    BY DEF Torn, Section
  <2> QED BY <2>5, <2>6 DEF HasFooter
<1> QED BY <1>1, <1>2 DEF Cuts

\* What a crash leaves of a file.
LEMMA CutBlocks ==
    ASSUME NEW out \in Seq(DataSections), NEW cut \in Cuts(out)
    PROVE  ~HasFooter(cut)
<1>1. \A i \in 1..Len(out) : out[i].magic = FALSE
  <2>1. \A i \in 1..Len(out) : out[i] \in DataSections
    OBVIOUS
  <2> QED BY <2>1 DEF DataSections
<1>2. SUFFICES ASSUME HasFooter(cut) PROVE FALSE
  OBVIOUS
<1>3. \A i \in 1..(Len(out) - 1) : out[i].magic = FALSE
  BY <1>1
<1>4. cut = out
  BY <1>2, <1>3, CutIs
<1>5. Len(out) \in 1..Len(out)
  <2>1. out # <<>>
    BY <1>2, <1>4 DEF HasFooter
  <2> QED BY <2>1
<1> QED BY <1>1, <1>2, <1>4, <1>5 DEF HasFooter, Last

\* A part of a finished file is accepted only if it is all of it.
LEMMA CutFinished ==
    ASSUME NEW wr, NEW t, WriterOK(wr, t), NEW cut \in Cuts(Finish(wr)), HasFooter(cut)
    PROVE  cut = Finish(wr)
<1> DEFINE c == FlushBlock(wr)
           file == Finish(c)
           n == Len(c.out)
<1>1. Complete(c, t) /\ Finish(wr) = file
  BY FinishComplete
<1> HIDE DEF c
<1>2. /\ n \in Nat /\ Len(file) = n + 3 /\ IsFile(file)
      /\ \A i \in 1..n : file[i] = c.out[i]
      /\ file[n + 1] = IndexSection(c) /\ file[n + 2] = BloomSection(c)
      /\ IndexSection(c).magic = FALSE /\ BloomSection(c).magic = FALSE
  BY <1>1, FinishSections
<1>3. \A i \in 1..n : c.out[i].magic = FALSE
  <2>1. c.out \in Seq(DataSections)
    BY <1>1 DEF Complete, WriterOK
  <2>2. \A i \in 1..n : c.out[i] \in DataSections
    BY <2>1
  <2> QED BY <2>2 DEF DataSections
<1> HIDE DEF file, n
<1>4. ASSUME NEW i \in 1..(Len(file) - 1) PROVE file[i].magic = FALSE
  <2>1. CASE i \in 1..n
    BY <1>2, <1>3, <2>1
  <2>2. CASE i = n + 1
    BY <1>2, <2>2
  <2>3. CASE i = n + 2
    BY <1>2, <2>3
  <2>4. i \in 1..(n + 2)
    BY <1>2
  <2>5. i \in 1..n \/ i = n + 1 \/ i = n + 2
    <3>1. n \in Nat
      BY <1>2
    <3> QED BY <2>4, <3>1
  <2> QED BY <2>1, <2>2, <2>3, <2>5
<1>5. PICK T : file \in Seq(T)
  BY <1>2 DEF IsFile
<1> QED BY <1>1, <1>4, <1>5, CutIs

-----------------------------------------------------------------------------
(* Files in the specification.                                             *)

\* The part of t up to node c.
UpTo(t, c) == [k \in Keys |-> IF Before(c, k) THEN NoEntry ELSE t[k]]

\* A finished file with the entries of t.
GoodFile(file, t) == \E wr : Complete(wr, t) /\ file = Finish(wr)

FlushOK ==
    stage = "flush" =>
        /\ disk[2] = <<>> /\ want[NextFile] = wantMem
        /\ cursor \in KeysOf(wantMem) \cup {HeadNode}
        /\ WriterOK(w, UpTo(wantMem, cursor))

FilesOK ==
    /\ disk = [f \in FileIDs |-> disk[f]] /\ want \in [FileIDs -> Table]
    /\ \A f \in Flushed : HasFooter(disk[f]) => GoodFile(disk[f], want[f])
    /\ stage # "down" => \A f \in Flushed : disk[f] # <<>> => HasFooter(disk[f])
    /\ disk[1] = <<>> => disk[2] = <<>>
    /\ stage = "merge" => disk[2] # <<>>
    /\ FlushOK

\* What Finish writes is a finished file, which Open accepts.
LEMMA FinishGood ==
    ASSUME NEW wr, NEW t, WriterOK(wr, t)
    PROVE  GoodFile(Finish(wr), t) /\ HasFooter(Finish(wr)) /\ Finish(wr) # <<>>
<1> DEFINE c == FlushBlock(wr)
<1>1. Complete(c, t) /\ Finish(wr) = Finish(c)
  BY FinishComplete
<1> HIDE DEF c
<1>2. HasFooter(Finish(c))
  BY <1>1, OpenFinished
<1> QED BY <1>1, <1>2 DEF GoodFile, HasFooter

\* The iterator of the MemTable goes through the entries in the order of keys.
LEMMA IterStep ==
    ASSUME MemOK, NEW c \in KeysOf(wantMem) \cup {HeadNode}
    PROVE  /\ IterValid(mem, c) =>
                LET x == IterNext(mem, c)
                IN  /\ x \in KeysOf(wantMem) /\ mem.ent[x] \in Entries
                    /\ \A k \in KeysOf(UpTo(wantMem, c)) : k < x
                    /\ UpTo(wantMem, x) = [UpTo(wantMem, c) EXCEPT ![x] = mem.ent[x]]
           /\ ~IterValid(mem, c) => UpTo(wantMem, c) = wantMem
<1> DEFINE t == wantMem
           K == KeysOf(t)
           x == IterNext(mem, c)
<1>1. PICK S : Linked(mem, S)
  BY DEF MemOK
<1>2. mem.ent = t /\ t \in Table /\ S[1] = K /\ K \in SUBSET Keys /\ 1 \in Levels
  BY <1>1, SkipListAssumption DEF MemOK, Linked, KeysOf, Levels
<1>3. IsNext(K, c, x)
  <2>1. LevelOK(K, mem.next[1])
    BY <1>1, <1>2 DEF Linked
  <2>2. c \in Nodes /\ c \in K \cup {HeadNode}
    BY <1>2 DEF Nodes
  <2> HIDE DEF K
  <2> QED BY <2>1, <2>2 DEF LevelOK, IterNext
<1>4. Keys \subseteq Nat /\ HeadNode \notin Keys /\ Nil \notin Keys
  BY KeysAssumption, SkipListAssumption
<1>41. c = HeadNode \/ (c \in Keys /\ c \in Nat /\ c # HeadNode)
  BY <1>2, <1>4
<1>5. t = [k \in Keys |-> t[k]]
  BY <1>2 DEF Table
<1> HIDE DEF t, x
<1>6. ASSUME IterValid(mem, c)
      PROVE  /\ x \in K /\ mem.ent[x] \in Entries
             /\ \A k \in KeysOf(UpTo(t, c)) : k < x
             /\ UpTo(t, x) = [UpTo(t, c) EXCEPT ![x] = mem.ent[x]]
  <2>1. x # Nil
    BY <1>6 DEF IterValid, IterNext, x
  <2>2. x \in K /\ Before(c, x) /\ \A y \in K : Before(c, y) => x <= y
    BY <1>3, <2>1 DEF IsNext
  <2>3. x \in Keys /\ x \in Nat /\ t[x] # NoEntry /\ mem.ent[x] \in Entries
    BY <1>2, <1>4, <2>2 DEF KeysOf, Table
  <2>4. ASSUME NEW k \in KeysOf(UpTo(t, c)) PROVE k < x
    <3>1. k \in Keys /\ UpTo(t, c)[k] # NoEntry
      BY DEF KeysOf
    <3>2. ~Before(c, k)
      BY <3>1 DEF UpTo
    <3>3. c \in Keys /\ c \in Nat /\ k \in Nat /\ ~(c < k) /\ c < x
      BY <1>4, <1>41, <2>2, <3>1, <3>2 DEF Before
    <3> QED BY <2>3, <3>3
  <2>5. ASSUME NEW k \in Keys
        PROVE  (IF Before(x, k) THEN NoEntry ELSE t[k]) = (IF k = x THEN mem.ent[x] ELSE UpTo(t, c)[k])
    <3>1. UpTo(t, c)[k] = IF Before(c, k) THEN NoEntry ELSE t[k]
      BY DEF UpTo
    <3>2. k \in Nat /\ (Before(x, k) <=> x < k)
      BY <1>4, <2>3 DEF Before
    <3>3. CASE k = x
      BY <1>2, <2>3, <3>2, <3>3
    <3>4. CASE k > x
      <4>1. Before(c, k)
        BY <1>4, <1>41, <2>2, <2>3, <3>2, <3>4 DEF Before
      <4> QED BY <2>3, <3>1, <3>2, <3>4, <4>1
    <3>5. CASE k < x
      <4>1. ~Before(x, k)
        BY <2>3, <3>2, <3>5
      <4>2. CASE k \in K
        <5>1. ~Before(c, k)
          BY <2>2, <2>3, <3>2, <3>5, <4>2
        <5> QED BY <2>3, <3>1, <3>2, <3>5, <4>1, <5>1
      <4>3. CASE k \notin K
        <5>1. t[k] = NoEntry
          BY <4>3 DEF KeysOf
        <5> QED BY <2>3, <3>1, <3>2, <3>5, <4>1, <5>1
      <4> QED BY <4>2, <4>3
    <3> QED BY <2>3, <3>2, <3>3, <3>4, <3>5
  <2>6. UpTo(t, x) = [UpTo(t, c) EXCEPT ![x] = mem.ent[x]]
    <3> DEFINE u == UpTo(t, c)
    <3>1. u = [k \in Keys |-> u[k]]
      BY DEF UpTo
    <3> HIDE DEF u
    <3>2. [u EXCEPT ![x] = mem.ent[x]] = [k \in Keys |-> IF k = x THEN mem.ent[x] ELSE u[k]]
      BY <3>1
    <3>3. UpTo(t, x) = [k \in Keys |-> IF Before(x, k) THEN NoEntry ELSE t[k]]
      BY DEF UpTo
    <3>4. \A k \in Keys : (IF Before(x, k) THEN NoEntry ELSE t[k]) = (IF k = x THEN mem.ent[x] ELSE u[k])
      BY <2>5 DEF u
    <3>5. [k \in Keys |-> IF Before(x, k) THEN NoEntry ELSE t[k]] = [k \in Keys |-> IF k = x THEN mem.ent[x] ELSE u[k]]
      BY <3>4
    <3> QED BY <3>2, <3>3, <3>5 DEF u
  <2> QED BY <2>2, <2>3, <2>4, <2>6
<1>7. ASSUME ~IterValid(mem, c) PROVE UpTo(t, c) = t
  <2>1. x = Nil
    BY <1>7 DEF IterValid, IterNext, x
  <2>2. \A y \in K : ~Before(c, y)
    BY <1>3, <2>1 DEF IsNext
  <2>3. \A k \in Keys : (IF Before(c, k) THEN NoEntry ELSE t[k]) = t[k]
    BY <2>2 DEF KeysOf
  <2> QED BY <1>5, <2>3 DEF UpTo
<1> QED BY <1>6, <1>7 DEF t, x

\* A new file, or what a crash left of one, in place of file f.
LEMMA FileWritten ==
    ASSUME FilesOK, NEW f \in FileIDs, NEW file, disk' = [disk EXCEPT ![f] = file], want' = want
    PROVE  /\ disk' = [g \in FileIDs |-> disk'[g]] /\ want' \in [FileIDs -> Table]
           /\ disk'[f] = file /\ \A g \in FileIDs : g # f => disk'[g] = disk[g]
           /\ (f \in Flushed => (HasFooter(file) => GoodFile(file, want[f]))) =>
                 \A g \in Flushed : HasFooter(disk'[g]) => GoodFile(disk'[g], want'[g])
<1>1. disk = [g \in FileIDs |-> disk[g]] /\ want \in [FileIDs -> Table]
  BY DEF FilesOK
<1>2. disk' = [g \in FileIDs |-> IF g = f THEN file ELSE disk[g]]
  BY <1>1
<1>3. disk'[f] = file /\ \A g \in FileIDs : g # f => disk'[g] = disk[g]
  BY <1>2
<1>4. disk' = [g \in FileIDs |-> disk'[g]]
  BY <1>2
<1>5. \A g \in Flushed : HasFooter(disk[g]) => GoodFile(disk[g], want[g])
  BY DEF FilesOK
<1>6. Flushed \subseteq FileIDs
  BY DEF Flushed, FileIDs
<1>7. ASSUME f \in Flushed => (HasFooter(file) => GoodFile(file, want[f]))
      PROVE \A g \in Flushed : HasFooter(disk'[g]) => GoodFile(disk'[g], want'[g])
  <2>1. TAKE g \in Flushed
  <2>2. CASE g = f
    BY <1>3, <1>7, <2>2
  <2>3. CASE g # f
    BY <1>3, <1>5, <1>6, <2>3
  <2> QED BY <2>2, <2>3
<1> QED BY <1>1, <1>3, <1>4, <1>7

\* The file of the next flush is empty, and the first flush comes first.
LEMMA NextFileIs ==
    ASSUME FilesOK, disk[2] = <<>>
    PROVE  /\ NextFile \in Flushed /\ NextFile \in FileIDs /\ disk[NextFile] = <<>>
           /\ NextFile # 1 => disk[1] # <<>> /\ NextFile = 2
           /\ NextFile = 1 => disk[1] = <<>>
BY DEF NextFile, Flushed, FileIDs

\* A flush writes the entries in the order of the iterator, and then the file.
LEMMA FilesFlushStep ==
    ASSUME FilesOK, MemOK, BeginFlush \/ FlushAdd \/ FlushFinish
    PROVE  FilesOK'
<1>0. 1 \in FileIDs /\ 2 \in FileIDs /\ Flushed = {1, 2} /\ ~HasFooter(<<>>)
  BY DEF FileIDs, Flushed, HasFooter
<1>1. CASE BeginFlush
  <2>1. /\ disk[2] = <<>> /\ stage' = "flush" /\ cursor' = HeadNode /\ w' = NewWriter(BlockSize)
        /\ want' = [want EXCEPT ![NextFile] = wantMem] /\ disk' = disk /\ wantMem' = wantMem
        /\ stage = "fill"
    BY <1>1 DEF BeginFlush
  <2>2. want \in [FileIDs -> Table] /\ wantMem \in Table
    BY DEF FilesOK, MemOK, Linked
  <2>3. NextFile \in FileIDs /\ disk[NextFile] = <<>> /\ NextFile' = NextFile
    BY <2>1, NextFileIs DEF NextFile
  <2>4. /\ want' \in [FileIDs -> Table] /\ want'[NextFile] = wantMem
        /\ \A g \in FileIDs : g # NextFile => want'[g] = want[g]
    BY <2>1, <2>2, <2>3
  <2>5. ASSUME NEW g \in Flushed, HasFooter(disk'[g]) PROVE GoodFile(disk'[g], want'[g])
    <3>1. g \in FileIDs /\ g # NextFile
      BY <1>0, <2>1, <2>3, <2>5
    <3> QED BY <2>1, <2>4, <2>5, <3>1 DEF FilesOK
  <2>6. UpTo(wantMem, HeadNode) = EmptyTable
    BY DEF UpTo, Before, EmptyTable
  <2>7. FlushOK'
    BY <2>1, <2>3, <2>4, <2>6, WriterNew DEF FlushOK
  <2> QED BY <2>1, <2>4, <2>5, <2>7 DEF FilesOK
<1>2. CASE FlushAdd
  <2>1. /\ stage = "flush" /\ IterValid(mem, cursor) /\ cursor' = IterNext(mem, cursor)
        /\ w' = Add(w, cursor', mem.ent[cursor']) /\ stage' = "flush" /\ disk' = disk /\ want' = want
        /\ wantMem' = wantMem /\ NextFile' = NextFile
    BY <1>2 DEF FlushAdd, NextFile
  <2>2. /\ disk[2] = <<>> /\ want[NextFile] = wantMem
        /\ cursor \in KeysOf(wantMem) \cup {HeadNode} /\ WriterOK(w, UpTo(wantMem, cursor))
    BY <2>1 DEF FilesOK, FlushOK
  <2>3. /\ cursor' \in KeysOf(wantMem) /\ mem.ent[cursor'] \in Entries
        /\ \A k \in KeysOf(UpTo(wantMem, cursor)) : k < cursor'
        /\ UpTo(wantMem, cursor') = [UpTo(wantMem, cursor) EXCEPT ![cursor'] = mem.ent[cursor']]
    BY <2>1, <2>2, IterStep
  <2>4. cursor' \in Keys
    BY <2>3 DEF KeysOf
  <2>5. WriterOK(w', UpTo(wantMem, cursor'))
    <3> DEFINE x == cursor'
               t == UpTo(wantMem, cursor)
               e == mem.ent[x]
    <3>1. WriterOK(w, t) /\ x \in Keys /\ e \in Entries /\ \A k \in KeysOf(t) : k < x
      BY <2>2, <2>3, <2>4
    <3> HIDE DEF x, t, e
    <3>2. WriterOK(Add(w, x, e), [t EXCEPT ![x] = e])
      BY <3>1, WriterAdd
    <3> QED BY <2>1, <2>3, <3>2 DEF x, t, e
  <2>6. FlushOK'
    BY <2>1, <2>2, <2>3, <2>5 DEF FlushOK
  <2> QED BY <2>1, <2>6 DEF FilesOK
<1>3. CASE FlushFinish
  <2>1. /\ stage = "flush" /\ ~IterValid(mem, cursor) /\ stage' = "fill"
        /\ disk' = [disk EXCEPT ![NextFile] = Finish(w)] /\ want' = want
    BY <1>3 DEF FlushFinish
  <2>2. /\ disk[2] = <<>> /\ want[NextFile] = wantMem
        /\ cursor \in KeysOf(wantMem) \cup {HeadNode} /\ WriterOK(w, UpTo(wantMem, cursor))
    BY <2>1 DEF FilesOK, FlushOK
  <2>3. WriterOK(w, wantMem)
    BY <2>1, <2>2, IterStep
  <2>4. GoodFile(Finish(w), want[NextFile]) /\ HasFooter(Finish(w)) /\ Finish(w) # <<>>
    BY <2>2, <2>3, FinishGood
  <2>5. /\ NextFile \in FileIDs /\ (NextFile # 1 => disk[1] # <<>> /\ NextFile = 2) /\ (NextFile = 1 => disk[1] = <<>>)
    BY <2>2, NextFileIs
  <2>6. /\ disk' = [g \in FileIDs |-> disk'[g]] /\ want' \in [FileIDs -> Table]
        /\ disk'[NextFile] = Finish(w) /\ (\A g \in FileIDs : g # NextFile => disk'[g] = disk[g])
        /\ \A g \in Flushed : HasFooter(disk'[g]) => GoodFile(disk'[g], want'[g])
    BY <2>1, <2>4, <2>5, FileWritten
  <2>7. disk'[1] # <<>>
    BY <1>0, <2>4, <2>5, <2>6
  <2>8. \A f \in Flushed : disk'[f] # <<>> => HasFooter(disk'[f])
    <3>1. \A f \in Flushed : disk[f] # <<>> => HasFooter(disk[f])
      BY <2>1 DEF FilesOK
    <3> QED BY <1>0, <2>4, <2>6, <3>1
  <2> QED BY <2>1, <2>6, <2>7, <2>8 DEF FilesOK, FlushOK
<1> QED BY <1>1, <1>2, <1>3

\* A crash leaves a file that Open refuses, or the whole file.
LEMMA FilesCrash ==
    ASSUME FilesOK, MemOK, Crash
    PROVE  FilesOK'
<1> DEFINE f == IF stage = "flush" THEN NextFile ELSE Output
<1>0. 1 \in FileIDs /\ 2 \in FileIDs /\ Flushed = {1, 2} /\ ~HasFooter(<<>>) /\ Output \in FileIDs /\ Output \notin Flushed
  BY DEF FileIDs, Flushed, HasFooter, Output
<1>1. stage \in {"flush", "merge"} /\ stage' = "down" /\ want' = want
  BY DEF Crash
<1>2. PICK cut \in Cuts(Written) : disk' = [disk EXCEPT ![f] = cut]
  BY DEF Crash
<1>3. f \in FileIDs /\ (disk[1] = <<>> => f = 1 \/ disk[2] = <<>>) /\ (f = 2 => disk[1] # <<>>)
  <2>1. CASE stage = "flush"
    <3>1. disk[2] = <<>>
      BY <2>1 DEF FilesOK, FlushOK
    <3> QED BY <2>1, <3>1, NextFileIs
  <2>2. CASE stage = "merge"
    BY <1>0, <1>1, <2>2 DEF FilesOK, Output
  <2> QED BY <1>1, <2>1, <2>2
<1>4. ASSUME f \in Flushed, HasFooter(cut) PROVE GoodFile(cut, want[f])
  <2>1. stage = "flush" /\ f = NextFile
    BY <1>0, <1>1, <1>4
  <2>2. /\ want[NextFile] = wantMem /\ cursor \in KeysOf(wantMem) \cup {HeadNode}
        /\ WriterOK(w, UpTo(wantMem, cursor))
    BY <2>1 DEF FilesOK, FlushOK
  <2>3. CASE IterValid(mem, cursor)
    <3>1. Written = w.out
      BY <2>1, <2>3 DEF Written
    <3>2. w.out \in Seq(DataSections)
      BY <2>2 DEF WriterOK
    <3> QED BY <1>2, <1>4, <3>1, <3>2, CutBlocks
  <2>4. CASE ~IterValid(mem, cursor)
    <3>1. Written = Finish(w) /\ WriterOK(w, wantMem)
      BY <2>1, <2>2, <2>4, IterStep DEF Written
    <3>2. cut = Finish(w)
      BY <1>2, <1>4, <3>1, CutFinished
    <3> QED BY <2>1, <2>2, <3>1, <3>2, FinishGood
  <2> QED BY <2>3, <2>4
<1> HIDE DEF f
<1>5. /\ disk' = [g \in FileIDs |-> disk'[g]] /\ want' \in [FileIDs -> Table]
      /\ disk'[f] = cut /\ (\A g \in FileIDs : g # f => disk'[g] = disk[g])
      /\ \A g \in Flushed : HasFooter(disk'[g]) => GoodFile(disk'[g], want'[g])
  BY <1>1, <1>2, <1>3, <1>4, FileWritten
<1>6. disk'[1] = <<>> => disk'[2] = <<>>
  <2>1. disk[1] = <<>> => disk[2] = <<>>
    BY DEF FilesOK
  <2>2. CASE f = 1
    <3>1. disk'[2] = disk[2]
      BY <1>0, <1>5, <2>2
    <3>2. disk[2] = <<>>
      <4>1. stage = "flush"
        BY <1>1, <2>2 DEF f, Output
      <4> QED BY <4>1 DEF FilesOK, FlushOK
    <3> QED BY <3>1, <3>2
  <2>3. CASE f = 2
    <3>1. disk'[1] = disk[1]
      BY <1>0, <1>5, <2>3
    <3> QED BY <1>3, <2>3, <3>1
  <2>4. CASE f # 1 /\ f # 2
    BY <1>0, <1>5, <2>1, <2>4
  <2> QED BY <2>2, <2>3, <2>4
<1> QED BY <1>1, <1>5, <1>6 DEF FilesOK, FlushOK

\* No other action touches the flushed files.
LEMMA FilesStep ==
    ASSUME FilesOK, MemOK, [Next]_vars
    PROVE  FilesOK'
<1>1. CASE BeginFlush \/ FlushAdd \/ FlushFinish
  BY <1>1, FilesFlushStep
<1>2. CASE Crash
  BY <1>2, FilesCrash
<1>3. CASE Write
  <2>1. stage = "fill" /\ stage' = "fill" /\ disk' = disk /\ want' = want
    BY <1>3 DEF Write
  <2> QED BY <2>1 DEF FilesOK, FlushOK
<1>4. CASE Damage
  <2>1. stage = "fill" /\ stage' = "fill" /\ disk' = disk /\ want' = want
    BY <1>4 DEF Damage
  <2> QED BY <2>1 DEF FilesOK, FlushOK
<1>5. CASE BeginMerge
  <2>1. stage = "fill" /\ stage' = "merge" /\ disk' = disk /\ want' = want /\ disk[2] # <<>>
    BY <1>5 DEF BeginMerge
  <2> QED BY <2>1 DEF FilesOK, FlushOK
<1>6. CASE MergeStep
  <2>1. stage = "merge" /\ stage' = "merge" /\ disk' = disk /\ want' = want
    BY <1>6 DEF MergeStep
  <2> QED BY <2>1 DEF FilesOK, FlushOK
<1>7. CASE MergeFinish
  <2>1. /\ stage = "merge" /\ stage' = "merged" /\ disk' = [disk EXCEPT ![Output] = Finish(w)] /\ want' = want
    BY <1>7 DEF MergeFinish
  <2>2. Output \in FileIDs /\ Output \notin Flushed /\ Output # 1 /\ Output # 2 /\ 1 \in FileIDs /\ 2 \in FileIDs /\ Flushed = {1, 2}
    BY DEF Output, FileIDs, Flushed
  <2>3. /\ disk' = [g \in FileIDs |-> disk'[g]] /\ want' \in [FileIDs -> Table]
        /\ (\A g \in FileIDs : g # Output => disk'[g] = disk[g])
        /\ \A g \in Flushed : HasFooter(disk'[g]) => GoodFile(disk'[g], want'[g])
    BY <2>1, <2>2, FileWritten
  <2> QED BY <2>1, <2>2, <2>3 DEF FilesOK, FlushOK
<1>8. CASE AddFile
  <2>1. stage = "merge" /\ stage' = "merge" /\ disk' = disk /\ want' = want
    BY <1>8 DEF AddFile
  <2> QED BY <2>1 DEF FilesOK, FlushOK
<1>9. CASE UNCHANGED vars
  <2>1. /\ stage' = stage /\ disk' = disk /\ want' = want /\ wantMem' = wantMem /\ cursor' = cursor /\ w' = w
        /\ NextFile' = NextFile
    BY <1>9 DEF vars, memVars, NextFile
  <2> QED BY <2>1 DEF FilesOK, FlushOK
<1> QED BY <1>1, <1>2, <1>3, <1>4, <1>5, <1>6, <1>7, <1>8, <1>9 DEF Next

\* MemTable and flushed files are right in every behaviour.
LEMMA FilesInvariant == Spec => [](MemOK /\ FilesOK)
<1>1. Init => FilesOK
  <2> SUFFICES ASSUME Init PROVE FilesOK
    OBVIOUS
  <2>1. disk = [f \in FileIDs |-> <<>>] /\ want = [f \in FileIDs |-> EmptyTable] /\ stage = "fill"
    BY DEF Init
  <2>2. EmptyTable \in Table
    BY DEF EmptyTable, Table
  <2>3. 1 \in FileIDs /\ 2 \in FileIDs /\ Flushed \subseteq FileIDs /\ ~HasFooter(<<>>)
    BY DEF FileIDs, Flushed, HasFooter
  <2> QED BY <2>1, <2>2, <2>3 DEF FilesOK, FlushOK
<1>2. FilesOK /\ MemOK /\ [Next]_vars => FilesOK'
  BY FilesStep
<1> QED BY <1>1, <1>2, MemInvariant, PTL DEF Spec

\* A reader whose file Open accepts has the entries the file should have.
LEMMA ReaderIs ==
    ASSUME FilesOK, NEW f \in Flushed, Reader(f) # Refused
    PROVE  \E wr : Complete(wr, want[f]) /\ disk[f] = Finish(wr) /\ Reader(f) = OpenTable(Finish(wr)) /\ Reader(f).index = wr.index
<1>1. HasFooter(disk[f])
  BY DEF Reader, OpenTable
<1>2. PICK wr : Complete(wr, want[f]) /\ disk[f] = Finish(wr)
  BY <1>1 DEF FilesOK, GoodFile
<1>3. OpenTable(Finish(wr)).index = wr.index
  BY <1>2, OpenFinished
<1> QED BY <1>2, <1>3 DEF Reader

\* The invariant contains both properties of flushed files.
LEMMA FilesOKImplies ==
    ASSUME FilesOK
    PROVE  LookupRight /\ SizeAgrees
<1>1. ASSUME NEW f \in Flushed, Reader(f) # Refused, NEW k \in Keys
      PROVE  LET answer == ReaderGet(Reader(f), k, bad[f])
             IN  answer = want[f][k] \/ (answer = Unreadable /\ k \in InDamage(f))
  <2> DEFINE answer == ReaderGet(Reader(f), k, bad[f])
  <2>1. PICK wr : Complete(wr, want[f]) /\ Reader(f) = OpenTable(Finish(wr)) /\ Reader(f).index = wr.index
    BY <1>1, ReaderIs
  <2>2. \/ answer = want[f][k]
        \/ answer = Unreadable /\ \E b \in 1..Len(wr.index) : wr.index[b].offset \in bad[f] /\ InBlock(wr.index, b, k)
    BY <2>1, GetAnswers
  <2>3. ASSUME NEW b \in 1..Len(wr.index), wr.index[b].offset \in bad[f], InBlock(wr.index, b, k)
        PROVE  k \in InDamage(f)
    <3>1. /\ DOMAIN wr.index = 1..Len(wr.index) /\ Len(wr.index) \in Nat
          /\ \A i \in 1..Len(wr.index) : wr.index[i].firstKey \in Nat
          /\ \A i, j \in 1..Len(wr.index) : i < j => wr.index[i].firstKey < wr.index[j].firstKey
      BY <2>1, CompleteBlocks
    <3>2. wr.index[b] \in ToSet(Reader(f).index)
      BY <2>1, <3>1 DEF ToSet
    <3>3. k \in Nat
      BY KeysAssumption
    <3>4. ASSUME NEW other \in ToSet(wr.index), other.firstKey <= k
          PROVE  other.firstKey <= wr.index[b].firstKey
      <4>1. PICK j \in 1..Len(wr.index) : other = wr.index[j]
        BY <3>1 DEF ToSet
      <4>2. wr.index[j].firstKey \in Nat /\ wr.index[b].firstKey \in Nat
        BY <3>1
      <4>3. ~(j > b)
        BY <2>3, <3>3, <3>4, <4>1, <4>2 DEF InBlock
      <4>4. j = b \/ j < b
        BY <3>1, <4>3
      <4>5. wr.index[j].firstKey = wr.index[b].firstKey \/ wr.index[j].firstKey < wr.index[b].firstKey
        BY <3>1, <4>4
      <4> QED BY <4>1, <4>2, <4>5
    <3> QED BY <2>1, <2>3, <3>2, <3>4 DEF InDamage, InBlock
  <2> QED BY <2>2, <2>3
<1>2. ASSUME NEW f \in Flushed, Reader(f) # Refused, Len(Reader(f).index) <= 1
      PROVE  FileBytes(disk[f]) = FileSize(want[f])
  <2>1. PICK wr : Complete(wr, want[f]) /\ disk[f] = Finish(wr) /\ Reader(f).index = wr.index
    BY <1>2, ReaderIs
  <2> QED BY <1>2, <2>1, SizeIs
<1> QED BY <1>1, <1>2 DEF LookupRight, SizeAgrees

(***************************************************************************)
(* Reader.Get on every flushed file that Open accepts, after any crash and *)
(* any damage to blocks: the entry the MemTable had, or an error for a key *)
(* that belongs into an unreadable block.                                  *)
(***************************************************************************)
THEOREM LookupsRight == Spec => []LookupRight
<1>1. FilesOK => LookupRight
  BY FilesOKImplies
<1> QED BY <1>1, FilesInvariant, PTL

(***************************************************************************)
(* The size os.Stat reports for a flushed file of one data block is the    *)
(* one that module DB computes its compaction tiers with.                  *)
(***************************************************************************)
THEOREM SizesAgree == Spec => []SizeAgrees
<1>1. FilesOK => SizeAgrees
  BY FilesOKImplies
<1> QED BY <1>1, FilesInvariant, PTL

-----------------------------------------------------------------------------
(* The iterator of a file.                                                 *)

\* An iterator at entry rest[1] of block b, and the search for the next block.
Show(b, rest) ==
    [block |-> b, rest |-> Tail(rest), valid |-> TRUE, key |-> Head(rest).key, ent |-> Head(rest).ent]

LoadStep(f, r, it, bd, b) ==
    IF b > Len(r.index) THEN Ended(it)
    ELSE IF ReadBlock(r, r.index[b], bd) = Unreadable THEN Ended(it)
         ELSE IF ReadBlock(r, r.index[b], bd) = <<>> THEN f[b + 1] ELSE Show(b, ReadBlock(r, r.index[b], bd))

IsLoad(f, r, it, bd) == f = [b \in 1..(Len(r.index) + 1) |-> LoadStep(f, r, it, bd, b)]

Loaded(r, it, bd) == CHOOSE f : IsLoad(f, r, it, bd)

\* Advance by its recursion over the blocks.
LEMMA AdvanceUnfold ==
    ASSUME NEW r, NEW it, NEW bd
    PROVE  Advance(r, it, bd) = IF it.rest # <<>> THEN Show(it.block, it.rest)
                                ELSE Loaded(r, it, bd)[it.block + 1]
BY Zenon DEF Advance, Loaded, IsLoad, LoadStep, Show

\* No block is empty, so that the next block is shown or ends the iteration.
LEMMA LoadIs ==
    ASSUME NEW wr, NEW t, Complete(wr, t), NEW it, NEW bd, NEW d \in 1..(Len(wr.out) + 1)
    PROVE  Loaded(OpenTable(Finish(wr)), it, bd)[d] =
              IF d > Len(wr.out) \/ wr.index[d].offset \in bd THEN Ended(it) ELSE Show(d, WBlocks(wr)[d])
<1> DEFINE n == Len(wr.out)
           B == WBlocks(wr)
           r == OpenTable(Finish(wr))
           D == 1..(n + 1)
           Val(b) == IF b > n \/ wr.index[b].offset \in bd THEN Ended(it) ELSE Show(b, B[b])
           G == [b \in D |-> Val(b)]
           F == Loaded(r, it, bd)
<1>1. /\ n \in Nat /\ DOMAIN B = 1..n /\ Len(wr.index) = n
      /\ \A i \in 1..n : B[i] = wr.out[i].data /\ B[i] \in Seq(KV) /\ 1 \in DOMAIN B[i]
  BY CompleteBlocks
<1>2. /\ r.file = Finish(wr) /\ r.index = wr.index
      /\ \A i \in 1..n : ReadAt(Finish(wr), wr.index[i].offset, wr.index[i].len) = wr.out[i].data
  BY OpenFinished
<1> HIDE DEF n, B, r
<1>3. ASSUME NEW f, NEW b \in D PROVE LoadStep(f, r, it, bd, b) = Val(b)
  <2>1. CASE b > n
    BY <1>1, <1>2, <2>1 DEF LoadStep
  <2>2. CASE b \in 1..n /\ wr.index[b].offset \in bd
    <3>1. ~(b > n) /\ ReadBlock(r, r.index[b], bd) = Unreadable
      BY <1>1, <1>2, <2>2 DEF ReadBlock
    <3> QED BY <1>1, <1>2, <2>2, <3>1 DEF LoadStep
  <2>3. CASE b \in 1..n /\ wr.index[b].offset \notin bd
    <3>1. ~(b > n) /\ ReadBlock(r, r.index[b], bd) = B[b]
      <4>1. ReadBlock(r, r.index[b], bd) = ReadAt(Finish(wr), wr.index[b].offset, wr.index[b].len)
        BY <1>2, <2>3 DEF ReadBlock
      <4>2. ReadAt(Finish(wr), wr.index[b].offset, wr.index[b].len) = B[b]
        BY <1>1, <1>2, <2>3
      <4>3. ~(b > n)
        BY <1>1, <2>3
      <4> QED BY <4>1, <4>2, <4>3
    <3>2. B[b] # Unreadable /\ B[b] # <<>>
      <4>1. B[b] \in Seq(KV) /\ 1 \in DOMAIN B[b]
        BY <1>1, <2>3
      <4> QED BY <4>1, UnreadableAssumption DEF KV
    <3> QED BY <1>1, <1>2, <2>3, <3>1, <3>2 DEF LoadStep
  <2> QED BY <1>1, <2>1, <2>2, <2>3
<1> HIDE DEF Val
<1>4. D = 1..(Len(r.index) + 1)
  BY <1>1, <1>2
<1>5. IsLoad(G, r, it, bd)
  <2>1. G = [b \in D |-> LoadStep(G, r, it, bd, b)]
    BY <1>3
  <2> HIDE DEF G, D
  <2> QED BY <1>4, <2>1 DEF IsLoad
<1>6. IsLoad(F, r, it, bd)
  <2> HIDE DEF G
  <2> QED BY <1>5, Zenon DEF Loaded
<1>7. F[d] = LoadStep(F, r, it, bd, d)
  <2>1. d \in D /\ F = [b \in D |-> LoadStep(F, r, it, bd, b)]
    BY <1>4, <1>6 DEF IsLoad, n
  <2> HIDE DEF F, D
  <2> QED BY <2>1
<1>8. F[d] = Val(d)
  <2>1. d \in D
    BY DEF n
  <2> HIDE DEF F
  <2> QED BY <1>3, <1>7, <2>1
<1> QED BY <1>8 DEF Val, n, B, r

\* What is left of a block.
LEMMA RestOf ==
    ASSUME NEW T, NEW s \in Seq(T), NEW q \in 1..Len(s)
    PROVE  LET u == SubSeq(s, q, Len(s))
           IN  u # <<>> /\ Head(u) = s[q] /\ Tail(u) = SubSeq(s, q + 1, Len(s))
<1> DEFINE u == SubSeq(s, q, Len(s))
           v == SubSeq(s, q + 1, Len(s))
           n == Len(s)
<1>1. n \in Nat /\ q \in Nat /\ 1 <= q /\ q <= n
  OBVIOUS
<1>2. u \in Seq(T) /\ Len(u) = n - q + 1 /\ \A i \in 1..(n - q + 1) : u[i] = s[q + i - 1]
  BY <1>1
<1>3. v \in Seq(T) /\ Len(v) = n - q /\ \A i \in 1..(n - q) : v[i] = s[q + i]
  <2>1. CASE q = n
    BY <1>1, <2>1
  <2>2. CASE q < n
    BY <1>1, <2>2
  <2> QED BY <1>1, <2>1, <2>2
<1>4. u # <<>> /\ Head(u) = s[q]
  <2>1. u # <<>>
    <3>1. Len(u) # 0
      BY <1>1, <1>2
    <3> HIDE DEF u
    <3> QED BY <3>1
  <2>2. u[1] = s[q]
    BY <1>1, <1>2
  <2> QED BY <1>2, <2>1, <2>2
<1>5. Tail(u) \in Seq(T) /\ Len(Tail(u)) = n - q /\ \A i \in 1..(n - q) : Tail(u)[i] = u[i + 1]
  <2> HIDE DEF u
  <2> QED BY <1>1, <1>2, <1>4
<1>6. \A i \in 1..(n - q) : u[i + 1] = s[q + i]
  BY <1>1, <1>2
<1>7. Tail(u) = v
  <2> DEFINE y == Tail(u)
             m == n - q
  <2>1. m \in Nat
    BY <1>1
  <2> HIDE DEF u, v, n
  <2>2. y \in Seq(T) /\ v \in Seq(T) /\ Len(y) = m /\ Len(v) = m
    BY <1>3, <1>5
  <2>3. \A i \in 1..m : y[i] = v[i]
    BY <1>3, <1>5, <1>6
  <2> HIDE DEF y, m
  <2>4. y = v
    BY <2>1, <2>2, <2>3
  <2> QED BY <2>4 DEF y
<1> QED BY <1>4, <1>7

IsIter(it) ==
    it = [block |-> it.block, rest |-> it.rest, valid |-> it.valid, key |-> it.key, ent |-> it.ent]

\* The iterator stands on entry p of a block, no block up to which is damaged.
StandsOn(it, wr, bd, p) ==
    LET B == WBlocks(wr)
    IN  /\ it.block \in 1..Len(wr.out) /\ p \in DOMAIN B[it.block]
        /\ it.rest = SubSeq(B[it.block], p + 1, Len(B[it.block]))
        /\ it.key = B[it.block][p].key /\ it.ent = B[it.block][p].ent
        /\ \A j \in 1..it.block : wr.index[j].offset \notin bd

IterAt(it, wr, bd) == IsIter(it) /\ it.valid \in BOOLEAN /\ (it.valid => \E p : StandsOn(it, wr, bd, p))

\* The keys an iterator gets to see.
Seen(wr, t, bd) ==
    {k \in KeysOf(t) : \A j \in 1..Len(wr.out) : wr.index[j].offset \in bd => k < wr.index[j].firstKey}

\* The iterator shows the first key of R after x, or has ended if there is none.
Shows(it, R, t, x) ==
    /\ it.valid => /\ it.key \in R /\ x < it.key /\ it.ent = t[it.key]
                   /\ \A k \in R : x < k => it.key <= k
    /\ ~it.valid => \A k \in R : k <= x

\* The iterator at entry q of block d, if all entries in front are up to x.
LEMMA ShownIs ==
    ASSUME NEW wr, NEW t, Complete(wr, t), NEW bd, NEW d \in 1..Len(wr.out), NEW q \in DOMAIN WBlocks(wr)[d],
           \A j \in 1..d : wr.index[j].offset \notin bd,
           NEW x \in Nat, x < WBlocks(wr)[d][q].key,
           \A i \in DOMAIN WBlocks(wr) : \A a \in DOMAIN WBlocks(wr)[i] :
              i < d \/ (i = d /\ a < q) => WBlocks(wr)[i][a].key <= x
    PROVE  LET it == Show(d, SubSeq(WBlocks(wr)[d], q, Len(WBlocks(wr)[d])))
           IN  IterAt(it, wr, bd) /\ Shows(it, Seen(wr, t, bd), t, x)
<1> DEFINE n == Len(wr.out)
           B == WBlocks(wr)
           s == B[d]
           u == SubSeq(s, q, Len(s))
           it == Show(d, u)
           R == Seen(wr, t, bd)
           fk(j) == wr.index[j].firstKey
<1>1. /\ n \in Nat /\ DOMAIN B = 1..n /\ BlocksOK(B, t)
      /\ \A i \in 1..n : B[i] \in Seq(KV) /\ 1 \in DOMAIN B[i] /\ fk(i) = B[i][1].key
  BY CompleteBlocks
<1>2. s \in Seq(KV) /\ q \in 1..Len(s) /\ q \in Nat /\ d \in DOMAIN B
  BY <1>1
<1>3. Head(u) = s[q] /\ Tail(u) = SubSeq(s, q + 1, Len(s))
  BY <1>2, RestOf
<1>4. /\ IsIter(it) /\ it.block = d /\ it.rest = SubSeq(s, q + 1, Len(s)) /\ it.valid = TRUE
      /\ it.key = s[q].key /\ it.ent = s[q].ent
  <2>1. it = [block |-> d, rest |-> Tail(u), valid |-> TRUE, key |-> Head(u).key, ent |-> Head(u).ent]
    BY DEF Show
  <2> HIDE DEF u, it
  <2> QED BY <1>3, <2>1 DEF IsIter
<1>5. s[q] \in KV /\ s[q].key \in KeysOf(t) /\ s[q].key \in Nat /\ t[s[q].key] = s[q].ent
  BY <1>1, <1>2, BlockKeys DEF BlocksOK
<1>6. \A i \in DOMAIN B : \A a \in DOMAIN B[i] : i < d \/ (i = d /\ a < q) => B[i][a].key <= x
  OBVIOUS
<1>7. x < s[q].key
  OBVIOUS
<1>8. \A j \in 1..d : wr.index[j].offset \notin bd
  OBVIOUS
<1> HIDE DEF it, u, B, s, n
<1>9. StandsOn(it, wr, bd, q)
  BY <1>2, <1>4, <1>8 DEF StandsOn, B, s
<1>10. IterAt(it, wr, bd)
  BY <1>4, <1>9 DEF IterAt
<1>11. s[q].key \in R
  <2>1. ASSUME NEW j \in 1..n, wr.index[j].offset \in bd PROVE s[q].key < fk(j)
    <3>1. j > d
      BY <1>1, <1>2, <1>8, <2>1
    <3>2. B[d][q].key < B[j][1].key
      BY <1>1, <1>2, <2>1, <3>1 DEF BlocksOK, s
    <3> QED BY <1>1, <2>1, <3>2 DEF s
  <2> QED BY <1>5, <2>1 DEF Seen, n
<1>12. ASSUME NEW k \in R, x < k PROVE s[q].key <= k
  <2>1. k \in KeysOf(t) /\ k \in Nat
    BY KeysAssumption DEF Seen, KeysOf
  <2>2. PICK i \in DOMAIN B : \E a \in DOMAIN B[i] : B[i][a].key = k
    BY <1>1, <2>1 DEF BlocksOK
  <2>3. PICK a \in DOMAIN B[i] : B[i][a].key = k
    BY <2>2
  <2>4. i \in Nat /\ d \in Nat /\ a \in Nat
    <3>1. i \in 1..n /\ B[i] \in Seq(KV)
      BY <1>1, <2>2
    <3> QED BY <1>1, <1>2, <2>3, <3>1
  <2>5. ~(i < d \/ (i = d /\ a < q))
    BY <1>6, <1>12, <2>1, <2>2, <2>3
  <2>6. CASE i = d /\ a = q
    BY <1>5, <2>1, <2>3, <2>6 DEF s
  <2>7. CASE d < i \/ (d = i /\ q < a)
    <3>1. B[d][q].key < B[i][a].key
      BY <1>1, <1>2, <2>2, <2>3, <2>7 DEF BlocksOK, s
    <3> QED BY <1>5, <2>1, <2>3, <3>1 DEF s
  <2> QED BY <1>2, <2>4, <2>5, <2>6, <2>7
<1>13. Shows(it, R, t, x)
  BY <1>4, <1>5, <1>7, <1>11, <1>12 DEF Shows
<1> QED BY <1>10, <1>13 DEF it, u, s, B

\* At the end of a block, or before the first one, advance shows the next.
LEMMA LoadShows ==
    ASSUME NEW wr, NEW t, Complete(wr, t), NEW bd, NEW it, IsIter(it), it.rest = <<>>,
           it.block \in 0..Len(wr.out), \A j \in 1..it.block : wr.index[j].offset \notin bd,
           NEW x \in Nat,
           \A i \in DOMAIN WBlocks(wr) : \A a \in DOMAIN WBlocks(wr)[i] :
              (i <= it.block => WBlocks(wr)[i][a].key <= x) /\ (i > it.block => x < WBlocks(wr)[i][a].key)
    PROVE  LET it2 == Advance(OpenTable(Finish(wr)), it, bd)
           IN  IterAt(it2, wr, bd) /\ Shows(it2, Seen(wr, t, bd), t, x)
<1> DEFINE n == Len(wr.out)
           B == WBlocks(wr)
           d == it.block + 1
           it2 == Advance(OpenTable(Finish(wr)), it, bd)
           R == Seen(wr, t, bd)
           fk(j) == wr.index[j].firstKey
<1>1. /\ n \in Nat /\ DOMAIN B = 1..n /\ BlocksOK(B, t)
      /\ \A i \in 1..n : B[i] \in Seq(KV) /\ 1 \in DOMAIN B[i] /\ fk(i) = B[i][1].key
  BY CompleteBlocks
<1>2. d \in 1..(n + 1) /\ it.block \in Nat /\ d \in Nat
  BY <1>1
<1>3. it2 = IF d > n \/ wr.index[d].offset \in bd THEN Ended(it) ELSE Show(d, B[d])
  <2>1. it2 = Loaded(OpenTable(Finish(wr)), it, bd)[d]
    BY AdvanceUnfold
  <2>2. d \in 1..(Len(wr.out) + 1)
    BY <1>2
  <2> HIDE DEF d, it2
  <2>3. Loaded(OpenTable(Finish(wr)), it, bd)[d] =
           IF d > Len(wr.out) \/ wr.index[d].offset \in bd THEN Ended(it) ELSE Show(d, WBlocks(wr)[d])
    BY <2>2, LoadIs
  <2> QED BY <2>1, <2>3, Zenon
<1>4. \A i \in DOMAIN B : \A a \in DOMAIN B[i] : (i <= it.block => B[i][a].key <= x) /\ (i > it.block => x < B[i][a].key)
  OBVIOUS
<1> HIDE DEF B, it2, n
<1>5. CASE d > n \/ wr.index[d].offset \in bd
  <2>1. it2 = Ended(it)
    BY <1>3, <1>5
  <2>2. it2.valid = FALSE /\ IsIter(it2)
    <3>1. it2 = [block |-> it.block, rest |-> it.rest, valid |-> FALSE, key |-> it.key, ent |-> it.ent]
      BY <2>1 DEF Ended, IsIter
    <3> QED BY <3>1 DEF IsIter
  <2>3. ASSUME NEW k \in R PROVE k <= x
    <3>1. k \in KeysOf(t) /\ k \in Nat
      BY KeysAssumption DEF Seen, KeysOf
    <3>2. PICK i \in DOMAIN B : \E a \in DOMAIN B[i] : B[i][a].key = k
      BY <1>1, <3>1 DEF BlocksOK
    <3>3. PICK a \in DOMAIN B[i] : B[i][a].key = k
      BY <3>2
    <3>4. i \in 1..n /\ i \in Nat /\ B[i] \in Seq(KV)
      BY <1>1, <3>2
    <3>5. CASE i <= it.block
      BY <1>4, <3>2, <3>3, <3>5
    <3>6. CASE i > it.block
      <4>1. d <= i /\ d \in 1..n /\ wr.index[d].offset \in bd
        BY <1>1, <1>2, <1>5, <3>4, <3>6
      <4>2. k < fk(d) /\ fk(d) = B[d][1].key /\ 1 \in DOMAIN B[d] /\ d \in DOMAIN B
        BY <1>1, <4>1 DEF Seen, n
      <4>3. B[d][1].key \in Nat
        BY <1>1, <4>2, BlockKeys
      <4>4. a \in Nat /\ 1 <= a
        BY <3>3, <3>4
      <4>5. CASE i = d /\ a = 1
        BY <3>1, <3>3, <4>2, <4>3, <4>5
      <4>6. CASE d < i \/ (d = i /\ 1 < a)
        <5>1. B[d][1].key < B[i][a].key
          BY <1>1, <3>2, <3>3, <4>2, <4>6 DEF BlocksOK
        <5> QED BY <3>1, <3>3, <4>2, <4>3, <5>1
      <4> QED BY <1>2, <3>4, <4>1, <4>4, <4>5, <4>6
    <3> QED BY <1>2, <3>4, <3>5, <3>6
  <2>4. IterAt(it2, wr, bd) /\ Shows(it2, R, t, x)
    BY <2>2, <2>3 DEF IterAt, Shows
  <2> QED BY <2>4 DEF it2
<1>6. CASE ~(d > n \/ wr.index[d].offset \in bd)
  <2>1. d \in 1..n /\ it2 = Show(d, B[d])
    BY <1>1, <1>2, <1>3, <1>6
  <2>2. B[d] \in Seq(KV) /\ 1 \in DOMAIN B[d] /\ B[d] = SubSeq(B[d], 1, Len(B[d]))
    <3>1. B[d] \in Seq(KV) /\ 1 \in DOMAIN B[d]
      BY <1>1, <2>1
    <3> QED BY <3>1
  <2>3. \A j \in 1..d : wr.index[j].offset \notin bd
    <3>1. \A j \in 1..d : j = d \/ j \in 1..it.block
      BY <1>2
    <3> QED BY <1>6, <3>1
  <2>4. x < B[d][1].key
    BY <1>1, <1>2, <1>4, <2>1, <2>2
  <2>5. ASSUME NEW i \in DOMAIN B, NEW a \in DOMAIN B[i], i < d \/ (i = d /\ a < 1) PROVE B[i][a].key <= x
    <3>1. i \in 1..n /\ B[i] \in Seq(KV)
      BY <1>1
    <3>2. a \in Nat /\ 1 <= a /\ i \in Nat
      BY <3>1
    <3>3. i <= it.block
      BY <1>2, <2>5, <3>2
    <3> QED BY <1>4, <3>3
  <2> HIDE DEF d
  <2>6. LET i3 == Show(d, SubSeq(B[d], 1, Len(B[d])))
        IN  IterAt(i3, wr, bd) /\ Shows(i3, R, t, x)
    BY <2>1, <2>2, <2>3, <2>4, <2>5, ShownIs DEF B, n
  <2>7. IterAt(it2, wr, bd) /\ Shows(it2, R, t, x)
    BY <2>1, <2>2, <2>6
  <2> QED BY <2>7 DEF it2
<1> QED BY <1>5, <1>6

\* SeekToFirst shows the first readable entry.
LEMMA SeekIs ==
    ASSUME NEW wr, NEW t, Complete(wr, t), NEW bd
    PROVE  LET it2 == SeekToFirst(OpenTable(Finish(wr)), bd)
           IN  IterAt(it2, wr, bd) /\ Shows(it2, Seen(wr, t, bd), t, 0)
<1> DEFINE it == [block |-> 0, rest |-> <<>>, valid |-> TRUE, key |-> 0, ent |-> NoEntry]
           B == WBlocks(wr)
<1>1. IsIter(it) /\ it.rest = <<>> /\ it.block = 0
  BY DEF IsIter
<1>2. Len(wr.out) \in Nat /\ DOMAIN B = 1..Len(wr.out) /\ BlocksOK(B, t)
  BY CompleteBlocks
<1>3. it.block \in 0..Len(wr.out) /\ 1..it.block = {}
  BY <1>1, <1>2
<1>4. SeekToFirst(OpenTable(Finish(wr)), bd) = Advance(OpenTable(Finish(wr)), it, bd)
  BY DEF SeekToFirst
<1> HIDE DEF it
<1>5. ASSUME NEW i \in DOMAIN B, NEW a \in DOMAIN B[i]
      PROVE  (i <= it.block => B[i][a].key <= 0) /\ (i > it.block => 0 < B[i][a].key)
  <2>1. i \in Nat /\ ~(i <= 0)
    BY <1>2
  <2>2. B[i][a].key \in Nat /\ B[i][a].key # 0
    BY <1>2, BlockKeys, StorageAssumption DEF KeysOf
  <2> QED BY <1>1, <2>1, <2>2
<1> HIDE DEF B
<1>6. LET it2 == Advance(OpenTable(Finish(wr)), it, bd)
      IN  IterAt(it2, wr, bd) /\ Shows(it2, Seen(wr, t, bd), t, 0)
  BY <1>1, <1>3, <1>5, LoadShows DEF B
<1> QED BY <1>4, <1>6

\* advance shows the first readable entry behind the current one.
LEMMA AdvanceIs ==
    ASSUME NEW wr, NEW t, Complete(wr, t), NEW bd, NEW it, IterAt(it, wr, bd), it.valid
    PROVE  LET it2 == Advance(OpenTable(Finish(wr)), it, bd)
           IN  IterAt(it2, wr, bd) /\ Shows(it2, Seen(wr, t, bd), t, it.key)
<1> DEFINE n == Len(wr.out)
           B == WBlocks(wr)
           c == it.block
           s == B[c]
           x == it.key
           it2 == Advance(OpenTable(Finish(wr)), it, bd)
<1>1. /\ n \in Nat /\ DOMAIN B = 1..n /\ BlocksOK(B, t) /\ \A i \in 1..n : B[i] \in Seq(KV)
  BY CompleteBlocks
<1>2. PICK p : StandsOn(it, wr, bd, p)
  BY DEF IterAt
<1>3. /\ c \in 1..n /\ p \in DOMAIN s /\ it.rest = SubSeq(s, p + 1, Len(s)) /\ x = s[p].key
      /\ \A j \in 1..c : wr.index[j].offset \notin bd
  BY <1>2 DEF StandsOn
<1>4. s \in Seq(KV) /\ p \in 1..Len(s) /\ p \in Nat /\ c \in DOMAIN B /\ c \in Nat /\ Len(s) \in Nat
  <2>1. s \in Seq(KV)
    BY <1>1, <1>3
  <2> HIDE DEF s
  <2> QED BY <1>1, <1>3, <2>1
<1>5. x \in Nat
  BY <1>1, <1>3, <1>4, BlockKeys
\* Entries in front of the current one have smaller keys, those behind greater.
<1>6. ASSUME NEW i \in DOMAIN B, NEW a \in DOMAIN B[i]
      PROVE  /\ i < c \/ (i = c /\ a <= p) => B[i][a].key <= x
             /\ i > c \/ (i = c /\ a > p) => x < B[i][a].key
  <2>1. B[i] \in Seq(KV) /\ i \in Nat /\ a \in Nat
    <3>1. i \in 1..n /\ B[i] \in Seq(KV)
      BY <1>1
    <3> QED BY <3>1
  <2>2. B[i][a].key \in Nat
    BY <1>1, BlockKeys
  <2>3. ASSUME i < c \/ (i = c /\ a < p) PROVE B[i][a].key <= x
    <3>1. B[i][a].key < B[c][p].key
      BY <1>1, <1>3, <1>4, <2>3 DEF BlocksOK
    <3> QED BY <1>3, <1>5, <2>2, <3>1
  <2>4. ASSUME i = c /\ a = p PROVE B[i][a].key <= x
    BY <1>3, <1>5, <2>4
  <2>5. ASSUME i > c \/ (i = c /\ a > p) PROVE x < B[i][a].key
    <3>1. c < i \/ (c = i /\ p < a)
      BY <1>4, <2>1, <2>5
    <3>2. B[c][p].key < B[i][a].key
      BY <1>1, <1>3, <1>4, <3>1 DEF BlocksOK
    <3> QED BY <1>3, <3>2
  <2> QED BY <1>4, <2>1, <2>3, <2>4, <2>5
<1>7. IsIter(it)
  BY DEF IterAt
<1>8. CASE p = Len(s)
  <2>1. it.rest = <<>>
    BY <1>3, <1>4, <1>8
  <2>2. it.block \in 0..n
    BY <1>1, <1>3
  <2>3. ASSUME NEW i \in DOMAIN B, NEW a \in DOMAIN B[i]
        PROVE  (i <= it.block => B[i][a].key <= x) /\ (i > it.block => x < B[i][a].key)
    <3>1. i \in Nat /\ (i = c => a <= p)
      <4>1. i \in 1..n /\ B[i] \in Seq(KV)
        BY <1>1
      <4> QED BY <1>8, <4>1
    <3> QED BY <1>4, <1>6, <3>1
  <2> HIDE DEF B, x, n
  <2>4. IterAt(it2, wr, bd) /\ Shows(it2, Seen(wr, t, bd), t, x)
    BY <1>3, <1>5, <1>7, <2>1, <2>2, <2>3, LoadShows DEF B, n
  <2> QED BY <2>4 DEF x
<1>9. CASE p # Len(s)
  <2> DEFINE q == p + 1
  <2>1. q \in 1..Len(s) /\ q \in DOMAIN s
    BY <1>4, <1>9
  <2>2. it.rest # <<>>
    BY <1>3, <1>4, <2>1, RestOf
  <2>3. it2 = Show(c, SubSeq(s, q, Len(s)))
    BY <1>3, <2>2, AdvanceUnfold
  <2>4. x < s[q].key
    BY <1>4, <1>6, <2>1
  <2>5. ASSUME NEW i \in DOMAIN B, NEW a \in DOMAIN B[i], i < c \/ (i = c /\ a < q) PROVE B[i][a].key <= x
    <3>1. i < c \/ (i = c /\ a <= p)
      <4>1. i \in 1..n /\ B[i] \in Seq(KV)
        BY <1>1
      <4> QED BY <1>4, <2>5, <4>1
    <3> QED BY <1>6, <3>1
  <2> HIDE DEF q, c, x, n, it2, B
  <2>6. LET i3 == Show(c, SubSeq(B[c], q, Len(B[c])))
        IN  IterAt(i3, wr, bd) /\ Shows(i3, Seen(wr, t, bd), t, x)
    BY <1>3, <1>5, <2>1, <2>4, <2>5, ShownIs DEF B, n
  <2>7. IterAt(it2, wr, bd) /\ Shows(it2, Seen(wr, t, bd), t, x)
    BY <2>3, <2>6
  <2> QED BY <2>7 DEF it2, x
<1> QED BY <1>8, <1>9

-----------------------------------------------------------------------------
(* The merge.                                                              *)

\* The keys of f that its iterator gets to see.
Readable(f) == {k \in KeysOf(want[f]) : k \in BeforeDamage(f)}

\* What the iterator of f sees is what BeforeDamage says.
LEMMA ReadableIs ==
    ASSUME NEW f, NEW wr, Complete(wr, want[f]), disk[f] = Finish(wr)
    PROVE  Readable(f) = Seen(wr, want[f], bad[f])
<1>1. Reader(f).index = wr.index
  BY OpenFinished DEF Reader
<1>2. DOMAIN wr.index = 1..Len(wr.out)
  BY CompleteBlocks
<1>3. ASSUME NEW k \in KeysOf(want[f])
      PROVE  k \in BeforeDamage(f) <=> \A j \in 1..Len(wr.out) : wr.index[j].offset \in bad[f] => k < wr.index[j].firstKey
  <2>1. k \in Keys
    BY DEF KeysOf
  <2>2. k \in BeforeDamage(f) <=> \A ie \in ToSet(wr.index) : ie.offset \in bad[f] => k < ie.firstKey
    BY <1>1, <2>1 DEF BeforeDamage
  <2> QED BY <1>2, <2>2 DEF ToSet
<1> QED BY <1>3 DEF Readable, Seen

\* What is merged for a key that no file, or file f as the newest, has.
LEMMA MergedNone ==
    ASSUME NEW k \in Keys, \A f \in Flushed : k \notin Readable(f)
    PROVE  MergedEntry(k) = NoEntry
<1>1. {f \in Flushed : k \in BeforeDamage(f) /\ want[f][k] # NoEntry} = {}
  BY DEF Readable, KeysOf
<1> QED BY <1>1 DEF MergedEntry

\* The newest file that has the key decides, and a full merge drops tombstones.
LEMMA MergedNewest ==
    ASSUME NEW k \in Keys, NEW f \in Flushed, k \in Readable(f), \A g \in Flushed : k \in Readable(g) => g <= f
    PROVE  MergedEntry(k) = IF want[f][k] = Tombstone /\ k \in full THEN NoEntry ELSE want[f][k]
<1> DEFINE S == {g \in Flushed : k \in BeforeDamage(g) /\ want[g][k] # NoEntry}
<1>1. f \in S /\ \A g \in S : g <= f
  BY DEF Readable, KeysOf
<1>2. S \in SUBSET Nat /\ f \in Nat
  BY DEF Flushed
<1>3. MergedEntry(k) = IF S = {} \/ (want[Max(S)][k] = Tombstone /\ k \in full) THEN NoEntry ELSE want[Max(S)][k]
  BY DEF MergedEntry
<1> HIDE DEF S
<1>4. Max(S) \in S /\ f <= Max(S)
  BY <1>1, <1>2, GreatestElement
<1>5. Max(S) = f
  <2>1. Max(S) \in Nat /\ Max(S) <= f
    BY <1>1, <1>2, <1>4
  <2> QED BY <1>2, <1>4, <2>1
<1> QED BY <1>1, <1>3, <1>5

\* The part of the merged table up to key x.
MergedUpTo(x) == [k \in Keys |-> IF k <= x THEN MergedEntry(k) ELSE NoEntry]
Merged == [k \in Keys |-> MergedEntry(k)]

\* Iterator f stands where the merge, which is done up to lastKey, left it.
IterOK(f) ==
    \E wr : Complete(wr, want[f]) /\ disk[f] = Finish(wr) /\ IterAt(iters[f], wr, bad[f])

Pending(f) ==
    /\ iters[f].valid => /\ iters[f].key \in Readable(f) /\ lastKey <= iters[f].key
                         /\ iters[f].ent = want[f][iters[f].key]
                         /\ \A k \in Readable(f) : k < iters[f].key => k <= lastKey
    /\ ~iters[f].valid => \A k \in Readable(f) : k <= lastKey

MergeOK ==
    /\ stage = "merge" =>
        /\ iters = [f \in Flushed |-> iters[f]] /\ lastKey \in Nat
        /\ \A f \in Flushed : IterOK(f) /\ Pending(f)
        /\ WriterOK(w, MergedUpTo(lastKey))
    /\ stage \in {"fill", "flush", "merge"} => disk[Output] = <<>>
    /\ HasFooter(disk[Output]) => GoodFile(disk[Output], Merged)

\* What the merge depends on.
LEMMA MergedSame ==
    ASSUME \A f \in Flushed : disk'[f] = disk[f], bad' = bad, want' = want, full' = full
    PROVE  /\ \A f \in Flushed : Readable(f)' = Readable(f)
           /\ Merged' = Merged
           /\ MergedUpTo(lastKey)' = MergedUpTo(lastKey')
<1>1. \A f \in Flushed : Reader(f)' = Reader(f)
  BY DEF Reader
<1>2. \A f \in Flushed : BeforeDamage(f)' = BeforeDamage(f)
  BY <1>1 DEF BeforeDamage
<1>3. \A f \in Flushed : Readable(f)' = Readable(f)
  BY <1>2 DEF Readable
<1>4. ASSUME NEW k PROVE MergedEntry(k)' = MergedEntry(k)
  <2>1. {f \in Flushed : k \in BeforeDamage(f) /\ want[f][k] # NoEntry}' =
        {f \in Flushed : k \in BeforeDamage(f) /\ want[f][k] # NoEntry}
    BY <1>2
  <2> QED BY <2>1 DEF MergedEntry
<1> QED BY <1>3, <1>4 DEF Merged, MergedUpTo

\* A reader of a file both flushes have finished.
LEMMA MergeFiles ==
    ASSUME FilesOK, stage # "down", disk[2] # <<>>, NEW f \in Flushed
    PROVE  \E wr : Complete(wr, want[f]) /\ disk[f] = Finish(wr)
<1>1. f = 1 \/ f = 2
  BY DEF Flushed
<1>2. disk[f] # <<>>
  BY <1>1 DEF FilesOK
<1> QED BY <1>2 DEF FilesOK, GoodFile

\* BeginMerge: every iterator is at its first key, and nothing is written.
LEMMA MergeBegin ==
    ASSUME FilesOK, MergeOK, BeginMerge
    PROVE  MergeOK'
<1>1. /\ stage = "fill" /\ disk[2] # <<>> /\ stage' = "merge" /\ w' = NewWriter(0)
      /\ iters' = [f \in Flushed |-> SeekToFirst(Reader(f), bad[f])] /\ lastKey' = 0
      /\ disk' = disk /\ bad' = bad /\ want' = want
  BY DEF BeginMerge
<1>2. \A f \in Flushed : Readable(f)' = Readable(f)
  BY <1>1 DEF Readable, BeforeDamage, Reader
<1>3. ASSUME NEW f \in Flushed PROVE IterOK(f)' /\ Pending(f)'
  <2>1. PICK wr : Complete(wr, want[f]) /\ disk[f] = Finish(wr)
    BY <1>1, MergeFiles
  <2> DEFINE it == iters'[f]
  <2>2. it = SeekToFirst(OpenTable(Finish(wr)), bad[f])
    BY <1>1, <2>1 DEF Reader
  <2>3. Readable(f) = Seen(wr, want[f], bad[f])
    BY <2>1, ReadableIs
  <2>4. IterAt(it, wr, bad[f]) /\ Shows(it, Readable(f), want[f], 0)
    <3> HIDE DEF it
    <3> QED BY <2>1, <2>2, <2>3, SeekIs
  <2>5. IterOK(f)'
    BY <1>1, <2>1, <2>4 DEF IterOK
  <2>6. ASSUME NEW k \in Readable(f) PROVE k \in Nat
    BY KeysAssumption DEF Readable, KeysOf
  <2>7. Pending(f)'
    <3> HIDE DEF it
    <3>1. ASSUME it.valid PROVE /\ it.key \in Readable(f) /\ 0 <= it.key /\ it.ent = want[f][it.key]
                                /\ \A k \in Readable(f) : k < it.key => k <= 0
      <4>1. it.key \in Readable(f) /\ it.ent = want[f][it.key] /\ \A k \in Readable(f) : 0 < k => it.key <= k
        BY <2>4, <3>1 DEF Shows
      <4>2. it.key \in Nat
        BY <2>6, <4>1
      <4>3. \A k \in Readable(f) : k < it.key => k <= 0
        BY <2>6, <4>1, <4>2
      <4> QED BY <4>1, <4>2, <4>3
    <3>2. ASSUME ~it.valid PROVE \A k \in Readable(f) : k <= 0
      BY <2>4, <3>2 DEF Shows
    <3> QED BY <1>1, <1>2, <3>1, <3>2 DEF Pending, it
  <2> QED BY <2>5, <2>7
<1>4. MergedUpTo(lastKey)' = EmptyTable
  <2>1. \A k \in Keys : ~(k <= 0)
    BY KeysAssumption, StorageAssumption
  <2> QED BY <1>1, <2>1 DEF MergedUpTo, EmptyTable
<1>5. WriterOK(w', EmptyTable)
  BY <1>1, WriterNew
<1>6. disk'[Output] = <<>> /\ ~HasFooter(<<>>)
  BY <1>1 DEF MergeOK, HasFooter
<1> QED BY <1>1, <1>3, <1>4, <1>5, <1>6 DEF MergeOK

\* One turn of the loop writes what is merged for the key it takes, if anything.
LEMMA MergeTurn ==
    ASSUME FilesOK, MergeOK, MergeStep
    PROVE  MergeOK'
<1>1. PICK f \in Flushed :
         /\ Top(f)
         /\ iters' = [iters EXCEPT ![f] = Advance(Reader(f), @, bad[f])]
         /\ lastKey' = iters[f].key
         /\ w' = IF iters[f].key = lastKey \/ (iters[f].ent = Tombstone /\ iters[f].key \in full)
                 THEN w
                 ELSE Add(w, iters[f].key, iters[f].ent)
  BY DEF MergeStep
<1>2. stage = "merge" /\ stage' = "merge" /\ disk' = disk /\ bad' = bad /\ full' = full /\ want' = want
  BY DEF MergeStep
<1>3. /\ iters = [g \in Flushed |-> iters[g]] /\ lastKey \in Nat
      /\ \A g \in Flushed : IterOK(g) /\ Pending(g)
      /\ WriterOK(w, MergedUpTo(lastKey)) /\ disk[Output] = <<>>
  BY <1>2 DEF MergeOK
<1> DEFINE item == iters[f]
           k == item.key
           L == lastKey
<1>4. (\A g \in Flushed : Readable(g)' = Readable(g)) /\ MergedUpTo(lastKey)' = MergedUpTo(lastKey')
  BY <1>2, MergedSame
<1>5. \A g \in Flushed : \A y \in Readable(g) : y \in Keys /\ y \in Nat
  BY KeysAssumption DEF Readable, KeysOf
<1>6. /\ item.valid /\ k \in Readable(f) /\ L <= k /\ item.ent = want[f][k]
      /\ \A y \in Readable(f) : y < k => y <= L
  BY <1>1, <1>3 DEF Top, Pending
<1>7. k \in Keys /\ k \in Nat
  BY <1>5, <1>6
\* The other iterators are at the same key or behind it.
<1>8. ASSUME NEW g \in Flushed
      PROVE  /\ iters[g].valid => /\ k <= iters[g].key /\ iters[g].key \in Readable(g) /\ iters[g].key \in Nat
                                  /\ (iters[g].key = k => g <= f)
                                  /\ iters[g].ent = want[g][iters[g].key]
             /\ \A y \in Readable(g) : y < k => y <= L
  <2>0. f \in Nat /\ g \in Nat
    BY DEF Flushed
  <2>1. CASE iters[g].valid
    <3>1. iters[g].key \in Readable(g) /\ iters[g].key \in Nat /\ iters[g].ent = want[g][iters[g].key]
      BY <1>3, <1>5, <2>1 DEF Pending
    <3>2. k < iters[g].key \/ (k = iters[g].key /\ f >= g)
      BY <1>1, <2>1 DEF Top
    <3>3. \A y \in Readable(g) : y < iters[g].key => y <= L
      BY <1>3, <2>1 DEF Pending
    <3>4. k <= iters[g].key /\ (iters[g].key = k => g <= f)
      BY <1>7, <2>0, <3>1, <3>2
    <3>5. ASSUME NEW y \in Readable(g), y < k PROVE y <= L
      <4>1. y < iters[g].key
        BY <1>5, <1>7, <3>1, <3>4, <3>5
      <4> QED BY <3>3, <4>1
    <3> QED BY <3>1, <3>4, <3>5
  <2>2. CASE ~iters[g].valid
    <3>1. \A y \in Readable(g) : y <= L
      BY <1>3, <2>2 DEF Pending
    <3> QED BY <2>2, <3>1
  <2> QED BY <2>1, <2>2
\* The iterator the item came from.
<1>9. PICK wr : Complete(wr, want[f]) /\ disk[f] = Finish(wr) /\ IterAt(item, wr, bad[f])
  BY <1>3 DEF IterOK
<1> DEFINE it2 == Advance(Reader(f), item, bad[f])
<1>10. IterAt(it2, wr, bad[f]) /\ Shows(it2, Readable(f), want[f], k)
  <2>1. Readable(f) = Seen(wr, want[f], bad[f])
    BY <1>9, ReadableIs
  <2>2. Reader(f) = OpenTable(Finish(wr))
    BY <1>9 DEF Reader
  <2> HIDE DEF item
  <2> QED BY <1>6, <1>9, <2>1, <2>2, AdvanceIs
<1>11. iters' = [g \in Flushed |-> IF g = f THEN it2 ELSE iters[g]]
  BY <1>1, <1>3
<1>12. iters'[f] = it2 /\ (\A g \in Flushed : g # f => iters'[g] = iters[g]) /\ iters' = [g \in Flushed |-> iters'[g]]
  BY <1>11
<1> HIDE DEF it2
<1>13. ASSUME NEW g \in Flushed PROVE IterOK(g)' /\ Pending(g)'
  <2>1. CASE g = f
    <3>1. IterOK(g)'
      BY <1>2, <1>9, <1>10, <1>12, <2>1 DEF IterOK
    <3>2. ASSUME it2.valid PROVE /\ it2.key \in Readable(f) /\ k <= it2.key /\ it2.ent = want[f][it2.key]
                                 /\ \A y \in Readable(f) : y < it2.key => y <= k
      <4>1. /\ it2.key \in Readable(f) /\ k < it2.key /\ it2.ent = want[f][it2.key]
            /\ \A y \in Readable(f) : k < y => it2.key <= y
        BY <1>10, <3>2 DEF Shows
      <4>2. it2.key \in Nat
        BY <1>5, <4>1
      <4> HIDE DEF k
      <4>3. \A y \in Readable(f) : y < it2.key => y <= k
        BY <1>5, <1>7, <4>1, <4>2
      <4>4. k <= it2.key
        BY <1>7, <4>1, <4>2
      <4> QED BY <4>1, <4>3, <4>4
    <3>3. ASSUME ~it2.valid PROVE \A y \in Readable(f) : y <= k
      BY <1>10, <3>3 DEF Shows
    <3>4. Pending(g)'
      BY <1>1, <1>2, <1>4, <1>12, <2>1, <3>2, <3>3 DEF Pending
    <3> QED BY <3>1, <3>4
  <2>2. CASE g # f
    <3>1. iters'[g] = iters[g]
      BY <1>12, <2>2
    <3>2. IterOK(g)'
      BY <1>2, <1>3, <3>1 DEF IterOK
    <3>3. \A y \in Readable(g) : y <= L => y <= k
      BY <1>3, <1>5, <1>6, <1>7
    <3>4. ASSUME iters[g].valid PROVE /\ iters[g].key \in Readable(g) /\ k <= iters[g].key
                                      /\ iters[g].ent = want[g][iters[g].key]
                                      /\ \A y \in Readable(g) : y < iters[g].key => y <= k
      <4>1. \A y \in Readable(g) : y < iters[g].key => y <= L
        BY <1>3, <3>4 DEF Pending
      <4> QED BY <1>8, <3>3, <3>4, <4>1
    <3>5. ASSUME ~iters[g].valid PROVE \A y \in Readable(g) : y <= k
      <4>1. \A y \in Readable(g) : y <= L
        BY <1>3, <3>5 DEF Pending
      <4> QED BY <3>3, <4>1
    <3>6. Pending(g)'
      BY <1>1, <1>2, <1>4, <3>1, <3>4, <3>5 DEF Pending
    <3> QED BY <3>2, <3>6
  <2> QED BY <2>1, <2>2
\* The writer.
<1>14. WriterOK(w', MergedUpTo(k))
  <2>1. CASE k = L
    BY <1>1, <1>3, <2>1
  <2>2. CASE k # L
    <3>0. L < k
      BY <1>3, <1>6, <1>7, <2>2
    <3>1. ASSUME NEW g \in Flushed, k \in Readable(g) PROVE g <= f
      <4>1. iters[g].valid
        <5>1. ASSUME ~iters[g].valid PROVE FALSE
          <6>1. k <= L
            BY <1>3, <3>1, <5>1 DEF Pending
          <6> QED BY <1>3, <1>7, <3>0, <6>1
        <5> QED BY <5>1
      <4>2. k <= iters[g].key /\ iters[g].key \in Nat /\ (iters[g].key = k => g <= f)
        BY <1>8, <4>1
      <4>3. ~(k < iters[g].key)
        <5>1. ASSUME k < iters[g].key PROVE FALSE
          <6>1. k <= L
            BY <1>3, <3>1, <4>1, <5>1 DEF Pending
          <6> QED BY <1>3, <1>7, <3>0, <6>1
        <5> QED BY <5>1
      <4> QED BY <1>7, <4>2, <4>3
    <3>2. MergedEntry(k) = IF item.ent = Tombstone /\ k \in full THEN NoEntry ELSE item.ent
      <4>1. MergedEntry(k) = IF want[f][k] = Tombstone /\ k \in full THEN NoEntry ELSE want[f][k]
        <5> HIDE DEF k
        <5> QED BY <1>6, <1>7, <3>1, MergedNewest
      <4> QED BY <1>6, <4>1
    <3>3. ASSUME NEW y \in Keys, L < y, y < k PROVE MergedEntry(y) = NoEntry
      <4>1. ASSUME NEW g \in Flushed, y \in Readable(g) PROVE FALSE
        <5>1. y <= L
          BY <1>8, <3>3, <4>1
        <5> QED BY <1>3, <1>5, <3>3, <4>1, <5>1
      <4> QED BY <4>1, MergedNone
    <3>4. ASSUME NEW y \in Keys, y # k PROVE MergedUpTo(k)[y] = MergedUpTo(L)[y]
      <4>1. y \in Nat
        BY KeysAssumption
      <4>2. /\ MergedUpTo(k)[y] = IF y <= k THEN MergedEntry(y) ELSE NoEntry
            /\ MergedUpTo(L)[y] = IF y <= L THEN MergedEntry(y) ELSE NoEntry
        BY DEF MergedUpTo
      <4> HIDE DEF k, L
      <4>3. CASE y <= L
        <5>1. y <= k
          BY <1>3, <1>7, <3>0, <4>1, <4>3 DEF L
        <5> QED BY <4>2, <4>3, <5>1
      <4>4. CASE k < y
        <5>1. ~(y <= k) /\ ~(y <= L)
          BY <1>3, <1>7, <3>0, <4>1, <4>4 DEF L
        <5> QED BY <4>2, <5>1
      <4>5. CASE ~(y <= L) /\ ~(k < y)
        <5>1. L < y /\ y < k
          BY <1>3, <1>7, <3>4, <4>1, <4>5 DEF L
        <5>2. MergedEntry(y) = NoEntry
          BY <3>3, <5>1
        <5> QED BY <4>2, <4>5, <5>2
      <4> QED BY <4>3, <4>4, <4>5
    <3>5. MergedUpTo(k)[k] = MergedEntry(k) /\ MergedUpTo(L)[k] = NoEntry
      <4>1. k <= k /\ ~(k <= L)
        BY <1>3, <1>7, <3>0
      <4> QED BY <1>7, <4>1 DEF MergedUpTo
    <3>6. MergedUpTo(k) = [y \in Keys |-> MergedUpTo(k)[y]] /\ MergedUpTo(L) = [y \in Keys |-> MergedUpTo(L)[y]]
      BY DEF MergedUpTo
    <3>7. CASE item.ent = Tombstone /\ k \in full
      <4>1. w' = w
        BY <1>1, <3>7
      <4>2. \A y \in Keys : MergedUpTo(k)[y] = MergedUpTo(L)[y]
        BY <3>2, <3>4, <3>5, <3>7
      <4>3. MergedUpTo(k) = MergedUpTo(L)
        BY <3>6, <4>2
      <4> QED BY <1>3, <4>1, <4>3
    <3>8. CASE ~(item.ent = Tombstone /\ k \in full)
      <4> DEFINE e == item.ent
                 t == MergedUpTo(L)
      <4>1. w' = Add(w, k, e) /\ MergedEntry(k) = e
        BY <1>1, <2>2, <3>2, <3>8
      <4>2. e \in Entries
        <5>1. want[f] \in Table /\ k \in KeysOf(want[f])
          BY <1>6 DEF FilesOK, Readable, Flushed, FileIDs
        <5> QED BY <1>6, <1>7, <5>1 DEF Table, KeysOf
      <4>3. \A y \in KeysOf(t) : y < k
        <5>1. TAKE y \in KeysOf(t)
        <5>2. y \in Keys /\ y \in Nat /\ t[y] # NoEntry
          BY KeysAssumption DEF KeysOf
        <5>3. y <= L
          BY <5>2 DEF MergedUpTo
        <5> QED BY <1>3, <1>7, <3>0, <5>2, <5>3
      <4>4. MergedUpTo(k) = [t EXCEPT ![k] = e]
        <5>1. \A y \in Keys : MergedUpTo(k)[y] = IF y = k THEN e ELSE t[y]
          BY <3>4, <3>5, <4>1
        <5> HIDE DEF t, e, k
        <5>2. t = [y \in Keys |-> t[y]]
          BY <3>6 DEF t
        <5>3. [t EXCEPT ![k] = e] = [y \in Keys |-> IF y = k THEN e ELSE t[y]]
          BY <5>2
        <5> QED BY <3>6, <5>1, <5>3
      <4>5. WriterOK(w, t)
        BY <1>3
      <4> HIDE DEF t, e, k
      <4>6. WriterOK(Add(w, k, e), [t EXCEPT ![k] = e])
        BY <1>7, <4>2, <4>3, <4>5, WriterAdd
      <4> QED BY <4>1, <4>4, <4>6
    <3> QED BY <3>7, <3>8
  <2> QED BY <2>1, <2>2
<1>15. WriterOK(w', MergedUpTo(lastKey)')
  BY <1>1, <1>4, <1>14
<1>16. disk'[Output] = <<>> /\ ~HasFooter(<<>>)
  BY <1>2, <1>3 DEF HasFooter
<1>17. lastKey' \in Nat
  BY <1>1, <1>7
<1> QED BY <1>2, <1>12, <1>13, <1>15, <1>16, <1>17 DEF MergeOK

\* A file that is registered meanwhile changes nothing about the keys already merged.
LEMMA MergeFewer ==
    ASSUME MergeOK, AddFile
    PROVE  MergeOK'
<1>1. /\ stage = "merge" /\ stage' = "merge" /\ disk' = disk /\ bad' = bad /\ want' = want /\ w' = w
      /\ iters' = iters /\ lastKey' = lastKey /\ full' = {k \in full : k <= lastKey}
  BY DEF AddFile
<1>2. \A f \in Flushed : BeforeDamage(f)' = BeforeDamage(f) /\ Readable(f)' = Readable(f)
  BY <1>1 DEF Readable, BeforeDamage, Reader
<1>3. ASSUME NEW k \in Keys, k <= lastKey PROVE MergedEntry(k)' = MergedEntry(k)
  <2>1. {f \in Flushed : k \in BeforeDamage(f) /\ want[f][k] # NoEntry}' =
        {f \in Flushed : k \in BeforeDamage(f) /\ want[f][k] # NoEntry}
    BY <1>1, <1>2
  <2>2. k \in full' <=> k \in full
    BY <1>1, <1>3
  <2> QED BY <1>1, <2>1, <2>2 DEF MergedEntry
<1>4. MergedUpTo(lastKey)' = MergedUpTo(lastKey)
  BY <1>1, <1>3 DEF MergedUpTo
<1>5. \A f \in Flushed : (IterOK(f)' <=> IterOK(f)) /\ (Pending(f)' <=> Pending(f))
  BY <1>1, <1>2 DEF IterOK, Pending
<1>6. disk'[Output] = <<>> /\ ~HasFooter(<<>>)
  BY <1>1 DEF MergeOK, HasFooter
<1> QED BY <1>1, <1>4, <1>5, <1>6 DEF MergeOK

\* When every iterator has ended, the writer holds all that is to be merged.
LEMMA MergeAll ==
    ASSUME MergeOK, stage = "merge", MergeDone
    PROVE  WriterOK(w, Merged)
<1>1. lastKey \in Nat /\ WriterOK(w, MergedUpTo(lastKey)) /\ \A f \in Flushed : Pending(f)
  BY DEF MergeOK
<1>2. ASSUME NEW k \in Keys, ~(k <= lastKey) PROVE MergedEntry(k) = NoEntry
  <2>1. \A f \in Flushed : k \notin Readable(f)
    BY <1>1, <1>2 DEF Pending, MergeDone
  <2> QED BY <2>1, MergedNone
<1>3. \A k \in Keys : (IF k <= lastKey THEN MergedEntry(k) ELSE NoEntry) = MergedEntry(k)
  BY <1>2
<1>4. MergedUpTo(lastKey) = Merged
  BY <1>3 DEF MergedUpTo, Merged
<1> QED BY <1>1, <1>4

\* Every action keeps the merge invariant.
LEMMA MergeStepOK ==
    ASSUME FilesOK, MergeOK, [Next]_vars
    PROVE  MergeOK'
<1>0. /\ Output \in FileIDs /\ Output \notin Flushed /\ Flushed \subseteq FileIDs /\ ~HasFooter(<<>>)
      /\ disk = [f \in FileIDs |-> disk[f]]
  BY DEF Output, FileIDs, Flushed, HasFooter, FilesOK
<1>1. CASE BeginMerge
  BY <1>1, MergeBegin
<1>2. CASE MergeStep
  BY <1>2, MergeTurn
<1>3. CASE MergeFinish
  <2>1. /\ stage = "merge" /\ MergeDone /\ stage' = "merged" /\ disk' = [disk EXCEPT ![Output] = Finish(w)]
        /\ bad' = bad /\ full' = full /\ want' = want
    BY <1>3 DEF MergeFinish
  <2>2. disk'[Output] = Finish(w) /\ \A f \in Flushed : disk'[f] = disk[f]
    BY <1>0, <2>1
  <2>3. Merged' = Merged
    BY <2>1, <2>2, MergedSame
  <2>4. GoodFile(Finish(w), Merged)
    BY <2>1, MergeAll, FinishGood
  <2> QED BY <2>1, <2>2, <2>3, <2>4 DEF MergeOK
<1>4. CASE Crash
  <2> DEFINE f == IF stage = "flush" THEN NextFile ELSE Output
  <2>1. stage \in {"flush", "merge"} /\ stage' = "down" /\ bad' = bad /\ full' = full /\ want' = want
    BY <1>4 DEF Crash
  <2>2. PICK cut \in Cuts(Written) : disk' = [disk EXCEPT ![f] = cut]
    BY <1>4 DEF Crash
  <2>3. disk[Output] = <<>>
    BY <2>1 DEF MergeOK
  <2>4. CASE stage = "flush"
    <3>1. f \in Flushed
      <4>1. disk[2] = <<>>
        BY <2>4 DEF FilesOK, FlushOK
      <4> QED BY <2>4, <4>1, NextFileIs
    <3>2. disk'[Output] = <<>>
      BY <1>0, <2>2, <2>3, <3>1
    <3> QED BY <1>0, <2>1, <3>2 DEF MergeOK
  <2>5. CASE stage = "merge"
    <3>1. disk'[Output] = cut /\ \A g \in Flushed : disk'[g] = disk[g]
      BY <1>0, <2>2, <2>5
    <3>2. Merged' = Merged
      BY <2>1, <3>1, MergedSame
    <3>3. ASSUME HasFooter(cut) PROVE GoodFile(cut, Merged)
      <4>1. CASE MergeDone
        <5>1. Written = Finish(w) /\ WriterOK(w, Merged)
          BY <2>5, <4>1, MergeAll DEF Written
        <5>2. cut = Finish(w)
          BY <2>2, <3>3, <5>1, CutFinished
        <5> QED BY <5>1, <5>2, FinishGood
      <4>2. CASE ~MergeDone
        <5>1. Written = w.out
          BY <2>5, <4>2 DEF Written
        <5>2. w.out \in Seq(DataSections)
          BY <2>5 DEF MergeOK, WriterOK
        <5> QED BY <2>2, <3>3, <5>1, <5>2, CutBlocks
      <4> QED BY <4>1, <4>2
    <3> QED BY <2>1, <3>1, <3>2, <3>3 DEF MergeOK
  <2> QED BY <2>1, <2>4, <2>5
<1>5. CASE Write \/ BeginFlush \/ FlushAdd \/ Damage
  <2>1. stage \in {"fill", "flush"} /\ stage' \in {"fill", "flush"} /\ disk' = disk
    BY <1>5 DEF Write, BeginFlush, FlushAdd, Damage
  <2>2. disk'[Output] = <<>>
    BY <2>1 DEF MergeOK
  <2> QED BY <1>0, <2>1, <2>2 DEF MergeOK
<1>6. CASE FlushFinish
  <2>1. stage = "flush" /\ stage' = "fill" /\ disk' = [disk EXCEPT ![NextFile] = Finish(w)]
    BY <1>6 DEF FlushFinish
  <2>2. NextFile \in Flushed
    <3>1. disk[2] = <<>>
      BY <2>1 DEF FilesOK, FlushOK
    <3> QED BY <3>1, NextFileIs
  <2>3. disk'[Output] = <<>>
    <3>1. disk[Output] = <<>>
      BY <2>1 DEF MergeOK
    <3> QED BY <1>0, <2>1, <2>2, <3>1
  <2> QED BY <1>0, <2>1, <2>3 DEF MergeOK
<1>7. CASE UNCHANGED vars
  <2>1. /\ stage' = stage /\ disk' = disk /\ bad' = bad /\ want' = want /\ full' = full /\ w' = w
        /\ iters' = iters /\ lastKey' = lastKey
    BY <1>7 DEF vars, mergeVars
  <2>2. /\ \A f \in Flushed : Readable(f)' = Readable(f)
        /\ Merged' = Merged /\ MergedUpTo(lastKey)' = MergedUpTo(lastKey)
    BY <2>1, MergedSame
  <2>3. \A f \in Flushed : (IterOK(f)' <=> IterOK(f)) /\ (Pending(f)' <=> Pending(f))
    BY <2>1, <2>2 DEF IterOK, Pending
  <2> QED BY <2>1, <2>2, <2>3 DEF MergeOK
<1>8. CASE AddFile
  BY <1>8, MergeFewer
<1> QED BY <1>1, <1>2, <1>3, <1>4, <1>5, <1>6, <1>7, <1>8 DEF Next

\* The merge invariant holds in every behaviour.
LEMMA MergeInvariant == Spec => []MergeOK
<1>1. Init => MergeOK
  BY DEF Init, MergeOK, Output, FileIDs, HasFooter
<1>2. FilesOK /\ MergeOK /\ [Next]_vars => MergeOK'
  BY MergeStepOK
<1> QED BY <1>1, <1>2, FilesInvariant, PTL DEF Spec

(***************************************************************************)
(* Engine.merge: the output holds the newest readable entry of every key,  *)
(* no key more and none less, and tombstones only if another file may need *)
(* them when they are met; cut by a crash it is complete or refused.       *)
(***************************************************************************)
THEOREM MergesExact == Spec => []MergeExact
<1>1. ASSUME MergeOK PROVE MergeExact
  <2>1. SUFFICES ASSUME Reader(Output) # Refused, NEW k \in Keys
                 PROVE  ReaderGet(Reader(Output), k, {}) = MergedEntry(k)
    BY DEF MergeExact
  <2>2. HasFooter(disk[Output])
    BY <2>1 DEF Reader, OpenTable
  <2>3. PICK wr : Complete(wr, Merged) /\ disk[Output] = Finish(wr)
    BY <1>1, <2>2 DEF MergeOK, GoodFile
  <2>4. ReaderGet(OpenTable(Finish(wr)), k, {}) = Merged[k]
    BY <2>3, GetAnswers
  <2> QED BY <2>3, <2>4 DEF Reader, Merged
<1>2. MergeOK => MergeExact
  BY <1>1
<1> QED BY <1>2, MergeInvariant, PTL
=============================================================================
