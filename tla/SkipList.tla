------------------------------ MODULE SkipList ------------------------------
(***************************************************************************)
(* The skip list of internal/memtable/skiplist.go, behind the lock of its  *)
(* MemTable.  A node is named by its key; next[i][n] is n.forward[i - 1].  *)
(* An operator takes a list and returns the one the call leaves.           *)
(* RightmostNotAbove and ReplacedLenForgotten are wrong forms of the       *)
(* definition that follows them, which properties of Storage reject.       *)
(***************************************************************************)
EXTENDS Tables, Integers, Sequences

CONSTANTS
    MaxLevel,   \* maxLevel
    HeadNode,   \* the sentinel node
    Nil         \* the null pointer

ASSUME SkipListAssumption ==
    MaxLevel \in Nat \ {0} /\ HeadNode \notin Keys /\ Nil \notin Keys \cup {HeadNode}

Levels == 1..MaxLevel
Nodes  == Keys \cup {HeadNode}

NewSkipList ==
    [next |-> [i \in Levels |-> [n \in Nodes |-> Nil]], ent |-> EmptyTable,
     level |-> 1, length |-> 0, byteSize |-> 0]

(***************************************************************************)
(* The traversal that set, delete and get share: at each level from the    *)
(* highest one in use, go right while the next key is smaller, then drop.  *)
(* Update(l, k)[i] is the node where level i was left.                     *)
(***************************************************************************)
RightmostNotAbove(l, k, i, start) ==
    LET go[n \in Nodes] ==
            IF l.next[i][n] # Nil /\ l.next[i][n] <= k THEN go[l.next[i][n]] ELSE n
    IN  go[start]

RightmostBelow(l, k, i, start) ==
    LET go[n \in Nodes] ==
            IF l.next[i][n] # Nil /\ l.next[i][n] < k THEN go[l.next[i][n]] ELSE n
    IN  go[start]

Update(l, k) ==
    LET left[i \in 1..(l.level + 1)] ==
            IF i > l.level THEN HeadNode ELSE RightmostBelow(l, k, i, left[i + 1])
    IN  left

\* The node after the place where the traversal ends, found by all three.
Candidate(l, k) == l.next[1][Update(l, k)[1]]

\* A node of height lvl is linked in behind the nodes of the traversal, behind
\* the head above the levels in use.
Link(l, k, lvl) ==
    [i \in Levels |->
        IF i > lvl THEN l.next[i]
        ELSE LET u == IF i <= l.level THEN Update(l, k)[i] ELSE HeadNode
             IN  [l.next[i] EXCEPT ![k] = l.next[i][u], ![u] = k]]

\* What the bytes of the value an entry replaces count for.
ReplacedLenForgotten(l, k) == 0

ReplacedLen(l, k) == EntryLen(l.ent[k])

\* set and delete: overwrite in place, or insert a node of the drawn height.
Put(l, k, e, lvl) ==
    IF Candidate(l, k) = k
    THEN [l EXCEPT !.byteSize = @ - ReplacedLen(l, k) + EntryLen(e), !.ent[k] = e]
    ELSE [next     |-> Link(l, k, lvl),
          ent      |-> [l.ent EXCEPT ![k] = e],
          level    |-> IF lvl > l.level THEN lvl ELSE l.level,
          length   |-> l.length + 1,
          byteSize |-> l.byteSize + KeyLen + EntryLen(e)]

Lookup(l, k) == IF Candidate(l, k) = k THEN l.ent[k] ELSE NoEntry

(***************************************************************************)
(* The iterator stands on a node and shows the one after it, at the bottom *)
(* level; it starts on the head.                                           *)
(***************************************************************************)
IterValid(l, n) == l.next[1][n] # Nil
IterNext(l, n)  == l.next[1][n]

\* The keys that level i links, in the order of the links.
LevelKeys(l, i) ==
    LET walk[n \in Nodes] ==
            IF l.next[i][n] = Nil THEN <<>> ELSE <<l.next[i][n]>> \o walk[l.next[i][n]]
    IN  walk[HeadNode]
=============================================================================
