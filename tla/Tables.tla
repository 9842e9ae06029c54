------------------------------- MODULE Tables -------------------------------
(***************************************************************************)
(* What a sorted table holds, whether it is a MemTable                     *)
(* (internal/memtable) or an SSTable (internal/sstable).  A table gives    *)
(* every key the entry recorded for it: a value, a tombstone, or nothing.  *)
(* The skip list and the file layout are abstracted to this function;      *)
(* their byte counts, which decide when a MemTable is rotated and which    *)
(* SSTables are compacted together, are kept exactly.                      *)
(***************************************************************************)
EXTENDS Naturals, FiniteSets, FiniteSetsExt

CONSTANTS
    Keys,       \* naturals; their order stands for the byte order of keys
    Values,     \* the values a client may store
    Tombstone,  \* the entry that marks a deleted key
    NoEntry,    \* "this table says nothing about the key"
    KeyLen,     \* length in bytes of every key
    ValLen      \* ValLen[v]: length in bytes of the value v

ASSUME KeysAssumption == Keys \subseteq Nat /\ IsFiniteSet(Keys)
ASSUME EntryAssumption == Tombstone \notin Values /\ NoEntry \notin Values \cup {Tombstone}
ASSUME LenAssumption == KeyLen \in Nat \ {0} /\ ValLen \in [Values -> Nat]

Entries == Values \cup {Tombstone}

Table == [Keys -> Entries \cup {NoEntry}]

EmptyTable == [k \in Keys |-> NoEntry]

KeysOf(t) == {k \in Keys : t[k] # NoEntry}

\* What Get returns for an entry: a deleted key and an absent one look alike.
Visible(e) == IF e = Tombstone THEN NoEntry ELSE e

EntryLen(e) == IF e \in Values THEN ValLen[e] ELSE 0

(***************************************************************************)
(* skipList.length, and skipList.byteSize: each insert, overwrite and      *)
(* delete keeps it equal to the bytes of the keys and the values present.  *)
(***************************************************************************)
TableLen(t) == Cardinality(KeysOf(t))

ByteSize(t) == MapThenSumSet(LAMBDA k : KeyLen + EntryLen(t[k]), KeysOf(t))

(***************************************************************************)
(* The size os.Stat reports for an SSTable whose entries fit one data      *)
(* block: entries with their 9-byte headers and the block's CRC, one index *)
(* entry, the encoded Bloom filter (9.6 bits per key rounded up to whole   *)
(* bytes) and the 48-byte footer.                                          *)
(***************************************************************************)
BloomBytes(n) == (((96 * n + 9) \div 10) + 7) \div 8

FileSize(t) ==
    LET n      == TableLen(t)
        block  == IF n = 0 THEN 0 ELSE 9 * n + ByteSize(t) + 4
        index  == IF n = 0 THEN 0 ELSE 16 + KeyLen
    IN  block + index + (5 + BloomBytes(n)) + 48

(***************************************************************************)
(* Tables on disk are looked up by file ID, the highest one first.         *)
(* IsNewest(f, k, S, tab): f is the table that answers for k among S.      *)
(***************************************************************************)
IsNewest(f, k, S, tab) ==
    /\ f \in S
    /\ tab[f][k] # NoEntry
    /\ \A g \in S : tab[g][k] # NoEntry => g <= f

\* The finite set S as a sequence, in the order Before: the i-th element has i - 1
\* others before it.
InOrder(S, Before(_, _)) ==
    [i \in 1..Cardinality(S) |->
        CHOOSE x \in S : Cardinality({y \in S : Before(y, x)}) = i - 1]

\* The sequences that list a finite set of file IDs from the highest down
\* (there is exactly one).
Descending(S) ==
    {s \in {InOrder(S, LAMBDA f, g : f > g)} :
        /\ s \in [1..Cardinality(S) -> S]
        /\ \A i, j \in DOMAIN s : i < j => s[i] > s[j]
        /\ \A f \in S : \E i \in DOMAIN s : s[i] = f}
=============================================================================
