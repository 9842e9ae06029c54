------------------------------ MODULE Storage ------------------------------
(***************************************************************************)
(* The way of a table through the system: a MemTable is filled, flushed to *)
(* a file through its iterator and the SSTable writer, read back through   *)
(* reader and Bloom filter, and two such files are merged into a third.    *)
(* Module DB takes a table for a function from keys to entries, whether it *)
(* is a skip list, a file, or the output of a merge; here that is checked  *)
(* against the data structures.                                            *)
(*                                                                         *)
(* One goroutine at a time writes a MemTable, a file or a merge (the locks *)
(* and flushLoop, compactionLoop see to it), so this is one thread, with   *)
(* crashes and damaged blocks.  TopOldest is a wrong form of Top, which    *)
(* MergeExact rejects.                                                     *)
(***************************************************************************)
EXTENDS SkipList, SSTable

CONSTANT BlockSize      \* Options.BlockSize

\* A key is never empty, so that 0 can stand for the nil that lastKey starts with.
ASSUME StorageAssumption == 0 \notin Keys

\* File IDs: two flushes, then the output of their merge.
Flushed == 1..2
Output  == 3
FileIDs == 1..3

VARIABLES
    stage,      \* "fill", "flush", "merge", "merged" or "down"
    mem,        \* the MemTable being filled or flushed
    cursor,     \* the node its iterator stands on
    w,          \* the running Writer
    disk,       \* the files
    bad,        \* bad[f]: offsets of the blocks of f that fail their CRC
    iters,      \* the iterators of the merge
    lastKey,    \* lastKey of the merge, 0 for nil
    full,       \* the keys that merge meets while it holds every registered file
    \* Observers: what MemTable and files should hold.
    wantMem, want

memVars   == <<mem, cursor>>
mergeVars == <<iters, lastKey, full>>
vars == <<stage, memVars, w, disk, bad, mergeVars, wantMem, want>>

NoIterators == [f \in Flushed |-> Ended([block |-> 0, rest |-> <<>>, valid |-> TRUE,
                                         key |-> 0, ent |-> NoEntry])]

Init ==
    /\ stage = "fill" /\ mem = NewSkipList /\ cursor = HeadNode
    /\ w = NewWriter(BlockSize)
    /\ disk = [f \in FileIDs |-> <<>>] /\ bad = [f \in FileIDs |-> {}]
    /\ iters = NoIterators /\ lastKey = 0 /\ full = {}
    /\ wantMem = EmptyTable /\ want = [f \in FileIDs |-> EmptyTable]

Reader(f) == OpenTable(disk[f])

\* The file the next flush writes.
NextFile == IF disk[1] = <<>> THEN 1 ELSE 2

-----------------------------------------------------------------------------
\* MemTable.Set and MemTable.Delete; randomLevel may draw any height.
Write ==
    /\ stage = "fill" /\ disk[2] = <<>>
    /\ \E k \in Keys, e \in Entries, lvl \in Levels :
          /\ mem' = Put(mem, k, e, lvl)
          /\ wantMem' = [wantMem EXCEPT ![k] = e]
    /\ UNCHANGED <<stage, cursor, w, disk, bad, mergeVars, want>>

\* WriteFromMemTable: NewWriter, then one Add per entry of the iterator, Finish.
BeginFlush ==
    /\ stage = "fill" /\ disk[2] = <<>> /\ mem.length > 0
    /\ stage' = "flush" /\ cursor' = HeadNode /\ w' = NewWriter(BlockSize)
    /\ want' = [want EXCEPT ![NextFile] = wantMem]
    /\ UNCHANGED <<mem, disk, bad, mergeVars, wantMem>>

FlushAdd ==
    /\ stage = "flush" /\ IterValid(mem, cursor)
    /\ cursor' = IterNext(mem, cursor)
    /\ w' = Add(w, cursor', mem.ent[cursor'])
    /\ UNCHANGED <<stage, mem, disk, bad, mergeVars, wantMem, want>>

FlushFinish ==
    /\ stage = "flush" /\ ~IterValid(mem, cursor)
    /\ stage' = "fill"
    /\ disk' = [disk EXCEPT ![NextFile] = Finish(w)]
    /\ mem' = NewSkipList /\ wantMem' = EmptyTable /\ cursor' = HeadNode
    /\ w' = NewWriter(BlockSize)
    /\ UNCHANGED <<bad, mergeVars, want>>

\* Bound: a behaviour has one fault, a damaged block or a crash.
NoFaultYet == \A f \in Flushed : bad[f] = {}

\* A block of a finished file no longer matches its CRC.
Damage ==
    /\ stage = "fill" /\ disk[2] # <<>> /\ NoFaultYet
    /\ \E f \in Flushed : \E ie \in ToSet(Reader(f).index) :
          bad' = [bad EXCEPT ![f] = {ie.offset}]
    /\ UNCHANGED <<stage, memVars, w, disk, mergeVars, wantMem, want>>

-----------------------------------------------------------------------------
(* Engine.merge over both files.                                           *)

\* There may be files that the merge does not take.
BeginMerge ==
    /\ stage = "fill" /\ disk[2] # <<>>
    /\ stage' = "merge" /\ w' = NewWriter(0)
    /\ iters' = [f \in Flushed |-> SeekToFirst(Reader(f), bad[f])]
    /\ lastKey' = 0 /\ full' \in {Keys, {}}
    /\ UNCHANGED <<memVars, disk, bad, wantMem, want>>

\* The item heap.Pop yields: the smallest key, from the highest file ID.
TopOldest(f) ==
    /\ iters[f].valid
    /\ \A g \in Flushed : iters[g].valid =>
          iters[f].key < iters[g].key \/ (iters[f].key = iters[g].key /\ f <= g)

Top(f) ==
    /\ iters[f].valid
    /\ \A g \in Flushed : iters[g].valid =>
          iters[f].key < iters[g].key \/ (iters[f].key = iters[g].key /\ f >= g)

\* A flush registers its file with the engine during the merge, which from then on
\* no longer holds every file.
AddFile ==
    /\ stage = "merge"
    /\ full' = {k \in full : k <= lastKey}
    /\ UNCHANGED <<stage, memVars, w, disk, bad, iters, lastKey, wantMem, want>>

\* One turn of the loop: pop, advance that iterator, then skip a duplicate or a
\* tombstone no other file needs, or write the entry.
MergeStep ==
    /\ stage = "merge"
    /\ \E f \in Flushed :
          LET item == iters[f]
          IN  /\ Top(f)
              /\ iters' = [iters EXCEPT ![f] = Advance(Reader(f), @, bad[f])]
              /\ lastKey' = item.key
              /\ w' = IF item.key = lastKey \/ (item.ent = Tombstone /\ item.key \in full)
                      THEN w
                      ELSE Add(w, item.key, item.ent)
    /\ UNCHANGED <<stage, memVars, disk, bad, full, wantMem, want>>

MergeDone == \A f \in Flushed : ~iters[f].valid

MergeFinish ==
    /\ stage = "merge" /\ MergeDone
    /\ stage' = "merged"
    /\ disk' = [disk EXCEPT ![Output] = Finish(w)]
    /\ w' = NewWriter(BlockSize) /\ iters' = NoIterators /\ lastKey' = 0
    /\ UNCHANGED <<memVars, bad, full, wantMem, want>>

-----------------------------------------------------------------------------
\* What has been handed to the file so far; all of it while Finish runs.
Written == IF \/ stage = "flush" /\ ~IterValid(mem, cursor)
              \/ stage = "merge" /\ MergeDone
           THEN Finish(w) ELSE w.out

\* The process dies while it writes a file, of which any part may be there.
Crash ==
    /\ stage \in {"flush", "merge"} /\ NoFaultYet /\ stage' = "down"
    /\ \E cut \in Cuts(Written) :
          disk' = [disk EXCEPT ![IF stage = "flush" THEN NextFile ELSE Output] = cut]
    /\ mem' = NewSkipList /\ wantMem' = EmptyTable /\ cursor' = HeadNode
    /\ w' = NewWriter(BlockSize) /\ iters' = NoIterators /\ lastKey' = 0
    /\ UNCHANGED <<bad, full, want>>

Next ==
    \/ Write \/ BeginFlush \/ FlushAdd \/ FlushFinish \/ Damage
    \/ BeginMerge \/ AddFile \/ MergeStep \/ MergeFinish \/ Crash

Spec == Init /\ [][Next]_vars

-----------------------------------------------------------------------------
(* Properties.                                                             *)

(***************************************************************************)
(* Whatever heights are drawn and however writes and tombstones overwrite  *)
(* one another, the skip list answers for every key what was last put, the *)
(* bottom level is all of it in key order, and every level above is a      *)
(* sorted part of the level below.                                         *)
(***************************************************************************)
MemTableRight ==
    /\ \A k \in Keys : Lookup(mem, k) = wantMem[k]
    /\ ToSet(LevelKeys(mem, 1)) = KeysOf(wantMem)
    /\ \A i \in Levels :
          LET s == LevelKeys(mem, i)
          IN  /\ \A a, b \in DOMAIN s : a < b => s[a] < s[b]
              /\ i > 1 => ToSet(s) \subseteq ToSet(LevelKeys(mem, i - 1))
              /\ i > mem.level => s = <<>>

(***************************************************************************)
(* skipList.length and skipList.byteSize, kept up step by step, are the    *)
(* number of entries and the bytes of keys and values that the engine      *)
(* compares with MemTableSize.                                             *)
(***************************************************************************)
CountsRight == mem.length = TableLen(wantMem) /\ mem.byteSize = ByteSize(wantMem)

\* The keys that belong into an unreadable block of f: its index entry is the last
\* one that does not start behind them.
InDamage(f) ==
    {k \in Keys : \E ie \in ToSet(Reader(f).index) :
        /\ ie.offset \in bad[f] /\ ie.firstKey <= k
        /\ \A other \in ToSet(Reader(f).index) :
              other.firstKey <= k => other.firstKey <= ie.firstKey}

\* The keys of f in front of its first unreadable block.
BeforeDamage(f) ==
    {k \in Keys : \A ie \in ToSet(Reader(f).index) : ie.offset \in bad[f] => k < ie.firstKey}

(***************************************************************************)
(* A flushed file that Open accepts gives the right answer for every key,  *)
(* or an error for a key that belongs into an unreadable block: neither    *)
(* filter nor index search nor block boundaries hide a key, and a file cut *)
(* anywhere by a crash is accepted only if nothing of it is missing.       *)
(***************************************************************************)
LookupRight ==
    \A f \in Flushed :
        LET r == Reader(f)
        IN  r # Refused =>
                \A k \in Keys :
                    LET answer == ReaderGet(r, k, bad[f])
                    IN  \/ answer = want[f][k]
                        \/ answer = Unreadable /\ k \in InDamage(f)

\* What the merge should write for k: the entry of the newest file that has one
\* before its first unreadable block; a tombstone only if other files exist when
\* the merge meets it.
MergedEntry(k) ==
    LET S == {f \in Flushed : k \in BeforeDamage(f) /\ want[f][k] # NoEntry}
        e == want[Max(S)][k]
    IN  IF S = {} \/ (e = Tombstone /\ k \in full) THEN NoEntry ELSE e

(***************************************************************************)
(* The output of a merge holds exactly the newest readable entry of every  *)
(* key, in any mix of overlapping files.  The iterator takes an unreadable *)
(* block for the end of its file: keys behind it fall back to the older    *)
(* file or vanish, and nothing else does.                                  *)
(***************************************************************************)
MergeExact ==
    LET r == Reader(Output)
    IN  r # Refused => \A k \in Keys : ReaderGet(r, k, {}) = MergedEntry(k)

(***************************************************************************)
(* The size a file has on disk is the one the compaction tiers of module   *)
(* DB are computed with, as long as the file has one data block.           *)
(***************************************************************************)
SizeAgrees ==
    \A f \in Flushed :
        LET r == Reader(f)
        IN  r # Refused /\ Len(r.index) <= 1 => FileBytes(disk[f]) = FileSize(want[f])
=============================================================================
