--------------------------------- MODULE DB ---------------------------------
(***************************************************************************)
(* The storage engine of db.go: clients calling Set, Delete and Get, the   *)
(* flush, compaction and sync goroutines, Close, crashes and Open.  A step *)
(* is what the code does under one lock, or one call that touches the      *)
(* disk; everything between two steps may interleave with other threads.   *)
(*                                                                         *)
(* The log is a sequence of whole records, and where the first part of one *)
(* lies that a failed write or a crash left (module WAL has the kinds of   *)
(* parts); a table is a function from keys to entries (module Tables).     *)
(*                                                                         *)
(* Some operators are followed by the definition the specification uses    *)
(* and are used by nothing: they are wrong variants of it (NeverSynced of  *)
(* SyncedAfter, say), each of which some property below rejects.           *)
(***************************************************************************)
EXTENDS Compaction

CONSTANTS
    Writers,        \* clients that call Set and Delete
    Readers,        \* clients that call Get
    MemTableSize,   \* Options.MemTableSize, in bytes
    Threshold,      \* Options.SizeTieredThreshold
    SyncMode,       \* Options.SyncMode: "full", "batched" or "none"
    Failed,         \* stands for the error a Get returned
    Failing,        \* the operations that may report an I/O error
    MaxWrites,      \* bound on the records in the log
    MaxFileID,      \* bound on allocated file IDs
    MaxOpens,       \* bound on restarts (after a crash or a Close)
    MaxFaults       \* bound on I/O errors

Clients == Writers \cup Readers

ASSUME ClientsAssumption == IsFiniteSet(Clients) /\ Keys # {}
ASSUME FailedAssumption == Failed \notin Entries \cup {NoEntry}
ASSUME OptionsAssumption ==
    /\ MemTableSize \in Nat \ {0} /\ Threshold \in Nat \ {0}
    /\ SyncMode \in {"full", "batched", "none"}
\* "flush" is any error of flushMemTable, "merge" one of merge before its output
\* is complete, "stat" one after that (the fsync in Finish, or os.Stat).
ASSUME FailingAssumption ==
    Failing \subseteq {"write", "fsync", "flush", "merge", "stat", "remove"}
ASSUME BoundsAssumption ==
    MaxWrites \in Nat /\ MaxFileID \in Nat \ {0} /\ MaxOpens \in Nat /\ MaxFaults \in Nat

VARIABLES
    \* The directory: the records in WALFILE, how many are fsynced, and how many
    \* are in front of the first part of a record; the complete and the partly
    \* written .sst files, and what each file ID holds (an unlinked file lives
    \* while it is open).
    wal, synced, piece, dir, torn, tab,
    \* The DB struct and the engine's file list.
    active, immutable, nextFileID, readers, handles, files,
    flushChan, compactChan, life,
    \* Clients: program counter, arguments, log position, readers left to scan.
    pc, key, ent, pos, todo,
    \* flushLoop: program counter, file ID, the channel it serves.
    fpc, ffile, serving,
    \* compactionLoop: program counter, outputID, inputs, keys left to merge,
    \* merged entries, newReaders and old of reloadReaders.
    cpc, cfile, sel, mkeys, out, fresh, old,
    \* Observers: last applied entry per key, entries a running Get may
    \* return, acknowledged records; and the counters behind the bounds.
    latest, seen, acked, opens, faults

logVars     == <<wal, synced, piece>>
diskVars    == <<dir, torn, tab>>
memVars     == <<active, immutable>>
readerVars  == <<readers, handles>>
chanVars    == <<flushChan, compactChan>>
clientVars  == <<pc, key, ent, pos, todo>>
flushVars   == <<fpc, ffile, serving>>
compactVars == <<cpc, cfile, sel, mkeys, out, fresh, old>>
observers   == <<latest, seen, acked>>
counters    == <<opens, faults>>
vars == <<logVars, diskVars, memVars, nextFileID, readerVars, files, chanVars, life,
          clientVars, flushVars, compactVars, observers, counters>>

FileID == 1..MaxFileID
Record == [key : Keys, ent : Entries]
\* A Reader: the file it has open, and which call opened it (0 for flush and
\* Open, otherwise the compaction whose reloadReaders opened it).
Handle == [file : FileID, gen : 0..MaxFileID]
Acked  == [pos : 1..MaxWrites, rec : Record]

\* No part of a record is in the log.
NoPiece == MaxWrites + 1

\* db.closed, and whether closeChan has been closed.
Closed       == life # "open"
CloseChan    == life \notin {"open", "signal"}

\* There is no process, or its Close has returned: with the log closed, or with
\* an error and the log still open ("failed").
Ended        == life \in {"down", "failed"}

LogType     ==
    /\ wal \in Seq(Record) /\ Len(wal) <= MaxWrites
    /\ synced \in 0..Len(wal) /\ piece \in 0..Len(wal) \cup {NoPiece}
DiskType    == dir \in SUBSET FileID /\ torn \in SUBSET FileID /\ tab \in [FileID -> Table]
MemType     == active \in Table /\ immutable \in Table /\ nextFileID \in 1..(MaxFileID + 1)
ReaderType  == readers \in Seq(Handle) /\ handles \in SUBSET Handle /\ files \in SUBSET FileID
ControlType ==
    /\ flushChan \in 0..1 /\ compactChan \in 0..1
    /\ life \in {"open", "signal", "wait", "drain", "wal", "down", "failed"}
ClientType  ==
    /\ pc \in [Clients -> {"idle", "append", "apply", "signal",
                           "mem", "copy", "scan", "return"}]
    /\ key \in [Clients -> Keys]
    /\ ent \in [Clients -> Entries \cup {NoEntry, Failed}]
    /\ pos \in [Clients -> 0..MaxWrites]
    /\ todo \in [Clients -> Seq(Handle)]
FlushType   ==
    /\ fpc \in {"idle", "check", "create", "finish", "install", "add", "clear",
                "signal", "done"}
    /\ ffile \in 0..MaxFileID /\ serving \in {"flush", "close"}
CompactType ==
    /\ cpc \in {"idle", "check", "alloc", "select", "merge", "commit", "remove",
                "glob", "swap", "close", "done"}
    /\ cfile \in 0..MaxFileID /\ sel \in SUBSET FileID /\ mkeys \in SUBSET Keys
    /\ out \in Table /\ fresh \in Seq(Handle) /\ old \in SUBSET Handle
ObserverType ==
    /\ latest \in Table /\ seen \in [Clients -> SUBSET (Values \cup {NoEntry})]
    /\ acked \in SUBSET Acked
    /\ opens \in 0..MaxOpens /\ faults \in 0..MaxFaults

TypeOK ==
    /\ LogType /\ DiskType /\ MemType /\ ReaderType /\ ControlType
    /\ ClientType /\ FlushType /\ CompactType /\ ObserverType

AnyKey == CHOOSE k \in Keys : TRUE

Init ==
    /\ wal = <<>> /\ synced = 0 /\ piece = NoPiece
    /\ dir = {} /\ torn = {} /\ tab = [f \in FileID |-> EmptyTable]
    /\ active = EmptyTable /\ immutable = EmptyTable /\ nextFileID = 1
    /\ readers = <<>> /\ handles = {} /\ files = {}
    /\ flushChan = 0 /\ compactChan = 0 /\ life = "open"
    /\ pc = [c \in Clients |-> "idle"] /\ key = [c \in Clients |-> AnyKey]
    /\ ent = [c \in Clients |-> NoEntry] /\ pos = [c \in Clients |-> 0]
    /\ todo = [c \in Clients |-> <<>>]
    /\ fpc = "idle" /\ ffile = 0 /\ serving = "flush"
    /\ cpc = "idle" /\ cfile = 0 /\ sel = {} /\ mkeys = {} /\ out = EmptyTable
    /\ fresh = <<>> /\ old = {}
    /\ latest = EmptyTable /\ seen = [c \in Clients |-> {}] /\ acked = {}
    /\ opens = 0 /\ faults = 0

\* An I/O error of the given kind is allowed to happen now.
Fault(op) == op \in Failing /\ faults < MaxFaults /\ faults' = faults + 1

-----------------------------------------------------------------------------
(* Set and Delete.  The entry written tells them apart.                    *)

Goto(c, label) == pc' = [pc EXCEPT ![c] = label]

\* The call returns to its caller; its locals are gone.
EndCall(c) ==
    /\ Goto(c, "idle")
    /\ key' = [key EXCEPT ![c] = AnyKey]
    /\ ent' = [ent EXCEPT ![c] = NoEntry]
    /\ pos' = [pos EXCEPT ![c] = 0]
    /\ todo' = [todo EXCEPT ![c] = <<>>]

\* The record that a call writes to the log.
RecordOfDeleteAsSet(c) ==
    [key |-> key[c], ent |-> IF ent[c] = Tombstone THEN CHOOSE v \in Values : TRUE ELSE ent[c]]

RecordOf(c) == [key |-> key[c], ent |-> ent[c]]

\* The call returns nil: its record counts as acknowledged.
Acknowledge(c) ==
    /\ EndCall(c)
    /\ acked' = acked \cup {[pos |-> pos[c], rec |-> RecordOf(c)]}

\* The calls that are about to append a record.
Appending == {c \in Clients : pc[c] = "append"}

\* The check of db.closed; on a closed database the call returns at once.  (The
\* bound leaves room in the log for every call that has begun.)
BeginWrite(c) ==
    /\ pc[c] = "idle" /\ ~Closed
    /\ Len(wal) + Cardinality(Appending) < MaxWrites
    /\ \E k \in Keys, e \in Entries :
          /\ key' = [key EXCEPT ![c] = k]
          /\ ent' = [ent EXCEPT ![c] = e]
    /\ Goto(c, "append")
    /\ UNCHANGED <<logVars, diskVars, memVars, nextFileID, readerVars, files, chanVars,
                   life, pos, todo, flushVars, compactVars, observers, counters>>

\* What is fsynced when an Append that left the log w returns nil.
NeverSynced(w) == synced

SyncedAfter(w) == IF SyncMode = "full" THEN Len(w) ELSE synced

\* walLog.Append: the record is written, and fsynced in SyncFull mode.
WalAppend(c) ==
    /\ pc[c] = "append" /\ life # "down" /\ Len(wal) < MaxWrites
    /\ wal' = Append(wal, RecordOf(c))
    /\ synced' = SyncedAfter(wal')
    /\ pos' = [pos EXCEPT ![c] = Len(wal')]
    /\ Goto(c, "apply")
    /\ UNCHANGED <<piece, diskVars, memVars, nextFileID, readerVars, files, chanVars, life,
                   key, ent, todo, flushVars, compactVars, observers, counters>>

\* Where the first part of a record lies when one is left behind record n.
PieceBehind(n) == IF piece < n THEN piece ELSE n

\* Append fails: the file is already closed, the write failed and may have left
\* part of the record, or the write succeeded and the fsync failed.  The call
\* returns the error, and nothing takes the part away.
WalAppendError(c) ==
    /\ pc[c] = "append"
    /\ \/ life = "down" /\ UNCHANGED <<wal, piece, faults>>
       \/ /\ life # "down" /\ Fault("write") /\ UNCHANGED wal
          /\ piece' \in {piece, PieceBehind(Len(wal))}
       \/ /\ life # "down" /\ SyncMode = "full" /\ Fault("fsync")
          /\ Len(wal) < MaxWrites
          /\ wal' = Append(wal, RecordOf(c)) /\ UNCHANGED piece
    /\ EndCall(c)
    /\ UNCHANGED <<synced, diskVars, memVars, nextFileID, readerVars, files, chanVars,
                   life, flushVars, compactVars, observers, opens>>

\* active.Set or active.Delete under db.mu.  Only Set looks at the size.
Apply(c) ==
    LET t == [active EXCEPT ![key[c]] = ent[c]]
        shouldFlush == ent[c] # Tombstone /\ ByteSize(t) >= MemTableSize
        Reading(d) == pc[d] \in {"mem", "copy", "scan"} /\ key[d] = key[c]
    IN  /\ pc[c] = "apply"
        /\ active' = t
        /\ latest' = [latest EXCEPT ![key[c]] = ent[c]]
        /\ seen' = [d \in Clients |-> IF Reading(d) THEN seen[d] \cup {Visible(ent[c])}
                                                    ELSE seen[d]]
        /\ IF shouldFlush
           THEN Goto(c, "signal") /\ UNCHANGED <<key, ent, pos, todo, acked>>
           ELSE Acknowledge(c)
        /\ UNCHANGED <<logVars, diskVars, immutable, nextFileID, readerVars, files,
                       chanVars, life, flushVars, compactVars, counters>>

\* The non-blocking send on flushChan, which has room for one token.
SendFlushUnbounded == flushChan' = flushChan + 1
SendFlushUnbuffered == flushChan' = IF fpc = "idle" THEN 1 ELSE flushChan

SendFlush == flushChan' = 1

SignalFlush(c) ==
    /\ pc[c] = "signal"
    /\ SendFlush
    /\ Acknowledge(c)
    /\ UNCHANGED <<logVars, diskVars, memVars, nextFileID, readerVars, files, compactChan,
                   life, flushVars, compactVars, latest, seen, counters>>

-----------------------------------------------------------------------------
(* Get.                                                                    *)

BeginGet(c) ==
    /\ pc[c] = "idle" /\ ~Closed
    /\ \E k \in Keys :
          /\ key' = [key EXCEPT ![c] = k]
          /\ seen' = [seen EXCEPT ![c] = {Visible(latest[k])}]
    /\ Goto(c, "mem")
    /\ UNCHANGED <<logVars, diskVars, memVars, nextFileID, readerVars, files, chanVars,
                   life, ent, pos, todo, flushVars, compactVars, latest, acked, counters>>

\* Get has its result r.
Result(c, r) == Goto(c, "return") /\ ent' = [ent EXCEPT ![c] = r]

\* What the MemTables say about the key: the active one first.
MemEntryActiveOnly(c) == active[key[c]]

MemEntry(c) == IF active[key[c]] # NoEntry THEN active[key[c]] ELSE immutable[key[c]]

\* The lookup in active and the snapshot of the immutable pointer, under db.mu,
\* then the lookup in the immutable table, which no longer changes.
GetMem(c) ==
    /\ pc[c] = "mem"
    /\ IF MemEntry(c) # NoEntry THEN Result(c, Visible(MemEntry(c)))
                                ELSE Goto(c, "copy") /\ UNCHANGED ent
    /\ UNCHANGED <<logVars, diskVars, memVars, nextFileID, readerVars, files, chanVars,
                   life, key, pos, todo, flushVars, compactVars, observers, counters>>

\* db.readers is copied under sstMu; the readers themselves are shared.
GetCopy(c) ==
    /\ pc[c] = "copy"
    /\ todo' = [todo EXCEPT ![c] = readers]
    /\ Goto(c, "scan")
    /\ UNCHANGED <<logVars, diskVars, memVars, nextFileID, readerVars, files, chanVars,
                   life, key, ent, pos, flushVars, compactVars, observers, counters>>

\* Reader.Get on the next copied reader.  On a reader that was closed meanwhile
\* the block read fails; a key the table lacks reaches the block read only when
\* its Bloom filter says "maybe".
GetScan(c) ==
    /\ pc[c] = "scan"
    /\ \/ todo[c] = <<>> /\ Result(c, NoEntry) /\ UNCHANGED todo
       \/ /\ todo[c] # <<>>
          /\ LET h == Head(todo[c])
                 e == tab[h.file][key[c]]
             IN  \/ /\ h \in handles /\ e # NoEntry
                    /\ Result(c, Visible(e)) /\ UNCHANGED todo
                 \/ /\ e = NoEntry
                    /\ todo' = [todo EXCEPT ![c] = Tail(@)] /\ UNCHANGED <<pc, ent>>
                 \/ h \notin handles /\ Result(c, Failed) /\ UNCHANGED todo
    /\ UNCHANGED <<logVars, diskVars, memVars, nextFileID, readerVars, files, chanVars,
                   life, key, pos, flushVars, compactVars, observers, counters>>

GetReturn(c) ==
    /\ pc[c] = "return"
    /\ EndCall(c)
    /\ seen' = [seen EXCEPT ![c] = {}]
    /\ UNCHANGED <<logVars, diskVars, memVars, nextFileID, readerVars, files, chanVars,
                   life, flushVars, compactVars, latest, acked, counters>>

ClientStep(c) ==
    \/ WalAppend(c) \/ WalAppendError(c) \/ Apply(c) \/ SignalFlush(c)
    \/ GetMem(c) \/ GetCopy(c) \/ GetScan(c) \/ GetReturn(c)

-----------------------------------------------------------------------------
(* flushLoop.                                                              *)

\* The select of flushLoop: either ready channel may be chosen.
FlushTake ==
    /\ fpc = "idle"
    /\ \/ flushChan = 1 /\ flushChan' = 0 /\ serving' = "flush"
       \/ CloseChan /\ serving' = "close" /\ UNCHANGED flushChan
    /\ fpc' = "check"
    /\ UNCHANGED <<logVars, diskVars, memVars, nextFileID, readerVars, files, compactChan,
                   life, clientVars, ffile, compactVars, observers, counters>>

\* flushIfNeeded returns: to the select, or out of the loop after closeChan.
FlushReturn == fpc' = (IF serving = "close" THEN "done" ELSE "idle") /\ ffile' = 0 /\ UNCHANGED serving

\* The first critical section of flushIfNeeded: nothing to do, or rotate and
\* take a file ID.
FlushNeeded ==
    /\ TableLen(active) # 0
    /\ ByteSize(active) >= MemTableSize \/ Closed

FlushCheck ==
    /\ fpc = "check"
    /\ \/ ~FlushNeeded /\ FlushReturn /\ UNCHANGED <<memVars, nextFileID>>
       \/ /\ FlushNeeded /\ nextFileID < MaxFileID
          /\ immutable' = active /\ active' = EmptyTable
          /\ nextFileID' = nextFileID + 1
          /\ ffile' = nextFileID'
          /\ fpc' = "create" /\ UNCHANGED serving
    /\ UNCHANGED <<logVars, diskVars, readerVars, files, chanVars, life, clientVars,
                   compactVars, observers, counters>>

\* sstable.NewWriter: os.Create truncates whatever had this name.
FlushCreate ==
    /\ fpc = "create" /\ fpc' = "finish"
    /\ torn' = torn \cup {ffile} /\ dir' = dir \ {ffile}
    /\ UNCHANGED <<logVars, tab, memVars, nextFileID, readerVars, files, chanVars, life,
                   clientVars, ffile, serving, compactVars, observers, counters>>

\* WriteFromMemTable: what the new file holds, tombstones included.
FlushTableShort == [immutable EXCEPT ![Max(KeysOf(immutable))] = NoEntry]

FlushTable == immutable

\* The last entry, index, filter and footer are written and fsynced.
FlushFinish ==
    /\ fpc = "finish" /\ fpc' = "install"
    /\ tab' = [tab EXCEPT ![ffile] = FlushTable]
    /\ dir' = dir \cup {ffile} /\ torn' = torn \ {ffile}
    /\ UNCHANGED <<logVars, memVars, nextFileID, readerVars, files, chanVars, life,
                   clientVars, ffile, serving, compactVars, observers, counters>>

\* Writing, os.Stat or sstable.Open fails: the error is printed and dropped.
FlushError ==
    /\ fpc \in {"create", "finish", "install"} /\ Fault("flush")
    /\ fpc' = "clear"
    /\ UNCHANGED <<logVars, diskVars, memVars, nextFileID, readerVars, files, chanVars, life,
                   clientVars, ffile, serving, compactVars, observers, opens>>

\* The new reader goes in front of db.readers, under sstMu.
PrependOnly(h) == <<h>>

Prepend(h) == <<h>> \o readers

FlushInstall ==
    LET h == [file |-> ffile, gen |-> 0]
    IN  /\ fpc = "install" /\ fpc' = "add"
        /\ readers' = Prepend(h) /\ handles' = handles \cup {h}
        /\ UNCHANGED <<logVars, diskVars, memVars, nextFileID, files, chanVars, life,
                       clientVars, ffile, serving, compactVars, observers, counters>>

\* compact.AddFile; RunOnce holds the engine's lock while it removes files.
FlushAdd ==
    /\ fpc = "add" /\ cpc # "remove"
    /\ fpc' = "clear"
    /\ files' = files \cup {ffile}
    /\ UNCHANGED <<logVars, diskVars, memVars, nextFileID, readerVars, chanVars, life,
                   clientVars, ffile, serving, compactVars, observers, counters>>

FlushClear ==
    /\ fpc = "clear" /\ fpc' = "signal"
    /\ immutable' = EmptyTable
    /\ UNCHANGED <<logVars, diskVars, active, nextFileID, readerVars, files, chanVars, life,
                   clientVars, ffile, serving, compactVars, observers, counters>>

FlushSignal ==
    /\ fpc = "signal" /\ FlushReturn
    /\ compactChan' = 1
    /\ UNCHANGED <<logVars, diskVars, memVars, nextFileID, readerVars, files, flushChan,
                   life, clientVars, compactVars, observers, counters>>

Flusher ==
    \/ FlushTake \/ FlushCheck \/ FlushCreate \/ FlushFinish \/ FlushError
    \/ FlushInstall \/ FlushAdd \/ FlushClear \/ FlushSignal

-----------------------------------------------------------------------------
(* compactionLoop: Engine.NeedsCompaction, Engine.RunOnce, reloadReaders.  *)

Sizes == [f \in files |-> FileSize(tab[f])]

\* The select of compactionLoop.
CompactTakeNoClose ==
    /\ cpc = "idle" /\ compactChan = 1
    /\ compactChan' = 0 /\ cpc' = "check"
    /\ UNCHANGED <<logVars, diskVars, memVars, nextFileID, readerVars, files, flushChan, life,
                   clientVars, flushVars, cfile, sel, mkeys, out, fresh, old, observers,
                   counters>>

CompactTake ==
    /\ cpc = "idle"
    /\ \/ compactChan = 1 /\ compactChan' = 0 /\ cpc' = "check"
       \/ CloseChan /\ cpc' = "done" /\ UNCHANGED compactChan
    /\ UNCHANGED <<logVars, diskVars, memVars, nextFileID, readerVars, files, flushChan, life,
                   clientVars, flushVars, cfile, sel, mkeys, out, fresh, old, observers,
                   counters>>

CompactCheck ==
    /\ cpc = "check"
    /\ cpc' = IF NeedsCompaction(files, Sizes, Threshold) THEN "alloc" ELSE "idle"
    /\ UNCHANGED <<logVars, diskVars, memVars, nextFileID, readerVars, files, chanVars, life,
                   clientVars, flushVars, cfile, sel, mkeys, out, fresh, old, observers,
                   counters>>

CompactAlloc ==
    /\ cpc = "alloc" /\ nextFileID < MaxFileID
    /\ cpc' = "select"
    /\ nextFileID' = nextFileID + 1 /\ cfile' = nextFileID'
    /\ UNCHANGED <<logVars, diskVars, memVars, readerVars, files, chanVars, life, clientVars,
                   flushVars, sel, mkeys, out, fresh, old, observers, counters>>

\* RunOnce picks a tier under the engine's lock; when a flush has regrouped the
\* files meanwhile there may be none.  merge opens the inputs and creates the
\* output file.
CompactSelect ==
    /\ cpc = "select"
    /\ \E S \in {SelectedTier(files, Sizes, Threshold)} \cap SUBSET files :
          /\ sel' = S
          /\ mkeys' = UNION {KeysOf(tab[f]) : f \in S}
          /\ IF S = {} THEN cpc' = "glob" /\ UNCHANGED <<dir, torn>>
             ELSE cpc' = "merge" /\ torn' = torn \cup {cfile} /\ dir' = dir \ {cfile}
    /\ UNCHANGED <<logVars, tab, memVars, nextFileID, readerVars, files, chanVars, life,
                   clientVars, flushVars, cfile, out, fresh, old, observers, counters>>

\* merge drops a tombstone when it sees as many inputs as registered files; it
\* reads that number without the engine's lock.
DropTombstone(e) == e = Tombstone /\ Cardinality(sel) = Cardinality(files)

\* The heap yields keys in ascending order and, for each, the entry of the
\* highest file ID first; the later ones are skipped as duplicates.
CompactMerge ==
    /\ cpc = "merge"
    /\ \E k \in mkeys, f \in sel :
          /\ \A j \in mkeys : k <= j
          /\ IsNewest(f, k, sel, tab)
          /\ mkeys' = mkeys \ {k}
          /\ out' = IF DropTombstone(tab[f][k]) THEN out
                    ELSE [out EXCEPT ![k] = tab[f][k]]
    /\ UNCHANGED <<logVars, diskVars, memVars, nextFileID, readerVars, files, chanVars, life,
                   clientVars, flushVars, cpc, cfile, sel, fresh, old, observers, counters>>

CompactFinish ==
    /\ cpc = "merge" /\ mkeys = {}
    /\ cpc' = "commit"
    /\ tab' = [tab EXCEPT ![cfile] = out] /\ out' = EmptyTable
    /\ dir' = dir \cup {cfile} /\ torn' = torn \ {cfile}
    /\ UNCHANGED <<logVars, memVars, nextFileID, readerVars, files, chanVars, life,
                   clientVars, flushVars, cfile, sel, mkeys, fresh, old, observers, counters>>

\* merge returns an error before it has created its output (an input does not
\* open), while it writes it, or when the output is complete (its fsync or os.Stat
\* fails) and stays in the directory.  RunOnce clears running, the loop prints the
\* error and reloads the readers all the same.
CompactError ==
    /\ \/ cpc = "select" /\ Fault("merge") /\ SelectedTier(files, Sizes, Threshold) # {}
       \/ cpc = "merge" /\ Fault("merge")
       \/ cpc = "commit" /\ Fault("stat")
    /\ cpc' = "glob"
    /\ sel' = {} /\ mkeys' = {} /\ out' = EmptyTable
    /\ UNCHANGED <<logVars, diskVars, memVars, nextFileID, readerVars, files, chanVars, life,
                   clientVars, flushVars, cfile, fresh, old, observers, opens>>

\* The file list that RunOnce leaves: the inputs out, the output in.
ListedWithInputs == files \cup {cfile}

Listed == (files \ sel) \cup {cfile}

\* The second critical section of RunOnce; the lock is kept for the removals
\* that follow.
CompactCommit ==
    /\ cpc = "commit" /\ cpc' = "remove"
    /\ files' = Listed
    /\ UNCHANGED <<logVars, diskVars, memVars, nextFileID, readerVars, chanVars, life,
                   clientVars, flushVars, cfile, sel, mkeys, out, fresh, old, observers,
                   counters>>

\* f is the next input to remove: merge has sorted them, oldest first.
NewestFirst(f) == \A g \in sel : f >= g

OldestFirst(f) == \A g \in sel : f <= g

\* os.Remove of that input.  A failure is only printed.
CompactRemove ==
    /\ cpc = "remove"
    /\ \E f \in sel :
          /\ OldestFirst(f)
          /\ sel' = sel \ {f}
          /\ \/ dir' = dir \ {f} /\ UNCHANGED faults
             \/ Fault("remove") /\ UNCHANGED dir
    /\ cpc' = IF sel' = {} THEN "glob" ELSE "remove"
    /\ UNCHANGED <<logVars, torn, tab, memVars, nextFileID, readerVars, files, chanVars, life,
                   clientVars, flushVars, cfile, mkeys, out, fresh, old, observers, opens>>

\* reloadReaders: list the directory and open what can be opened, newest first.
\* A file appears only by becoming complete, so one atomic look is enough.
CompactGlob ==
    /\ cpc = "glob" /\ cpc' = "swap"
    /\ \E s \in Descending(dir) :
          /\ fresh' = [i \in DOMAIN s |-> [file |-> s[i], gen |-> cfile]]
          /\ handles' = handles \cup {[file |-> f, gen |-> cfile] : f \in dir}
    /\ UNCHANGED <<logVars, diskVars, memVars, nextFileID, readers, files, chanVars, life,
                   clientVars, flushVars, cfile, sel, mkeys, out, old, observers, counters>>

\* The new list is installed under sstMu; the replaced readers are to be closed.
ReplacedForgotten == {}

Replaced == ToSet(readers)

CompactSwap ==
    /\ cpc = "swap" /\ cpc' = "close"
    /\ old' = Replaced
    /\ readers' = fresh /\ fresh' = <<>>
    /\ UNCHANGED <<logVars, diskVars, memVars, nextFileID, handles, files, chanVars, life,
                   clientVars, flushVars, cfile, sel, mkeys, out, observers, counters>>

CompactCloseOld ==
    /\ cpc = "close" /\ cpc' = "idle"
    /\ handles' = handles \ old /\ old' = {} /\ cfile' = 0
    /\ UNCHANGED <<logVars, diskVars, memVars, nextFileID, readers, files, chanVars, life,
                   clientVars, flushVars, sel, mkeys, out, fresh, observers, counters>>

Compactor ==
    \/ CompactTake \/ CompactCheck \/ CompactAlloc \/ CompactSelect \/ CompactMerge
    \/ CompactFinish \/ CompactError \/ CompactCommit \/ CompactRemove
    \/ CompactGlob \/ CompactSwap \/ CompactCloseOld

-----------------------------------------------------------------------------
(* syncLoop, Close, crashes and Open.                                      *)

\* A tick of syncLoop, which leaves its loop once closeChan is closed and is
\* waited for by Close.
SyncTick ==
    /\ SyncMode = "batched" /\ life \in {"open", "signal", "wait"}
    /\ synced' = Len(wal)
    /\ UNCHANGED <<wal, piece, diskVars, memVars, nextFileID, readerVars, files, chanVars,
                   life, clientVars, flushVars, compactVars, observers, counters>>

\* The fsync of a tick fails: the error is printed, the next tick tries again.
SyncTickError ==
    /\ SyncMode = "batched" /\ life \in {"open", "signal", "wait"}
    /\ Fault("fsync")
    /\ UNCHANGED <<logVars, diskVars, memVars, nextFileID, readerVars, files, chanVars, life,
                   clientVars, flushVars, compactVars, observers, opens>>

\* Close, up to the compare-and-swap of db.closed.
BeginClose ==
    /\ life = "open" /\ life' = "signal"
    /\ UNCHANGED <<logVars, diskVars, memVars, nextFileID, readerVars, files, chanVars,
                   clientVars, flushVars, compactVars, observers, counters>>

\* close(closeChan) and the token that wakes flushLoop.
CloseSignal ==
    /\ life = "signal" /\ life' = "wait"
    /\ SendFlush
    /\ UNCHANGED <<logVars, diskVars, memVars, nextFileID, readerVars, files, compactChan,
                   clientVars, flushVars, compactVars, observers, counters>>

\* wg.Wait.
CloseWait ==
    /\ life = "wait" /\ fpc = "done" /\ cpc = "done"
    /\ life' = "drain"
    /\ UNCHANGED <<logVars, diskVars, memVars, nextFileID, readerVars, files, chanVars,
                   clientVars, flushVars, compactVars, observers, counters>>

CloseReaders ==
    /\ life = "drain" /\ life' = "wal"
    /\ handles' = handles \ ToSet(readers) /\ readers' = <<>>
    /\ UNCHANGED <<logVars, diskVars, memVars, nextFileID, files, chanVars, clientVars,
                   flushVars, compactVars, observers, counters>>

CloseWALUnsynced ==
    /\ life = "wal" /\ life' = "down"
    /\ UNCHANGED <<logVars, diskVars, memVars, nextFileID, readerVars, files, chanVars,
                   clientVars, flushVars, compactVars, observers, counters>>

\* walLog.Close: a last fsync, then the file is closed; if the fsync fails, Close
\* returns its error and leaves the file open.
CloseWAL ==
    /\ life = "wal"
    /\ \/ life' = "down" /\ synced' = Len(wal) /\ UNCHANGED faults
       \/ life' = "failed" /\ Fault("fsync") /\ UNCHANGED synced
    /\ UNCHANGED <<wal, piece, diskVars, memVars, nextFileID, readerVars, files, chanVars,
                   clientVars, flushVars, compactVars, observers, opens>>

Closer == CloseSignal \/ CloseWait \/ CloseReaders \/ CloseWAL

\* Of the log a crash leaves any prefix that holds the fsynced part, and maybe part
\* of the record behind it, which some call may just have been writing.
CutLog ==
    \E n \in synced..Len(wal) :
        /\ wal' = SubSeq(wal, 1, n)
        /\ \/ piece' = IF piece < n THEN piece ELSE NoPiece
           \/ /\ n < Len(wal) \/ piece = n \/ Appending # {}
              /\ piece' = PieceBehind(n)

\* The process dies or the machine loses power: memory is gone.
Crash ==
    /\ life # "down" /\ opens < MaxOpens
    /\ life' = "down"
    /\ CutLog
    /\ active' = EmptyTable /\ immutable' = EmptyTable
    /\ readers' = <<>> /\ handles' = {} /\ files' = {}
    /\ pc' = [c \in Clients |-> "idle"] /\ key' = [c \in Clients |-> AnyKey]
    /\ ent' = [c \in Clients |-> NoEntry] /\ pos' = [c \in Clients |-> 0]
    /\ todo' = [c \in Clients |-> <<>>] /\ seen' = [c \in Clients |-> {}]
    /\ fpc' = "done" /\ ffile' = 0 /\ serving' = "flush"
    /\ cpc' = "done" /\ cfile' = 0 /\ sel' = {} /\ mkeys' = {} /\ out' = EmptyTable
    /\ fresh' = <<>> /\ old' = {}
    /\ UNCHANGED <<synced, diskVars, nextFileID, chanVars, latest, acked, counters>>

\* t is what replayWAL leaves in an empty MemTable: for every key, the entry of
\* the last record about it.
IsReplay(t, w) ==
    \A k \in Keys :
        \/ t[k] = NoEntry /\ \A i \in DOMAIN w : w[i].key # k
        \/ \E i \in DOMAIN w :
              /\ w[i].key = k /\ t[k] = w[i].ent
              /\ \A j \in DOMAIN w : w[j].key = k => j <= i

\* The records that Replay delivers: it stops at the first part of one.
Replayed == IF piece < Len(wal) THEN SubSeq(wal, 1, piece) ELSE wal

\* Replay truncates the log where it stops, fsynced or not, except that a part of a
\* header at the very end stays.  (Exactly a header there fails Open: nothing
\* happens, see module WAL.)
TruncateLog ==
    /\ wal' = Replayed
    /\ synced' = IF Len(Replayed) < synced THEN Len(Replayed) ELSE synced
    /\ piece' \in {NoPiece} \cup (IF piece = Len(wal) THEN {piece} ELSE {})

\* The nextFileID that loadSSTables leaves after it opened the files s.
FirstIDAgain(s) == 1

IDAfter(s) == IF s = <<>> THEN 1 ELSE s[1] + 1

\* Open: loadSSTables skips the files that do not open, registers the others
\* newest first, and moves nextFileID past them; then the log is replayed and
\* the goroutines start.
Open ==
    /\ Ended /\ opens < MaxOpens
    /\ \A c \in Clients : pc[c] = "idle"
    /\ life' = "open" /\ opens' = opens + 1
    /\ \E s \in Descending(dir) :
          /\ readers' = [i \in DOMAIN s |-> [file |-> s[i], gen |-> 0]]
          /\ nextFileID' = IDAfter(s)
    /\ handles' = {[file |-> f, gen |-> 0] : f \in dir}
    /\ files' = dir
    /\ tab' = [f \in FileID |-> IF f \in dir THEN tab[f] ELSE EmptyTable]
    /\ TruncateLog
    /\ \E t \in Table : IsReplay(t, Replayed) /\ active' = t /\ latest' = t
    /\ immutable' = EmptyTable
    /\ flushChan' = 0 /\ compactChan' = 0
    /\ fpc' = "idle" /\ cpc' = "idle" /\ serving' = "flush"
    /\ UNCHANGED <<dir, torn, clientVars, ffile, cfile, sel, mkeys, out, fresh, old, seen,
                   acked, faults>>

-----------------------------------------------------------------------------
Next ==
    \/ \E c \in Writers : BeginWrite(c)
    \/ \E c \in Readers : BeginGet(c)
    \/ \E c \in Clients : ClientStep(c)
    \/ Flusher \/ Compactor \/ SyncTick \/ SyncTickError
    \/ BeginClose \/ Closer \/ Crash \/ Open

Spec == Init /\ [][Next]_vars

(***************************************************************************)
(* Every started call and every goroutine keeps running (the Go scheduler  *)
(* is fair to runnable goroutines and no lock here is held for ever), and  *)
(* the ticker of syncLoop keeps ticking until closeChan is closed; an      *)
(* fsync fails finitely often.                                             *)
(* Nothing makes a client start a call, call Close, or reopen.             *)
(***************************************************************************)
FairSpec ==
    /\ Spec
    /\ \A c \in Clients : WF_vars(ClientStep(c))
    /\ WF_vars(Flusher) /\ WF_vars(Compactor) /\ WF_vars(Closer)
    /\ WF_vars(SyncTick)
-----------------------------------------------------------------------------
(* Properties.                                                             *)

\* No call is running and both background loops wait for work.
Quiescent ==
    /\ life = "open" /\ fpc = "idle" /\ cpc = "idle"
    /\ \A c \in Clients : pc[c] = "idle"

\* What a lookup in the files of the directory, highest ID first, yields for k.
DiskView(k) ==
    LET S == {f \in dir : tab[f][k] # NoEntry}
    IN  IF S = {} THEN NoEntry ELSE tab[Max(S)][k]

\* What a Get that meets no concurrent step and every file would find.
StoreView(k) ==
    IF active[k] # NoEntry THEN active[k]
    ELSE IF immutable[k] # NoEntry THEN immutable[k] ELSE DiskView(k)

\* Every entry of t comes from one of the first n records of w.
LoggedIn(t, w, n) ==
    \A k \in Keys : t[k] = NoEntry \/ \E i \in 1..n : w[i] = [key |-> k, ent |-> t[k]]

\* Every entry of t comes from a record in the fsynced part of the log.
Logged(t) == LoggedIn(t, wal, synced)

\* No record has been appended behind part of another: Append does not take back
\* what a failed write left, nor Replay part of a header.
NothingBehindPiece == Len(wal) <= piece

(***************************************************************************)
(* SyncFull, storage honouring fsync, while NothingBehindPiece: nothing    *)
(* reaches a MemTable or an SSTable, by a write, a flush, a merge or a     *)
(* replay, that the fsynced log does not hold (Set and Delete append       *)
(* first; no flush shortens the log; replayWAL rebuilds every key the      *)
(* tables mention).                                                        *)
(***************************************************************************)
WriteAhead ==
    /\ Logged(active) /\ Logged(immutable)
    /\ \A f \in dir : Logged(tab[f])

(***************************************************************************)
(* SyncFull, while NothingBehindPiece: a write that returned nil stays in  *)
(* the fsynced log, through flushes, crashes, failed writes and fsyncs,    *)
(* and restarts that cut off the parts of records these leave.             *)
(***************************************************************************)
AckedDurable ==
    \A a \in acked : a.pos <= synced /\ wal[a.pos] = a.rec

(***************************************************************************)
(* An SSTable is never modified after creation, and leaves the directory   *)
(* only as an input of the compaction that replaced it: no ID handed out   *)
(* by nextSSTableID, before or after a restart, names a complete table.    *)
(***************************************************************************)
TablesImmutable ==
    [][\A f \in dir : \/ f \in dir' /\ tab'[f] = tab[f]
                      \/ cpc = "remove" /\ f \in sel]_vars

\* The inputs of a merge have lower IDs than its output and than the file of a
\* flush under way.  Nothing in the code enforces it: both IDs are taken before
\* RunOnce selects its inputs.
IDsInOrder ==
    cpc = "merge" => \A f \in sel :
        /\ f < cfile
        /\ fpc \in {"create", "finish", "install", "add"} => f < ffile

(***************************************************************************)
(* While IDs are in order, a file that is removed from the directory never *)
(* changes what lookups there see: when RunOnce removes an input, and      *)
(* wherever a crash stops it, the output or a newer file answers for every *)
(* key of that input, and no older file shows again.                       *)
(***************************************************************************)
SafeRemoval ==
    [][dir' \subseteq dir => \A k \in Keys : Visible(DiskView(k))' = Visible(DiskView(k))]_vars

(***************************************************************************)
(* Reader handles: the open ones are exactly those in db.readers, in       *)
(* reloadReaders' new list, and in its old list; none is both served and   *)
(* about to be closed.  So no reader leaks and none is served closed,      *)
(* however flushes, reloads and Close interleave.                          *)
(***************************************************************************)
HandlesOwned ==
    /\ handles = ToSet(readers) \cup ToSet(fresh) \cup old
    /\ ToSet(readers) \cap old = {}

(***************************************************************************)
(* The engine's file list names complete files of the directory only, so   *)
(* NeedsCompaction never counts, and merge never opens, a missing input.   *)
(***************************************************************************)
EngineOnDisk == files \subseteq dir

(***************************************************************************)
(* At rest, newest-first lookup finds the last applied write of every key. *)
(***************************************************************************)
NewestVisible ==
    Quiescent => \A k \in Keys : Visible(StoreView(k)) = Visible(latest[k])

\* At rest, every registered SSTable has a reader that Get will consult.
TablesReadable ==
    Quiescent => files \subseteq {h.file : h \in ToSet(readers)}

(***************************************************************************)
(* At rest, replaying the log would give every key the value it has now:   *)
(* a restart does not change what clients read.                            *)
(***************************************************************************)
ReplayAgrees == Quiescent => IsReplay(latest, Replayed)

(***************************************************************************)
(* A Set that finds the MemTable over its threshold gets it rotated, even  *)
(* if its token finds the channel full or flushLoop busy; only a flushLoop *)
(* that Close has already ended leaves it (and its write) in memory.       *)
(***************************************************************************)
FlushHappens ==
    (\E c \in Clients : pc[c] = "signal") ~> (ByteSize(active) < MemTableSize \/ fpc = "done")

(***************************************************************************)
(* Close returns: flushLoop and compactionLoop leave their loops whatever  *)
(* they were doing, and nobody waits for a lock for ever.                  *)
(***************************************************************************)
CloseReturns == life = "signal" ~> Ended

(***************************************************************************)
(* SyncBatched: every record is eventually fsynced, by a tick or by Close, *)
(* also one that is appended after syncLoop has left its loop or behind a  *)
(* tick that failed; unless Close returns the error of its own fsync.      *)
(***************************************************************************)
EventuallySynced ==
    \A n \in 1..MaxWrites : Len(wal) >= n ~> (synced >= n \/ life = "failed")
=============================================================================
