----------------------------- MODULE FileProofs -----------------------------
(***************************************************************************)
(* Theorems about the files of DB and the handles on them, on top of IDInv *)
(* of DBProofs: the engine lists only files that exist, every handle has   *)
(* exactly one owner, and the removal of the inputs of a compaction does   *)
(* not change what lookups find while IDs are in order.                    *)
(***************************************************************************)
EXTENDS DBProofs, Order

-----------------------------------------------------------------------------
(* The file list of the engine.                                            *)

\* Where the files that flushLoop and compactionLoop work on are: a finished
\* one in the directory, the inputs among the registered files until the
\* commit and outside them afterwards, no file in two roles.
FileInv ==
    /\ EngineOnDisk
    /\ fpc \in {"install", "add"} => ffile \in dir /\ ffile \notin files
    /\ cpc = "commit" => cfile \in dir /\ cfile \notin files
    /\ fpc \in {"install", "add"} /\ cpc = "commit" => ffile # cfile
    /\ cpc \in {"merge", "commit"} => sel \subseteq files
    /\ cpc = "remove" => sel \subseteq dir /\ sel \cap files = {}
    /\ fpc \in {"install", "add"} /\ cpc = "remove" => ffile \notin sel

LEMMA NextFileInv == ASSUME TInv, IDInv, FileInv, [Next]_vars PROVE FileInv'
<1> USE DEF flushVars, diskVars, memVars, compactVars, EngineOnDisk
<1>1. CASE UNCHANGED <<dir, files, fpc, ffile, cpc, cfile, sel>>
  BY <1>1 DEF FileInv
<1>2. ASSUME NEW c \in Clients,
             BeginWrite(c) \/ WalAppend(c) \/ WalAppendError(c) \/ Apply(c) \/ SignalFlush(c)
             \/ BeginGet(c) \/ GetMem(c) \/ GetCopy(c) \/ GetScan(c) \/ GetReturn(c)
      PROVE  FileInv'
  BY <1>1, <1>2 DEF BeginWrite, WalAppend, WalAppendError, Apply, SignalFlush, BeginGet,
                    GetMem, GetCopy, GetScan, GetReturn
<1>3. CASE FlushCheck
  BY <1>3 DEF FlushCheck, FlushReturn, FileInv
<1>4. CASE FlushCreate \/ FlushFinish
  BY <1>4 DEF FlushCreate, FlushFinish, IDInv, FileInv
<1>5. CASE FlushInstall \/ FlushAdd
  BY <1>5 DEF FlushInstall, FlushAdd, FileInv
<1>6. CASE FlushTake \/ FlushError \/ FlushClear \/ FlushSignal
  BY <1>6 DEF FlushTake, FlushError, FlushClear, FlushSignal, FlushReturn, FileInv
<1>7. CASE CompactTake \/ CompactCheck \/ CompactAlloc \/ CompactGlob \/ CompactSwap
           \/ CompactCloseOld \/ CompactError
  BY <1>7 DEF CompactTake, CompactCheck, CompactAlloc, CompactGlob, CompactSwap,
              CompactCloseOld, CompactError, FileInv
<1>8. CASE CompactSelect
  <2>1. PICK S \in SUBSET files :
          /\ sel' = S
          /\ \/ cpc' = "glob" /\ UNCHANGED dir
             \/ cpc' = "merge" /\ dir' = dir \ {cfile}
    BY <1>8 DEF CompactSelect
  <2>2. cfile \notin dir /\ UNCHANGED <<files, fpc, ffile>>
    BY <1>8 DEF CompactSelect, IDInv
  <2> QED BY <2>1, <2>2 DEF FileInv
<1>9. CASE CompactMerge
  BY <1>1, <1>9 DEF CompactMerge
<1>10. CASE CompactFinish
  BY <1>10 DEF CompactFinish, IDInv, FileInv
<1>11. CASE CompactCommit
  BY <1>11 DEF CompactCommit, Listed, FileInv
<1>12. CASE CompactRemove
  <2>1. PICK f \in sel : sel' = sel \ {f} /\ (dir' = dir \ {f} \/ UNCHANGED dir)
    BY <1>12 DEF CompactRemove
  <2>2. cpc = "remove" /\ cpc' \in {"glob", "remove"} /\ UNCHANGED <<files, fpc, ffile, cfile>>
    BY <1>12 DEF CompactRemove
  <2> QED BY <2>1, <2>2 DEF FileInv
<1>13. CASE SyncTick \/ SyncTickError \/ BeginClose \/ Closer \/ UNCHANGED vars
  BY <1>1, <1>13 DEF SyncTick, SyncTickError, BeginClose, Closer, CloseSignal, CloseWait, CloseReaders,
                     CloseWAL, vars
<1>14. CASE Crash
  BY <1>14 DEF Crash, FileInv
<1>15. CASE Open
  BY <1>15 DEF Open, FileInv
<1> QED BY <1>2, <1>3, <1>4, <1>5, <1>6, <1>7, <1>8, <1>9, <1>10, <1>11, <1>12, <1>13, <1>14,
           <1>15 DEF Next, ClientStep, Flusher, Compactor, Clients

LEMMA FileInvAlways == Spec => [](TInv /\ IDInv /\ FileInv)
<1>1. Init => IDInv /\ FileInv
  BY DEF Init, IDInv, FileInv, EngineOnDisk
<1>2. TInv /\ IDInv /\ FileInv /\ [Next]_vars => IDInv' /\ FileInv'
  BY NextIDInv, NextFileInv
<1> QED BY <1>1, <1>2, TInvAlways, PTL DEF Spec

(***************************************************************************)
(* The engine's file list names complete files of the directory only, in   *)
(* every order of flushes, compactions, failures, crashes and restarts.    *)
(***************************************************************************)
THEOREM EngineListsFiles == Spec => []EngineOnDisk
<1>1. FileInv => EngineOnDisk
  BY DEF FileInv
<1> QED BY <1>1, FileInvAlways, PTL

-----------------------------------------------------------------------------
(* File handles.                                                           *)

\* A handle is known by its file and by who opened it: flushLoop opens a file
\* that has no such handle yet, reloadReaders uses an ID that none has.
HandleInv ==
    /\ HandlesOwned
    /\ \A h \in handles : h.file <= nextFileID /\ h.gen <= nextFileID
    /\ cpc # "swap" => fresh = <<>>
    /\ cpc # "close" => old = {}
    /\ life \in {"drain", "wal", "down", "failed"} => cpc = "done"
    /\ fpc \in {"create", "finish", "install"} =>
          \A h \in handles : h.gen = 0 => h.file # ffile
    /\ cpc \in {"select", "merge", "commit", "remove", "glob"} =>
          cfile <= nextFileID /\ \A h \in handles : h.gen # cfile
    /\ cpc = "swap" =>
          /\ \A h \in ToSet(fresh) : h.gen = cfile
          /\ \A h \in ToSet(readers) : h.gen # cfile

LEMMA NoHandles == ToSet(<<>>) = {}
BY DEF ToSet

\* A list with one more handle in front.
LEMMA FrontHandle ==
    ASSUME NEW s \in Seq(Handle), NEW h \in Handle PROVE ToSet(<<h>> \o s) = {h} \cup ToSet(s)
<1>1. /\ DOMAIN (<<h>> \o s) = 1..(Len(s) + 1) /\ DOMAIN s = 1..Len(s) /\ Len(s) \in Nat
      /\ (<<h>> \o s)[1] = h
      /\ \A i \in 2..(Len(s) + 1) : (<<h>> \o s)[i] = s[i - 1]
  OBVIOUS
<1>2. ASSUME NEW x \in ToSet(<<h>> \o s) PROVE x \in {h} \cup ToSet(s)
  <2>1. PICK i \in 1..(Len(s) + 1) : x = (<<h>> \o s)[i]
    BY <1>1, <1>2 DEF ToSet
  <2>2. CASE i = 1
    BY <1>1, <2>1, <2>2
  <2>3. CASE i # 1
    <3>1. i \in 2..(Len(s) + 1) /\ i - 1 \in DOMAIN s
      BY <1>1, <2>1, <2>3
    <3> QED BY <1>1, <2>1, <3>1 DEF ToSet
  <2> QED BY <2>2, <2>3
<1>3. h \in ToSet(<<h>> \o s)
  <2>1. 1 \in DOMAIN (<<h>> \o s)
    BY <1>1
  <2> QED BY <1>1, <2>1 DEF ToSet
<1>4. ASSUME NEW x \in ToSet(s) PROVE x \in ToSet(<<h>> \o s)
  <2>1. PICK i \in 1..Len(s) : x = s[i]
    BY <1>1, <1>4 DEF ToSet
  <2>2. i + 1 \in 2..(Len(s) + 1) /\ (i + 1) - 1 = i
    BY <1>1
  <2>3. (<<h>> \o s)[i + 1] = x /\ i + 1 \in DOMAIN (<<h>> \o s)
    BY <1>1, <2>1, <2>2
  <2> QED BY <2>3 DEF ToSet
<1> QED BY <1>2, <1>3, <1>4

\* The handles of a listing are those of the files listed.
LEMMA ListedHandles ==
    ASSUME NEW S \in SUBSET FileID, NEW s \in Descending(S), NEW g
    PROVE  ToSet([i \in DOMAIN s |-> [file |-> s[i], gen |-> g]])
              = {[file |-> f, gen |-> g] : f \in S}
<1>1. s \in [1..Cardinality(S) -> S] /\ \A f \in S : \E i \in DOMAIN s : s[i] = f
  BY DescendingIs
<1>2. \A i \in DOMAIN s : s[i] \in S
  BY <1>1
<1> QED BY <1>1, <1>2 DEF ToSet

LEMMA NextHandleInv == ASSUME TInv, IDInv, FileInv, HandleInv, [Next]_vars PROVE HandleInv'
<1> USE DEF flushVars, diskVars, memVars, readerVars, compactVars
<1>0. /\ nextFileID \in Nat /\ ffile \in Nat /\ cfile \in Nat /\ dir \subseteq Nat
      /\ readers \in Seq(Handle) /\ fresh \in Seq(Handle)
      /\ \A h \in handles : h.file \in Nat /\ h.gen \in Nat
  BY DEF TInv, TypeOK, MemType, FlushType, CompactType, DiskType, ReaderType, FileID, Handle
<1>1. CASE UNCHANGED <<readers, handles, fresh, old, nextFileID, fpc, ffile, cpc, cfile, life>>
  BY <1>1 DEF HandleInv, HandlesOwned
<1>2. ASSUME NEW c \in Clients,
             BeginWrite(c) \/ WalAppend(c) \/ WalAppendError(c) \/ Apply(c) \/ SignalFlush(c)
             \/ BeginGet(c) \/ GetMem(c) \/ GetCopy(c) \/ GetScan(c) \/ GetReturn(c)
      PROVE  HandleInv'
  BY <1>1, <1>2 DEF BeginWrite, WalAppend, WalAppendError, Apply, SignalFlush, BeginGet,
                    GetMem, GetCopy, GetScan, GetReturn
\* The steps that leave the handles alone.
<1>3. ASSUME UNCHANGED <<readers, handles, fresh, old>>, nextFileID' \in Nat,
             nextFileID <= nextFileID',
             cpc' # cpc => cpc \notin {"swap", "close"} /\ cpc' \notin {"swap", "close"},
             life' \in {"drain", "wal", "down", "failed"} => cpc' = "done",
             fpc' \in {"create", "finish", "install"} =>
                \/ fpc \in {"create", "finish", "install"} /\ ffile' = ffile
                \/ ffile' = nextFileID + 1,
             cpc' \in {"select", "merge", "commit", "remove", "glob"} =>
                \/ cpc \in {"select", "merge", "commit", "remove", "glob"} /\ cfile' = cfile
                \/ cfile' = nextFileID + 1 /\ cfile' = nextFileID',
             cpc = "swap" => cfile' = cfile
      PROVE  HandleInv'
  BY <1>0, <1>3 DEF HandleInv, HandlesOwned
<1>4. CASE Flusher /\ ~FlushInstall
  BY <1>0, <1>3, <1>4 DEF Flusher, FlushTake, FlushCheck, FlushCreate, FlushFinish, FlushError,
        FlushAdd, FlushClear, FlushSignal, FlushReturn, HandleInv
<1>5. CASE FlushInstall
  <2> DEFINE h == [file |-> ffile, gen |-> 0]
  <2>1. ffile <= nextFileID /\ h \in Handle /\ h \notin handles
    <3>1. ffile \in dir /\ ffile \in FileID /\ 0 \in 0..MaxFileID
      BY <1>5, BoundsAssumption DEF FlushInstall, FileInv, TInv, TypeOK, DiskType
    <3>2. h.file = ffile /\ h.gen = 0 /\ h \in Handle
      BY <3>1 DEF Handle
    <3>3. \A x \in handles : x.gen = 0 => x.file # ffile
      BY <1>5 DEF FlushInstall, HandleInv
    <3> QED BY <3>1, <3>2, <3>3 DEF IDInv
  <2>2. ToSet(readers') = {h} \cup ToSet(readers) /\ handles' = handles \cup {h}
    BY <1>0, <1>5, <2>1, FrontHandle DEF FlushInstall, Prepend
  <2>3. UNCHANGED <<fresh, old, nextFileID, cpc, cfile, life>> /\ fpc' = "add"
    BY <1>5 DEF FlushInstall
  <2>4. HandlesOwned'
    BY <2>1, <2>2, <2>3 DEF HandleInv, HandlesOwned
  <2>5. h.file = ffile /\ h.gen = 0
    OBVIOUS
  <2>6. cpc = "swap" => h.gen # cfile
    BY <2>5 DEF TInv, LocalsOK, FileID
  <2>7. cpc \in {"select", "merge", "commit", "remove", "glob"} => h.gen # cfile
    BY <2>5 DEF TInv, LocalsOK, FileID
  <2> HIDE DEF h
  <2> QED BY <1>0, <2>1, <2>2, <2>3, <2>4, <2>5, <2>6, <2>7 DEF HandleInv
<1>6. CASE CompactTake \/ CompactCheck \/ CompactAlloc \/ CompactSelect \/ CompactMerge
           \/ CompactFinish \/ CompactError \/ CompactCommit \/ CompactRemove
  BY <1>0, <1>3, <1>6 DEF CompactTake, CompactCheck, CompactAlloc, CompactSelect, CompactMerge,
        CompactFinish, CompactError, CompactCommit, CompactRemove, HandleInv
<1>7. CASE CompactGlob
  <2>1. PICK s \in Descending(dir) :
          fresh' = [i \in DOMAIN s |-> [file |-> s[i], gen |-> cfile]]
    BY <1>7 DEF CompactGlob
  <2>2. ToSet(fresh') = {[file |-> f, gen |-> cfile] : f \in dir}
    BY <2>1, ListedHandles DEF TInv, TypeOK, DiskType
  <2>3. /\ cpc = "glob" /\ cpc' = "swap" /\ fresh = <<>> /\ old = {}
        /\ UNCHANGED <<readers, old, nextFileID, fpc, ffile, cfile, life>>
        /\ handles' = handles \cup ToSet(fresh')
    BY <1>7, <2>2 DEF CompactGlob, HandleInv
  <2>4. cfile \in FileID /\ cfile <= nextFileID /\ \A h \in handles : h.gen # cfile
    BY <2>3 DEF TInv, LocalsOK, HandleInv
  <2>5. \A h \in ToSet(fresh') : h.file \in dir /\ h.gen = cfile
    BY <2>2
  <2>6. ToSet(readers) \subseteq handles /\ handles = ToSet(readers)
    BY <2>3, NoHandles DEF HandleInv, HandlesOwned
  <2>7. HandlesOwned'
    BY <2>3, <2>6 DEF HandlesOwned
  <2>8. \A h \in handles' : h.file <= nextFileID /\ h.gen <= nextFileID
    BY <2>3, <2>4, <2>5 DEF HandleInv, IDInv
  <2>9. fpc \in {"create", "finish", "install"} => \A h \in handles' : h.gen = 0 => h.file # ffile
    BY <2>3, <2>4, <2>5 DEF HandleInv, FileID
  <2> QED BY <2>3, <2>4, <2>5, <2>6, <2>7, <2>8, <2>9 DEF HandleInv
<1>8. CASE CompactSwap
  <2>1. /\ cpc = "swap" /\ cpc' = "close" /\ old' = ToSet(readers) /\ readers' = fresh
        /\ fresh' = <<>> /\ old = {} /\ UNCHANGED <<handles, nextFileID, fpc, ffile, cfile, life>>
    BY <1>8 DEF CompactSwap, Replaced, HandleInv
  <2>2. HandlesOwned'
    BY <2>1, NoHandles DEF HandleInv, HandlesOwned
  <2> QED BY <2>1, <2>2 DEF HandleInv
<1>9. CASE CompactCloseOld
  <2>1. /\ cpc = "close" /\ cpc' = "idle" /\ handles' = handles \ old /\ old' = {} /\ fresh = <<>>
        /\ UNCHANGED <<readers, fresh, nextFileID, fpc, ffile, life>>
    BY <1>9 DEF CompactCloseOld, HandleInv
  <2>2. HandlesOwned'
    BY <2>1, NoHandles DEF HandleInv, HandlesOwned
  <2> QED BY <2>1, <2>2 DEF HandleInv
<1>10. CASE CloseReaders
  <2>1. /\ life = "drain" /\ life' = "wal" /\ handles' = handles \ ToSet(readers)
        /\ readers' = <<>> /\ cpc = "done"
        /\ UNCHANGED <<fresh, old, nextFileID, fpc, ffile, cpc, cfile>>
    BY <1>10 DEF CloseReaders, HandleInv
  <2>2. HandlesOwned'
    BY <2>1, NoHandles DEF HandleInv, HandlesOwned
  <2> QED BY <2>1, <2>2 DEF HandleInv
<1>11. CASE SyncTick \/ SyncTickError \/ BeginClose \/ CloseSignal \/ CloseWait \/ CloseWAL \/ UNCHANGED vars
  BY <1>0, <1>3, <1>11 DEF SyncTick, SyncTickError, BeginClose, CloseSignal, CloseWait, CloseWAL,
                    vars, HandleInv
<1>12. CASE Crash
  BY <1>12, NoHandles DEF Crash, HandleInv, HandlesOwned
<1>13. CASE Open
  <2>1. PICK s \in Descending(dir) :
          readers' = [i \in DOMAIN s |-> [file |-> s[i], gen |-> 0]]
    BY <1>13 DEF Open
  <2>2. handles' = {[file |-> f, gen |-> 0] : f \in dir} /\ ToSet(readers') = handles'
    BY <1>13, <2>1, ListedHandles DEF Open, TInv, TypeOK, DiskType
  <2>3. /\ fresh = <<>> /\ old = {} /\ UNCHANGED <<fresh, old, dir>> /\ fpc' = "idle"
        /\ cpc' = "idle" /\ life' = "open"
    BY <1>13 DEF Open, Ended, HandleInv
  <2>4. HandlesOwned'
    BY <2>2, <2>3, NoHandles DEF HandlesOwned
  <2>5. \A h \in handles' : h.file \in dir /\ h.gen = 0
    BY <2>2
  <2>6. \A f \in dir : f <= nextFileID'
    BY <2>3, NextIDInv DEF IDInv
  <2>7. nextFileID' \in Nat
    BY NextTInv DEF TInv, TypeOK, MemType
  <2> QED BY <2>3, <2>4, <2>5, <2>6, <2>7 DEF HandleInv
<1> QED BY <1>2, <1>4, <1>5, <1>6, <1>7, <1>8, <1>9, <1>10, <1>11, <1>12, <1>13
        DEF Next, ClientStep, Flusher, Compactor, Closer, Clients

(***************************************************************************)
(* Every open file handle is in db.readers, in the list reloadReaders is   *)
(* about to install or in the one it is about to close, and none is served *)
(* and about to be closed, in every order of flushes, reloads, Close and   *)
(* crashes: no handle leaks, and a Get that starts on db.readers finds all *)
(* of them open.                                                           *)
(***************************************************************************)
THEOREM HandlesAccounted == Spec => []HandlesOwned
<1>1. Init => HandleInv
  BY NoHandles DEF Init, HandleInv, HandlesOwned
<1>2. TInv /\ IDInv /\ FileInv /\ HandleInv /\ [Next]_vars => HandleInv'
  BY NextHandleInv
<1>3. HandleInv => HandlesOwned
  BY DEF HandleInv
<1> QED BY <1>1, <1>2, <1>3, FileInvAlways, PTL DEF Spec

-----------------------------------------------------------------------------
(* Removal of the inputs of a compaction.                                  *)

\* Among the tables T of the files S, the one that answers for k, if there is
\* one, does so with a tombstone.
Deleted(k, S, T) == \A f \in S : IsNewest(f, k, S, T) => T[f][k] = Tombstone

\* Everything in the directory D but the inputs S and the output o is newer than
\* the inputs.
Oldest(S, D, o) == \A f \in S, g \in D : g \in S \/ g = o \/ f < g

\* What a merge of the keys K into the table t leaves out of the inputs S:
\* deleted keys only, and those only when no older file is left that could show.
Covers(t, K, S, T, D, o) ==
    \A k \in K : (\E f \in S : T[f][k] # NoEntry) =>
        \/ t[k] # NoEntry
        \/ Deleted(k, S, T) /\ Oldest(S, D, o)

\* The directory holds the registered files, the file of a flush under way, and
\* what a compaction has not registered or removed yet, nothing else.
NoOrphan ==
    life # "down" => \A f \in dir :
        \/ f \in files
        \/ f = ffile /\ fpc \in {"install", "add"}
        \/ f = cfile /\ cpc = "commit"
        \/ f \in sel /\ cpc = "remove"

\* The inputs are older than the output and than a file still to come.
InputsOlder ==
    cpc \in {"commit", "remove"} => \A f \in sel :
        f < cfile /\ (fpc \in {"create", "finish"} => f < ffile)

RemovalInv ==
    /\ NoOrphan
    /\ InputsOlder
    /\ cpc = "remove" => cfile \in files
    /\ cpc = "merge" => Covers(out, Keys \ mkeys, sel, tab, dir, cfile)
    /\ cpc \in {"commit", "remove"} => Covers(tab[cfile], Keys, sel, tab, dir, cfile)

\* Files that come may only be the output or newer ones.
LEMMA CoversKept ==
    ASSUME NEW t, NEW K, NEW S, NEW T, NEW T2, NEW D, NEW D2, NEW o,
           Covers(t, K, S, T, D, o), \A f \in S : T2[f] = T[f],
           \A f \in S, g \in D2 : g \in D \/ g = o \/ f < g
    PROVE  Covers(t, K, S, T2, D2, o)
<1>1. Oldest(S, D, o) => Oldest(S, D2, o)
  BY DEF Oldest
<1>2. ASSUME NEW k \in K, Deleted(k, S, T) PROVE Deleted(k, S, T2)
  BY <1>2 DEF Deleted, IsNewest
<1>3. ASSUME NEW k \in K, NEW f \in S, T2[f][k] # NoEntry
      PROVE  t[k] # NoEntry \/ (Deleted(k, S, T2) /\ Oldest(S, D2, o))
  <2>1. T[f][k] # NoEntry
    BY <1>3
  <2> QED BY <1>1, <1>2, <1>3, <2>1 DEF Covers
<1> QED BY <1>3 DEF Covers

\* An input that is not newer than the others may go.
LEMMA CoversRemoved ==
    ASSUME NEW t, NEW K, NEW S \in SUBSET Nat, NEW T, NEW D, NEW o, NEW x \in S,
           Covers(t, K, S, T, D, o), \A g \in S : x <= g
    PROVE  Covers(t, K, S \ {x}, T, D \ {x}, o)
<1>1. Oldest(S, D, o) => Oldest(S \ {x}, D \ {x}, o)
  BY DEF Oldest
<1>2. ASSUME NEW k \in K, Deleted(k, S, T) PROVE Deleted(k, S \ {x}, T)
  <2>1. ASSUME NEW f \in S \ {x}, IsNewest(f, k, S \ {x}, T) PROVE IsNewest(f, k, S, T)
    BY <2>1 DEF IsNewest
  <2> QED BY <1>2, <2>1 DEF Deleted
<1> QED BY <1>1, <1>2 DEF Covers

LEMMA NextRemovalInv ==
    ASSUME "flush" \notin Failing, "remove" \notin Failing, "stat" \notin Failing,
           TInv, IDInv, FileInv, HandleInv, RemovalInv, IDsInOrder, [Next]_vars
    PROVE  RemovalInv'
<1> USE DEF flushVars, diskVars, memVars, compactVars
<1>0. /\ nextFileID \in Nat /\ ffile \in Nat /\ cfile \in Nat /\ dir \subseteq Nat
      /\ sel \subseteq Nat /\ dir \subseteq FileID /\ tab \in [FileID -> Table]
      /\ out \in Table /\ mkeys \subseteq Keys
      /\ cpc \in {"merge", "commit", "remove"} => sel \subseteq dir
  BY DEF TInv, TypeOK, MemType, FlushType, CompactType, DiskType, FileID, FileInv, EngineOnDisk
<1>1. CASE UNCHANGED <<dir, tab, files, fpc, ffile, cpc, cfile, sel, mkeys, out, life>>
  BY <1>1 DEF RemovalInv, NoOrphan, InputsOlder
<1>2. ASSUME NEW c \in Clients,
             BeginWrite(c) \/ WalAppend(c) \/ WalAppendError(c) \/ Apply(c) \/ SignalFlush(c)
             \/ BeginGet(c) \/ GetMem(c) \/ GetCopy(c) \/ GetScan(c) \/ GetReturn(c)
      PROVE  RemovalInv'
  BY <1>1, <1>2 DEF BeginWrite, WalAppend, WalAppendError, Apply, SignalFlush, BeginGet,
                    GetMem, GetCopy, GetScan, GetReturn
\* The steps of flushLoop that write no file.
<1>3. CASE FlushTake \/ FlushCheck \/ FlushInstall \/ FlushAdd \/ FlushClear \/ FlushSignal
  <2>1. /\ UNCHANGED <<dir, tab, cpc, cfile, sel, mkeys, out, life>>
        /\ files \subseteq files'
    BY <1>3 DEF FlushTake, FlushCheck, FlushInstall, FlushAdd, FlushClear, FlushSignal
  <2>2. NoOrphan'
    BY <1>3, <2>1 DEF FlushTake, FlushCheck, FlushInstall, FlushAdd, FlushClear, FlushSignal,
                      FlushReturn, RemovalInv, NoOrphan
  <2>3. InputsOlder'
    <3>1. \/ fpc' \notin {"create", "finish"}
          \/ ffile' = nextFileID + 1
      BY <1>3 DEF FlushTake, FlushCheck, FlushInstall, FlushAdd, FlushClear, FlushSignal,
                  FlushReturn
    <3>2. cpc \in {"commit", "remove"} => \A f \in sel : f \in Nat /\ f <= nextFileID
      BY <1>0 DEF IDInv
    <3> QED BY <1>0, <2>1, <3>1, <3>2 DEF RemovalInv, InputsOlder
  <2> QED BY <2>1, <2>2, <2>3 DEF RemovalInv
<1>4. CASE FlushError
  BY <1>4 DEF FlushError, Fault
<1>5. CASE FlushCreate
  <2>1. dir' = dir
    BY <1>5 DEF FlushCreate, IDInv
  <2> QED BY <1>5, <2>1 DEF FlushCreate, RemovalInv, NoOrphan, InputsOlder
<1>6. CASE FlushFinish
  <2>1. /\ ffile \notin dir /\ ffile \in FileID /\ dir' = dir \cup {ffile} /\ fpc' = "install"
        /\ \A f \in dir : tab'[f] = tab[f]
        /\ UNCHANGED <<files, ffile, cpc, cfile, sel, mkeys, out, life>>
    BY <1>0, <1>6 DEF FlushFinish, IDInv, TInv, LocalsOK
  <2>2. cpc \in {"merge", "commit", "remove"} => \A f \in sel : f < ffile /\ tab'[f] = tab[f]
    BY <1>0, <1>6, <2>1 DEF FlushFinish, IDsInOrder, RemovalInv, InputsOlder
  <2>3. NoOrphan' /\ InputsOlder'
    BY <2>1 DEF RemovalInv, NoOrphan, InputsOlder
  <2>4. cpc = "merge" => Covers(out, Keys \ mkeys, sel, tab', dir', cfile)
    BY <2>1, <2>2, CoversKept DEF RemovalInv
  <2>5. cpc \in {"commit", "remove"} => Covers(tab[cfile], Keys, sel, tab', dir', cfile)
    BY <2>1, <2>2, CoversKept DEF RemovalInv
  <2>6. cpc \in {"commit", "remove"} => tab'[cfile] = tab[cfile]
    BY <2>1 DEF FileInv, EngineOnDisk, RemovalInv
  <2> QED BY <2>1, <2>3, <2>4, <2>5, <2>6 DEF RemovalInv
<1>7. CASE CompactTake \/ CompactCheck \/ CompactAlloc \/ CompactError \/ CompactGlob
           \/ CompactSwap \/ CompactCloseOld
  BY <1>7 DEF CompactTake, CompactCheck, CompactAlloc, CompactError, Fault, CompactGlob, CompactSwap,
              CompactCloseOld, RemovalInv, NoOrphan, InputsOlder
<1>8. CASE CompactSelect
  <2>1. PICK S \in SUBSET files :
          /\ sel' = S /\ mkeys' = UNION {KeysOf(tab[f]) : f \in S}
          /\ \/ cpc' = "glob" /\ UNCHANGED dir
             \/ cpc' = "merge" /\ dir' = dir \ {cfile}
    BY <1>8 DEF CompactSelect
  <2>2. cpc = "select" /\ dir' = dir /\ UNCHANGED <<tab, files, fpc, ffile, cfile, out, life>>
    BY <1>8, <2>1 DEF CompactSelect, IDInv
  <2>3. \A k \in Keys \ mkeys' : \A f \in sel' : tab[f][k] = NoEntry
    BY <2>1 DEF KeysOf
  <2>4. Covers(out, Keys \ mkeys', sel', tab, dir', cfile)
    BY <2>3 DEF Covers
  <2> QED BY <2>1, <2>2, <2>4 DEF RemovalInv, NoOrphan, InputsOlder
<1>9. CASE CompactMerge
  <2>1. PICK k \in mkeys, f \in sel :
          /\ IsNewest(f, k, sel, tab) /\ mkeys' = mkeys \ {k}
          /\ out' = IF DropTombstone(tab[f][k]) THEN out ELSE [out EXCEPT ![k] = tab[f][k]]
    BY <1>9 DEF CompactMerge
  <2>2. cpc = "merge" /\ UNCHANGED <<dir, tab, files, fpc, ffile, cpc, cfile, sel, life>>
    BY <1>9 DEF CompactMerge
  <2>3. k \in Keys /\ f \in Nat /\ tab[f][k] # NoEntry
    BY <1>0, <2>1 DEF IsNewest
  <2>4. \A j \in Keys \ {k} : out'[j] = out[j]
    BY <1>0, <2>1, <2>3 DEF Table
  \* Only a deleted key is dropped, and only when all other files are newer.
  <2>5. out'[k] # NoEntry \/ (Deleted(k, sel, tab) /\ Oldest(sel, dir, cfile))
    <3>1. CASE ~DropTombstone(tab[f][k])
      BY <1>0, <2>1, <2>3, <3>1 DEF Table
    <3>2. CASE DropTombstone(tab[f][k])
      <4>1. Deleted(k, sel, tab)
        <5>1. ASSUME NEW g \in sel, IsNewest(g, k, sel, tab) PROVE g = f
          BY <1>0, <2>1, <5>1 DEF IsNewest
        <5> QED BY <3>2, <5>1 DEF Deleted, DropTombstone
      <4>2. sel = files
        <5>1. IsFiniteSet(files)
          <6>1. IsFiniteSet(FileID)
            BY FS_Interval, BoundsAssumption DEF FileID
          <6>2. files \in SUBSET FileID
            BY DEF TInv, TypeOK, ReaderType
          <6> QED BY <6>1, <6>2, FS_Subset
        <5>2. sel \in SUBSET files /\ Cardinality(sel) = Cardinality(files)
          BY <2>2, <3>2 DEF DropTombstone, FileInv
        <5> QED BY <5>1, <5>2, FS_Subset
      <4>3. \A g \in dir : g \in sel \/ (g = ffile /\ fpc \in {"install", "add"})
        BY <2>2, <4>2 DEF RemovalInv, NoOrphan, HandleInv
      <4>4. Oldest(sel, dir, cfile)
        BY <2>2, <4>3 DEF Oldest, IDsInOrder
      <4> QED BY <4>1, <4>4
    <3> QED BY <3>1, <3>2
  <2>6. Covers(out', Keys \ mkeys', sel, tab, dir, cfile)
    <3>1. ASSUME NEW j \in Keys \ mkeys', \E g \in sel : tab[g][j] # NoEntry
          PROVE  out'[j] # NoEntry \/ (Deleted(j, sel, tab) /\ Oldest(sel, dir, cfile))
      <4>1. CASE j = k
        BY <2>5, <4>1
      <4>2. CASE j # k
        <5>1. j \in Keys \ mkeys /\ out'[j] = out[j]
          BY <2>1, <2>4, <3>1, <4>2
        <5> QED BY <2>2, <3>1, <5>1 DEF RemovalInv, Covers
      <4> QED BY <4>1, <4>2
    <3> QED BY <3>1 DEF Covers
  <2> QED BY <2>2, <2>6 DEF RemovalInv, NoOrphan, InputsOlder
<1>10. CASE CompactFinish
  <2>1. /\ cpc = "merge" /\ mkeys = {} /\ cpc' = "commit" /\ dir' = dir \cup {cfile}
        /\ cfile \in FileID /\ cfile \notin dir /\ tab'[cfile] = out
        /\ \A f \in dir : tab'[f] = tab[f]
        /\ UNCHANGED <<files, fpc, ffile, cfile, sel, life>>
    BY <1>0, <1>10 DEF CompactFinish, IDInv, TInv, LocalsOK
  <2>2. NoOrphan' /\ InputsOlder'
    BY <2>1 DEF RemovalInv, NoOrphan, InputsOlder, IDsInOrder
  <2>3. Covers(out, Keys, sel, tab, dir, cfile)
    <3>1. Keys \ mkeys = Keys
      BY <2>1
    <3> QED BY <2>1, <3>1 DEF RemovalInv
  <2>4. Covers(out, Keys, sel, tab', dir', cfile)
    <3>1. \A f \in sel : tab'[f] = tab[f]
      BY <1>0, <2>1
    <3> QED BY <2>1, <2>3, <3>1, CoversKept
  <2> QED BY <2>1, <2>2, <2>4 DEF RemovalInv
<1>11. CASE CompactCommit
  BY <1>11 DEF CompactCommit, Listed, RemovalInv, NoOrphan, InputsOlder
<1>12. CASE CompactRemove
  <2>1. PICK f \in sel : OldestFirst(f) /\ sel' = sel \ {f} /\ dir' = dir \ {f}
    BY <1>12 DEF CompactRemove, Fault
  <2>2. /\ cpc = "remove" /\ cpc' \in {"glob", "remove"} /\ (cpc' = "glob" => sel' = {})
        /\ UNCHANGED <<tab, files, fpc, ffile, cfile, life>>
    BY <1>12 DEF CompactRemove
  <2>3. NoOrphan' /\ InputsOlder'
    BY <2>1, <2>2 DEF RemovalInv, NoOrphan, InputsOlder
  <2>4. Covers(tab[cfile], Keys, sel, tab, dir, cfile) /\ \A g \in sel : f <= g
    BY <2>1, <2>2 DEF RemovalInv, OldestFirst
  <2>5. Covers(tab[cfile], Keys, sel', tab, dir', cfile)
    <3>1. sel \in SUBSET Nat
      BY <1>0
    <3> QED BY <2>1, <2>4, <3>1, CoversRemoved
  <2> QED BY <2>2, <2>3, <2>5 DEF RemovalInv
<1>13. CASE SyncTick \/ SyncTickError \/ BeginClose \/ Closer \/ UNCHANGED vars
  <2>1. /\ UNCHANGED <<dir, tab, files, fpc, ffile, cpc, cfile, sel, mkeys, out>>
        /\ life = "down" => life' = "down"
    BY <1>13 DEF SyncTick, SyncTickError, BeginClose, Closer, CloseSignal, CloseWait, CloseReaders,
                 CloseWAL,
                 vars
  <2> QED BY <2>1 DEF RemovalInv, NoOrphan, InputsOlder
<1>14. CASE Crash
  BY <1>14 DEF Crash, RemovalInv, NoOrphan, InputsOlder
<1>15. CASE Open
  BY <1>15 DEF Open, RemovalInv, NoOrphan, InputsOlder
<1> QED BY <1>2, <1>3, <1>4, <1>5, <1>6, <1>7, <1>8, <1>9, <1>10, <1>11, <1>12, <1>13, <1>14,
           <1>15 DEF Next, ClientStep, Flusher, Compactor, Clients

\* A lookup in the files S of the directory, highest ID first.
LEMMA NewestAnswers ==
    ASSUME NEW S \in SUBSET FileID, S # {} PROVE Max(S) \in S /\ \A f \in S : f <= Max(S)
<1>1. S \in SUBSET Nat /\ MaxFileID \in Nat /\ \A f \in S : f <= MaxFileID
  BY BoundsAssumption DEF FileID
<1> QED BY <1>1, GreatestElement

\* The file that CompactRemove removes is not missed.
LEMMA InputNotMissed ==
    ASSUME "remove" \notin Failing, TInv, FileInv, RemovalInv, CompactRemove, NEW k \in Keys
    PROVE  Visible(DiskView(k))' = Visible(DiskView(k))
<1> DEFINE Has(D) == {f \in D : tab[f][k] # NoEntry}
           View(S) == IF S = {} THEN NoEntry ELSE tab[Max(S)][k]
<1>0. dir \subseteq FileID /\ sel \subseteq dir /\ cpc = "remove" /\ UNCHANGED tab
      /\ cfile \in dir
  BY DEF TInv, TypeOK, DiskType, CompactRemove, FileInv, EngineOnDisk, RemovalInv
<1>1. PICK x \in sel : OldestFirst(x) /\ dir' = dir \ {x}
  BY DEF CompactRemove, Fault
<1>2. DiskView(k) = View(Has(dir)) /\ DiskView(k)' = View(Has(dir) \ {x})
  <2>1. Has(dir') = Has(dir) \ {x}
    BY <1>1
  <2>2. DiskView(k)' = View(Has(dir'))
    BY <1>0 DEF DiskView
  <2> QED BY <2>1, <2>2 DEF DiskView
<1> DEFINE S == Has(dir)
<1>S. Visible(DiskView(k)) = Visible(View(S)) /\ Visible(DiskView(k))' = Visible(View(S \ {x}))
  BY <1>2 DEF Visible
<1>3. S \subseteq FileID /\ \A f \in S : f \in Nat /\ f \in dir /\ tab[f][k] # NoEntry
  <2>1. S \subseteq dir /\ \A f \in S : tab[f][k] # NoEntry
    OBVIOUS
  <2>2. \A f \in FileID : f \in Nat
    BY DEF FileID
  <2> HIDE DEF S
  <2> QED BY <1>0, <2>1, <2>2
<1>4. CASE x \notin S
  <2>1. S \ {x} = S
    BY <1>4
  <2> HIDE DEF S, View
  <2> QED BY <1>S, <2>1
<1>5. CASE x \in S /\ \E f \in S : x < f
  <2>1. /\ Max(S) \in S /\ \A f \in S : f <= Max(S)
        /\ Max(S \ {x}) \in S \ {x} /\ \A f \in S \ {x} : f <= Max(S \ {x})
    <3> HIDE DEF S
    <3>1. S # {} /\ S \ {x} # {} /\ S \in SUBSET FileID /\ S \ {x} \in SUBSET FileID
      BY <1>3, <1>5
    <3> QED BY <3>1, NewestAnswers
  <2>2. Max(S) = Max(S \ {x})
    <3> HIDE DEF S
    <3> QED BY <1>3, <1>5, <2>1
  <2>3. View(S) = View(S \ {x})
    <3> HIDE DEF S
    <3> QED BY <1>5, <2>1, <2>2
  <2> HIDE DEF S, View
  <2> QED BY <1>S, <2>3
<1>6. CASE x \in S /\ \A f \in S : ~ (x < f)
  <2>1. tab[cfile][k] = NoEntry
    BY <1>0, <1>1, <1>6 DEF RemovalInv, InputsOlder
  <2>2. Deleted(k, sel, tab) /\ Oldest(sel, dir, cfile)
    BY <1>0, <1>1, <1>3, <1>6, <2>1 DEF RemovalInv, Covers
  <2>3. tab[x][k] = Tombstone
    <3>1. IsNewest(x, k, sel, tab)
      BY <1>0, <1>1, <1>3, <1>6 DEF IsNewest
    <3> QED BY <1>1, <2>2, <3>1 DEF Deleted
  <2>4. S \ {x} = {}
    <3> SUFFICES ASSUME NEW g \in S, g # x PROVE FALSE
      OBVIOUS
    <3>1. g < x /\ g \in dir /\ g # cfile
      BY <1>0, <1>3, <1>6, <2>1
    <3>2. g \notin sel
      BY <1>0, <1>1, <1>3, <3>1 DEF OldestFirst, FileID
    <3> QED BY <1>0, <1>1, <1>3, <2>2, <3>1, <3>2 DEF Oldest, FileID
  <2>5. Max(S) = x
    <3> HIDE DEF S
    <3>1. S # {} /\ S \in SUBSET FileID
      BY <1>3, <1>6
    <3> QED BY <1>3, <1>6, <3>1, NewestAnswers
  <2>6. View(S) = Tombstone /\ View(S \ {x}) = NoEntry
    <3> HIDE DEF S
    <3> QED BY <1>6, <2>3, <2>4, <2>5
  <2> HIDE DEF S, View
  <2> QED BY <1>S, <2>6 DEF Visible
<1> QED BY <1>4, <1>5, <1>6

(***************************************************************************)
(* While the inputs of every merge have lower IDs than its output and than *)
(* the flush under way, and no flush, no removal and no merge with its     *)
(* output complete fails, no step that takes a file from the directory     *)
(* changes what lookups there see: not the removal of any input, and so    *)
(* not a crash between two of them.                                        *)
(***************************************************************************)
THEOREM InputsRemovedSafely ==
    ASSUME "flush" \notin Failing, "remove" \notin Failing, "stat" \notin Failing
    PROVE  Spec /\ []IDsInOrder => SafeRemoval
<1> DEFINE Unseen == dir' \subseteq dir =>
                        \A k \in Keys : Visible(DiskView(k))' = Visible(DiskView(k))
<1>1. ASSUME TInv, IDInv, FileInv, RemovalInv, [Next]_vars PROVE Unseen
  <2>1. CASE CompactRemove
    BY <1>1, <2>1, InputNotMissed
  <2>2. CASE \A f \in dir : f \in dir' /\ tab'[f] = tab[f]
    <3> SUFFICES ASSUME dir' \subseteq dir, NEW k \in Keys PROVE DiskView(k)' = DiskView(k)
      BY DEF Visible
    <3>1. dir' = dir /\ {f \in dir' : tab'[f][k] # NoEntry} = {f \in dir : tab[f][k] # NoEntry}
      BY <2>2
    <3>2. ASSUME {f \in dir : tab[f][k] # NoEntry} # {}
          PROVE  Max({f \in dir : tab[f][k] # NoEntry}) \in dir
      <4>1. {f \in dir : tab[f][k] # NoEntry} \in SUBSET FileID
        BY <1>1 DEF TInv, TypeOK, DiskType
      <4> QED BY <3>2, <4>1, NewestAnswers
    <3> QED BY <2>2, <3>1, <3>2 DEF DiskView
  <2> QED BY <1>1, <2>1, <2>2, FilesKept
<1>2. Init => IDInv /\ FileInv /\ HandleInv /\ RemovalInv
  BY NoHandles DEF Init, IDInv, FileInv, EngineOnDisk, HandleInv, HandlesOwned, RemovalInv,
                   NoOrphan, InputsOlder
<1>3. TInv /\ IDInv /\ FileInv /\ HandleInv /\ RemovalInv /\ IDsInOrder /\ [Next]_vars
        => IDInv' /\ FileInv' /\ HandleInv' /\ RemovalInv'
  BY NextIDInv, NextFileInv, NextHandleInv, NextRemovalInv
<1>4. TInv /\ IDInv /\ FileInv /\ RemovalInv /\ [Next]_vars => [Unseen]_vars
  BY <1>1
<1> QED BY <1>2, <1>3, <1>4, TInvAlways, PTL DEF Spec, SafeRemoval
=============================================================================
