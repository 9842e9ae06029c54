-------------------------- MODULE RefinementProofs --------------------------
(***************************************************************************)
(* The proof that DB implements KeyValue, for any number of clients,       *)
(* flushes, compactions, crashes and restarts, while StepsInOrder.         *)
(***************************************************************************)
EXTENDS StoreProofs

-----------------------------------------------------------------------------
(* File IDs and open readers.                                              *)

\* The file that a flush or a merge is writing is not open, and a flush writes a
\* newer file than all that are open.
FreshIDs ==
    /\ cpc = "merge" => sel # {}
    /\ fpc \in {"create", "finish"} => \A h \in handles : h.file < ffile
    /\ fpc = "install" => (\A h \in handles : h.file <= ffile) /\ (\A f \in dir : f <= ffile)
    /\ cpc \in {"select", "merge"} => \A h \in handles : h.file # cfile

LEMMA NextFreshIDs ==
    ASSUME TInv, IDInv, FileInv, HandleInv, FreshIDs, FilesInOrder, [Next]_vars PROVE FreshIDs'
<1> USE DEF flushVars, compactVars, readerVars, diskVars
<1>0. /\ dir \in SUBSET FileID /\ handles \in SUBSET Handle
      /\ nextFileID \in Nat /\ ffile \in Nat /\ cfile \in Nat
      /\ (\A h \in handles : h.file \in Nat) /\ FileID \subseteq Nat
  BY DEF TInv, TypeOK, DiskType, ReaderType, MemType, FlushType, CompactType, Handle, FileID
<1>1. CASE /\ UNCHANGED <<fpc, ffile, cpc, sel, cfile>>
           /\ handles' \subseteq handles /\ dir' \subseteq dir
  BY <1>1 DEF FreshIDs
<1>2. ASSUME NEW c \in Clients, BeginWrite(c) \/ BeginGet(c) \/ ClientStep(c) PROVE FreshIDs'
  BY <1>1, <1>2 DEF BeginWrite, ClientStep, WalAppend, WalAppendError, Apply, SignalFlush, BeginGet,
                    GetMem, GetCopy, GetScan, GetReturn
<1>3. CASE FlushTake \/ FlushError \/ FlushAdd \/ FlushClear \/ FlushSignal
  BY <1>3 DEF FlushTake, FlushError, FlushAdd, FlushClear, FlushSignal, FlushReturn, FreshIDs
<1>4. CASE FlushCheck
  <2>1. CASE fpc' = "create"
    <3>1. ffile' = nextFileID + 1 /\ UNCHANGED <<handles, cpc, sel, cfile>>
      BY <1>4, <2>1 DEF FlushCheck, FlushReturn
    <3>2. \A h \in handles : h.file < ffile'
      BY <1>0, <3>1 DEF HandleInv
    <3> QED BY <2>1, <3>1, <3>2 DEF FreshIDs
  <2>2. CASE fpc' # "create"
    BY <1>4, <2>2 DEF FlushCheck, FlushReturn, FreshIDs
  <2> QED BY <2>1, <2>2
<1>5. CASE FlushCreate
  BY <1>5 DEF FlushCreate, FreshIDs
<1>6. CASE FlushFinish
  <2>1. /\ fpc = "finish" /\ fpc' = "install" /\ UNCHANGED <<ffile, cpc, sel, cfile, handles>>
        /\ dir' = dir \cup {ffile} /\ \A f \in dir : f < ffile
    BY <1>6 DEF FlushFinish, FilesInOrder
  <2>2. \A f \in dir' : f <= ffile
    BY <1>0, <2>1
  <2>3. \A h \in handles : h.file <= ffile
    BY <1>0, <2>1 DEF FreshIDs
  <2> QED BY <2>1, <2>2, <2>3 DEF FreshIDs
<1>7. CASE FlushInstall
  <2>1. /\ fpc = "install" /\ fpc' = "add" /\ UNCHANGED <<cpc, sel, cfile>>
        /\ handles' = handles \cup {[file |-> ffile, gen |-> 0]}
    BY <1>7 DEF FlushInstall
  <2>2. cpc \in {"select", "merge"} => ffile # cfile
    BY <2>1 DEF IDInv, FileInv
  <2> QED BY <2>1, <2>2 DEF FreshIDs
<1>8. CASE CompactAlloc
  <2>1. cfile' = nextFileID + 1 /\ cpc' = "select" /\ UNCHANGED <<fpc, ffile, handles, dir>>
    BY <1>8 DEF CompactAlloc
  <2>2. \A h \in handles : h.file # cfile'
    BY <1>0, <2>1 DEF HandleInv
  <2> QED BY <2>1, <2>2 DEF FreshIDs
<1>9. CASE CompactSelect
  BY <1>9 DEF CompactSelect, FreshIDs
<1>10. CASE CompactFinish
  <2>1. /\ cpc = "merge" /\ cpc' = "commit" /\ dir' = dir \cup {cfile}
        /\ UNCHANGED <<fpc, ffile, handles, sel>>
    BY <1>10 DEF CompactFinish
  <2>2. ASSUME fpc = "install" PROVE cfile <= ffile
    <3>1. PICK f \in sel : f \in FileID
      BY <2>1 DEF FreshIDs, TInv, TypeOK, CompactType
    <3>2. ffile \in dir /\ ffile \notin sel
      BY <2>1, <2>2 DEF FileInv
    <3>3. f < ffile /\ (ffile < f \/ cfile < ffile)
      BY <2>1, <2>2, <3>1, <3>2 DEF FilesInOrder, IDsInOrder
    <3> QED BY <1>0, <3>1, <3>3
  <2> QED BY <2>1, <2>2 DEF FreshIDs
<1>11. CASE CompactGlob
  <2>1. /\ cpc' = "swap" /\ UNCHANGED <<fpc, ffile, dir>>
        /\ handles' = handles \cup {[file |-> f, gen |-> cfile] : f \in dir}
    BY <1>11 DEF CompactGlob
  <2>2. \A h \in handles' : h \in handles \/ h.file \in dir
    BY <2>1
  <2> QED BY <2>1, <2>2 DEF FreshIDs, FilesInOrder
<1>12. CASE CompactTake \/ CompactCheck \/ CompactMerge \/ CompactError \/ CompactCommit
            \/ CompactRemove \/ CompactSwap \/ CompactCloseOld
  BY <1>12 DEF CompactTake, CompactCheck, CompactMerge, CompactError, CompactCommit, CompactRemove,
               CompactSwap, CompactCloseOld, FreshIDs
<1>13. CASE SyncTick \/ SyncTickError \/ BeginClose \/ Closer \/ UNCHANGED vars
  BY <1>1, <1>13 DEF SyncTick, SyncTickError, BeginClose, Closer, CloseSignal, CloseWait,
                    CloseReaders, CloseWAL, vars
<1>14. CASE Crash \/ Open
  BY <1>14 DEF Crash, Open, FreshIDs
<1> QED BY <1>2, <1>3, <1>4, <1>5, <1>6, <1>7, <1>8, <1>9, <1>10, <1>11, <1>12, <1>13, <1>14
        DEF Next, Flusher, Compactor, Clients

\* An open file keeps its contents.
LEMMA OpenTablesStay ==
    ASSUME TInv, FreshIDs, [Next]_vars, ~Open, NEW h \in handles
    PROVE  tab'[h.file] = tab[h.file]
<1> USE DEF diskVars
<1>0. /\ tab \in [FileID -> Table] /\ h.file \in FileID /\ FileID \subseteq Nat /\ ffile \in Nat
  BY DEF TInv, TypeOK, DiskType, ReaderType, FlushType, Handle, FileID
<1>1. CASE FlushFinish
  <2>1. tab' = [tab EXCEPT ![ffile] = FlushTable] /\ h.file < ffile
    BY <1>1 DEF FlushFinish, FreshIDs
  <2> QED BY <1>0, <2>1
<1>2. CASE CompactFinish
  <2>1. tab' = [tab EXCEPT ![cfile] = out] /\ h.file # cfile
    BY <1>2 DEF CompactFinish, FreshIDs
  <2> QED BY <1>0, <2>1
<1>3. CASE ~FlushFinish /\ ~CompactFinish
  <2>1. CASE Flusher \/ Compactor \/ SyncTick \/ SyncTickError \/ BeginClose \/ Closer
             \/ Crash \/ UNCHANGED vars
    BY <1>3, <2>1 DEF Flusher, FlushTake, FlushCheck, FlushCreate, FlushError, FlushInstall, FlushAdd,
       FlushClear, FlushSignal, Compactor, CompactTake, CompactCheck, CompactAlloc, CompactSelect,
       CompactMerge, CompactError, CompactCommit, CompactRemove, CompactGlob, CompactSwap,
       CompactCloseOld, SyncTick, SyncTickError, BeginClose, Closer, CloseSignal, CloseWait,
       CloseReaders, CloseWAL,
       Crash, vars
  <2>2. ASSUME NEW c \in Clients, BeginWrite(c) \/ BeginGet(c) \/ ClientStep(c)
        PROVE  tab'[h.file] = tab[h.file]
    BY <2>2 DEF BeginWrite, ClientStep, WalAppend, WalAppendError, Apply, SignalFlush, BeginGet,
                GetMem, GetCopy, GetScan, GetReturn
  <2> QED BY <2>1, <2>2 DEF Next, Clients
<1> QED BY <1>1, <1>2, <1>3

-----------------------------------------------------------------------------
(* Lists of readers.                                                       *)

\* A list that is searched newest file first.
NewestDown(s) == \A i, j \in DOMAIN s : i < j => s[i].file >= s[j].file

\* What a search of the list s finds for k in the tables T.
ListView(k, s, T) == View(k, Files(s), T)

LEMMA FilesOfList == ASSUME NEW s \in Seq(Handle) PROVE Files(s) \in SUBSET FileID
<1>1. ASSUME NEW h \in ToSet(s) PROVE h.file \in FileID
  <2>1. PICK i \in DOMAIN s : h = s[i]
    BY <1>1 DEF ToSet
  <2>2. s[i] \in Handle
    OBVIOUS
  <2> QED BY <2>1, <2>2 DEF Handle
<1> QED BY <1>1 DEF Files

LEMMA ListSame ==
    ASSUME NEW s \in Seq(Handle), NEW T, NEW T2, NEW k, \A h \in ToSet(s) : T2[h.file] = T[h.file]
    PROVE  ListView(k, s, T2) = ListView(k, s, T)
<1>1. \A f \in Files(s) : T2[f] = T[f]
  BY DEF Files
<1>2. Files(s) \in SUBSET FileID
  BY FilesOfList
<1> QED BY <1>1, <1>2, ViewSame DEF ListView

LEMMA FrontFiles ==
    ASSUME NEW s \in Seq(Handle), NEW h \in Handle
    PROVE  Files(<<h>> \o s) = {h.file} \cup Files(s)
<1>1. ToSet(<<h>> \o s) = {h} \cup ToSet(s)
  BY FrontHandle
<1>2. \A f : f \in Files(<<h>> \o s) <=> f = h.file \/ f \in Files(s)
  BY <1>1 DEF Files
<1> QED BY <1>2

\* A newer file in front answers for the keys it has.
LEMMA FrontView ==
    ASSUME NEW s \in Seq(Handle), NEW h \in Handle, NEW T, NEW k, \A f \in Files(s) : f <= h.file
    PROVE  ListView(k, <<h>> \o s, T) =
              IF T[h.file][k] # NoEntry THEN T[h.file][k] ELSE ListView(k, s, T)
<1> DEFINE D == Files(<<h>> \o s)
<1>1. D = {h.file} \cup Files(s) /\ Files(s) \in SUBSET FileID /\ h.file \in FileID
  BY FrontFiles, FilesOfList DEF Handle
<1>D. D \in SUBSET FileID /\ Files(s) \in SUBSET FileID
  BY <1>1
<1>F. h.file <= h.file
  BY <1>1 DEF FileID
<1> HIDE DEF D
<1>2. CASE T[h.file][k] # NoEntry
  <2>1. IsNewest(h.file, k, D, T)
    BY <1>1, <1>2, <1>F DEF IsNewest
  <2>2. View(k, D, T) = T[h.file][k]
    BY <1>D, <2>1, ViewNewest
  <2> QED BY <1>2, <2>2 DEF D, ListView
<1>3. CASE T[h.file][k] = NoEntry
  <2>1. \A f : (f \in Files(s) /\ T[f][k] # NoEntry) <=> (f \in D /\ T[f][k] # NoEntry)
    BY <1>1, <1>3
  <2>2. View(k, D, T) = View(k, Files(s), T)
    BY <1>D, <2>1, ViewSame
  <2> QED BY <1>3, <2>2 DEF D, ListView
<1> QED BY <1>2, <1>3

LEMMA FrontDown ==
    ASSUME NEW s \in Seq(Handle), NEW h \in Handle, NewestDown(s), \A f \in Files(s) : f <= h.file
    PROVE  NewestDown(<<h>> \o s)
<1> DEFINE v == <<h>> \o s
<1>1. /\ DOMAIN v = 1..(Len(s) + 1) /\ DOMAIN s = 1..Len(s) /\ Len(s) \in Nat
      /\ v[1] = h /\ \A i \in 2..(Len(s) + 1) : v[i] = s[i - 1]
  OBVIOUS
<1>2. \A i \in DOMAIN s : s[i].file <= h.file /\ s[i].file \in Nat
  <2> SUFFICES ASSUME NEW i \in DOMAIN s PROVE s[i].file <= h.file /\ s[i].file \in Nat
    OBVIOUS
  <2>1. s[i] \in ToSet(s) /\ s[i] \in Handle
    BY DEF ToSet
  <2> QED BY <2>1 DEF Files, Handle, FileID
<1>3. h.file \in Nat
  BY DEF Handle, FileID
<1> HIDE DEF v
<1>4. ASSUME NEW i \in DOMAIN v, NEW j \in DOMAIN v, i < j PROVE v[i].file >= v[j].file
  <2>1. j \in 2..(Len(s) + 1) /\ j - 1 \in DOMAIN s /\ v[j] = s[j - 1]
    BY <1>1, <1>4
  <2>2. CASE i = 1
    BY <1>1, <1>2, <1>3, <2>1, <2>2
  <2>3. CASE i # 1
    <3>1. i \in 2..(Len(s) + 1) /\ i - 1 \in DOMAIN s /\ v[i] = s[i - 1] /\ i - 1 < j - 1
      BY <1>1, <1>4, <2>3
    <3> QED BY <2>1, <3>1 DEF NewestDown
  <2> QED BY <2>2, <2>3
<1>5. NewestDown(v)
  BY <1>4 DEF NewestDown
<1> QED BY <1>5 DEF v

\* loadSSTables and reloadReaders list the directory S.
LEMMA ListedDown ==
    ASSUME NEW S \in SUBSET FileID, NEW s \in Descending(S), NEW g
    PROVE  LET r == [i \in DOMAIN s |-> [file |-> s[i], gen |-> g]]
           IN  NewestDown(r) /\ \A k, T : ListView(k, r, T) = View(k, S, T)
<1> DEFINE r == [i \in DOMAIN s |-> [file |-> s[i], gen |-> g]]
<1>1. DOMAIN r = DOMAIN s /\ \A i \in DOMAIN s : r[i].file = s[i]
  OBVIOUS
<1>2. \A i, j \in DOMAIN s : i < j => s[i] > s[j]
  BY DescendingIs
<1>3. \A i \in DOMAIN s : s[i] \in Nat
  <2>1. s \in [1..Cardinality(S) -> S]
    BY DescendingSeq
  <2>2. \A f \in S : f \in Nat
    BY DEF FileID
  <2> QED BY <2>1, <2>2
<1>4. Files(r) = S
  BY ListedFiles
<1>5. NewestDown(r)
  BY <1>1, <1>2, <1>3 DEF NewestDown
<1> QED BY <1>4, <1>5 DEF ListView

\* Close has not let go of the readers.
Serving == life \in {"open", "signal", "wait", "drain"}

\* The list that Get copies, and the one reloadReaders has made, say what the
\* directory says, except about a flushed table that has not been put into them.
ListsInv ==
    /\ NewestDown(readers)
    /\ fpc = "install" => tab[ffile] = immutable
    /\ Serving => \A k \in Keys :
          \/ Visible(ListView(k, readers, tab)) = Visible(DiskView(k))
          \/ fpc = "install" /\ immutable[k] # NoEntry
    /\ cpc = "swap" =>
          /\ NewestDown(fresh)
          /\ \A k \in Keys :
                \/ Visible(ListView(k, fresh, tab)) = Visible(DiskView(k))
                \/ fpc = "install" /\ immutable[k] # NoEntry /\ ffile \notin Files(fresh)

LEMMA NextListsInv ==
    ASSUME "flush" \notin Failing, "remove" \notin Failing,
           TInv, IDInv, FileInv, HandleInv, RemovalInv, MergeInv, ReadableInv, FreshIDs, ListsInv,
           Alive => Shown, FilesInOrder, ReloadSeesFlush', [Next]_vars
    PROVE  ListsInv'
<1> USE DEF flushVars, readerVars, memVars, compactVars
<1>0. /\ readers \in Seq(Handle) /\ fresh \in Seq(Handle) /\ dir \in SUBSET FileID
      /\ ToSet(readers) \subseteq handles /\ ToSet(fresh) \subseteq handles
      /\ cfile \in 0..MaxFileID
      /\ tab \in [FileID -> Table]
  BY DEF TInv, TypeOK, ReaderType, CompactType, DiskType, HandleInv, HandlesOwned
<1>1. ASSUME ~FlushFinish, NEW k \in Keys PROVE Visible(DiskView(k))' = Visible(DiskView(k))
  BY <1>1, DiskSame
<1>2. ASSUME ~Open, NEW k
      PROVE  /\ ListView(k, readers, tab') = ListView(k, readers, tab)
             /\ ListView(k, fresh, tab') = ListView(k, fresh, tab)
  <2>1. \A h \in handles : tab'[h.file] = tab[h.file]
    BY <1>2, OpenTablesStay
  <2> QED BY <1>0, <2>1, ListSame
<1>3. ASSUME NEW k
      PROVE  /\ Visible(ListView(k, readers, tab))' = Visible(ListView(k, readers', tab'))
             /\ Visible(ListView(k, fresh, tab))' = Visible(ListView(k, fresh', tab'))
  BY DEF ListView, View, Files, Visible
\* Steps that leave the lists alone.
<1>4. ASSUME UNCHANGED <<readers, fresh>>, ~FlushFinish, ~Open, Serving' => Serving,
             cpc' = "swap" => cpc = "swap",
             \/ UNCHANGED <<fpc, ffile, immutable>> /\ (fpc = "install" => tab'[ffile] = tab[ffile])
             \/ fpc # "install" /\ fpc' # "install"
      PROVE  ListsInv'
  <2>1. ASSUME Serving', NEW k \in Keys
        PROVE  \/ Visible(ListView(k, readers, tab))' = Visible(DiskView(k))'
               \/ fpc' = "install" /\ immutable'[k] # NoEntry
    BY <1>1, <1>2, <1>3, <1>4, <2>1 DEF ListsInv
  <2>2. ASSUME cpc' = "swap", NEW k \in Keys
        PROVE  \/ Visible(ListView(k, fresh, tab))' = Visible(DiskView(k))'
               \/ fpc' = "install" /\ immutable'[k] # NoEntry /\ ffile' \notin Files(fresh')
    BY <1>1, <1>2, <1>3, <1>4, <2>2 DEF ListsInv
  <2>3. /\ NewestDown(readers') /\ (fpc' = "install" => tab'[ffile'] = immutable')
        /\ cpc' = "swap" => NewestDown(fresh')
    BY <1>4 DEF ListsInv
  <2> QED BY <2>1, <2>2, <2>3 DEF ListsInv, NewestDown, Files
<1>5. ASSUME NEW c \in Clients, BeginWrite(c) \/ BeginGet(c) \/ ClientStep(c) PROVE ListsInv'
  <2>1. UNCHANGED <<readers, fresh, fpc, ffile, immutable, cpc, life, tab, dir>>
    BY <1>5 DEF BeginWrite, ClientStep, WalAppend, WalAppendError, Apply, SignalFlush, BeginGet,
                GetMem, GetCopy, GetScan, GetReturn, diskVars
  <2>2. ~FlushFinish /\ ~Open
    BY <1>5, <2>1 DEF FlushFinish, Open, Ended, BeginWrite, BeginGet, ClientStep, WalAppend,
          WalAppendError, Apply, SignalFlush, GetMem, GetCopy, GetScan, GetReturn
  <2> QED BY <1>4, <2>1, <2>2 DEF Serving
<1>6. CASE FlushFinish
  <2>1. /\ fpc = "finish" /\ fpc' = "install" /\ UNCHANGED <<readers, fresh, ffile, immutable, cpc, life>>
        /\ tab' = [tab EXCEPT ![ffile] = immutable] /\ ffile \in FileID /\ ~Open
    BY <1>6 DEF FlushFinish, FlushTable, TInv, LocalsOK, Open
  <2>2. ffile \notin Files(fresh)
    BY <1>0, <2>1 DEF FreshIDs, Files, TInv, TypeOK, FlushType
  <2>3. ASSUME NEW k \in Keys
        PROVE  \/ Visible(DiskView(k))' = Visible(DiskView(k))
               \/ immutable'[k] # NoEntry
    BY <1>6, <2>1, <2>3, FlushNoticed DEF Visible
  <2>4. ASSUME Serving', NEW k \in Keys
        PROVE  \/ Visible(ListView(k, readers, tab))' = Visible(DiskView(k))'
               \/ fpc' = "install" /\ immutable'[k] # NoEntry
    BY <1>2, <1>3, <2>1, <2>3, <2>4 DEF ListsInv, Serving
  <2>5. ASSUME cpc' = "swap", NEW k \in Keys
        PROVE  \/ Visible(ListView(k, fresh, tab))' = Visible(DiskView(k))'
               \/ fpc' = "install" /\ immutable'[k] # NoEntry /\ ffile' \notin Files(fresh')
    BY <1>2, <1>3, <2>1, <2>2, <2>3, <2>5 DEF ListsInv
  <2>6. NewestDown(readers') /\ (cpc' = "swap" => NewestDown(fresh')) /\ tab'[ffile'] = immutable'
    BY <1>0, <2>1 DEF ListsInv
  <2> QED BY <2>4, <2>5, <2>6 DEF ListsInv, NewestDown, Files
<1>7. CASE FlushInstall
  <2> DEFINE h == [file |-> ffile, gen |-> 0]
  <2>1. /\ fpc = "install" /\ fpc' = "add" /\ readers' = <<h>> \o readers
        /\ UNCHANGED <<tab, dir, fresh, ffile, immutable, cpc, life>> /\ ~Open /\ ~FlushFinish
    BY <1>7 DEF FlushInstall, Prepend, Open, FlushFinish, diskVars
  <2>2. h \in Handle /\ h.file = ffile
    BY <2>1, BoundsAssumption DEF Handle, TInv, LocalsOK
  <2>3. \A f \in Files(readers) : f <= h.file
    BY <1>0, <2>1, <2>2 DEF FreshIDs, Files
  <2> HIDE DEF h
  <2>4. NewestDown(readers')
    BY <1>0, <2>1, <2>2, <2>3, FrontDown DEF ListsInv
  <2>5. ASSUME Serving, NEW k \in Keys
        PROVE  Visible(ListView(k, readers, tab))' = Visible(DiskView(k))'
    <3>1. ListView(k, <<h>> \o readers, tab) =
             IF tab[h.file][k] # NoEntry THEN tab[h.file][k] ELSE ListView(k, readers, tab)
      BY <1>0, <2>2, <2>3, FrontView
    <3>2. Visible(ListView(k, readers, tab))' =
             IF immutable[k] # NoEntry THEN Visible(immutable[k])
             ELSE Visible(ListView(k, readers, tab))
      BY <1>3, <2>1, <2>2, <3>1 DEF ListsInv
    <3>3. immutable[k] # NoEntry => Visible(DiskView(k)) = Visible(immutable[k])
      BY <2>1, <2>5 DEF Shown, Alive, Serving
    <3> QED BY <1>1, <2>1, <2>5, <3>2, <3>3 DEF ListsInv
  <2>6. ASSUME cpc' = "swap", NEW k \in Keys
        PROVE  Visible(ListView(k, fresh, tab))' = Visible(DiskView(k))'
    <3>1. ffile \in Files(fresh)
      BY <2>1, <2>6 DEF ReloadSeesFlush, Files
    <3> QED BY <1>1, <1>3, <2>1, <2>6, <3>1 DEF ListsInv
  <2>7. cpc' = "swap" => NewestDown(fresh')
    BY <2>1 DEF ListsInv
  <2> QED BY <2>1, <2>4, <2>5, <2>6, <2>7 DEF ListsInv, NewestDown, Serving
<1>8. CASE FlushTake \/ FlushCheck \/ FlushCreate \/ FlushError \/ FlushAdd \/ FlushClear
           \/ FlushSignal
  <2>1. /\ UNCHANGED <<readers, fresh, cpc, life>> /\ fpc # "install" /\ fpc' # "install"
        /\ ~FlushFinish /\ ~Open
    BY <1>8 DEF FlushTake, FlushCheck, FlushCreate, FlushError, Fault, FlushAdd, FlushClear,
                FlushSignal, FlushReturn, FlushFinish, Open, Ended
  <2> QED BY <1>4, <2>1 DEF Serving
<1>9. CASE CompactGlob
  <2>1. /\ UNCHANGED <<readers, tab, dir, fpc, ffile, immutable, life>> /\ cpc' = "swap"
        /\ ~FlushFinish /\ ~Open
    BY <1>9 DEF CompactGlob, diskVars, FlushFinish, Open, Ended
  <2>2. PICK s \in Descending(dir) : fresh' = [i \in DOMAIN s |-> [file |-> s[i], gen |-> cfile]]
    BY <1>9 DEF CompactGlob
  <2>3. NewestDown(fresh') /\ \A k : ListView(k, fresh', tab) = View(k, dir, tab)
    <3> DEFINE r == [i \in DOMAIN s |-> [file |-> s[i], gen |-> cfile]]
    <3>1. dir \in SUBSET FileID
      BY <1>0
    <3>2. NewestDown(r) /\ \A k, T : ListView(k, r, T) = View(k, dir, T)
      BY <3>1, ListedDown
    <3> QED BY <2>2, <3>2
  <2>4. ASSUME NEW k \in Keys
        PROVE  Visible(ListView(k, fresh, tab))' = Visible(DiskView(k))'
    BY <1>3, <2>1, <2>3, ViewOfDisk DEF Visible
  <2>5. ASSUME Serving', NEW k \in Keys
        PROVE  \/ Visible(ListView(k, readers, tab))' = Visible(DiskView(k))'
               \/ fpc' = "install" /\ immutable'[k] # NoEntry
    BY <1>1, <1>3, <2>1, <2>5 DEF ListsInv, Serving
  <2>6. NewestDown(readers') /\ (fpc' = "install" => tab'[ffile'] = immutable')
    BY <2>1 DEF ListsInv
  <2> QED BY <2>3, <2>4, <2>5, <2>6 DEF ListsInv, NewestDown, Files
<1>10. CASE CompactSwap
  <2>1. /\ UNCHANGED <<tab, dir, fpc, ffile, immutable, life>> /\ cpc = "swap" /\ cpc' = "close"
        /\ readers' = fresh /\ ~FlushFinish /\ ~Open
    BY <1>10 DEF CompactSwap, diskVars, FlushFinish, Open, Ended
  <2>2. ASSUME NEW k \in Keys
        PROVE  \/ Visible(ListView(k, readers, tab))' = Visible(DiskView(k))'
               \/ fpc' = "install" /\ immutable'[k] # NoEntry
    BY <1>1, <1>3, <2>1, <2>2 DEF ListsInv
  <2>3. NewestDown(readers') /\ (fpc' = "install" => tab'[ffile'] = immutable')
    BY <2>1 DEF ListsInv
  <2> QED BY <2>1, <2>2, <2>3 DEF ListsInv, NewestDown
<1>11. CASE CompactFinish
  <2>1. /\ UNCHANGED <<readers, fresh, fpc, ffile, immutable, life>> /\ cpc = "merge" /\ cpc' = "commit"
        /\ tab' = [tab EXCEPT ![cfile] = out] /\ ~FlushFinish /\ ~Open
    BY <1>11 DEF CompactFinish, FlushFinish, Open, Ended
  <2>2. fpc = "install" => ffile # cfile /\ ffile \in FileID
    BY <2>1 DEF IDInv, FileInv, TInv, LocalsOK
  <2>3. fpc = "install" => tab'[ffile] = tab[ffile]
    BY <1>0, <2>1, <2>2
  <2> QED BY <1>4, <2>1, <2>3 DEF Serving
<1>12. CASE CompactTake \/ CompactCheck \/ CompactAlloc \/ CompactSelect \/ CompactMerge
            \/ CompactError \/ CompactCommit \/ CompactRemove \/ CompactCloseOld
  <2>1. /\ UNCHANGED <<readers, fresh, fpc, ffile, immutable, life, tab>> /\ cpc' # "swap"
    BY <1>12 DEF CompactTake, CompactCheck, CompactAlloc, CompactSelect, CompactMerge, CompactError,
                 CompactCommit, CompactRemove, CompactCloseOld, diskVars
  <2>2. ~FlushFinish /\ ~Open
    BY <1>12, <2>1 DEF FlushFinish, Open, Ended, CompactTake, CompactCheck, CompactAlloc, CompactSelect,
                       CompactMerge, CompactError, CompactCommit, CompactRemove, CompactCloseOld
  <2> QED BY <1>4, <2>1, <2>2 DEF Serving
<1>13. CASE SyncTick \/ SyncTickError \/ BeginClose \/ CloseSignal \/ CloseWait \/ CloseWAL \/ UNCHANGED vars
  <2>1. /\ UNCHANGED <<readers, fresh, fpc, ffile, immutable, cpc, tab>> /\ (Serving' => Serving)
        /\ ~FlushFinish /\ ~Open
    BY <1>13 DEF SyncTick, SyncTickError, BeginClose, CloseSignal, CloseWait, CloseWAL, vars,
                 diskVars, Serving,
                 FlushFinish, Open, Ended
  <2> QED BY <1>4, <2>1
<1>14. CASE CloseReaders \/ Crash
  <2>1. readers' = <<>> /\ ~Serving' /\ cpc' # "swap" /\ fpc' # "install"
    BY <1>14 DEF CloseReaders, Crash, Serving, ReadableInv
  <2> QED BY <2>1 DEF ListsInv, NewestDown
<1>15. CASE Open
  <2>1. /\ dir' = dir /\ (\A f \in dir : tab'[f] = tab[f]) /\ fpc' = "idle" /\ cpc' = "idle"
    BY <1>0, <1>15 DEF Open
  <2>2. PICK s \in Descending(dir) : readers' = [i \in DOMAIN s |-> [file |-> s[i], gen |-> 0]]
    BY <1>15 DEF Open
  <2>3. NewestDown(readers') /\ \A k : ListView(k, readers', tab') = View(k, dir, tab')
    <3> DEFINE r == [i \in DOMAIN s |-> [file |-> s[i], gen |-> 0]]
    <3>1. dir \in SUBSET FileID
      BY <1>0
    <3>2. NewestDown(r) /\ \A k, T : ListView(k, r, T) = View(k, dir, T)
      BY <3>1, ListedDown
    <3> QED BY <2>2, <3>2
  <2>4. ASSUME NEW k \in Keys
        PROVE  Visible(ListView(k, readers, tab))' = Visible(DiskView(k))'
    BY <1>3, <2>1, <2>3, ViewOfDisk DEF Visible
  <2> QED BY <2>1, <2>3, <2>4 DEF ListsInv, NewestDown
<1> QED BY <1>5, <1>6, <1>7, <1>8, <1>9, <1>10, <1>11, <1>12, <1>13, <1>14, <1>15
        DEF Next, Flusher, Compactor, Closer, Clients

-----------------------------------------------------------------------------
(* Running Gets.                                                           *)

\* A search through the list s, one reader after the other, ends with e.
Finds(s, k, e, T) ==
    \/ e = NoEntry /\ \A i \in DOMAIN s : T[s[i].file][k] = NoEntry
    \/ \E i \in DOMAIN s :
          /\ T[s[i].file][k] = e /\ e # NoEntry
          /\ \A j \in DOMAIN s : j < i => T[s[j].file][k] = NoEntry

LEMMA ListFinds ==
    ASSUME NEW s \in Seq(Handle), NewestDown(s), NEW k, NEW e, NEW T, Finds(s, k, e, T)
    PROVE  e = ListView(k, s, T)
<1>0. \A f \in Files(s) : \E i \in DOMAIN s : f = s[i].file
  BY DEF Files, ToSet
<1>1. CASE e = NoEntry /\ \A i \in DOMAIN s : T[s[i].file][k] = NoEntry
  <2>1. \A f \in Files(s) : T[f][k] = NoEntry
    BY <1>0, <1>1
  <2> QED BY <1>1, <2>1, ViewNone DEF ListView
<1>2. CASE \E i \in DOMAIN s :
             /\ T[s[i].file][k] = e /\ e # NoEntry
             /\ \A j \in DOMAIN s : j < i => T[s[j].file][k] = NoEntry
  <2>1. PICK i \in DOMAIN s :
             /\ T[s[i].file][k] = e /\ e # NoEntry
             /\ \A j \in DOMAIN s : j < i => T[s[j].file][k] = NoEntry
    BY <1>2
  <2>2. s[i].file \in Files(s) /\ Files(s) \in SUBSET FileID
    BY FilesOfList DEF Files, ToSet
  <2>3. DOMAIN s \subseteq Nat /\ FileID \subseteq Nat
    BY DEF FileID
  <2>4. ASSUME NEW g \in Files(s), T[g][k] # NoEntry PROVE g <= s[i].file
    <3>1. PICK j \in DOMAIN s : g = s[j].file
      BY <1>0, <2>4
    <3>2. i < j \/ i = j
      BY <2>1, <2>3, <2>4, <3>1
    <3>3. i < j => s[i].file >= s[j].file
      BY <3>1 DEF NewestDown
    <3>4. s[i].file \in Nat /\ g \in Nat
      BY <2>2, <2>3, <2>4
    <3> HIDE DEF NewestDown
    <3> QED BY <3>1, <3>2, <3>3, <3>4
  <2>5. IsNewest(s[i].file, k, Files(s), T)
    BY <2>1, <2>2, <2>4 DEF IsNewest
  <2>6. View(k, Files(s), T) = T[s[i].file][k]
    BY <2>2, <2>5, ViewNewest
  <2> QED BY <2>1, <2>6 DEF ListView
<1> QED BY <1>1, <1>2 DEF Finds

LEMMA FindsSame ==
    ASSUME NEW s, NEW T, NEW T2, NEW k, NEW e, \A h \in ToSet(s) : T2[h.file] = T[h.file],
           Finds(s, k, e, T2)
    PROVE  Finds(s, k, e, T)
<1>1. \A i \in DOMAIN s : T2[s[i].file] = T[s[i].file]
  BY DEF ToSet
<1> QED BY <1>1 DEF Finds

LEMMA FindsNext ==
    ASSUME NEW s \in Seq(Handle), s # <<>>, NEW T, NEW k
    PROVE  /\ T[Head(s).file][k] # NoEntry => Finds(s, k, T[Head(s).file][k], T)
           /\ T[Head(s).file][k] = NoEntry => \A e : Finds(Tail(s), k, e, T) => Finds(s, k, e, T)
           /\ ToSet(Tail(s)) \subseteq ToSet(s) /\ Head(s) \in ToSet(s)
<1>1. /\ Len(s) \in Nat /\ Len(s) >= 1 /\ DOMAIN s = 1..Len(s) /\ Head(s) = s[1]
      /\ DOMAIN Tail(s) = 1..(Len(s) - 1)
      /\ \A i \in 1..(Len(s) - 1) : Tail(s)[i] = s[i + 1]
  OBVIOUS
<1>2. 1 \in DOMAIN s /\ \A j \in DOMAIN s : ~(j < 1)
  BY <1>1
<1>3. ASSUME T[Head(s).file][k] # NoEntry PROVE Finds(s, k, T[Head(s).file][k], T)
  BY <1>1, <1>2, <1>3 DEF Finds
<1>4. \A j \in DOMAIN s : j # 1 => j - 1 \in DOMAIN Tail(s) /\ Tail(s)[j - 1] = s[j]
  BY <1>1
<1>5. \A i \in DOMAIN Tail(s) : i + 1 \in DOMAIN s /\ Tail(s)[i] = s[i + 1] /\ i \in Nat
  BY <1>1
<1>6. ASSUME T[Head(s).file][k] = NoEntry, NEW e, Finds(Tail(s), k, e, T) PROVE Finds(s, k, e, T)
  <2>1. CASE e = NoEntry /\ \A i \in DOMAIN Tail(s) : T[Tail(s)[i].file][k] = NoEntry
    BY <1>1, <1>4, <1>6, <2>1 DEF Finds
  <2>2. CASE \E i \in DOMAIN Tail(s) :
               /\ T[Tail(s)[i].file][k] = e /\ e # NoEntry
               /\ \A j \in DOMAIN Tail(s) : j < i => T[Tail(s)[j].file][k] = NoEntry
    <3>1. PICK i \in DOMAIN Tail(s) :
               /\ T[Tail(s)[i].file][k] = e /\ e # NoEntry
               /\ \A j \in DOMAIN Tail(s) : j < i => T[Tail(s)[j].file][k] = NoEntry
      BY <2>2
    <3>2. i + 1 \in DOMAIN s /\ T[s[i + 1].file][k] = e
      BY <1>5, <3>1
    <3>3. ASSUME NEW j \in DOMAIN s, j < i + 1 PROVE T[s[j].file][k] = NoEntry
      <4>1. CASE j = 1
        BY <1>1, <1>6, <4>1
      <4>2. CASE j # 1
        <5>1. j - 1 < i
          BY <1>1, <1>5, <3>3
        <5> QED BY <1>4, <3>1, <3>3, <4>2, <5>1
      <4> QED BY <4>1, <4>2
    <3> QED BY <3>1, <3>2, <3>3 DEF Finds
  <2> QED BY <1>6, <2>1, <2>2 DEF Finds
<1>7. ASSUME NEW h \in ToSet(Tail(s)) PROVE h \in ToSet(s)
  <2>1. PICK i \in DOMAIN Tail(s) : h = Tail(s)[i]
    BY <1>7 DEF ToSet
  <2> QED BY <1>5, <2>1 DEF ToSet
<1>8. Head(s) \in ToSet(s)
  BY <1>1, <1>2 DEF ToSet
<1> QED BY <1>3, <1>6, <1>7, <1>8

\* Whatever a running Get can still come upon, its key held during the call.
GetSees(c) ==
    /\ pc[c] \in {"mem", "copy", "scan"} => Visible(latest[key[c]]) \in seen[c]
    /\ pc[c] = "copy" =>
          /\ active[key[c]] # NoEntry => Visible(active[key[c]]) \in seen[c]
          /\ immutable[key[c]] # NoEntry => Visible(immutable[key[c]]) \in seen[c]
          /\ Visible(ListView(key[c], readers, tab)) \in seen[c]
          /\ cpc = "swap" => Visible(ListView(key[c], fresh, tab)) \in seen[c]
    /\ pc[c] = "scan" =>
          /\ ToSet(todo[c]) \subseteq handles
          /\ \A e \in Entries \cup {NoEntry} :
                Finds(todo[c], key[c], e, tab) => Visible(e) \in seen[c]

GetInv == Serving => \A c \in Clients : GetSees(c)

\* The lists change to what was listed or flushed before.
LEMMA ViewsStep ==
    ASSUME TInv, HandleInv, FreshIDs, ListsInv, Alive => Shown, [Next]_vars, Serving', ~Open,
           NEW k \in Keys
    PROVE  /\ \/ Visible(ListView(k, readers, tab))' = Visible(ListView(k, readers, tab))
              \/ cpc = "swap" /\ Visible(ListView(k, readers, tab))' = Visible(ListView(k, fresh, tab))
              \/ /\ immutable[k] # NoEntry
                 /\ Visible(ListView(k, readers, tab))' = Visible(immutable[k])
           /\ cpc' = "swap" =>
              \/ cpc = "swap" /\ Visible(ListView(k, fresh, tab))' = Visible(ListView(k, fresh, tab))
              \/ Visible(ListView(k, fresh, tab))' = Visible(ListView(k, readers, tab))
              \/ /\ immutable[k] # NoEntry
                 /\ Visible(ListView(k, fresh, tab))' = Visible(immutable[k])
<1> USE DEF readerVars, compactVars
<1>0. /\ readers \in Seq(Handle) /\ fresh \in Seq(Handle)
      /\ ToSet(readers) \subseteq handles /\ ToSet(fresh) \subseteq handles
  BY DEF TInv, TypeOK, ReaderType, CompactType, HandleInv, HandlesOwned
<1>1. /\ ListView(k, readers, tab') = ListView(k, readers, tab)
      /\ ListView(k, fresh, tab') = ListView(k, fresh, tab)
  <2>1. \A h \in handles : tab'[h.file] = tab[h.file]
    BY OpenTablesStay
  <2> QED BY <1>0, <2>1, ListSame
<1>2. /\ Visible(ListView(k, readers, tab))' = Visible(ListView(k, readers', tab'))
      /\ Visible(ListView(k, fresh, tab))' = Visible(ListView(k, fresh', tab'))
  BY DEF ListView, View, Files, Visible
<1>3. CASE UNCHANGED <<readers, fresh>> /\ (cpc' = "swap" => cpc = "swap")
  BY <1>1, <1>2, <1>3
<1>4. CASE FlushInstall
  <2> DEFINE h == [file |-> ffile, gen |-> 0]
  <2>1. /\ fpc = "install" /\ readers' = <<h>> \o readers /\ UNCHANGED <<fresh, cpc, tab>>
    BY <1>4 DEF FlushInstall, Prepend, diskVars
  <2>2. h \in Handle /\ h.file = ffile
    BY <2>1, BoundsAssumption DEF Handle, TInv, LocalsOK
  <2>3. \A f \in Files(readers) : f <= h.file
    BY <1>0, <2>1, <2>2 DEF FreshIDs, Files
  <2> HIDE DEF h
  <2>4. ListView(k, <<h>> \o readers, tab) =
           IF tab[h.file][k] # NoEntry THEN tab[h.file][k] ELSE ListView(k, readers, tab)
    BY <1>0, <2>2, <2>3, FrontView
  <2>5. tab[h.file] = immutable
    BY <2>1, <2>2 DEF ListsInv
  <2> QED BY <1>1, <1>2, <2>1, <2>4, <2>5
<1>5. CASE CompactGlob
  <2>1. UNCHANGED <<readers, tab, dir, life>> /\ cpc' = "swap"
    BY <1>5 DEF CompactGlob, diskVars
  <2>2. PICK s \in Descending(dir) : fresh' = [i \in DOMAIN s |-> [file |-> s[i], gen |-> cfile]]
    BY <1>5 DEF CompactGlob
  <2>3. ListView(k, fresh', tab) = View(k, dir, tab)
    <3> DEFINE r == [i \in DOMAIN s |-> [file |-> s[i], gen |-> cfile]]
    <3>1. dir \in SUBSET FileID
      BY DEF TInv, TypeOK, DiskType
    <3>2. \A j, T : ListView(j, r, T) = View(j, dir, T)
      BY <3>1, ListedDown
    <3> QED BY <2>2, <3>2
  <2>4. Visible(ListView(k, fresh, tab))' = Visible(DiskView(k))
    BY <1>2, <2>1, <2>3, ViewOfDisk
  <2>5. \/ Visible(ListView(k, readers, tab)) = Visible(DiskView(k))
        \/ immutable[k] # NoEntry /\ Visible(DiskView(k)) = Visible(immutable[k])
    BY <2>1 DEF ListsInv, Shown, Alive, Serving
  <2> QED BY <1>1, <1>2, <2>1, <2>4, <2>5
<1>6. CASE CompactSwap
  BY <1>1, <1>2, <1>6 DEF CompactSwap
<1>7. CASE Flusher /\ ~FlushInstall
  BY <1>3, <1>7 DEF Flusher, FlushTake, FlushCheck, FlushCreate, FlushFinish, FlushError, FlushAdd,
                    FlushClear, FlushSignal
<1>8. CASE Compactor /\ ~CompactGlob /\ ~CompactSwap
  BY <1>3, <1>8 DEF Compactor, CompactTake, CompactCheck, CompactAlloc, CompactSelect, CompactMerge,
                    CompactFinish, CompactError, CompactCommit, CompactRemove, CompactCloseOld
<1>9. CASE SyncTick \/ SyncTickError \/ BeginClose \/ Closer \/ Crash \/ UNCHANGED vars
  BY <1>3, <1>9 DEF SyncTick, SyncTickError, BeginClose, Closer, CloseSignal, CloseWait,
                    CloseReaders, CloseWAL,
                    Crash, vars, Serving
<1>10. ASSUME NEW c \in Clients, BeginWrite(c) \/ BeginGet(c) \/ ClientStep(c)
       PROVE  UNCHANGED <<readers, fresh, cpc>>
  BY <1>10 DEF BeginWrite, ClientStep, WalAppend, WalAppendError, Apply, SignalFlush, BeginGet,
               GetMem, GetCopy, GetScan, GetReturn
<1> QED BY <1>3, <1>4, <1>5, <1>6, <1>7, <1>8, <1>9, <1>10 DEF Next, Clients

LEMMA SeesNext ==
    ASSUME NEW c,
           pc'[c] \in {"mem", "copy", "scan"} => Visible(latest'[key'[c]]) \in seen'[c],
           pc'[c] = "copy" =>
              /\ active'[key'[c]] # NoEntry => Visible(active'[key'[c]]) \in seen'[c]
              /\ immutable'[key'[c]] # NoEntry => Visible(immutable'[key'[c]]) \in seen'[c]
              /\ Visible(ListView(key'[c], readers', tab')) \in seen'[c]
              /\ cpc' = "swap" => Visible(ListView(key'[c], fresh', tab')) \in seen'[c],
           pc'[c] = "scan" =>
              /\ ToSet(todo'[c]) \subseteq handles'
              /\ \A e \in Entries \cup {NoEntry} :
                    Finds(todo'[c], key'[c], e, tab') => Visible(e) \in seen'[c]
    PROVE  GetSees(c)'
<1>1. pc'[c] \in {"mem", "copy", "scan"} => Visible(latest[key[c]])' \in seen'[c]
  BY DEF Visible
<1>2. pc'[c] = "copy" =>
         /\ active'[key'[c]] # NoEntry => Visible(active[key[c]])' \in seen'[c]
         /\ immutable'[key'[c]] # NoEntry => Visible(immutable[key[c]])' \in seen'[c]
         /\ Visible(ListView(key[c], readers, tab))' \in seen'[c]
         /\ cpc' = "swap" => Visible(ListView(key[c], fresh, tab))' \in seen'[c]
  BY DEF Visible, ListView, View, Files
<1>3. pc'[c] = "scan" =>
         /\ ToSet(todo[c])' \subseteq handles'
         /\ \A e \in Entries \cup {NoEntry} :
               Finds(todo[c], key[c], e, tab)' => Visible(e) \in seen'[c]
  BY DEF Finds, ToSet
<1> QED BY <1>1, <1>2, <1>3 DEF GetSees

\* reloadReaders closes the readers it replaced, and nobody else closes one
\* before Close does.
LEMMA HandlesStay ==
    ASSUME [Next]_vars, Serving', ~Open, NEW h \in handles
    PROVE  h \in handles' \/ (cpc = "close" /\ h \in old)
<1> USE DEF readerVars
<1>1. CASE Flusher
  BY <1>1 DEF Flusher, FlushTake, FlushCheck, FlushCreate, FlushFinish, FlushError, FlushInstall,
              FlushAdd, FlushClear, FlushSignal
<1>2. CASE Compactor
  BY <1>2 DEF Compactor, CompactTake, CompactCheck, CompactAlloc, CompactSelect, CompactMerge,
              CompactFinish, CompactError, CompactCommit, CompactRemove, CompactGlob, CompactSwap,
              CompactCloseOld
<1>3. CASE SyncTick \/ SyncTickError \/ BeginClose \/ Closer \/ Crash \/ UNCHANGED vars
  BY <1>3 DEF SyncTick, SyncTickError, BeginClose, Closer, CloseSignal, CloseWait, CloseReaders,
              CloseWAL, Crash,
              vars, Serving
<1>4. ASSUME NEW c \in Clients, BeginWrite(c) \/ BeginGet(c) \/ ClientStep(c) PROVE handles' = handles
  BY <1>4 DEF BeginWrite, ClientStep, WalAppend, WalAppendError, Apply, SignalFlush, BeginGet,
              GetMem, GetCopy, GetScan, GetReturn
<1> QED BY <1>1, <1>2, <1>3, <1>4 DEF Next, Clients

\* A step of another thread.
LEMMA OthersStep ==
    ASSUME TInv, HandleInv, FreshIDs, ListsInv, Alive => Shown, ReadersLetGo, [Next]_vars,
           Serving', ~Open, NEW c \in Clients, GetSees(c),
           pc'[c] = pc[c], key'[c] = key[c], todo'[c] = todo[c], seen[c] \subseteq seen'[c],
           pc[c] \in {"mem", "copy", "scan"} => Visible(latest'[key[c]]) \in seen'[c],
           pc[c] = "copy" =>
              /\ active'[key[c]] # NoEntry => Visible(active'[key[c]]) \in seen'[c]
              /\ immutable'[key[c]] # NoEntry => Visible(immutable'[key[c]]) \in seen'[c]
    PROVE  GetSees(c)'
<1>0. key[c] \in Keys
  BY DEF TInv, TypeOK, ClientType
<1>1. pc'[c] = "copy" =>
         /\ Visible(ListView(key'[c], readers', tab')) \in seen'[c]
         /\ cpc' = "swap" => Visible(ListView(key'[c], fresh', tab')) \in seen'[c]
  <2> SUFFICES ASSUME pc[c] = "copy", NEW k \in Keys, k = key[c]
               PROVE  /\ Visible(ListView(k, readers', tab')) \in seen'[c]
                      /\ cpc' = "swap" => Visible(ListView(k, fresh', tab')) \in seen'[c]
    BY <1>0
  <2>1. /\ immutable[k] # NoEntry => Visible(immutable[k]) \in seen'[c]
        /\ Visible(ListView(k, readers, tab)) \in seen'[c]
        /\ cpc = "swap" => Visible(ListView(k, fresh, tab)) \in seen'[c]
    BY DEF GetSees
  <2>2. /\ Visible(ListView(k, readers', tab')) = Visible(ListView(k, readers, tab))'
        /\ Visible(ListView(k, fresh', tab')) = Visible(ListView(k, fresh, tab))'
    BY DEF ListView, View, Files, Visible
  <2> QED BY <2>1, <2>2, ViewsStep
<1>2. pc'[c] = "scan" =>
         /\ ToSet(todo'[c]) \subseteq handles'
         /\ \A e \in Entries \cup {NoEntry} :
               Finds(todo'[c], key'[c], e, tab') => Visible(e) \in seen'[c]
  <2> SUFFICES ASSUME pc[c] = "scan"
               PROVE  /\ ToSet(todo[c]) \subseteq handles'
                      /\ \A e \in Entries \cup {NoEntry} :
                            Finds(todo[c], key[c], e, tab') => Visible(e) \in seen'[c]
    OBVIOUS
  <2>1. ToSet(todo[c]) \subseteq handles
    BY DEF GetSees
  <2>2. ToSet(todo[c]) \subseteq handles'
    BY <2>1, HandlesStay DEF ReadersLetGo
  <2>3. \A h \in ToSet(todo[c]) : tab'[h.file] = tab[h.file]
    BY <2>1, OpenTablesStay
  <2>4. ASSUME NEW e \in Entries \cup {NoEntry}, Finds(todo[c], key[c], e, tab')
        PROVE  Visible(e) \in seen'[c]
    <3>1. Finds(todo[c], key[c], e, tab)
      BY <2>3, <2>4, FindsSame
    <3> QED BY <3>1 DEF GetSees
  <2> QED BY <2>2, <2>4
<1>3. pc'[c] = "copy" =>
         /\ active'[key'[c]] # NoEntry => Visible(active'[key'[c]]) \in seen'[c]
         /\ immutable'[key'[c]] # NoEntry => Visible(immutable'[key'[c]]) \in seen'[c]
  OBVIOUS
<1> QED BY <1>1, <1>2, <1>3, SeesNext

\* A step of the Get itself, or of a call that is none.
LEMMA OwnStep ==
    ASSUME TInv, HandleInv, ListsInv, Alive => Shown, Serving, NEW c \in Clients, GetSees(c),
           BeginWrite(c) \/ BeginGet(c) \/ ClientStep(c)
    PROVE  GetSees(c)'
<1> USE DEF Goto, Result, EndCall, Acknowledge, clientVars, observers, memVars, readerVars, diskVars,
            compactVars
<1>0. /\ pc \in [Clients -> {"idle", "append", "apply", "signal", "mem", "copy", "scan", "return"}]
      /\ key \in [Clients -> Keys] /\ DOMAIN seen = Clients /\ DOMAIN todo = Clients
      /\ readers \in Seq(Handle) /\ ToSet(readers) \subseteq handles
      /\ todo[c] \in Seq(Handle) /\ tab \in [FileID -> Table]
  BY DEF TInv, TypeOK, ClientType, ObserverType, ReaderType, DiskType, HandleInv, HandlesOwned
<1>1. CASE BeginWrite(c) \/ WalAppend(c) \/ WalAppendError(c) \/ Apply(c) \/ SignalFlush(c) \/ GetReturn(c)
  <2>1. pc'[c] \notin {"mem", "copy", "scan"}
    BY <1>0, <1>1 DEF BeginWrite, WalAppend, WalAppendError, Apply, SignalFlush, GetReturn
  <2> QED BY <2>1, SeesNext
<1>2. CASE BeginGet(c)
  <2>1. /\ pc'[c] = "mem" /\ Visible(latest'[key'[c]]) \in seen'[c]
    BY <1>0, <1>2 DEF BeginGet
  <2> QED BY <2>1, SeesNext
<1>3. CASE GetMem(c)
  <2>1. CASE MemEntry(c) # NoEntry
    <3>1. pc'[c] \notin {"mem", "copy", "scan"}
      BY <1>0, <1>3, <2>1 DEF GetMem
    <3> QED BY <3>1, SeesNext
  <2>2. CASE MemEntry(c) = NoEntry
    <3>1. /\ pc[c] = "mem" /\ pc'[c] = "copy"
          /\ UNCHANGED <<key, seen, latest, active, immutable, readers, fresh, cpc, tab>>
      BY <1>0, <1>3, <2>2 DEF GetMem
    <3>2. active[key[c]] = NoEntry /\ immutable[key[c]] = NoEntry
      BY <2>2 DEF MemEntry
    <3>3. key[c] \in Keys
      BY <1>0
    <3>4. Visible(DiskView(key[c])) = Visible(latest[key[c]])
      BY <3>2, <3>3 DEF Shown, StoreView, Alive, Serving
    <3>5. /\ Visible(ListView(key[c], readers, tab)) = Visible(latest[key[c]])
          /\ cpc = "swap" => Visible(ListView(key[c], fresh, tab)) = Visible(latest[key[c]])
      BY <3>2, <3>3, <3>4 DEF ListsInv
    <3>6. Visible(latest[key[c]]) \in seen[c]
      BY <3>1 DEF GetSees
    <3> QED BY <3>1, <3>2, <3>5, <3>6, SeesNext
  <2> QED BY <2>1, <2>2
<1>4. CASE GetCopy(c)
  <2>1. /\ pc[c] = "copy" /\ pc'[c] = "scan" /\ todo'[c] = readers
        /\ UNCHANGED <<key, seen, latest, handles, tab>>
    BY <1>0, <1>4 DEF GetCopy
  <2>2. ASSUME NEW e \in Entries \cup {NoEntry}, Finds(readers, key[c], e, tab)
        PROVE  Visible(e) \in seen[c]
    <3>1. NewestDown(readers)
      BY DEF ListsInv
    <3>2. e = ListView(key[c], readers, tab)
      BY <1>0, <2>2, <3>1, ListFinds
    <3> QED BY <2>1, <3>2 DEF GetSees
  <2>3. Visible(latest[key[c]]) \in seen[c]
    BY <2>1 DEF GetSees
  <2> QED BY <1>0, <2>1, <2>2, <2>3, SeesNext
<1>5. CASE GetScan(c)
  <2>1. CASE pc'[c] # "scan"
    <3>1. pc'[c] = "return"
      BY <1>0, <1>5, <2>1 DEF GetScan
    <3> QED BY <3>1, SeesNext
  <2>2. CASE pc'[c] = "scan"
    <3>1. /\ pc[c] = "scan" /\ todo[c] # <<>> /\ todo'[c] = Tail(todo[c])
          /\ tab[Head(todo[c]).file][key[c]] = NoEntry
          /\ UNCHANGED <<key, seen, latest, handles, tab>>
      BY <1>0, <1>5, <2>2 DEF GetScan
    <3>2. /\ \A e : Finds(Tail(todo[c]), key[c], e, tab) => Finds(todo[c], key[c], e, tab)
          /\ ToSet(Tail(todo[c])) \subseteq ToSet(todo[c])
      BY <1>0, <3>1, FindsNext
    <3>3. /\ Visible(latest[key[c]]) \in seen[c] /\ ToSet(todo[c]) \subseteq handles
          /\ \A e \in Entries \cup {NoEntry} :
                Finds(todo[c], key[c], e, tab) => Visible(e) \in seen[c]
      BY <3>1 DEF GetSees
    <3> QED BY <2>2, <3>1, <3>2, <3>3, SeesNext
  <2> QED BY <2>1, <2>2
<1> QED BY <1>1, <1>2, <1>3, <1>4, <1>5 DEF ClientStep

LEMMA NextGetInv ==
    ASSUME TInv, HandleInv, FreshIDs, ListsInv, RotatedInv, Alive => Shown, GetInv, ReadersLetGo,
           [Next]_vars
    PROVE  GetInv'
<1> SUFFICES ASSUME Serving', NEW c \in Clients PROVE GetSees(c)'
  BY DEF GetInv
<1> USE DEF clientVars, observers, memVars
<1>0. /\ pc \in [Clients -> {"idle", "append", "apply", "signal", "mem", "copy", "scan", "return"}]
      /\ key \in [Clients -> Keys] /\ DOMAIN seen = Clients /\ DOMAIN todo = Clients
      /\ active \in Table /\ immutable \in Table /\ latest \in Table
      /\ \A k \in Keys : EmptyTable[k] = NoEntry
  BY DEF TInv, TypeOK, ClientType, ObserverType, MemType, EmptyTable
<1>1. CASE Open
  <2>1. pc'[c] = "idle"
    BY <1>1 DEF Open
  <2> QED BY <2>1, SeesNext
<1>2. Serving \/ Open
  <2>1. CASE Flusher \/ Compactor \/ SyncTick \/ SyncTickError \/ BeginClose \/ Closer
             \/ Crash \/ UNCHANGED vars
    BY <2>1 DEF Flusher, FlushTake, FlushCheck, FlushCreate, FlushFinish, FlushError,
       FlushInstall, FlushAdd, FlushClear, FlushSignal, Compactor, CompactTake, CompactCheck,
       CompactAlloc, CompactSelect, CompactMerge, CompactFinish, CompactError, CompactCommit,
       CompactRemove, CompactGlob, CompactSwap, CompactCloseOld, SyncTick, SyncTickError,
       BeginClose, Closer,
       CloseSignal, CloseWait, CloseReaders, CloseWAL, Crash, vars, Serving
  <2>2. ASSUME NEW d \in Clients, BeginWrite(d) \/ BeginGet(d) \/ ClientStep(d) PROVE Serving
    BY <2>2 DEF BeginWrite, ClientStep, WalAppend, WalAppendError, Apply, SignalFlush, BeginGet,
                GetMem, GetCopy, GetScan, GetReturn, Serving
  <2> QED BY <2>1, <2>2 DEF Next, Clients
<1>3. ASSUME Serving PROVE GetSees(c)
  BY <1>3 DEF GetInv
<1>4. ASSUME Serving, ~Open,
             UNCHANGED <<pc, key, todo, seen, latest>>,
             \/ UNCHANGED <<active, immutable>>
             \/ active' = EmptyTable /\ immutable' = active
             \/ UNCHANGED active /\ immutable' = EmptyTable
      PROVE  GetSees(c)'
  <2>1. pc[c] \in {"mem", "copy", "scan"} => Visible(latest'[key[c]]) \in seen'[c]
    BY <1>3, <1>4 DEF GetSees
  <2>2. pc[c] = "copy" =>
           /\ active'[key[c]] # NoEntry => Visible(active'[key[c]]) \in seen'[c]
           /\ immutable'[key[c]] # NoEntry => Visible(immutable'[key[c]]) \in seen'[c]
    BY <1>0, <1>3, <1>4 DEF GetSees
  <2> QED BY <1>3, <1>4, <2>1, <2>2, OthersStep
<1>5. ASSUME Serving, ~Open, Flusher PROVE GetSees(c)'
  <2>1. UNCHANGED <<pc, key, todo, seen, latest>>
    BY <1>5 DEF Flusher, FlushTake, FlushCheck, FlushCreate, FlushFinish, FlushError, FlushInstall,
                FlushAdd, FlushClear, FlushSignal
  <2>2. \/ UNCHANGED <<active, immutable>>
        \/ active' = EmptyTable /\ immutable' = active
        \/ UNCHANGED active /\ immutable' = EmptyTable
    BY <1>5 DEF Flusher, FlushTake, FlushCheck, FlushCreate, FlushFinish, FlushError, FlushInstall,
                FlushAdd, FlushClear, FlushSignal
  <2> QED BY <1>4, <1>5, <2>1, <2>2
<1>6. ASSUME Serving, ~Open, Compactor \/ SyncTick \/ SyncTickError \/ BeginClose \/ Closer \/ UNCHANGED vars
      PROVE  GetSees(c)'
  BY <1>4, <1>6 DEF Compactor, CompactTake, CompactCheck, CompactAlloc, CompactSelect, CompactMerge,
     CompactFinish, CompactError, CompactCommit, CompactRemove, CompactGlob, CompactSwap,
     CompactCloseOld, SyncTick, SyncTickError, BeginClose, Closer, CloseSignal, CloseWait,
     CloseReaders, CloseWAL,
     vars
<1>7. ASSUME Serving, ~Open, NEW d \in Clients, BeginWrite(d) \/ BeginGet(d) \/ ClientStep(d)
      PROVE  GetSees(c)'
  <2>1. CASE d = c
    BY <1>3, <1>7, <2>1, OwnStep
  <2>2. CASE d # c
    <3>1. pc'[c] = pc[c] /\ key'[c] = key[c] /\ todo'[c] = todo[c]
      BY <1>0, <1>7, <2>2 DEF BeginWrite, ClientStep, WalAppend, WalAppendError, Apply, SignalFlush,
         BeginGet, GetMem, GetCopy, GetScan, GetReturn, Goto, Result, EndCall, Acknowledge
    <3>2. CASE Apply(d)
      <4>1. /\ active' = [active EXCEPT ![key[d]] = ent[d]] /\ UNCHANGED immutable
            /\ latest' = [latest EXCEPT ![key[d]] = ent[d]]
            /\ seen[c] \subseteq seen'[c]
            /\ pc[c] \in {"mem", "copy", "scan"} /\ key[c] = key[d] => Visible(ent[d]) \in seen'[c]
        BY <1>0, <3>2 DEF Apply
      <4>2. pc[c] \in {"mem", "copy", "scan"} => Visible(latest'[key[c]]) \in seen'[c]
        <5>1. CASE key[c] = key[d]
          BY <1>0, <4>1, <5>1 DEF Table
        <5>2. CASE key[c] # key[d]
          BY <1>0, <1>3, <1>7, <4>1, <5>2 DEF Table, GetSees
        <5> QED BY <5>1, <5>2
      <4>3. pc[c] = "copy" =>
               /\ active'[key[c]] # NoEntry => Visible(active'[key[c]]) \in seen'[c]
               /\ immutable'[key[c]] # NoEntry => Visible(immutable'[key[c]]) \in seen'[c]
        <5>1. CASE key[c] = key[d]
          BY <1>0, <1>3, <1>7, <4>1, <5>1 DEF Table, GetSees
        <5>2. CASE key[c] # key[d]
          BY <1>0, <1>3, <1>7, <4>1, <5>2 DEF Table, GetSees
        <5> QED BY <5>1, <5>2
      <4> QED BY <1>3, <1>7, <3>1, <4>1, <4>2, <4>3, OthersStep
    <3>3. CASE ~Apply(d)
      <4>1. UNCHANGED <<active, immutable, latest>> /\ seen'[c] = seen[c]
        BY <1>0, <1>7, <2>2, <3>3 DEF BeginWrite, ClientStep, WalAppend, WalAppendError, SignalFlush,
           BeginGet, GetMem, GetCopy, GetScan, GetReturn, Acknowledge
      <4>2. pc[c] \in {"mem", "copy", "scan"} => Visible(latest'[key[c]]) \in seen'[c]
        BY <1>3, <1>7, <4>1 DEF GetSees
      <4>3. pc[c] = "copy" =>
               /\ active'[key[c]] # NoEntry => Visible(active'[key[c]]) \in seen'[c]
               /\ immutable'[key[c]] # NoEntry => Visible(immutable'[key[c]]) \in seen'[c]
        BY <1>3, <1>7, <4>1 DEF GetSees
      <4> QED BY <1>3, <1>7, <3>1, <4>1, <4>2, <4>3, OthersStep
    <3> QED BY <3>2, <3>3
  <2> QED BY <2>1, <2>2
<1>8. ~Crash
  BY DEF Crash, Serving
<1> QED BY <1>1, <1>2, <1>5, <1>6, <1>7, <1>8 DEF Next, Clients

-----------------------------------------------------------------------------
(* The refinement mapping.                                                 *)

\* What Open shows for k is what a replay leaves for it.
LEMMA LastShows ==
    ASSUME TInv, NothingBehindPiece, LogInv, NEW k \in Keys, NEW e, LastFor(k, e, wal)
    PROVE  Visible(RestartView(k)) = Visible(e)
<1> DEFINE S == {i \in DOMAIN wal : wal[i].key = k}
<1>0. \A i \in DOMAIN wal : i \in Nat
  BY DEF TInv, TypeOK, LogType
<1>1. RestartView(k) = IF S = {} THEN DiskView(k) ELSE wal[Max(S)].ent
  <2>1. Replayed = wal
    BY ReplayedType DEF TInv, TypeOK
  <2> QED BY <2>1 DEF RestartView
<1>2. CASE e = NoEntry /\ \A i \in DOMAIN wal : wal[i].key # k
  <2>1. S = {}
    BY <1>2
  <2>2. DiskView(k) = NoEntry
    BY <1>2, UnloggedAbsent
  <2> QED BY <1>1, <1>2, <2>1, <2>2
<1>3. ASSUME NEW i \in DOMAIN wal, wal[i].key = k, e = wal[i].ent,
             \A j \in DOMAIN wal : wal[j].key = k => j <= i
      PROVE  Visible(RestartView(k)) = Visible(e)
  <2>1. i \in S /\ S \subseteq Nat /\ \A j \in S : j <= i
    BY <1>0, <1>3
  <2> HIDE DEF S
  <2>2. Max(S) \in S /\ \A y \in S : Max(S) >= y
    <3>1. \A y \in S : i >= y
      BY <2>1
    <3> QED BY <2>1, <3>1 DEF Max
  <2>3. Max(S) = i
    BY <2>1, <2>2
  <2> QED BY <1>1, <1>3, <2>1, <2>3
<1> QED BY <1>2, <1>3 DEF LastFor

\* What a crash leaves of k: what was applied last, or a write under way.
LEMMA RestartShows ==
    ASSUME TInv, NothingBehindPiece, LogInv, Replayable, NEW k \in Keys
    PROVE  \/ Visible(RestartView(k)) = Visible(latest[k])
           \/ \E c \in Clients : /\ pc[c] = "apply" /\ key[c] = k
                                 /\ Visible(RestartView(k)) = Visible(ent[c])
BY LastShows DEF Replayable

LatestMap == [k \in Keys |-> Visible(latest[k])]

MapIsLatest == StoredMap = LatestMap

LEMMA StoredIsLatest ==
    TInv /\ NothingBehindPiece /\ LogInv /\ Replayable /\ Shown => MapIsLatest
<1> SUFFICES ASSUME TInv, NothingBehindPiece, LogInv, Replayable, Shown, NEW k \in Keys
             PROVE  Stored(k) = Visible(latest[k])
  BY DEF MapIsLatest, StoredMap, LatestMap
<1>1. CASE Ended /\ AllIdle
  <2>1. Stored(k) = Visible(RestartView(k))
    BY <1>1 DEF Stored
  <2>2. \A c \in Clients : pc[c] # "apply"
    BY <1>1 DEF AllIdle
  <2> QED BY <2>1, <2>2, RestartShows
<1>2. CASE ~(Ended /\ AllIdle)
  BY <1>2 DEF Stored, Shown
<1> QED BY <1>1, <1>2

LEMMA StoredIsLatestNext ==
    (TInv /\ NothingBehindPiece /\ LogInv /\ Replayable /\ Shown => MapIsLatest)'
BY StoredIsLatest, PTL

\* What a client is doing, in the terms of KeyValue.
LEMMA CallingIs ==
    ASSUME NEW c
    PROVE  /\ pc[c] \in {"append", "apply"} => Calling(c) = Store!Writing(key[c], Visible(ent[c]))
           /\ pc[c] \in {"mem", "copy", "scan"} => Calling(c) = Store!Getting(key[c], seen[c])
           /\ pc[c] = "return" => Calling(c) = Store!Answered(ent[c])
           /\ pc[c] \in {"idle", "signal"} => Calling(c) = Store!Idle
BY DEF Calling, Store!Writing, Store!Getting, Store!Answered, Store!Idle

LEMMA CallingNext ==
    ASSUME NEW c
    PROVE  /\ pc'[c] \in {"append", "apply"} =>
                 Calling(c)' = Store!Writing(key'[c], Visible(ent'[c]))
           /\ pc'[c] \in {"mem", "copy", "scan"} => Calling(c)' = Store!Getting(key'[c], seen'[c])
           /\ pc'[c] = "return" => Calling(c)' = Store!Answered(ent'[c])
           /\ pc'[c] \in {"idle", "signal"} => Calling(c)' = Store!Idle
BY DEF Calling, Store!Writing, Store!Getting, Store!Answered, Store!Idle, Visible

\* The other clients go on with what they were doing.
LEMMA CallsStep ==
    ASSUME NEW c \in Clients, \A d \in Clients \ {c} : Calling(d)' = Calling(d)
    PROVE  Calls' = [Calls EXCEPT ![c] = Calling(c)']
BY DEF Calls

LEMMA CallingSame ==
    ASSUME NEW d, pc'[d] = pc[d], key'[d] = key[d], ent'[d] = ent[d], seen'[d] = seen[d]
    PROVE  Calling(d)' = Calling(d)
BY DEF Calling, Visible

LEMMA PhaseIs ==
    ASSUME TInv
    PROVE  /\ life = "open" => Phase = "open"
           /\ life \in {"signal", "wait", "drain"} => Phase = "closing"
           /\ life \in {"wal", "down", "failed"} => Phase = "closed"
           /\ Serving \/ Phase = "closed"
BY DEF Phase, Ended, Serving, TInv, TypeOK, ControlType

LEMMA PhaseNext ==
    /\ life' = "open" => Phase' = "open"
    /\ life' \in {"signal", "wait", "drain"} => Phase' = "closing"
    /\ life' \in {"wal", "down", "failed"} => Phase' = "closed"
BY DEF Phase, Ended

-----------------------------------------------------------------------------
(* The simulation.                                                         *)

\* A step of KeyValue, or none.
Simulated == [Store!Next]_(Store!vars)

\* What Get may answer.
LEMMA ScanSees ==
    ASSUME TInv, GetInv, Serving, NEW c \in Clients, GetScan(c), pc'[c] # "scan"
    PROVE  pc'[c] = "return" /\ ent'[c] \in seen[c]
<1>0. /\ pc \in [Clients -> {"idle", "append", "apply", "signal", "mem", "copy", "scan", "return"}]
      /\ DOMAIN ent = Clients /\ todo[c] \in Seq(Handle) /\ key[c] \in Keys
      /\ tab \in [FileID -> Table]
  BY DEF TInv, TypeOK, ClientType, DiskType
<1>1. /\ pc[c] = "scan" /\ ToSet(todo[c]) \subseteq handles
      /\ \A e \in Entries \cup {NoEntry} : Finds(todo[c], key[c], e, tab) => Visible(e) \in seen[c]
  BY DEF GetScan, GetInv, GetSees
<1>2. CASE todo[c] = <<>>
  <2>1. pc'[c] = "return" /\ ent'[c] = NoEntry
    BY <1>0, <1>2 DEF GetScan, Result, Goto
  <2>2. Finds(<<>>, key[c], NoEntry, tab)
    BY DEF Finds
  <2>3. Visible(NoEntry) = NoEntry
    BY EntryAssumption DEF Visible
  <2> QED BY <1>1, <1>2, <2>1, <2>2, <2>3
<1>3. CASE todo[c] # <<>>
  <2> DEFINE e == tab[Head(todo[c]).file][key[c]]
  <2>1. Head(todo[c]) \in ToSet(todo[c]) /\ (e # NoEntry => Finds(todo[c], key[c], e, tab))
    BY <1>0, <1>3, FindsNext
  <2>2. pc'[c] = "return" /\ ent'[c] = Visible(e) /\ e # NoEntry
    BY <1>0, <1>1, <1>3, <2>1 DEF GetScan, Result, Goto
  <2>3. e \in Entries \cup {NoEntry}
    <3>1. Head(todo[c]) \in Handle
      BY <1>0, <1>3
    <3> QED BY <1>0, <3>1 DEF Handle, Table
  <2> HIDE DEF e
  <2> QED BY <1>1, <2>1, <2>2, <2>3
<1> QED BY <1>2, <1>3

LEMMA AnswerSimulated ==
    ASSUME TInv, TInv', MapIsLatest, MapIsLatest', GetInv, Serving => Shown, NEW c \in Clients,
           GetMem(c) \/ GetScan(c)
    PROVE  Simulated
<1> USE DEF clientVars, observers
<1>0. /\ pc \in [Clients -> {"idle", "append", "apply", "signal", "mem", "copy", "scan", "return"}]
      /\ key \in [Clients -> Keys] /\ DOMAIN ent = Clients
      /\ active \in Table /\ immutable \in Table
  BY DEF TInv, TypeOK, ClientType, MemType
<1>1. /\ UNCHANGED <<key, seen, latest, life>> /\ pc[c] \in {"mem", "copy", "scan"}
      /\ \A d \in Clients \ {c} : pc'[d] = pc[d] /\ ent'[d] = ent[d]
      /\ pc'[c] \in {"mem", "copy", "scan"} \/ pc'[c] = "return"
  BY <1>0 DEF GetMem, GetScan, Result, Goto
<1>2. StoredMap' = StoredMap /\ Phase' = Phase
  BY <1>1 DEF MapIsLatest, LatestMap, Phase
<1>3. \A d \in Clients \ {c} : Calling(d)' = Calling(d)
  BY <1>1, CallingSame
<1>4. Calling(c) = Store!Getting(key[c], seen[c]) /\ Calls[c] = Calling(c)
  BY <1>1, CallingIs DEF Calls
<1>5. CASE pc'[c] \in {"mem", "copy", "scan"}
  <2>1. Calling(c)' = Calling(c)
    BY <1>1, <1>4, <1>5, CallingNext
  <2>2. Calls' = Calls
    BY <1>3, <2>1 DEF Calls
  <2> QED BY <1>2, <2>2 DEF Simulated, Store!vars
<1>6. CASE pc'[c] = "return"
  <2>1. Calls' = [Calls EXCEPT ![c] = Store!Answered(ent'[c])]
    <3>1. Calling(c)' = Store!Answered(ent'[c])
      BY <1>6, CallingNext
    <3> QED BY <1>3, <3>1, CallsStep
  <2>2. ent'[c] \in Values \cup {NoEntry, Failed}
    <3>1. CASE GetMem(c)
      <4>1. ent'[c] = Visible(MemEntry(c))
        BY <1>0, <1>6, <3>1 DEF GetMem, Result, Goto
      <4>2. MemEntry(c) \in Entries \cup {NoEntry}
        BY <1>0 DEF MemEntry, Table
      <4> QED BY <4>1, <4>2, VisibleType
    <3>2. CASE GetScan(c)
      <4>1. \/ ent'[c] \in {NoEntry, Failed}
            \/ todo[c] # <<>> /\ ent'[c] = Visible(tab[Head(todo[c]).file][key[c]])
        BY <1>0, <1>6, <3>2 DEF GetScan, Result, Goto
      <4>2. todo[c] # <<>> => tab[Head(todo[c]).file][key[c]] \in Entries \cup {NoEntry}
        <5>1. todo[c] \in Seq(Handle) /\ tab \in [FileID -> Table]
          BY DEF TInv, TypeOK, ClientType, DiskType
        <5>2. todo[c] # <<>> => Head(todo[c]) \in Handle
          BY <5>1
        <5> QED BY <1>0, <5>1, <5>2 DEF Handle, Table
      <4> QED BY <4>1, <4>2, VisibleType
    <3> QED BY <3>1, <3>2
  <2>3. ASSUME Serving PROVE ent'[c] \in seen[c]
    <3>1. CASE GetScan(c)
      BY <1>6, <2>3, <3>1, ScanSees
    <3>2. CASE GetMem(c)
      <4>1. /\ pc[c] = "mem" /\ MemEntry(c) # NoEntry /\ ent'[c] = Visible(MemEntry(c))
        BY <1>0, <1>6, <3>2 DEF GetMem, Result, Goto
      <4>2. MemEntry(c) = StoreView(key[c]) /\ key[c] \in Keys
        BY <1>0, <4>1 DEF MemEntry, StoreView
      <4>3. Visible(latest[key[c]]) \in seen[c]
        BY <2>3, <4>1 DEF GetInv, GetSees
      <4> QED BY <2>3, <4>1, <4>2, <4>3 DEF Shown
    <3> QED BY <3>1, <3>2
  <2>4. Serving \/ Phase = "closed"
    BY PhaseIs
  <2>5. Store!Answer(c)
    <3>1. Calls[c].op = "get" /\ Calls[c].may = seen[c]
      BY <1>4 DEF Store!Getting
    <3> QED BY <1>2, <2>1, <2>2, <2>3, <2>4, <3>1 DEF Store!Answer, Store!Held
  <2> QED BY <2>5 DEF Simulated, Store!Next
<1> QED BY <1>1, <1>5, <1>6

LEMMA BeginSimulated ==
    ASSUME TInv, MapIsLatest, MapIsLatest', NEW c \in Clients, BeginWrite(c) \/ BeginGet(c)
    PROVE  Simulated
<1> USE DEF clientVars, observers
<1>0. /\ pc \in [Clients -> {"idle", "append", "apply", "signal", "mem", "copy", "scan", "return"}]
      /\ DOMAIN key = Clients /\ DOMAIN ent = Clients /\ DOMAIN seen = Clients
  BY DEF TInv, TypeOK, ClientType, ObserverType
<1>1. /\ UNCHANGED <<latest, life>> /\ pc[c] = "idle" /\ life = "open"
      /\ \A d \in Clients \ {c} :
            pc'[d] = pc[d] /\ key'[d] = key[d] /\ ent'[d] = ent[d] /\ seen'[d] = seen[d]
  BY <1>0 DEF BeginWrite, BeginGet, Closed, Goto
<1>2. StoredMap' = StoredMap /\ Phase' = Phase /\ Phase = "open"
  BY <1>1, PhaseIs DEF MapIsLatest, LatestMap, Phase
<1>3. Calls' = [Calls EXCEPT ![c] = Calling(c)']
  BY <1>1, CallingSame, CallsStep
<1>4. Calls[c] = Store!Idle
  BY <1>1, CallingIs DEF Calls
<1>5. CASE BeginWrite(c)
  <2>1. pc'[c] = "append" /\ key'[c] \in Keys /\ ent'[c] \in Entries
    BY <1>0, <1>5 DEF BeginWrite, Goto
  <2>2. Calling(c)' = Store!Writing(key'[c], Visible(ent'[c]))
    BY <2>1, CallingNext
  <2>3. Visible(ent'[c]) \in Values \cup {NoEntry}
    BY <2>1, VisibleType
  <2>4. Store!BeginWrite(c)
    BY <1>2, <1>3, <1>4, <2>1, <2>2, <2>3 DEF Store!BeginWrite, Store!Begin, Store!Held
  <2> QED BY <2>4 DEF Simulated, Store!Next
<1>6. CASE BeginGet(c)
  <2>1. pc'[c] = "mem" /\ key'[c] \in Keys /\ seen'[c] = {Visible(latest[key'[c]])}
    BY <1>0, <1>6 DEF BeginGet, Goto
  <2>2. Calling(c)' = Store!Getting(key'[c], seen'[c])
    BY <2>1, CallingNext
  <2>3. StoredMap[key'[c]] = Visible(latest[key'[c]])
    BY <2>1 DEF MapIsLatest, LatestMap
  <2>4. Store!BeginGet(c)
    BY <1>2, <1>3, <1>4, <2>1, <2>2, <2>3 DEF Store!BeginGet, Store!Begin
  <2> QED BY <2>4 DEF Simulated, Store!Next
<1> QED BY <1>5, <1>6

LEMMA ApplySimulated ==
    ASSUME TInv, MapIsLatest, MapIsLatest', NEW c \in Clients, Apply(c) PROVE Simulated
<1>0. /\ pc \in [Clients -> {"idle", "append", "apply", "signal", "mem", "copy", "scan", "return"}]
      /\ key \in [Clients -> Keys] /\ DOMAIN ent = Clients /\ latest \in Table
  BY DEF TInv, TypeOK, ClientType, ObserverType
<1>1. /\ pc[c] = "apply" /\ pc'[c] \in {"idle", "signal"} /\ life' = life
      /\ latest' = [latest EXCEPT ![key[c]] = ent[c]]
      /\ \A d \in Clients \ {c} : pc'[d] = pc[d] /\ key'[d] = key[d] /\ ent'[d] = ent[d]
      /\ \A d \in Clients : seen'[d] = IF pc[d] \in {"mem", "copy", "scan"} /\ key[d] = key[c]
                                       THEN seen[d] \cup {Visible(ent[c])} ELSE seen[d]
  BY <1>0 DEF Apply, Goto, EndCall, Acknowledge
<1>2. Phase' = Phase
  BY <1>1 DEF Phase
<1>3. Calls[c] = Store!Writing(key[c], Visible(ent[c])) /\ Calling(c)' = Store!Idle
  BY <1>1, CallingIs, CallingNext DEF Calls
<1>4. Calls[c].op = "write" /\ Calls[c].key = key[c] /\ Calls[c].val = Visible(ent[c])
  BY <1>3 DEF Store!Writing
<1>5. StoredMap' = [StoredMap EXCEPT ![key[c]] = Visible(ent[c])]
  <2>1. LatestMap' = [k \in Keys |-> Visible(latest'[k])]
    BY DEF LatestMap, Visible
  <2>2. \A k \in Keys : latest'[k] = IF k = key[c] THEN ent[c] ELSE latest[k]
    BY <1>0, <1>1 DEF Table
  <2> QED BY <2>1, <2>2 DEF MapIsLatest, LatestMap
<1>6. ASSUME NEW d \in Clients, d # c
      PROVE  Calling(d)' = IF Calls[d].op = "get" /\ Calls[d].key = key[c]
                           THEN [Calls[d] EXCEPT !.may = @ \cup {Visible(ent[c])}] ELSE Calls[d]
  <2>0. Calls[d] = Calling(d)
    BY DEF Calls
  <2>1. CASE pc[d] \in {"mem", "copy", "scan"}
    <3>1. /\ Calls[d] = Store!Getting(key[d], seen[d])
          /\ Calling(d)' = Store!Getting(key[d], seen'[d])
      BY <1>1, <1>6, <2>0, <2>1, CallingIs, CallingNext
    <3>2. Calls[d].op = "get" /\ Calls[d].key = key[d]
      BY <3>1 DEF Store!Getting
    <3>3. [Calls[d] EXCEPT !.may = @ \cup {Visible(ent[c])}]
             = Store!Getting(key[d], seen[d] \cup {Visible(ent[c])})
      BY <3>1 DEF Store!Getting
    <3> QED BY <1>1, <2>1, <3>1, <3>2, <3>3
  <2>2. CASE pc[d] \notin {"mem", "copy", "scan"}
    <3>1. Calling(d)' = Calling(d)
      BY <1>1, <1>6, <2>2, CallingSame
    <3>2. Calls[d].op # "get"
      BY <1>0, <2>0, <2>2, CallingIs DEF Store!Writing, Store!Answered, Store!Idle
    <3> QED BY <2>0, <3>1, <3>2
  <2> QED BY <2>1, <2>2
<1>7. Calls' = [d \in Clients |->
                  IF d = c THEN Store!Idle
                  ELSE IF Calls[d].op = "get" /\ Calls[d].key = Calls[c].key
                       THEN [Calls[d] EXCEPT !.may = @ \cup {Calls[c].val}]
                       ELSE Calls[d]]
  <2>1. Calls' = [d \in Clients |-> Calling(d)']
    BY DEF Calls
  <2> QED BY <1>3, <1>4, <1>6, <2>1
<1>8. Store!TakeEffect(c)
  BY <1>2, <1>4, <1>5, <1>7 DEF Store!TakeEffect
<1> QED BY <1>8 DEF Simulated, Store!Next

\* The other steps of a call.
LEMMA CallSimulated ==
    ASSUME "write" \notin Failing, "fsync" \notin Failing,
           TInv, MapIsLatest, MapIsLatest', NEW c \in Clients,
           WalAppend(c) \/ WalAppendError(c) \/ SignalFlush(c) \/ GetCopy(c) \/ GetReturn(c)
    PROVE  Simulated
<1> USE DEF clientVars, observers
<1>0. /\ pc \in [Clients -> {"idle", "append", "apply", "signal", "mem", "copy", "scan", "return"}]
      /\ DOMAIN key = Clients /\ DOMAIN ent = Clients /\ DOMAIN seen = Clients
  BY DEF TInv, TypeOK, ClientType, ObserverType
<1>1. /\ UNCHANGED <<latest, life>>
      /\ \A d \in Clients \ {c} :
            pc'[d] = pc[d] /\ key'[d] = key[d] /\ ent'[d] = ent[d] /\ seen'[d] = seen[d]
  BY <1>0 DEF WalAppend, WalAppendError, SignalFlush, GetCopy, GetReturn, Goto, EndCall, Acknowledge
<1>2. StoredMap' = StoredMap /\ Phase' = Phase
  BY <1>1 DEF MapIsLatest, LatestMap, Phase
<1>3. \A d \in Clients \ {c} : Calling(d)' = Calling(d)
  BY <1>1, CallingSame
<1>4. CASE WalAppend(c) \/ SignalFlush(c) \/ GetCopy(c)
  <2>1. \/ /\ pc[c] = "append" /\ pc'[c] = "apply" /\ key'[c] = key[c] /\ ent'[c] = ent[c]
        \/ pc[c] = "signal" /\ pc'[c] = "idle"
        \/ /\ pc[c] = "copy" /\ pc'[c] = "scan" /\ key'[c] = key[c] /\ seen'[c] = seen[c]
    BY <1>0, <1>4 DEF WalAppend, SignalFlush, GetCopy, Goto, EndCall, Acknowledge
  <2>2. Calling(c)' = Calling(c)
    BY <2>1, CallingIs, CallingNext
  <2>3. Calls' = Calls
    BY <1>3, <2>2 DEF Calls
  <2> QED BY <1>2, <2>3 DEF Simulated, Store!vars
<1>5. CASE WalAppendError(c) \/ GetReturn(c)
  <2>1. /\ pc'[c] = "idle"
        /\ pc[c] = "return" \/ (pc[c] = "append" /\ life = "down")
    BY <1>0, <1>5 DEF WalAppendError, GetReturn, Goto, EndCall, Fault
  <2>2. Calls' = [Calls EXCEPT ![c] = Store!Idle]
    BY <1>3, <2>1, CallingNext, CallsStep
  <2>3. Calls[c].op = "answered" \/ (Calls[c].op = "write" /\ Phase = "closed")
    <3>1. Calls[c] = Calling(c)
      BY DEF Calls
    <3>2. pc[c] = "return" => Calls[c].op = "answered"
      BY <3>1, CallingIs DEF Store!Answered
    <3>3. pc[c] = "append" => Calls[c].op = "write"
      BY <3>1, CallingIs DEF Store!Writing
    <3> QED BY <2>1, <3>2, <3>3, PhaseIs
  <2>4. Store!End(c)
    BY <1>2, <2>2, <2>3 DEF Store!End
  <2> QED BY <2>4 DEF Simulated, Store!Next
<1> QED BY <1>4, <1>5

\* The background threads and Close.
LEMMA BackgroundSimulated ==
    ASSUME TInv, MapIsLatest, MapIsLatest',
           Flusher \/ Compactor \/ SyncTick \/ SyncTickError \/ BeginClose \/ Closer \/ UNCHANGED vars
    PROVE  Simulated
<1> USE DEF clientVars, observers
<1>1. UNCHANGED <<pc, key, ent, seen, latest>>
  BY DEF Flusher, FlushTake, FlushCheck, FlushCreate, FlushFinish, FlushError, FlushInstall,
         FlushAdd, FlushClear, FlushSignal, Compactor, CompactTake, CompactCheck, CompactAlloc,
         CompactSelect, CompactMerge, CompactFinish, CompactError, CompactCommit, CompactRemove,
         CompactGlob, CompactSwap, CompactCloseOld, SyncTick, SyncTickError, BeginClose, Closer,
         CloseSignal,
         CloseWait, CloseReaders, CloseWAL, vars
<1>2. StoredMap' = StoredMap /\ Calls' = Calls
  <2>1. \A d \in Clients : Calling(d)' = Calling(d)
    BY <1>1, CallingSame
  <2> QED BY <1>1, <2>1 DEF MapIsLatest, LatestMap, Calls
<1>3. CASE BeginClose \/ CloseReaders
  <2>1. \/ Phase = "open" /\ Phase' = "closing"
        \/ Phase = "closing" /\ Phase' = "closed"
    BY <1>3, PhaseIs, PhaseNext DEF BeginClose, CloseReaders
  <2>2. Store!Close
    BY <1>2, <2>1 DEF Store!Close
  <2> QED BY <2>2 DEF Simulated, Store!Next
<1>4. CASE CloseSignal \/ CloseWait \/ CloseWAL
  <2>1. Phase' = Phase
    BY <1>4, PhaseIs, PhaseNext DEF CloseSignal, CloseWait, CloseWAL
  <2> QED BY <1>2, <2>1 DEF Simulated, Store!vars
<1>5. CASE Flusher \/ Compactor \/ SyncTick \/ SyncTickError \/ UNCHANGED vars
  <2>1. life' = life
    BY <1>5 DEF Flusher, FlushTake, FlushCheck, FlushCreate, FlushFinish, FlushError, FlushInstall,
       FlushAdd, FlushClear, FlushSignal, Compactor, CompactTake, CompactCheck, CompactAlloc,
       CompactSelect, CompactMerge, CompactFinish, CompactError, CompactCommit, CompactRemove,
       CompactGlob, CompactSwap, CompactCloseOld, SyncTick, SyncTickError, vars
  <2>2. Phase' = Phase
    BY <2>1 DEF Phase, Ended
  <2> QED BY <1>2, <2>2 DEF Simulated, Store!vars
<1> QED BY <1>3, <1>4, <1>5 DEF Closer

LEMMA ReplayedNext == (LogType /\ NothingBehindPiece => Replayed = wal)'
<1>1. LogType /\ NothingBehindPiece => Replayed = wal
  BY ReplayedType
<1> QED BY <1>1, PTL

LEMMA CrashSimulated ==
    ASSUME TInv, NothingBehindPiece, NothingBehindPiece', LogInv, Replayable, MapIsLatest, Crash
    PROVE  Simulated
<1>0. /\ wal \in Seq(Record) /\ synced = Len(wal) /\ DOMAIN wal = 1..Len(wal) /\ Len(wal) \in Nat
      /\ dir \in SUBSET FileID /\ tab \in [FileID -> Table]
      /\ \A k \in Keys : latest[k] \in Entries \cup {NoEntry}
  BY DEF TInv, TypeOK, LogType, LogInv, DiskType, ObserverType, Table
<1>1. /\ wal' = wal /\ dir' = dir /\ tab' = tab
      /\ life' = "down" /\ AllIdle' /\ \A c \in Clients : pc'[c] = "idle"
  <2>1. PICK n \in synced..Len(wal) : wal' = SubSeq(wal, 1, n)
    BY DEF Crash, CutLog
  <2>2. n = Len(wal)
    BY <1>0, <2>1
  <2>3. SubSeq(wal, 1, Len(wal)) = wal
    BY <1>0
  <2> QED BY <2>1, <2>2, <2>3 DEF Crash, AllIdle, diskVars
<1>2. ASSUME NEW k \in Keys PROVE StoredMap'[k] = Visible(RestartView(k))
  <2>0. Replayed = wal /\ Replayed' = wal' /\ Ended'
    <3>1. TInv'
      BY NextTInv DEF Next
    <3> QED BY <1>1, <3>1, ReplayedType, ReplayedNext DEF TInv, TypeOK, Ended
  <2>1. Stored(k)' = Visible(RestartView(k))
    BY <1>1, <2>0 DEF Stored, RestartView, DiskView, Visible
  <2> QED BY <2>1 DEF StoredMap
<1>3. ASSUME NEW k \in Keys
      PROVE  /\ StoredMap'[k] \in Values \cup {NoEntry}
             /\ \/ StoredMap'[k] = StoredMap[k]
                \/ \E c \in Clients : Calls[c] = Store!Writing(k, StoredMap'[k])
  <2>1. CASE Visible(RestartView(k)) = Visible(latest[k])
    <3>1. StoredMap'[k] = StoredMap[k] /\ StoredMap'[k] = Visible(latest[k])
      BY <1>2, <2>1 DEF MapIsLatest, LatestMap
    <3> QED BY <1>0, <3>1, VisibleType
  <2>2. ASSUME NEW c \in Clients, pc[c] = "apply", key[c] = k,
               Visible(RestartView(k)) = Visible(ent[c])
        PROVE  /\ StoredMap'[k] \in Values \cup {NoEntry}
               /\ Calls[c] = Store!Writing(k, StoredMap'[k])
    <3>1. StoredMap'[k] = Visible(ent[c]) /\ ent[c] \in Entries
      BY <1>2, <2>2 DEF TInv, LocalsOK
    <3>2. Calls[c] = Store!Writing(k, Visible(ent[c]))
      BY <2>2, CallingIs DEF Calls
    <3> QED BY <3>1, <3>2, VisibleType
  <2> QED BY <2>1, <2>2, RestartShows
<1>4. StoredMap' \in [Keys -> Values \cup {NoEntry}]
  BY <1>3 DEF StoredMap
<1>5. Calls' = [c \in Clients |-> Store!Idle] /\ Phase' = "closed"
  BY <1>1, CallingNext, PhaseNext DEF Calls
<1>6. Store!Crash
  BY <1>3, <1>4, <1>5 DEF Store!Crash, Store!Held
<1> QED BY <1>6 DEF Simulated, Store!Next

LEMMA OpenSimulated ==
    ASSUME TInv, NothingBehindPiece, LogInv, MapIsLatest', Open PROVE Simulated
<1>0. Replayed = wal
  BY ReplayedType DEF TInv, TypeOK
<1>1. PICK t \in Table : IsReplay(t, wal) /\ latest' = t
  BY <1>0 DEF Open
<1>2. /\ Ended /\ life' = "open" /\ (\A c \in Clients : pc[c] = "idle")
      /\ UNCHANGED <<pc, key, ent, seen>>
  BY DEF Open, clientVars
<1>3. StoredMap' = StoredMap
  <2>1. ASSUME NEW k \in Keys PROVE Visible(latest'[k]) = Stored(k)
    <3>1. LastFor(k, t[k], wal)
      BY <1>1, <2>1 DEF IsReplay, LastFor
    <3>2. Visible(RestartView(k)) = Visible(t[k])
      BY <2>1, <3>1, LastShows
    <3>3. Stored(k) = Visible(RestartView(k))
      BY <1>2 DEF Stored, AllIdle
    <3> QED BY <1>1, <3>2, <3>3
  <2>2. LatestMap' = [k \in Keys |-> Visible(latest'[k])]
    BY DEF LatestMap, Visible
  <2> QED BY <2>1, <2>2 DEF MapIsLatest, StoredMap
<1>4. Calls' = Calls /\ \A c \in Clients : Calls[c] = Store!Idle
  <2>1. \A d \in Clients : Calling(d)' = Calling(d) /\ Calling(d) = Store!Idle
    BY <1>2, CallingSame, CallingIs
  <2> QED BY <2>1 DEF Calls
<1>5. Phase = "closed" /\ Phase' = "open"
  BY <1>2, PhaseIs, PhaseNext DEF Ended
<1>6. Store!Reopen
  BY <1>3, <1>4, <1>5 DEF Store!Reopen
<1> QED BY <1>6 DEF Simulated, Store!Next

\* A closed database does nothing by itself.
LEMMA DeadStutters == ASSUME ~Alive, ReadableInv, [Next]_vars, ~Open PROVE UNCHANGED vars
<1>1. life = "down" /\ fpc = "done" /\ cpc = "done" /\ \A c \in Clients : pc[c] = "idle"
  BY DEF Alive, AllIdle, ReadableInv
<1>2. ASSUME NEW c \in Clients, BeginWrite(c) \/ BeginGet(c) \/ ClientStep(c) PROVE FALSE
  BY <1>1, <1>2 DEF BeginWrite, BeginGet, Closed, ClientStep, WalAppend, WalAppendError, Apply,
                    SignalFlush, GetMem, GetCopy, GetScan, GetReturn
<1>3. ~Flusher
  BY <1>1 DEF Flusher, FlushTake, FlushCheck, FlushCreate, FlushFinish, FlushError, FlushInstall,
              FlushAdd, FlushClear, FlushSignal
<1>4. ~Compactor
  BY <1>1 DEF Compactor, CompactTake, CompactCheck, CompactAlloc, CompactSelect, CompactMerge,
              CompactFinish, CompactError, CompactCommit, CompactRemove, CompactGlob, CompactSwap,
              CompactCloseOld
<1>5. ~SyncTick /\ ~SyncTickError /\ ~BeginClose /\ ~Closer /\ ~Crash
  BY <1>1 DEF SyncTick, SyncTickError, BeginClose, Closer, CloseSignal, CloseWait, CloseReaders,
              CloseWAL, Crash
<1> QED BY <1>2, <1>3, <1>4, <1>5 DEF Next, Clients

LEMMA UnchangedSimulated == ASSUME UNCHANGED vars PROVE Simulated
<1> USE DEF vars, clientVars, memVars, diskVars, logVars, observers
<1>1. \A d \in Clients : Calling(d)' = Calling(d)
  BY CallingSame
<1>2. \A k \in Keys : Stored(k)' = Stored(k)
  <2>1. Replayed' = Replayed
    BY DEF Replayed
  <2> QED BY <2>1 DEF Stored, Ended, AllIdle, StoreView, RestartView, DiskView, Visible
<1>3. Phase' = Phase
  BY DEF Phase, Ended
<1> QED BY <1>1, <1>2, <1>3 DEF Simulated, Store!vars, StoredMap, Calls

\* The inductive invariant of the refinement.
RefInv ==
    /\ IDInv /\ FileInv /\ HandleInv /\ RemovalInv /\ AckInv /\ LogInv /\ MergeInv
    /\ ReplayInv /\ ReadableInv /\ ShownInv /\ FreshIDs /\ ListsInv /\ GetInv

LEMMA InitRefInv == Init => RefInv
<1> SUFFICES ASSUME Init PROVE RefInv
  OBVIOUS
<1>1. IDInv /\ FileInv /\ HandleInv /\ RemovalInv
  BY NoHandles DEF Init, IDInv, FileInv, EngineOnDisk, HandleInv, HandlesOwned, RemovalInv,
                   NoOrphan, InputsOlder
<1>2. AckInv /\ LogInv
  BY LoggedEmpty DEF Init, AckInv, AckedDurable, LogInv, Logged
<1>3. MergeInv /\ ReadableInv /\ FreshIDs
  BY DEF Init, MergeInv, ReadableInv, FreshIDs
<1>4. ReplayInv
  BY DEF Init, ReplayInv, Replayable, LastFor, EmptyTable
<1>5. ASSUME NEW k \in Keys
      PROVE  StoreView(k) = NoEntry /\ latest[k] = NoEntry /\ DiskView(k) = NoEntry
  BY <1>5 DEF Init, StoreView, DiskView, EmptyTable
<1>6. fpc = "idle" /\ cpc = "idle" /\ immutable = EmptyTable /\ readers = <<>>
  BY DEF Init
<1>7. ShownInv
  BY <1>5, <1>6 DEF ShownInv, RotatedInv, Shown
<1>8. ListsInv
  <2>1. \A k : ListView(k, <<>>, tab) = NoEntry
    BY NoHandles, ViewNone DEF ListView, Files
  <2> QED BY <1>5, <1>6, <2>1 DEF ListsInv, NewestDown
<1>9. GetInv
  BY DEF Init, GetInv, GetSees
<1> QED BY <1>1, <1>2, <1>3, <1>4, <1>7, <1>8, <1>9 DEF RefInv

LEMMA NextRefInv ==
    ASSUME SyncMode = "full",
           "fsync" \notin Failing, "flush" \notin Failing, "remove" \notin Failing,
           "stat" \notin Failing,
           TInv, RefInv, StepsInOrder, StepsInOrder', [Next]_vars
    PROVE  RefInv'
<1>1. /\ NoRacingWrites /\ FilesInOrder /\ IDsInOrder /\ ReloadSeesFlush /\ ReadersLetGo
      /\ ReloadSeesFlush' /\ NothingBehindPiece
  BY DEF StepsInOrder, FilesInOrder
<1>2. /\ IDInv /\ FileInv /\ HandleInv /\ RemovalInv /\ AckInv /\ LogInv /\ MergeInv
      /\ ReplayInv /\ ReadableInv /\ ShownInv /\ FreshIDs /\ ListsInv /\ GetInv
      /\ RotatedInv /\ (Alive => Shown)
  BY DEF RefInv, ShownInv
<1>3. IDInv' /\ FileInv' /\ HandleInv' /\ RemovalInv'
  BY <1>1, <1>2, NextIDInv, NextFileInv, NextHandleInv, NextRemovalInv
<1>4. AckInv' /\ LogInv' /\ MergeInv'
  BY <1>1, <1>2, NextAckInv, NextLogInv, NextMergeInv
<1>5. ReplayInv' /\ ReadableInv' /\ ShownInv'
  BY <1>1, <1>2, NextReplayInv, NextReadableInv, NextShownInv
<1>6. FreshIDs' /\ ListsInv'
  BY <1>1, <1>2, NextFreshIDs, NextListsInv
<1>7. GetInv'
  BY <1>1, <1>2, NextGetInv
<1> QED BY <1>3, <1>4, <1>5, <1>6, <1>7 DEF RefInv

LEMMA InitSimulated == Init => Store!Init
<1> SUFFICES ASSUME Init PROVE Store!Init
  OBVIOUS
<1>1. ASSUME NEW k \in Keys PROVE Stored(k) = NoEntry
  <2>1. StoreView(k) = NoEntry /\ ~Ended
    BY <1>1 DEF Init, Ended, StoreView, DiskView, EmptyTable
  <2> QED BY <2>1, EntryAssumption DEF Stored, Visible
<1>2. \A c \in Clients : Calling(c) = Store!Idle
  BY CallingIs DEF Init
<1>3. Phase = "open"
  <2>1. life = "open"
    BY DEF Init
  <2> QED BY <2>1 DEF Phase, Ended
<1> QED BY <1>1, <1>2, <1>3 DEF Store!Init, StoredMap, Calls

LEMMA NextSimulated ==
    ASSUME SyncMode = "full", "write" \notin Failing,
           "fsync" \notin Failing, "flush" \notin Failing, "remove" \notin Failing,
           TInv, RefInv, StepsInOrder, StepsInOrder', [Next]_vars
    PROVE  Simulated
<1>1. NoRacingWrites /\ FilesInOrder /\ NothingBehindPiece /\ NothingBehindPiece'
  BY DEF StepsInOrder
<1>2. /\ IDInv /\ FileInv /\ RemovalInv /\ AckInv /\ LogInv /\ MergeInv /\ ReadableInv
      /\ RotatedInv /\ GetInv /\ (Alive => Replayable /\ Shown)
  BY DEF RefInv, ShownInv, ReplayInv
<1>3. TInv' /\ LogInv'
  BY <1>1, <1>2, NextTInv, NextLogInv
<1>4. Alive => MapIsLatest
  BY <1>1, <1>2, StoredIsLatest
<1>5. CASE Open
  <2>1. MapIsLatest'
    BY <1>1, <1>2, <1>3, <1>5, OpenReplayable, OpenShown, StoredIsLatestNext
  <2> QED BY <1>1, <1>2, <1>5, <2>1, OpenSimulated
<1>6. CASE Crash
  <2>1. Alive
    BY <1>6 DEF Crash, Alive
  <2> QED BY <1>1, <1>2, <1>4, <1>6, <2>1, CrashSimulated
<1>7. CASE ~Alive /\ ~Open
  BY <1>2, <1>7, DeadStutters, UnchangedSimulated
<1>8. CASE Alive /\ ~Open /\ ~Crash
  <2>1. Replayable' /\ Shown'
    BY <1>1, <1>2, <1>8, NextReplayable, NextShown
  <2>2. MapIsLatest /\ MapIsLatest'
    BY <1>1, <1>3, <1>4, <1>8, <2>1, StoredIsLatestNext
  <2>3. Serving => Shown
    BY <1>2, <1>8
  <2>4. ASSUME NEW c \in Clients, BeginWrite(c) \/ BeginGet(c) \/ ClientStep(c) PROVE Simulated
    BY <1>2, <1>3, <2>2, <2>3, <2>4, BeginSimulated, CallSimulated, ApplySimulated, AnswerSimulated
       DEF ClientStep
  <2> QED BY <1>8, <2>2, <2>4, BackgroundSimulated DEF Next, Clients
<1> QED BY <1>5, <1>6, <1>7, <1>8

(***************************************************************************)
(* DB implements KeyValue: in SyncFull, when no I/O operation but a merge  *)
(* whose output is incomplete fails, and as long as StepsInOrder, for any  *)
(* number of clients, flushes, compactions, crashes (also in the middle of *)
(* writing a record) and restarts.  Set and Delete take effect when they   *)
(* are applied to the MemTable, a Get returns what its key held at some    *)
(* moment of the call, a crash leaves every key as it was or as a running  *)
(* write would have it, and Open changes nothing.                          *)
(***************************************************************************)
THEOREM StoreRefines ==
    ASSUME SyncMode = "full", "write" \notin Failing,
           "fsync" \notin Failing, "flush" \notin Failing, "remove" \notin Failing,
           "stat" \notin Failing
    PROVE  Spec /\ []StepsInOrder => StoreImplemented
<1>1. TInv /\ RefInv /\ StepsInOrder /\ StepsInOrder' /\ [Next]_vars => RefInv'
  BY NextRefInv
<1>2. TInv /\ RefInv /\ StepsInOrder /\ StepsInOrder' /\ [Next]_vars => [Store!Next]_(Store!vars)
  BY NextSimulated DEF Simulated
<1> QED BY <1>1, <1>2, InitRefInv, InitSimulated, TInvAlways, PTL DEF Spec, StoreImplemented, Store!Spec
=============================================================================
