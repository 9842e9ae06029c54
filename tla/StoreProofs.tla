---------------------------- MODULE StoreProofs ----------------------------
(***************************************************************************)
(* Theorems about what DB shows at rest: each states the one ordering of   *)
(* steps that can break it, which nothing in the code rules out, and       *)
(* proves that nothing else does.                                          *)
(***************************************************************************)
EXTENDS FileProofs, DBStore

-----------------------------------------------------------------------------
(* The log and the MemTable.                                               *)

\* e is what a replay of w leaves for k.
LastFor(k, e, w) ==
    \/ e = NoEntry /\ \A i \in DOMAIN w : w[i].key # k
    \/ \E i \in DOMAIN w :
          /\ w[i].key = k /\ e = w[i].ent
          /\ \A j \in DOMAIN w : w[j].key = k => j <= i

\* The last record about a key is that of the call about to apply its write, or
\* it has been applied.
Replayable ==
    \A k \in Keys :
        \/ \E c \in Clients : pc[c] = "apply" /\ key[c] = k /\ LastFor(k, ent[c], wal)
        \/ (\A c \in Clients : pc[c] = "apply" => key[c] # k) /\ LastFor(k, latest[k], wal)

\* There is a process, or a call that Close has not waited for.
Alive == life # "down" \/ ~AllIdle

ReplayInv == Alive => Replayable

\* Only Open brings a dead database back to life.
LEMMA DeadUntilOpen == ASSUME ~Alive, [Next]_vars, ~Open PROVE ~Alive'
<1>1. life = "down" /\ \A c \in Clients : pc[c] = "idle"
  BY DEF Alive, AllIdle
<1>2. ASSUME NEW c \in Clients, BeginWrite(c) \/ BeginGet(c) \/ ClientStep(c) PROVE FALSE
  BY <1>1, <1>2 DEF BeginWrite, BeginGet, Closed, ClientStep, WalAppend, WalAppendError, Apply,
                    SignalFlush, GetMem, GetCopy, GetScan, GetReturn
<1>3. CASE Flusher \/ Compactor \/ SyncTick \/ SyncTickError \/ UNCHANGED vars
  <2>1. UNCHANGED <<life, pc>>
    BY <1>3 DEF Flusher, FlushTake, FlushCheck, FlushCreate, FlushFinish, FlushError,
       FlushInstall, FlushAdd, FlushClear, FlushSignal, Compactor, CompactTake, CompactCheck,
       CompactAlloc, CompactSelect, CompactMerge, CompactFinish, CompactError, CompactCommit,
       CompactRemove, CompactGlob, CompactSwap, CompactCloseOld, SyncTick, SyncTickError, vars,
       clientVars
  <2> QED BY <1>1, <2>1 DEF Alive, AllIdle
<1>4. CASE BeginClose \/ Closer \/ Crash
  BY <1>1, <1>4 DEF BeginClose, Closer, CloseSignal, CloseWait, CloseReaders, CloseWAL, Crash
<1> QED BY <1>2, <1>3, <1>4 DEF Next, Clients

LEMMA LastAppended ==
    ASSUME NEW w \in Seq(Record), NEW r \in Record, NEW k \in Keys
    PROVE  /\ k = r.key => LastFor(k, r.ent, Append(w, r))
           /\ k # r.key => \A e : LastFor(k, e, w) => LastFor(k, e, Append(w, r))
<1> DEFINE v == Append(w, r)
<1>1. /\ Len(w) \in Nat /\ DOMAIN w = 1..Len(w) /\ DOMAIN v = 1..(Len(w) + 1)
      /\ v[Len(w) + 1] = r /\ \A i \in 1..Len(w) : v[i] = w[i]
  OBVIOUS
<1> HIDE DEF v
<1>2. ASSUME k = r.key PROVE LastFor(k, r.ent, v)
  <2>1. Len(w) + 1 \in DOMAIN v /\ \A j \in DOMAIN v : j <= Len(w) + 1
    BY <1>1
  <2> QED BY <1>1, <1>2, <2>1 DEF LastFor
<1>3. ASSUME k # r.key, NEW e, LastFor(k, e, w) PROVE LastFor(k, e, v)
  <2>1. \A j \in DOMAIN v : v[j].key = k => j \in DOMAIN w /\ v[j] = w[j]
    BY <1>1, <1>3
  <2>2. \A j \in DOMAIN w : j \in DOMAIN v /\ v[j] = w[j]
    BY <1>1
  <2> QED BY <1>3, <2>1, <2>2 DEF LastFor
<1> QED BY <1>2, <1>3 DEF v

LEMMA OpenReplayable == ASSUME Open PROVE Replayable'
<1>1. PICK t \in Table : IsReplay(t, Replayed) /\ latest' = t
  BY DEF Open
<1>2. wal' = Replayed /\ UNCHANGED pc /\ \A c \in Clients : pc[c] = "idle"
  BY DEF Open, TruncateLog, clientVars
<1>3. \A k \in Keys : LastFor(k, latest'[k], wal')
  BY <1>1, <1>2 DEF IsReplay, LastFor
<1> QED BY <1>2, <1>3 DEF Replayable

LEMMA NextReplayable ==
    ASSUME "fsync" \notin Failing, TInv, Replayable, NoRacingWrites, [Next]_vars, ~Crash
    PROVE  Replayable'
<1> USE DEF logVars, clientVars, observers
<1>0. /\ wal \in Seq(Record) /\ key \in [Clients -> Keys]
      /\ pc \in [Clients -> {"idle", "append", "apply", "signal", "mem", "copy", "scan", "return"}]
      /\ latest \in Table
      /\ DOMAIN ent = Clients
      /\ \A c \in Clients : pc[c] \in {"append", "apply"} => ent[c] \in Entries
  BY DEF TInv, TypeOK, LogType, ClientType, ObserverType, LocalsOK
\* Steps that leave the log, what was applied, and the calls at Apply alone.
<1>1. ASSUME UNCHANGED <<wal, latest>>,
             \A c \in Clients : (pc[c] = "apply" <=> pc'[c] = "apply"),
             \A c \in Clients : pc[c] = "apply" => key'[c] = key[c] /\ ent'[c] = ent[c]
      PROVE  Replayable'
  <2> SUFFICES ASSUME NEW k \in Keys
               PROVE  \/ \E c \in Clients : pc'[c] = "apply" /\ key'[c] = k /\ LastFor(k, ent'[c], wal')
                      \/ /\ \A c \in Clients : pc'[c] = "apply" => key'[c] # k
                         /\ LastFor(k, latest'[k], wal')
    BY DEF Replayable
  <2>1. CASE \E c \in Clients : pc[c] = "apply" /\ key[c] = k /\ LastFor(k, ent[c], wal)
    BY <1>1, <2>1
  <2>2. CASE (\A c \in Clients : pc[c] = "apply" => key[c] # k) /\ LastFor(k, latest[k], wal)
    BY <1>1, <2>2
  <2> QED BY <2>1, <2>2 DEF Replayable
<1>2. ASSUME NEW c \in Clients,
             BeginWrite(c) \/ WalAppendError(c) \/ SignalFlush(c) \/ BeginGet(c)
             \/ GetMem(c) \/ GetCopy(c) \/ GetScan(c) \/ GetReturn(c)
      PROVE  Replayable'
  <2>1. /\ UNCHANGED <<wal, latest, life>> /\ pc[c] # "apply" /\ pc'[c] # "apply"
        /\ \A d \in Clients \ {c} : pc'[d] = pc[d] /\ key'[d] = key[d] /\ ent'[d] = ent[d]
    BY <1>0, <1>2 DEF BeginWrite, WalAppendError, SignalFlush, BeginGet, GetMem, GetCopy, GetScan,
                 GetReturn, Goto, Result, EndCall, Acknowledge, Fault
  <2> QED BY <1>1, <1>2, <2>1
<1>3. ASSUME NEW c \in Clients, WalAppend(c) PROVE Replayable'
  <2>1. /\ wal' = Append(wal, RecordOf(c)) /\ UNCHANGED <<latest, life, key, ent>>
        /\ pc[c] = "append" /\ pc' = [pc EXCEPT ![c] = "apply"] /\ life # "down"
    BY <1>3 DEF WalAppend, Goto
  <2>2. RecordOf(c) \in Record /\ RecordOf(c).key = key[c] /\ RecordOf(c).ent = ent[c]
    BY <1>0, <1>3, <2>1 DEF RecordOf, Record
  <2>3. ASSUME NEW k \in Keys
        PROVE  \/ \E d \in Clients : pc'[d] = "apply" /\ key'[d] = k /\ LastFor(k, ent'[d], wal')
               \/ /\ \A d \in Clients : pc'[d] = "apply" => key'[d] # k
                  /\ LastFor(k, latest'[k], wal')
    <3>1. CASE k = key[c]
      <4>1. LastFor(k, ent[c], wal')
        BY <1>0, <2>1, <2>2, <2>3, <3>1, LastAppended
      <4> QED BY <1>0, <1>3, <2>1, <3>1, <4>1
    <3>2. CASE k # key[c]
      <4>1. \A e : LastFor(k, e, wal) => LastFor(k, e, wal')
        BY <1>0, <2>1, <2>2, <2>3, <3>2, LastAppended
      <4>2. CASE \E d \in Clients : pc[d] = "apply" /\ key[d] = k /\ LastFor(k, ent[d], wal)
        BY <1>0, <2>1, <4>1, <4>2
      <4>3. CASE (\A d \in Clients : pc[d] = "apply" => key[d] # k) /\ LastFor(k, latest[k], wal)
        BY <1>0, <1>3, <2>1, <3>2, <4>1, <4>3
      <4> QED BY <2>3, <4>2, <4>3 DEF Replayable
    <3> QED BY <3>1, <3>2
  <2> QED BY <2>3 DEF Replayable
<1>4. ASSUME NEW c \in Clients, Apply(c) PROVE Replayable'
  <2>1. /\ UNCHANGED <<wal, life>> /\ latest' = [latest EXCEPT ![key[c]] = ent[c]]
        /\ pc[c] = "apply" /\ pc'[c] # "apply" /\ key[c] \in Keys
        /\ \A d \in Clients \ {c} : pc'[d] = pc[d] /\ key'[d] = key[d] /\ ent'[d] = ent[d]
    BY <1>0, <1>4 DEF Apply, Goto, EndCall, Acknowledge
  <2>2. ASSUME NEW k \in Keys
        PROVE  \/ \E d \in Clients : pc'[d] = "apply" /\ key'[d] = k /\ LastFor(k, ent'[d], wal')
               \/ /\ \A d \in Clients : pc'[d] = "apply" => key'[d] # k
                  /\ LastFor(k, latest'[k], wal')
    <3>1. CASE k = key[c]
      <4>1. LastFor(k, ent[c], wal)
        BY <1>4, <2>1, <2>2, <3>1 DEF Replayable, NoRacingWrites
      <4>2. \A d \in Clients \ {c} : pc[d] = "apply" => key[d] # k
        BY <1>4, <2>1, <3>1 DEF NoRacingWrites
      <4>3. latest'[k] = ent[c]
        BY <1>0, <2>1, <3>1 DEF Table
      <4> QED BY <2>1, <4>1, <4>2, <4>3
    <3>2. CASE k # key[c]
      <4>0. latest'[k] = latest[k]
        BY <1>0, <2>1, <2>2, <3>2 DEF Table
      <4>1. CASE \E d \in Clients : pc[d] = "apply" /\ key[d] = k /\ LastFor(k, ent[d], wal)
        BY <1>4, <2>1, <3>2, <4>1
      <4>2. CASE (\A d \in Clients : pc[d] = "apply" => key[d] # k) /\ LastFor(k, latest[k], wal)
        BY <1>4, <2>1, <4>0, <4>2
      <4> QED BY <2>2, <4>1, <4>2 DEF Replayable
    <3> QED BY <3>1, <3>2
  <2> QED BY <2>2 DEF Replayable
<1>5. CASE Flusher \/ Compactor \/ SyncTick \/ SyncTickError \/ BeginClose \/ UNCHANGED vars
  BY <1>1, <1>5 DEF Flusher, FlushTake, FlushCheck, FlushCreate, FlushFinish, FlushError,
     FlushInstall, FlushAdd, FlushClear, FlushSignal, Compactor, CompactTake, CompactCheck,
     CompactAlloc, CompactSelect, CompactMerge, CompactFinish, CompactError, CompactCommit,
     CompactRemove, CompactGlob, CompactSwap, CompactCloseOld, SyncTick, SyncTickError, BeginClose, vars
<1>6. CASE Closer
  BY <1>1, <1>6 DEF Closer, CloseSignal, CloseWait, CloseReaders, CloseWAL
<1> QED BY <1>2, <1>3, <1>4, <1>5, <1>6, OpenReplayable DEF Next, ClientStep, Clients

LEMMA NextReplayInv ==
    ASSUME "fsync" \notin Failing, TInv, ReplayInv, NoRacingWrites, [Next]_vars
    PROVE  ReplayInv'
<1>1. CASE Crash
  BY <1>1 DEF Crash, ReplayInv, Alive, AllIdle
<1>2. CASE ~Crash /\ Alive
  BY <1>2, NextReplayable DEF ReplayInv
<1>3. CASE ~Alive
  BY <1>3, DeadUntilOpen, OpenReplayable DEF ReplayInv
<1> QED BY <1>1, <1>2, <1>3

(***************************************************************************)
(* In every sync mode, with any number of clients, restarts, failed writes *)
(* and lost log tails: unless two calls write the same key at the same     *)
(* time, or a record is appended behind the part of one that a failed      *)
(* write or a crash left, a replay of the log gives every key the value it *)
(* has at rest, and a restart does not change what clients read.           *)
(***************************************************************************)
THEOREM RestartKeepsValues ==
    ASSUME "fsync" \notin Failing
    PROVE  Spec /\ []NoRacingWrites /\ []NothingBehindPiece => []ReplayAgrees
<1>1. Init => ReplayInv
  BY DEF Init, ReplayInv, Replayable, LastFor, EmptyTable
<1>2. TInv /\ ReplayInv /\ NoRacingWrites /\ [Next]_vars => ReplayInv'
  BY NextReplayInv
<1>3. TInv /\ NothingBehindPiece /\ ReplayInv => ReplayAgrees
  <2> SUFFICES ASSUME TInv, NothingBehindPiece, ReplayInv PROVE ReplayAgrees
    OBVIOUS
  <2>1. Replayed = wal
    BY ReplayedType DEF TInv, TypeOK
  <2> QED BY <2>1 DEF ReplayInv, Replayable, Alive, ReplayAgrees, Quiescent, IsReplay, LastFor
<1> QED BY <1>1, <1>2, <1>3, TInvAlways, PTL DEF Spec

-----------------------------------------------------------------------------
(* Readers.                                                                *)

\* Until Close lets go of the readers, the registered files have one, except
\* while a compaction has registered its output and not reloaded yet.
ReadableInv ==
    /\ cpc = "swap" => files \subseteq Files(fresh)
    /\ life \in {"drain", "wal", "down", "failed"} => fpc = "done" /\ cpc = "done"
    /\ life \in {"open", "signal", "wait"} =>
          /\ cpc \notin {"remove", "glob", "swap"} => files \subseteq Files(readers)
          /\ fpc = "add" => ffile \in Files(readers)

\* The readers of the files S, newest first.
LEMMA ListedFiles ==
    ASSUME NEW S \in SUBSET FileID, NEW s \in Descending(S), NEW g
    PROVE  Files([i \in DOMAIN s |-> [file |-> s[i], gen |-> g]]) = S
<1> DEFINE r == [i \in DOMAIN s |-> [file |-> s[i], gen |-> g]]
<1>1. ToSet(r) = {[file |-> f, gen |-> g] : f \in S}
  BY ListedHandles
<1> HIDE DEF r
<1>2. ASSUME NEW f \in S PROVE f \in Files(r)
  <2>1. [file |-> f, gen |-> g] \in ToSet(r) /\ [file |-> f, gen |-> g].file = f
    BY <1>1
  <2> QED BY <2>1 DEF Files
<1>3. ASSUME NEW f \in Files(r) PROVE f \in S
  BY <1>1 DEF Files
<1>4. Files(r) = S
  BY <1>2, <1>3
<1> QED BY <1>4 DEF r

LEMMA NextReadableInv ==
    ASSUME TInv, FileInv, ReadableInv, ReloadSeesFlush, [Next]_vars PROVE ReadableInv'
<1> USE DEF flushVars, compactVars, readerVars
<1>0. readers \in Seq(Handle) /\ dir \in SUBSET FileID /\ cfile \in 0..MaxFileID
  BY DEF TInv, TypeOK, ReaderType, DiskType, CompactType
<1>1. CASE UNCHANGED <<readers, files, life, fpc, ffile, cpc, fresh>>
  BY <1>1 DEF ReadableInv, Files
<1>2. ASSUME NEW c \in Clients,
             BeginWrite(c) \/ WalAppend(c) \/ WalAppendError(c) \/ Apply(c) \/ SignalFlush(c)
             \/ BeginGet(c) \/ GetMem(c) \/ GetCopy(c) \/ GetScan(c) \/ GetReturn(c)
      PROVE  ReadableInv'
  BY <1>1, <1>2 DEF BeginWrite, WalAppend, WalAppendError, Apply, SignalFlush, BeginGet,
                    GetMem, GetCopy, GetScan, GetReturn
<1>3. CASE FlushTake \/ FlushCheck \/ FlushCreate \/ FlushFinish \/ FlushError \/ FlushClear
           \/ FlushSignal
  BY <1>3 DEF FlushTake, FlushCheck, FlushCreate, FlushFinish, FlushError, FlushClear, FlushSignal,
              FlushReturn, ReadableInv, Files
<1>4. CASE FlushInstall
  <2>1. ffile \in FileID /\ ffile \in Nat
    BY <1>4 DEF FlushInstall, TInv, LocalsOK, TypeOK, FlushType
  <2>2. [file |-> ffile, gen |-> 0] \in Handle
    BY <2>1, BoundsAssumption DEF Handle
  <2>3. Files(readers') = {ffile} \cup Files(readers)
    <3> DEFINE x == [file |-> ffile, gen |-> 0]
    <3>1. ToSet(readers') = {x} \cup ToSet(readers)
      BY <1>0, <1>4, <2>2, FrontHandle DEF FlushInstall, Prepend
    <3>2. x.file = ffile
      OBVIOUS
    <3> HIDE DEF x
    <3>3. \A f : f \in Files(readers') <=> f = ffile \/ f \in Files(readers)
      BY <3>1, <3>2 DEF Files
    <3> QED BY <3>3
  <2>4. UNCHANGED <<files, life, ffile, cpc, fresh>> /\ fpc = "install" /\ fpc' = "add"
    BY <1>4 DEF FlushInstall
  <2>5. UNCHANGED Files(fresh)
    BY <2>4 DEF Files
  <2> QED BY <2>3, <2>4, <2>5 DEF ReadableInv
<1>5. CASE FlushAdd
  <2>1. /\ UNCHANGED <<readers, life, ffile, cpc, fresh>> /\ fpc = "add" /\ fpc' = "clear"
        /\ files' = files \cup {ffile}
    BY <1>5 DEF FlushAdd
  <2>2. UNCHANGED <<Files(fresh), Files(readers)>>
    BY <2>1 DEF Files
  <2> QED BY <2>1, <2>2 DEF ReadableInv, ReloadSeesFlush
<1>6. CASE CompactTake \/ CompactCheck \/ CompactAlloc \/ CompactSelect \/ CompactMerge
           \/ CompactFinish \/ CompactError \/ CompactCommit \/ CompactRemove \/ CompactCloseOld
  <2>1. /\ UNCHANGED <<readers, life, fpc, ffile, fresh>>
        /\ cpc # "done" /\ cpc' # "swap" /\ cpc # "swap"
        /\ cpc' \in {"remove", "glob"} \/ (cpc \notin {"remove", "glob"} /\ files' = files)
    BY <1>6 DEF CompactTake, CompactCheck, CompactAlloc, CompactSelect, CompactMerge, CompactFinish,
                CompactError, CompactCommit, CompactRemove, CompactCloseOld
  <2>2. UNCHANGED <<Files(fresh), Files(readers)>>
    BY <2>1 DEF Files
  <2> QED BY <2>1, <2>2 DEF ReadableInv
<1>7. CASE CompactGlob
  <2>1. PICK s \in Descending(dir) :
          fresh' = [i \in DOMAIN s |-> [file |-> s[i], gen |-> cfile]]
    BY <1>7 DEF CompactGlob
  <2>2. Files(fresh') = dir
    BY <1>0, <2>1, ListedFiles
  <2>3. UNCHANGED <<readers, files, life, fpc, ffile>> /\ cpc = "glob" /\ cpc' = "swap"
    BY <1>7 DEF CompactGlob
  <2>4. UNCHANGED Files(readers)
    BY <2>3 DEF Files
  <2> QED BY <2>2, <2>3, <2>4 DEF ReadableInv, FileInv, EngineOnDisk
<1>8. CASE CompactSwap
  <2>1. /\ readers' = fresh /\ UNCHANGED <<files, life, fpc, ffile>>
        /\ cpc = "swap" /\ cpc' = "close"
    BY <1>8 DEF CompactSwap
  <2>2. Files(readers') = Files(fresh)
    BY <2>1
  <2> QED BY <2>1, <2>2 DEF ReadableInv, ReloadSeesFlush
<1>9. CASE CloseWait \/ CloseReaders \/ CloseWAL
  BY <1>9 DEF CloseWait, CloseReaders, CloseWAL, ReadableInv
<1>10. CASE SyncTick \/ SyncTickError \/ BeginClose \/ CloseSignal \/ UNCHANGED vars
  BY <1>10 DEF SyncTick, SyncTickError, BeginClose, CloseSignal, vars, ReadableInv, Files
<1>11. CASE Crash
  BY <1>11 DEF Crash, ReadableInv
<1>12. CASE Open
  <2>1. PICK s \in Descending(dir) :
          readers' = [i \in DOMAIN s |-> [file |-> s[i], gen |-> 0]]
    BY <1>12 DEF Open
  <2>2. Files(readers') = dir
    BY <1>0, <2>1, ListedFiles
  <2> QED BY <1>12, <2>2 DEF Open, ReadableInv
<1> QED BY <1>2, <1>3, <1>4, <1>5, <1>6, <1>7, <1>8, <1>9, <1>10, <1>11, <1>12
        DEF Next, ClientStep, Flusher, Compactor, Closer, Clients

(***************************************************************************)
(* Unless a flush installs its reader after reloadReaders has listed the   *)
(* directory without its file and before it swaps the lists, every         *)
(* registered SSTable has a reader at rest, and Get consults it.           *)
(***************************************************************************)
THEOREM RegisteredReadable == Spec /\ []ReloadSeesFlush => []TablesReadable
<1>1. Init => ReadableInv
  BY DEF Init, ReadableInv
<1>2. TInv /\ FileInv /\ ReadableInv /\ ReloadSeesFlush /\ [Next]_vars => ReadableInv'
  BY NextReadableInv
<1>3. ReadableInv => TablesReadable
  BY DEF ReadableInv, TablesReadable, Quiescent, Files
<1> QED BY <1>1, <1>2, <1>3, FileInvAlways, PTL DEF Spec

-----------------------------------------------------------------------------
(* Lookups.                                                                *)

\* DiskView, for the tables T in the directory D.
View(k, D, T) ==
    LET S == {f \in D : T[f][k] # NoEntry}
    IN  IF S = {} THEN NoEntry ELSE T[Max(S)][k]

LEMMA ViewNewest ==
    ASSUME NEW D \in SUBSET FileID, NEW T, NEW k, NEW f, IsNewest(f, k, D, T)
    PROVE  View(k, D, T) = T[f][k]
<1> DEFINE S == {g \in D : T[g][k] # NoEntry}
<1>1. f \in S /\ \A g \in S : g <= f
  BY DEF IsNewest
<1>2. S \in SUBSET FileID /\ S # {}
  BY <1>1
<1>3. \A g \in FileID : g \in Nat
  BY DEF FileID
<1>4. Max(S) = f
  <2> HIDE DEF S
  <2>1. Max(S) \in S /\ \A g \in S : g <= Max(S)
    BY <1>2, NewestAnswers
  <2> QED BY <1>1, <1>2, <1>3, <2>1
<1> QED BY <1>2, <1>4 DEF View

LEMMA ViewNone ==
    ASSUME NEW D, NEW T, NEW k, \A f \in D : T[f][k] = NoEntry PROVE View(k, D, T) = NoEntry
BY DEF View

LEMMA NewestExists ==
    ASSUME NEW D \in SUBSET FileID, NEW T, NEW k, NEW g \in D, T[g][k] # NoEntry
    PROVE  \E f \in D : IsNewest(f, k, D, T)
<1> DEFINE S == {f \in D : T[f][k] # NoEntry}
<1>1. S \in SUBSET FileID /\ S # {}
  OBVIOUS
<1>2. Max(S) \in S /\ \A f \in S : f <= Max(S)
  <2> HIDE DEF S
  <2> QED BY <1>1, NewestAnswers
<1> QED BY <1>2 DEF IsNewest

\* Tables that come or go without an entry for k are not noticed.
LEMMA ViewSame ==
    ASSUME NEW D, NEW T, NEW D2, NEW T2, NEW k,
           \A f : (f \in D /\ T[f][k] # NoEntry) <=> (f \in D2 /\ T2[f][k] # NoEntry),
           \A f \in D \cap D2 : T2[f][k] = T[f][k],
           D \in SUBSET FileID
    PROVE  View(k, D2, T2) = View(k, D, T)
<1> DEFINE S == {f \in D : T[f][k] # NoEntry}
<1>1. S = {f \in D2 : T2[f][k] # NoEntry} /\ S \in SUBSET FileID
  OBVIOUS
<1>2. CASE S = {}
  BY <1>1, <1>2 DEF View
<1>3. CASE S # {}
  <2>1. Max(S) \in S
    <3> HIDE DEF S
    <3> QED BY <1>1, <1>3, NewestAnswers
  <2>2. T2[Max(S)][k] = T[Max(S)][k]
    BY <1>1, <2>1
  <2> QED BY <1>1, <1>3, <2>2 DEF View
<1> QED BY <1>2, <1>3

LEMMA ViewOfDisk ==
    ASSUME NEW k
    PROVE  DiskView(k) = View(k, dir, tab) /\ DiskView(k)' = View(k, dir', tab')
BY DEF DiskView, View

\* What the output of a merge holds: the newest entries of the inputs.
MergeInv ==
    /\ cpc # "merge" => out = EmptyTable
    /\ cpc = "merge" => \A k \in Keys : out[k] # NoEntry =>
          \E f \in sel : IsNewest(f, k, sel, tab) /\ out[k] = tab[f][k]

LEMMA NextMergeInv ==
    ASSUME TInv, IDInv, FileInv, HandleInv, MergeInv, [Next]_vars PROVE MergeInv'
<1> USE DEF compactVars, diskVars
<1>0. /\ out \in Table /\ sel \subseteq FileID /\ tab \in [FileID -> Table]
      /\ cpc = "merge" => sel \subseteq dir
  BY DEF TInv, TypeOK, CompactType, DiskType, FileInv, EngineOnDisk
<1>1. CASE UNCHANGED <<cpc, out, sel>> /\ \A f \in sel : cpc = "merge" => tab'[f] = tab[f]
  BY <1>1 DEF MergeInv, IsNewest
<1>2. CASE UNCHANGED <<cpc, out, sel, tab>>
  BY <1>1, <1>2
<1>3. ASSUME NEW c \in Clients, BeginWrite(c) \/ BeginGet(c) \/ ClientStep(c) PROVE MergeInv'
  BY <1>2, <1>3 DEF BeginWrite, ClientStep, WalAppend, WalAppendError, Apply, SignalFlush, BeginGet,
                    GetMem, GetCopy, GetScan, GetReturn
<1>4. CASE FlushFinish
  <2>1. ffile \notin dir /\ UNCHANGED <<cpc, out, sel>> /\ ffile \in FileID
        /\ tab' = [tab EXCEPT ![ffile] = FlushTable]
    BY <1>4 DEF FlushFinish, IDInv, TInv, LocalsOK
  <2> QED BY <1>0, <1>1, <2>1
<1>5. CASE Flusher /\ ~FlushFinish
  BY <1>2, <1>5 DEF Flusher, FlushTake, FlushCheck, FlushCreate, FlushError, FlushInstall, FlushAdd,
                    FlushClear, FlushSignal
<1>6. CASE CompactTake \/ CompactCheck \/ CompactAlloc \/ CompactSelect \/ CompactFinish
           \/ CompactError \/ CompactCommit \/ CompactRemove \/ CompactGlob \/ CompactSwap
           \/ CompactCloseOld
  BY <1>6 DEF CompactTake, CompactCheck, CompactAlloc, CompactSelect, CompactFinish,
              CompactError, CompactCommit, CompactRemove, CompactGlob, CompactSwap, CompactCloseOld,
              MergeInv, EmptyTable
<1>7. CASE CompactMerge
  <2>1. PICK k \in mkeys, f \in sel :
          /\ IsNewest(f, k, sel, tab)
          /\ out' = IF DropTombstone(tab[f][k]) THEN out ELSE [out EXCEPT ![k] = tab[f][k]]
    BY <1>7 DEF CompactMerge
  <2>2. cpc = "merge" /\ UNCHANGED <<cpc, sel, tab>> /\ k \in Keys
    BY <1>7 DEF CompactMerge, TInv, TypeOK, CompactType
  <2>3. ASSUME NEW j \in Keys, out'[j] # NoEntry
        PROVE  \E g \in sel : IsNewest(g, j, sel, tab) /\ out'[j] = tab[g][j]
    <3>1. CASE out'[j] = out[j]
      BY <2>2, <2>3, <3>1 DEF MergeInv
    <3>2. CASE out'[j] # out[j]
      <4>1. j = k /\ out'[j] = tab[f][k]
        BY <1>0, <2>1, <2>2, <2>3, <3>2 DEF Table
      <4> QED BY <2>1, <4>1
    <3> QED BY <3>1, <3>2
  <2> QED BY <2>2, <2>3 DEF MergeInv
<1>8. CASE SyncTick \/ SyncTickError \/ BeginClose \/ Closer \/ UNCHANGED vars
  BY <1>2, <1>8 DEF SyncTick, SyncTickError, BeginClose, Closer, CloseSignal, CloseWait, CloseReaders,
                    CloseWAL, vars
<1>9. CASE Crash
  BY <1>9 DEF Crash, MergeInv
<1>10. CASE Open
  <2>1. cpc' = "idle" /\ UNCHANGED out
    BY <1>10 DEF Open
  <2>2. cpc # "merge"
    BY <1>10 DEF Open, Ended, HandleInv
  <2> QED BY <2>1, <2>2 DEF MergeInv
<1> QED BY <1>3, <1>4, <1>5, <1>6, <1>7, <1>8, <1>9, <1>10 DEF Next, Compactor, Clients

\* The output of a merge in order says what its inputs said.
LEMMA OutputUnnoticed ==
    ASSUME TInv, IDInv, FileInv, MergeInv, FilesInOrder, CompactFinish, NEW k \in Keys
    PROVE  DiskView(k)' = DiskView(k)
<1>0. /\ dir \in SUBSET FileID /\ dir' \in SUBSET FileID /\ cfile \in FileID /\ cfile \notin dir
      /\ sel \subseteq dir /\ out \in Table /\ cpc = "merge"
      /\ dir' = dir \cup {cfile} /\ tab' = [tab EXCEPT ![cfile] = out] /\ tab \in [FileID -> Table]
  BY DEF CompactFinish, TInv, TypeOK, DiskType, CompactType, LocalsOK, IDInv, FileInv, EngineOnDisk
<1>D. dir \in SUBSET FileID /\ dir' \in SUBSET FileID
  BY <1>0
<1>1. \A f \in dir : tab'[f] = tab[f]
  BY <1>0
<1>2. tab'[cfile] = out
  BY <1>0
<1>3. \A f \in FileID : f \in Nat
  BY DEF FileID
<1>4. CASE out[k] = NoEntry
  <2>1. \A f : (f \in dir /\ tab[f][k] # NoEntry) <=> (f \in dir' /\ tab'[f][k] # NoEntry)
    BY <1>0, <1>1, <1>2, <1>4
  <2>2. \A f \in dir \cap dir' : tab'[f][k] = tab[f][k]
    BY <1>1
  <2>3. View(k, dir', tab') = View(k, dir, tab)
    BY <1>D, <2>1, <2>2, ViewSame
  <2> QED BY <2>3, ViewOfDisk
<1>5. CASE out[k] # NoEntry
  <2>1. PICK f \in sel : IsNewest(f, k, sel, tab) /\ out[k] = tab[f][k]
    BY <1>0, <1>5 DEF MergeInv
  <2>2. PICK g \in dir : IsNewest(g, k, dir, tab)
    <3>1. f \in dir /\ tab[f][k] # NoEntry
      BY <1>0, <2>1 DEF IsNewest
    <3> QED BY <1>0, <3>1, NewestExists
  <2>3. f < cfile /\ f <= g /\ (g \notin sel => g < f \/ cfile < g)
    BY <1>0, <2>1, <2>2 DEF FilesInOrder, IDsInOrder, IsNewest
  <2>4. CASE g \in sel
    <3>1. g = f
      BY <1>0, <1>3, <2>1, <2>2, <2>3, <2>4 DEF IsNewest
    <3>2. IsNewest(cfile, k, dir', tab')
      <4>1. ASSUME NEW h \in dir', tab'[h][k] # NoEntry PROVE h <= cfile
        <5>1. CASE h = cfile
          BY <1>0, <1>3, <5>1
        <5>2. CASE h # cfile
          <6>1. h \in dir /\ tab[h][k] # NoEntry
            BY <1>0, <1>1, <4>1, <5>2
          <6>2. h <= f
            BY <2>2, <3>1, <6>1 DEF IsNewest
          <6> QED BY <1>0, <1>3, <2>1, <2>3, <6>1, <6>2
        <5> QED BY <5>1, <5>2
      <4> QED BY <1>0, <1>2, <1>5, <4>1 DEF IsNewest
    <3>3. View(k, dir', tab') = tab'[cfile][k] /\ View(k, dir, tab) = tab[g][k]
      BY <1>D, <2>2, <3>2, ViewNewest
    <3> QED BY <1>2, <2>1, <3>1, <3>3, ViewOfDisk
  <2>5. CASE g \notin sel
    <3>1. cfile < g
      BY <1>0, <1>3, <2>1, <2>3, <2>5
    <3>2. IsNewest(g, k, dir', tab')
      <4>1. ASSUME NEW h \in dir', tab'[h][k] # NoEntry PROVE h <= g
        <5>1. CASE h = cfile
          BY <1>0, <1>3, <3>1, <5>1
        <5>2. CASE h # cfile
          BY <1>0, <1>1, <2>2, <4>1, <5>2 DEF IsNewest
        <5> QED BY <5>1, <5>2
      <4> QED BY <1>0, <1>1, <2>2, <4>1 DEF IsNewest
    <3>3. View(k, dir', tab') = tab'[g][k] /\ View(k, dir, tab) = tab[g][k]
      BY <1>D, <2>2, <3>2, ViewNewest
    <3> QED BY <1>1, <3>3, ViewOfDisk
  <2> QED BY <2>4, <2>5
<1> QED BY <1>4, <1>5

\* A flush in order: its entries are what lookups find from now on.
LEMMA FlushNoticed ==
    ASSUME TInv, IDInv, FilesInOrder, FlushFinish, NEW k \in Keys
    PROVE  DiskView(k)' = IF immutable[k] # NoEntry THEN immutable[k] ELSE DiskView(k)
<1>0. /\ dir \in SUBSET FileID /\ dir' \in SUBSET FileID /\ ffile \in FileID /\ ffile \notin dir
      /\ dir' = dir \cup {ffile} /\ tab' = [tab EXCEPT ![ffile] = immutable]
      /\ tab \in [FileID -> Table] /\ \A f \in dir : f < ffile
  BY DEF FlushFinish, FlushTable, TInv, TypeOK, DiskType, LocalsOK, IDInv, FilesInOrder
<1>D. dir \in SUBSET FileID /\ dir' \in SUBSET FileID
  BY <1>0
<1>1. (\A f \in dir : tab'[f] = tab[f]) /\ tab'[ffile] = immutable
  BY <1>0
<1>2. CASE immutable[k] = NoEntry
  <2>1. \A f : (f \in dir /\ tab[f][k] # NoEntry) <=> (f \in dir' /\ tab'[f][k] # NoEntry)
    BY <1>0, <1>1, <1>2
  <2>2. \A f \in dir \cap dir' : tab'[f][k] = tab[f][k]
    BY <1>1
  <2>3. View(k, dir', tab') = View(k, dir, tab)
    BY <1>D, <2>1, <2>2, ViewSame
  <2> QED BY <1>2, <2>3, ViewOfDisk
<1>3. CASE immutable[k] # NoEntry
  <2>1. \A f \in dir' : f <= ffile
    BY <1>0 DEF FileID
  <2>2. IsNewest(ffile, k, dir', tab')
    BY <1>0, <1>1, <1>3, <2>1 DEF IsNewest
  <2>3. View(k, dir', tab') = tab'[ffile][k]
    BY <1>D, <2>2, ViewNewest
  <2> QED BY <1>1, <1>3, <2>3, ViewOfDisk
<1> QED BY <1>2, <1>3

\* Nothing but a flush changes what lookups in the directory find.
LEMMA DiskSame ==
    ASSUME "remove" \notin Failing, TInv, IDInv, FileInv, RemovalInv, MergeInv, FilesInOrder,
           [Next]_vars, ~FlushFinish, NEW k \in Keys
    PROVE  Visible(DiskView(k))' = Visible(DiskView(k))
<1> USE DEF diskVars, compactVars
<1>0. dir \in SUBSET FileID
  BY DEF TInv, TypeOK, DiskType
<1>1. CASE dir' = dir /\ \A f \in dir : tab'[f] = tab[f]
  <2>1. DiskView(k)' = DiskView(k)
    BY <1>0, <1>1, ViewSame, ViewOfDisk
  <2> QED BY <2>1 DEF Visible
<1>2. CASE CompactRemove
  BY <1>2, InputNotMissed
<1>3. CASE CompactFinish
  BY <1>3, OutputUnnoticed DEF Visible
<1>4. ASSUME NEW c \in Clients, BeginWrite(c) \/ BeginGet(c) \/ ClientStep(c)
      PROVE  dir' = dir /\ tab' = tab
  BY <1>4 DEF BeginWrite, ClientStep, WalAppend, WalAppendError, Apply, SignalFlush, BeginGet,
              GetMem, GetCopy, GetScan, GetReturn
<1>5. CASE FlushCreate \/ CompactSelect
  BY <1>1, <1>5 DEF FlushCreate, CompactSelect, IDInv
<1>6. CASE Flusher /\ ~FlushFinish /\ ~FlushCreate
  BY <1>1, <1>6 DEF Flusher, FlushTake, FlushCheck, FlushError, FlushInstall, FlushAdd,
                    FlushClear, FlushSignal
<1>7. CASE Compactor /\ ~CompactFinish /\ ~CompactRemove /\ ~CompactSelect
  BY <1>1, <1>7 DEF Compactor, CompactTake, CompactCheck, CompactAlloc, CompactMerge, CompactError,
                    CompactCommit, CompactGlob, CompactSwap, CompactCloseOld
<1>8. CASE SyncTick \/ SyncTickError \/ BeginClose \/ Closer \/ Crash \/ UNCHANGED vars
  BY <1>1, <1>8 DEF SyncTick, SyncTickError, BeginClose, Closer, CloseSignal, CloseWait, CloseReaders,
                    CloseWAL, Crash, vars
<1>9. CASE Open
  BY <1>0, <1>1, <1>9 DEF Open
<1> QED BY <1>1, <1>2, <1>3, <1>4, <1>5, <1>6, <1>7, <1>8, <1>9 DEF Next, Clients

\* MemTables and files together show the last write of every key, and a flushed
\* MemTable is given up only when the files show it.
Shown ==
    \A k \in Keys :
        /\ Visible(StoreView(k)) = Visible(latest[k])
        /\ fpc \in {"install", "add", "clear"} /\ immutable[k] # NoEntry =>
              Visible(DiskView(k)) = Visible(immutable[k])

RotatedInv == fpc \in {"idle", "check", "signal", "done"} => immutable = EmptyTable

ShownInv == RotatedInv /\ (Alive => Shown)

LEMMA NextRotatedInv == ASSUME RotatedInv, [Next]_vars PROVE RotatedInv'
<1>1. CASE Crash \/ Open \/ Flusher
  BY <1>1 DEF Crash, Open, Flusher, FlushTake, FlushCheck, FlushCreate, FlushFinish, FlushError,
              FlushInstall, FlushAdd, FlushClear, FlushSignal, FlushReturn, RotatedInv, memVars
<1>2. CASE Compactor \/ SyncTick \/ SyncTickError \/ BeginClose \/ Closer \/ UNCHANGED vars
  BY <1>2 DEF Compactor, CompactTake, CompactCheck, CompactAlloc, CompactSelect, CompactMerge,
     CompactFinish, CompactError, CompactCommit, CompactRemove, CompactGlob, CompactSwap,
     CompactCloseOld, SyncTick, SyncTickError, BeginClose, Closer, CloseSignal, CloseWait,
     CloseReaders, CloseWAL, vars, memVars, flushVars, RotatedInv
<1>3. ASSUME NEW c \in Clients, BeginWrite(c) \/ BeginGet(c) \/ ClientStep(c) PROVE RotatedInv'
  BY <1>3 DEF BeginWrite, ClientStep, WalAppend, WalAppendError, Apply, SignalFlush, BeginGet,
              GetMem, GetCopy, GetScan, GetReturn, memVars, flushVars, RotatedInv
<1> QED BY <1>1, <1>2, <1>3 DEF Next, Clients

\* A key without a record in the log is in no table.
LEMMA UnloggedAbsent ==
    ASSUME TInv, LogInv, NEW k \in Keys, \A i \in DOMAIN wal : wal[i].key # k
    PROVE  /\ \A f \in dir : tab[f][k] = NoEntry
           /\ DiskView(k) = NoEntry
<1>1. ASSUME NEW f \in dir, tab[f][k] # NoEntry PROVE FALSE
  <2>1. f \in FileID /\ wal \in Seq(Record) /\ synced = Len(wal)
    BY <1>1 DEF TInv, TypeOK, DiskType, LogType, LogInv
  <2>2. LoggedIn(tab[f], wal, Len(wal))
    BY <2>1 DEF LogInv, Logged
  <2>3. \A i \in 1..Len(wal) : i \in DOMAIN wal
    BY <2>1
  <2>4. PICK i \in 1..Len(wal) : wal[i] = [key |-> k, ent |-> tab[f][k]]
    BY <1>1, <2>2 DEF LoggedIn
  <2>5. wal[i].key = k /\ i \in DOMAIN wal
    BY <2>3, <2>4
  <2> QED BY <2>5
<1> QED BY <1>1, ViewNone, ViewOfDisk

\* Records hold entries.
LEMMA RecordsHold ==
    ASSUME TInv, NEW i \in DOMAIN wal
    PROVE  wal[i].key \in Keys /\ wal[i].ent \in Entries /\ wal[i].ent # NoEntry
<1>1. wal[i] \in Record
  BY DEF TInv, TypeOK, LogType
<1> QED BY <1>1, EntryAssumption DEF Record, Entries

LEMMA OpenShown == ASSUME TInv, NothingBehindPiece, LogInv, Open PROVE Shown'
<1>0. Replayed = wal
  BY ReplayedType DEF TInv, TypeOK
<1>1. PICK t \in Table : IsReplay(t, wal) /\ active' = t /\ latest' = t
  BY <1>0 DEF Open
<1>2. /\ immutable' = EmptyTable /\ fpc' = "idle" /\ dir' = dir
      /\ dir \in SUBSET FileID /\ \A f \in dir : tab'[f] = tab[f]
  BY DEF Open, TInv, TypeOK, DiskType
<1>3. ASSUME NEW k \in Keys PROVE Visible(StoreView(k))' = Visible(latest[k])'
  <2>0. /\ Visible(StoreView(k))' = IF t[k] # NoEntry THEN Visible(t[k]) ELSE Visible(DiskView(k))'
        /\ Visible(latest[k])' = Visible(t[k])
    BY <1>1, <1>2, <1>3 DEF StoreView, Visible, EmptyTable
  <2>1. CASE t[k] # NoEntry
    BY <2>0, <2>1
  <2>2. CASE t[k] = NoEntry
    <3>1. \A i \in DOMAIN wal : wal[i].key # k
      BY <1>1, <1>3, <2>2, RecordsHold DEF IsReplay
    <3>2. \A f \in dir' : tab'[f][k] = NoEntry
      BY <1>2, <1>3, <3>1, UnloggedAbsent
    <3>3. DiskView(k)' = NoEntry
      BY <3>2, ViewNone, ViewOfDisk
    <3>4. Visible(DiskView(k))' = NoEntry /\ Visible(t[k]) = NoEntry
      BY <2>2, <3>3, EntryAssumption DEF Visible
    <3> QED BY <2>0, <2>2, <3>4
  <2> QED BY <2>1, <2>2
<1> QED BY <1>2, <1>3 DEF Shown

LEMMA NextShown ==
    ASSUME "flush" \notin Failing, "remove" \notin Failing,
           TInv, IDInv, FileInv, RemovalInv, MergeInv, RotatedInv, Shown, FilesInOrder,
           [Next]_vars, ~Crash, ~Open
    PROVE  Shown'
<1> USE DEF memVars, observers, flushVars
<1>0. /\ active \in Table /\ immutable \in Table /\ latest \in Table
      /\ \A k \in Keys : EmptyTable[k] = NoEntry
  BY DEF TInv, TypeOK, MemType, ObserverType, EmptyTable
<1>1. ASSUME ~(fpc = "finish" /\ fpc' = "install"), NEW k \in Keys
      PROVE  Visible(DiskView(k))' = Visible(DiskView(k))
  BY <1>1, DiskSame DEF FlushFinish
<1>2. ASSUME NEW k \in Keys
      PROVE  /\ Visible(StoreView(k)) =
                  IF active[k] # NoEntry THEN Visible(active[k])
                  ELSE IF immutable[k] # NoEntry THEN Visible(immutable[k])
                       ELSE Visible(DiskView(k))
             /\ Visible(StoreView(k))' =
                  IF active'[k] # NoEntry THEN Visible(active'[k])
                  ELSE IF immutable'[k] # NoEntry THEN Visible(immutable'[k])
                       ELSE Visible(DiskView(k))'
             /\ Visible(latest[k])' = Visible(latest'[k])
             /\ Visible(immutable[k])' = Visible(immutable'[k])
  BY DEF StoreView, Visible
<1>3. ASSUME UNCHANGED <<memVars, latest>>,
             \/ fpc' = fpc
             \/ fpc' \in {"idle", "check", "done"} /\ fpc \in {"idle", "check", "signal", "done"}
             \/ fpc = "create" /\ fpc' = "finish"
             \/ fpc \in {"install", "add"} /\ fpc' \in {"add", "clear"}
      PROVE  Shown'
  <2>1. ASSUME NEW k \in Keys
        PROVE  /\ Visible(StoreView(k))' = Visible(latest[k])'
               /\ fpc' \in {"install", "add", "clear"} /\ immutable'[k] # NoEntry =>
                     Visible(DiskView(k))' = Visible(immutable[k])'
    BY <1>1, <1>2, <1>3, <2>1 DEF Shown
  <2> QED BY <1>3, <2>1 DEF Shown
<1>4. ASSUME NEW c \in Clients,
             BeginWrite(c) \/ WalAppend(c) \/ WalAppendError(c) \/ SignalFlush(c)
             \/ BeginGet(c) \/ GetMem(c) \/ GetCopy(c) \/ GetScan(c) \/ GetReturn(c)
      PROVE  Shown'
  BY <1>3, <1>4 DEF BeginWrite, WalAppend, WalAppendError, SignalFlush, BeginGet,
                    GetMem, GetCopy, GetScan, GetReturn
<1>5. ASSUME NEW c \in Clients, Apply(c) PROVE Shown'
  <2>1. /\ key[c] \in Keys /\ ent[c] \in Entries /\ ent[c] # NoEntry
        /\ active' = [active EXCEPT ![key[c]] = ent[c]]
        /\ latest' = [latest EXCEPT ![key[c]] = ent[c]]
        /\ UNCHANGED <<immutable, fpc, life>>
    BY <1>5, EntryAssumption DEF Apply, TInv, TypeOK, ClientType, LocalsOK, Entries
  <2>2. ASSUME NEW k \in Keys
        PROVE  /\ Visible(StoreView(k))' = Visible(latest[k])'
               /\ fpc' \in {"install", "add", "clear"} /\ immutable'[k] # NoEntry =>
                     Visible(DiskView(k))' = Visible(immutable[k])'
    <3>1. Visible(DiskView(k))' = Visible(DiskView(k))
      BY <1>1, <2>1, <2>2
    <3>2. CASE k = key[c]
      <4>1. active'[k] = ent[c] /\ latest'[k] = ent[c]
        BY <1>0, <2>1, <3>2 DEF Table
      <4> QED BY <1>2, <2>1, <2>2, <3>1, <4>1 DEF Shown
    <3>3. CASE k # key[c]
      <4>1. active'[k] = active[k] /\ latest'[k] = latest[k]
        BY <1>0, <2>1, <2>2, <3>3 DEF Table
      <4> QED BY <1>2, <2>1, <2>2, <3>1, <4>1 DEF Shown
    <3> QED BY <3>2, <3>3
  <2> QED BY <2>1, <2>2 DEF Shown
<1>6. CASE FlushCheck
  <2>1. CASE FlushReturn /\ UNCHANGED memVars
    <3>1. fpc = "check" /\ fpc' \in {"idle", "check", "done"} /\ UNCHANGED <<latest, life>>
      BY <1>6, <2>1 DEF FlushCheck, FlushReturn
    <3> QED BY <1>3, <2>1, <3>1
  <2>2. CASE fpc' = "create" /\ immutable' = active /\ active' = EmptyTable
    <3>1. fpc = "check" /\ immutable = EmptyTable /\ UNCHANGED <<latest, life>>
      BY <1>6 DEF FlushCheck, RotatedInv
    <3>2. ASSUME NEW k \in Keys PROVE Visible(StoreView(k))' = Visible(latest[k])'
      <4>1. Visible(DiskView(k))' = Visible(DiskView(k))
        BY <1>1, <2>2, <3>2
      <4>2. Visible(StoreView(k)) = Visible(latest[k])
        BY <3>1, <3>2 DEF Shown
      <4> QED BY <1>0, <1>2, <2>2, <3>1, <3>2, <4>1, <4>2
    <3> QED BY <2>2, <3>2 DEF Shown
  <2> QED BY <1>6, <2>1, <2>2 DEF FlushCheck
<1>7. CASE FlushFinish
  <2>1. UNCHANGED <<memVars, latest, life>> /\ fpc = "finish" /\ fpc' = "install"
    BY <1>7 DEF FlushFinish
  <2>2. ASSUME NEW k \in Keys
        PROVE  /\ Visible(StoreView(k))' = Visible(latest[k])'
               /\ immutable'[k] # NoEntry => Visible(DiskView(k))' = Visible(immutable[k])'
    <3>1. DiskView(k)' = IF immutable[k] # NoEntry THEN immutable[k] ELSE DiskView(k)
      BY <1>7, <2>2, FlushNoticed
    <3>2. Visible(DiskView(k))' = IF immutable[k] # NoEntry THEN Visible(immutable[k])
                                  ELSE Visible(DiskView(k))
      BY <3>1 DEF Visible
    <3> QED BY <1>2, <2>1, <2>2, <3>2 DEF Shown
  <2> QED BY <2>1, <2>2 DEF Shown
<1>8. CASE FlushClear
  <2>1. /\ UNCHANGED <<active, latest, life>> /\ fpc = "clear" /\ fpc' = "signal"
        /\ immutable' = EmptyTable
    BY <1>8 DEF FlushClear
  <2>2. ASSUME NEW k \in Keys PROVE Visible(StoreView(k))' = Visible(latest[k])'
    <3>1. Visible(DiskView(k))' = Visible(DiskView(k))
      BY <1>1, <2>1, <2>2
    <3>2. /\ Visible(StoreView(k)) = Visible(latest[k])
          /\ immutable[k] # NoEntry => Visible(DiskView(k)) = Visible(immutable[k])
      BY <2>1, <2>2 DEF Shown
    <3> QED BY <1>0, <1>2, <2>1, <2>2, <3>1, <3>2
  <2> QED BY <2>1, <2>2 DEF Shown
<1>9. CASE FlushTake \/ FlushCreate \/ FlushError \/ FlushInstall \/ FlushAdd \/ FlushSignal
  BY <1>3, <1>9 DEF FlushTake, FlushCreate, FlushError, Fault, FlushInstall, FlushAdd, FlushSignal,
                    FlushReturn
<1>10. CASE Compactor
  BY <1>3, <1>10 DEF Compactor, CompactTake, CompactCheck, CompactAlloc, CompactSelect,
     CompactMerge, CompactFinish, CompactError, CompactCommit, CompactRemove, CompactGlob,
     CompactSwap, CompactCloseOld
<1>11. CASE SyncTick \/ SyncTickError \/ BeginClose \/ Closer \/ UNCHANGED vars
  BY <1>3, <1>11 DEF SyncTick, SyncTickError, BeginClose, Closer, CloseSignal, CloseWait, CloseReaders,
                     CloseWAL, vars
<1> QED BY <1>4, <1>5, <1>6, <1>7, <1>8, <1>9, <1>10, <1>11
        DEF Next, ClientStep, Flusher, Clients

LEMMA NextShownInv ==
    ASSUME "flush" \notin Failing, "remove" \notin Failing,
           TInv, NothingBehindPiece, IDInv, FileInv, RemovalInv, MergeInv, LogInv, ShownInv,
           FilesInOrder, [Next]_vars
    PROVE  ShownInv'
<1>0. RotatedInv'
  BY NextRotatedInv DEF ShownInv
<1>1. CASE Crash
  BY <1>0, <1>1 DEF Crash, ShownInv, Alive, AllIdle
<1>2. CASE Open
  BY <1>0, <1>2, OpenShown DEF ShownInv
<1>3. CASE ~Crash /\ ~Open /\ Alive
  BY <1>0, <1>3, NextShown DEF ShownInv
<1>4. CASE ~Open /\ ~Alive
  BY <1>0, <1>4, DeadUntilOpen DEF ShownInv
<1> QED BY <1>1, <1>2, <1>3, <1>4

(***************************************************************************)
(* In SyncFull, without failing fsyncs, flushes, removals and errors after *)
(* a merge's output is complete, for any number of clients, flushes,       *)
(* compactions, failed writes and merges, crashes and restarts: as long as *)
(* IDs follow the age of the entries and no record lies behind part of     *)
(* another, newest-first lookup finds the last applied write of every key. *)
(***************************************************************************)
THEOREM LookupsFindNewest ==
    ASSUME SyncMode = "full",
           "fsync" \notin Failing, "flush" \notin Failing, "remove" \notin Failing,
           "stat" \notin Failing
    PROVE  Spec /\ []FilesInOrder /\ []NothingBehindPiece => []NewestVisible
<1> DEFINE All == /\ IDInv /\ FileInv /\ HandleInv /\ RemovalInv /\ AckInv /\ LogInv
                  /\ MergeInv /\ ShownInv
<1>1. Init => All
  <2> SUFFICES ASSUME Init PROVE All
    OBVIOUS
  <2>1. IDInv /\ FileInv /\ HandleInv /\ RemovalInv
    BY NoHandles DEF Init, IDInv, FileInv, EngineOnDisk, HandleInv, HandlesOwned, RemovalInv,
                     NoOrphan, InputsOlder
  <2>2. AckInv /\ LogInv
    BY LoggedEmpty DEF Init, AckInv, AckedDurable, LogInv, Logged
  <2>3. MergeInv
    BY DEF Init, MergeInv
  <2>4. ShownInv
    <3>1. ASSUME NEW k \in Keys PROVE StoreView(k) = NoEntry /\ latest[k] = NoEntry
      BY <3>1 DEF Init, StoreView, DiskView, EmptyTable
    <3>2. fpc = "idle" /\ immutable = EmptyTable
      BY DEF Init
    <3> QED BY <3>1, <3>2 DEF ShownInv, RotatedInv, Shown
  <2> QED BY <2>1, <2>2, <2>3, <2>4
<1>2. TInv /\ All /\ FilesInOrder /\ NothingBehindPiece /\ [Next]_vars => All'
  <2>1. FilesInOrder => IDsInOrder
    BY DEF FilesInOrder
  <2> QED BY <2>1, NextIDInv, NextFileInv, NextHandleInv, NextRemovalInv, NextAckInv, NextLogInv,
             NextMergeInv, NextShownInv
<1>3. All => NewestVisible
  BY DEF ShownInv, Shown, Alive, NewestVisible, Quiescent
<1> HIDE DEF All
<1> QED BY <1>1, <1>2, <1>3, TInvAlways, PTL DEF Spec
=============================================================================
