------------------------------ MODULE DBProofs ------------------------------
(***************************************************************************)
(* Theorems about DB for every value of its constants.  TInv, the types    *)
(* and what a running call may rely on, is inductive by itself; on top of  *)
(* it AckInv and LogInv give the two durability theorems, IDInv the one    *)
(* about files.                                                            *)
(***************************************************************************)
EXTENDS DB, FiniteSetTheorems, TLAPS

\* What a running call or goroutine may rely on about its own locals.
LocalsOK ==
    /\ \A c \in Clients :
          /\ pc[c] \in {"append", "apply", "signal"} => ent[c] \in Entries
          /\ pc[c] \in {"apply", "signal"} => pos[c] \in 1..Len(wal)
    /\ fpc \in {"create", "finish", "install", "add"} => ffile \in FileID
    /\ cpc \in {"select", "merge", "commit", "remove", "glob", "swap", "close"}
          => cfile \in FileID
    /\ life = "failed" => "fsync" \in Failing

TInv == TypeOK /\ LocalsOK

LEMMA EmptyTableType == EmptyTable \in Table
BY DEF EmptyTable, Table

LEMMA AnyKeyType == AnyKey \in Keys
BY ClientsAssumption DEF AnyKey

LEMMA VisibleType ==
    ASSUME NEW e \in Entries \cup {NoEntry} PROVE Visible(e) \in Values \cup {NoEntry}
BY DEF Visible, Entries

LEMMA TableUpdate ==
    ASSUME NEW t \in Table, NEW k \in Keys, NEW e \in Entries
    PROVE  [t EXCEPT ![k] = e] \in Table
BY DEF Table

LEMMA TableEntry ==
    ASSUME NEW t \in Table, NEW k \in Keys PROVE t[k] \in Entries \cup {NoEntry}
BY DEF Table

\* A listing of a set of file IDs has each of them once, from the highest down.
LEMMA DescendingIs ==
    ASSUME NEW S, NEW s \in Descending(S)
    PROVE  /\ s \in [1..Cardinality(S) -> S]
           /\ \A i, j \in DOMAIN s : i < j => s[i] > s[j]
           /\ \A f \in S : \E i \in DOMAIN s : s[i] = f
BY Zenon DEF Descending

\* The descending listing of a set of file IDs is a sequence over it.
LEMMA DescendingSeq ==
    ASSUME NEW S \in SUBSET FileID, NEW s \in Descending(S)
    PROVE  /\ Cardinality(S) \in Nat
           /\ s \in [1..Cardinality(S) -> S]
           /\ S # {} => 1 \in DOMAIN s /\ s[1] \in S
<1>0. IsFiniteSet(FileID)
  BY FS_Interval, BoundsAssumption DEF FileID
<1>1. IsFiniteSet(S)
  BY <1>0, FS_Subset
<1>2. Cardinality(S) \in Nat
  BY <1>1, FS_CardinalityType
<1>3. S # {} => Cardinality(S) # 0
  BY <1>1, FS_EmptySet
<1>4. s \in [1..Cardinality(S) -> S]
  BY DescendingIs
<1> QED BY <1>2, <1>3, <1>4

\* Opening the files of S, newest first, gives a list of readers.
LEMMA OpenedReaders ==
    ASSUME NEW S \in SUBSET FileID, NEW s \in Descending(S), NEW g \in 0..MaxFileID
    PROVE  [i \in DOMAIN s |-> [file |-> s[i], gen |-> g]] \in Seq(Handle)
<1>1. /\ Cardinality(S) \in Nat
      /\ s \in [1..Cardinality(S) -> S]
  BY DescendingSeq
<1>2. DOMAIN s = 1..Cardinality(S) /\ \A i \in DOMAIN s : s[i] \in FileID
  BY <1>1
<1>3. \A i \in DOMAIN s : [file |-> s[i], gen |-> g] \in Handle
  BY <1>2 DEF Handle
<1> QED BY <1>1, <1>2, <1>3

\* reloadReaders.
LEMMA GlobReaders == ASSUME TInv, CompactGlob PROVE fresh' \in Seq(Handle)
<1>1. dir \in SUBSET FileID /\ cfile \in 0..MaxFileID
  BY DEF TInv, TypeOK, DiskType, CompactType
<1>2. PICK s \in Descending(dir) :
        fresh' = [i \in DOMAIN s |-> [file |-> s[i], gen |-> cfile]]
  BY DEF CompactGlob
<1>3. [i \in DOMAIN s |-> [file |-> s[i], gen |-> cfile]] \in Seq(Handle)
  BY <1>1, OpenedReaders
<1> QED BY <1>2, <1>3

\* loadSSTables.
LEMMA LoadedReaders ==
    ASSUME TInv, Open
    PROVE  readers' \in Seq(Handle) /\ nextFileID' \in 1..(MaxFileID + 1)
<1>1. dir \in SUBSET FileID /\ 0 \in 0..MaxFileID
  BY BoundsAssumption DEF TInv, TypeOK, DiskType
<1>2. PICK s \in Descending(dir) :
        /\ readers' = [i \in DOMAIN s |-> [file |-> s[i], gen |-> 0]]
        /\ nextFileID' = IF dir = {} THEN 1 ELSE s[1] + 1
  BY <1>1, DescendingSeq DEF Open, IDAfter
<1>3. [i \in DOMAIN s |-> [file |-> s[i], gen |-> 0]] \in Seq(Handle)
  BY <1>1, OpenedReaders
<1>4. dir # {} => s[1] \in FileID
  BY <1>1, DescendingSeq
<1>5. nextFileID' \in 1..(MaxFileID + 1)
  BY <1>2, <1>4, BoundsAssumption DEF FileID
<1> QED BY <1>2, <1>3, <1>5

\* A prefix of the log.
LEMMA PrefixType ==
    ASSUME NEW w \in Seq(Record), NEW n \in 0..Len(w)
    PROVE  /\ SubSeq(w, 1, n) \in Seq(Record) /\ Len(SubSeq(w, 1, n)) = n
           /\ \A i \in 1..n : SubSeq(w, 1, n)[i] = w[i]
OBVIOUS

\* What a crash leaves of the log.
LEMMA CutLogType ==
    ASSUME LogType, CutLog, synced' = synced
    PROVE  /\ LogType'
           /\ \A i \in 1..synced : i <= Len(wal') /\ wal'[i] = wal[i]
<1> USE DEF LogType
<1>1. PICK n \in synced..Len(wal) :
         /\ wal' = SubSeq(wal, 1, n)
         /\ piece' = (IF piece < n THEN piece ELSE NoPiece) \/ piece' = PieceBehind(n)
  BY DEF CutLog
<1>2. n \in 0..Len(wal) /\ n \in Nat /\ synced \in Nat /\ synced <= n /\ piece \in Nat /\ wal \in Seq(Record)
  BY BoundsAssumption DEF NoPiece
<1>3. wal' \in Seq(Record) /\ Len(wal') = n /\ \A i \in 1..n : wal'[i] = wal[i]
  BY <1>1, <1>2, PrefixType
<1>4. piece' \in 0..n \cup {NoPiece}
  BY <1>1, <1>2 DEF PieceBehind
<1>5. n <= MaxWrites
  BY <1>2, BoundsAssumption
<1> QED BY <1>2, <1>3, <1>4, <1>5

\* What Replay delivers is the log up to the first part of a record.
LEMMA ReplayedType ==
    ASSUME LogType
    PROVE  Replayed \in Seq(Record) /\ Len(Replayed) <= Len(wal) /\ (NothingBehindPiece => Replayed = wal)
<1>1. wal \in Seq(Record) /\ Len(wal) \in Nat /\ piece \in Nat
  BY BoundsAssumption DEF LogType, NoPiece
<1>2. CASE piece < Len(wal)
  <2>1. piece \in 0..Len(wal)
    BY <1>1, <1>2
  <2>2. SubSeq(wal, 1, piece) \in Seq(Record) /\ Len(SubSeq(wal, 1, piece)) = piece
    BY <1>1, <2>1, PrefixType
  <2> QED BY <1>1, <1>2, <2>2 DEF Replayed, NothingBehindPiece
<1>3. CASE ~(piece < Len(wal))
  BY <1>1, <1>3 DEF Replayed
<1> QED BY <1>2, <1>3

\* Where Open cuts off the log.
LEMMA TruncateLogType ==
    ASSUME LogType, TruncateLog
    PROVE  /\ LogType'
           /\ NothingBehindPiece => wal' = wal /\ synced' = synced
<1>1. /\ wal \in Seq(Record) /\ Len(wal) \in Nat /\ piece \in Nat /\ synced \in Nat /\ synced <= Len(wal)
      /\ Len(wal) <= MaxWrites
  BY BoundsAssumption DEF LogType, NoPiece
<1>2. /\ wal' \in Seq(Record) /\ Len(wal') \in Nat /\ Len(wal') <= Len(wal)
      /\ NothingBehindPiece => wal' = wal
  BY ReplayedType DEF TruncateLog
<1>3. synced' = IF Len(wal') < synced THEN Len(wal') ELSE synced
  BY DEF TruncateLog
<1>4. synced' \in 0..Len(wal') /\ (NothingBehindPiece => synced' = synced)
  BY <1>1, <1>2, <1>3
<1>5. piece' = NoPiece \/ (piece' = Len(wal) /\ wal' = wal)
  BY <1>1 DEF TruncateLog, Replayed
<1>6. Len(wal') <= MaxWrites
  BY <1>1, <1>2, BoundsAssumption
<1> QED BY <1>1, <1>2, <1>4, <1>5, <1>6 DEF LogType

LEMMA InitTInv == Init => TInv
<1> SUFFICES ASSUME Init PROVE TInv
  OBVIOUS
<1> USE DEF Init
<1>1. LogType
  BY BoundsAssumption DEF LogType
<1>2. DiskType /\ MemType
  BY BoundsAssumption, EmptyTableType DEF DiskType, MemType, FileID
<1>3. ReaderType /\ ControlType
  BY DEF ReaderType, ControlType
<1>4. ClientType
  BY AnyKeyType, BoundsAssumption DEF ClientType
<1>5. FlushType /\ CompactType
  BY EmptyTableType, BoundsAssumption DEF FlushType, CompactType
<1>6. ObserverType
  BY EmptyTableType, BoundsAssumption DEF ObserverType
<1>7. LocalsOK
  BY DEF LocalsOK
<1> QED BY <1>1, <1>2, <1>3, <1>4, <1>5, <1>6, <1>7 DEF TInv, TypeOK

LEMMA NextTInv == TInv /\ [Next]_vars => TInv'
<1> SUFFICES ASSUME TInv, [Next]_vars PROVE TInv'
  OBVIOUS
<1> USE EmptyTableType, AnyKeyType, BoundsAssumption
    DEF TInv, TypeOK, LogType, DiskType, MemType, ReaderType, ControlType, ClientType,
        FlushType, CompactType, ObserverType, LocalsOK, FileID,
        logVars, diskVars, memVars, readerVars, chanVars, clientVars, flushVars, compactVars,
        observers, counters
<1>1. ASSUME NEW c \in Clients, BeginWrite(c) PROVE TInv'
  BY <1>1 DEF BeginWrite, Goto
<1>2. ASSUME NEW c \in Clients, WalAppend(c) PROVE TInv'
  <2>1. RecordOf(c) \in Record
    BY <1>2 DEF WalAppend, RecordOf, Record
  <2>2. LogType' /\ Len(wal') = Len(wal) + 1
    BY <1>2, <2>1 DEF WalAppend, SyncedAfter, NoPiece
  <2>3. ClientType' /\ LocalsOK'
    BY <1>2, <2>2 DEF WalAppend, Goto
  <2> QED BY <1>2, <2>2, <2>3 DEF WalAppend
<1>3. ASSUME NEW c \in Clients, WalAppendError(c) PROVE TInv'
  <2>0. faults' \in 0..MaxFaults
    BY <1>3 DEF WalAppendError, Fault
  <2>1. DiskType' /\ MemType' /\ ReaderType' /\ ControlType'
    BY <1>3 DEF WalAppendError
  <2>2. FlushType' /\ CompactType' /\ ObserverType'
    BY <1>3, <2>0 DEF WalAppendError
  <2>3. CASE UNCHANGED wal
    <3>1. ClientType' /\ LocalsOK'
      BY <1>3, <2>3 DEF WalAppendError, EndCall, Goto
    <3>2. piece' \in {piece, PieceBehind(Len(wal))}
      BY <1>3 DEF WalAppendError
    <3>3. LogType'
      BY <1>3, <2>3, <3>2 DEF WalAppendError, PieceBehind, NoPiece
    <3> QED BY <2>1, <2>2, <3>1, <3>3
  <2>4. CASE wal' = Append(wal, [key |-> key[c], ent |-> ent[c]]) /\ Len(wal) < MaxWrites /\ UNCHANGED piece
    <3>1. [key |-> key[c], ent |-> ent[c]] \in Record
      BY <1>3 DEF WalAppendError, Record
    <3>2. LogType' /\ Len(wal') = Len(wal) + 1
      BY <1>3, <2>4, <3>1 DEF WalAppendError
    <3>3. ClientType' /\ LocalsOK'
      BY <1>3, <3>2 DEF WalAppendError, EndCall, Goto
    <3> QED BY <2>1, <2>2, <3>2, <3>3
  <2> QED BY <1>3, <2>3, <2>4 DEF WalAppendError, RecordOf
<1>4. ASSUME NEW c \in Clients, Apply(c) PROVE TInv'
  <2> DEFINE t == [active EXCEPT ![key[c]] = ent[c]]
  <2>1. ent[c] \in Entries /\ key[c] \in Keys /\ pos[c] \in 1..Len(wal)
    BY <1>4 DEF Apply
  <2>2. MemType'
    BY <1>4, <2>1, TableUpdate DEF Apply
  <2>3. Visible(ent[c]) \in Values \cup {NoEntry}
    BY <2>1, VisibleType
  <2>4. latest' \in Table
    BY <1>4, <2>1, TableUpdate DEF Apply
  <2>5. seen' \in [Clients -> SUBSET (Values \cup {NoEntry})]
    BY <1>4, <2>3 DEF Apply
  <2>6. LogType' /\ DiskType' /\ ReaderType' /\ ControlType'
    BY <1>4 DEF Apply
  <2>7. FlushType' /\ CompactType'
    BY <1>4 DEF Apply
  <2>8. CASE Goto(c, "signal") /\ UNCHANGED <<key, ent, pos, todo, acked>>
    <3>1. ClientType' /\ LocalsOK'
      BY <1>4, <2>8 DEF Apply, Goto
    <3>2. ObserverType'
      BY <1>4, <2>4, <2>5, <2>8 DEF Apply
    <3> QED BY <2>2, <2>6, <2>7, <3>1, <3>2
  <2>9. CASE Acknowledge(c)
    <3>1. ClientType' /\ LocalsOK'
      BY <1>4, <2>9 DEF Apply, Acknowledge, EndCall, Goto
    <3>2. acked' \in SUBSET Acked
      BY <2>1, <2>9 DEF Acknowledge, RecordOf, Acked, Record
    <3>3. ObserverType'
      BY <1>4, <2>4, <2>5, <3>2 DEF Apply
    <3> QED BY <2>2, <2>6, <2>7, <3>1, <3>3
  <2> QED BY <1>4, <2>8, <2>9 DEF Apply
<1>5. ASSUME NEW c \in Clients, SignalFlush(c) PROVE TInv'
  BY <1>5 DEF SignalFlush, SendFlush, Acknowledge, RecordOf, EndCall, Goto, Acked, Record
<1>6. ASSUME NEW c \in Clients, BeginGet(c) PROVE TInv'
  BY <1>6 DEF BeginGet, Goto, Visible, Table, Entries
<1>7. ASSUME NEW c \in Clients, GetMem(c) PROVE TInv'
  <2>1. Visible(MemEntry(c)) \in Values \cup {NoEntry}
    BY TableEntry, VisibleType DEF MemEntry
  <2>2. CASE Result(c, Visible(MemEntry(c)))
    BY <1>7, <2>1, <2>2 DEF GetMem, Result, Goto, Entries
  <2>3. CASE Goto(c, "copy") /\ UNCHANGED ent
    BY <1>7, <2>3 DEF GetMem, Goto
  <2> QED BY <1>7, <2>2, <2>3 DEF GetMem
<1>8. ASSUME NEW c \in Clients, GetCopy(c) PROVE TInv'
  BY <1>8 DEF GetCopy, Goto
<1>9. ASSUME NEW c \in Clients, GetScan(c) PROVE TInv'
  <2>0. UNCHANGED <<logVars, diskVars, memVars, nextFileID, readerVars, files, chanVars,
                    life, key, pos, flushVars, compactVars, observers, counters>>
    BY <1>9 DEF GetScan
  <2>1. LogType' /\ DiskType' /\ MemType' /\ ReaderType'
    BY <2>0
  <2>2. ControlType' /\ FlushType' /\ CompactType' /\ ObserverType'
    BY <2>0
  <2>3. CASE \E r \in Values \cup {NoEntry, Failed} : Result(c, r) /\ UNCHANGED todo
    <3>1. ClientType' /\ LocalsOK'
      BY <1>9, <2>3 DEF GetScan, Result, Goto, Entries
    <3> QED BY <2>1, <2>2, <3>1
  <2>4. CASE /\ todo[c] # <<>> /\ todo' = [todo EXCEPT ![c] = Tail(@)]
             /\ UNCHANGED <<pc, ent>>
    <3>1. Tail(todo[c]) \in Seq(Handle)
      BY <2>4
    <3>2. todo' \in [Clients -> Seq(Handle)]
      BY <2>4, <3>1
    <3>3. ClientType' /\ LocalsOK'
      BY <2>0, <2>4, <3>2
    <3> QED BY <2>1, <2>2, <3>3
  <2>5. CASE todo[c] # <<>> /\ Result(c, Visible(tab[Head(todo[c]).file][key[c]]))
                            /\ UNCHANGED todo
    <3>1. Head(todo[c]).file \in FileID
      <4>1. Head(todo[c]) \in Handle
        BY <2>5
      <4> QED BY <4>1 DEF Handle
    <3>2. Visible(tab[Head(todo[c]).file][key[c]]) \in Values \cup {NoEntry}
      BY <3>1, TableEntry, VisibleType
    <3> QED BY <2>3, <2>5, <3>2
  <2> QED BY <1>9, <2>3, <2>4, <2>5 DEF GetScan
<1>10. ASSUME NEW c \in Clients, GetReturn(c) PROVE TInv'
  BY <1>10 DEF GetReturn, EndCall, Goto
<1>11. CASE FlushTake
  BY <1>11 DEF FlushTake
<1>12. CASE FlushCheck
  BY <1>12 DEF FlushCheck, FlushReturn
<1>13. CASE FlushCreate
  BY <1>13 DEF FlushCreate
<1>14. CASE FlushFinish
  BY <1>14 DEF FlushFinish, FlushTable
<1>15. CASE FlushError
  BY <1>15 DEF FlushError, Fault
<1>16. CASE FlushInstall
  <2>1. [file |-> ffile, gen |-> 0] \in Handle
    BY <1>16 DEF FlushInstall, Handle
  <2>2. readers' \in Seq(Handle) /\ handles' \in SUBSET Handle
    BY <1>16, <2>1 DEF FlushInstall, Prepend
  <2> QED BY <1>16, <2>2 DEF FlushInstall
<1>17. CASE FlushAdd
  BY <1>17 DEF FlushAdd
<1>18. CASE FlushClear
  BY <1>18 DEF FlushClear
<1>19. CASE FlushSignal
  BY <1>19 DEF FlushSignal, FlushReturn
<1>20. CASE CompactTake
  BY <1>20 DEF CompactTake
<1>21. CASE CompactCheck
  BY <1>21 DEF CompactCheck
<1>22. CASE CompactAlloc
  BY <1>22 DEF CompactAlloc
<1>23. CASE CompactSelect
  <2>1. PICK S \in SUBSET files :
          /\ sel' = S
          /\ mkeys' = UNION {KeysOf(tab[f]) : f \in S}
          /\ IF S = {} THEN cpc' = "glob" /\ UNCHANGED <<dir, torn>>
             ELSE cpc' = "merge" /\ torn' = torn \cup {cfile} /\ dir' = dir \ {cfile}
    BY <1>23 DEF CompactSelect
  <2>2. mkeys' \in SUBSET Keys
    BY <2>1 DEF KeysOf
  <2>3. cfile \in FileID
    BY <1>23 DEF CompactSelect
  <2>4. DiskType'
    BY <1>23, <2>1, <2>3 DEF CompactSelect
  <2>5. CompactType' /\ LocalsOK'
    BY <1>23, <2>1, <2>2, <2>3 DEF CompactSelect
  <2> QED BY <1>23, <2>4, <2>5 DEF CompactSelect
<1>24. CASE CompactMerge
  BY <1>24 DEF CompactMerge, IsNewest, Table
<1>25. CASE CompactFinish
  BY <1>25 DEF CompactFinish
<1>26. CASE CompactError
  BY <1>26 DEF CompactError, Fault
<1>27. CASE CompactCommit
  BY <1>27 DEF CompactCommit, Listed
<1>28. CASE CompactRemove
  <2>1. PICK f \in sel : /\ sel' = sel \ {f}
                         /\ \/ dir' = dir \ {f} /\ UNCHANGED faults
                            \/ Fault("remove") /\ UNCHANGED dir
    BY <1>28 DEF CompactRemove
  <2>2. DiskType'
    BY <1>28, <2>1 DEF CompactRemove
  <2>4. faults' \in 0..MaxFaults
    BY <2>1 DEF Fault
  <2>3. CompactType' /\ LocalsOK'
    BY <1>28, <2>1 DEF CompactRemove
  <2> QED BY <1>28, <2>2, <2>3, <2>4 DEF CompactRemove
<1>29. CASE CompactGlob
  <2>1. fresh' \in Seq(Handle)
    BY <1>29, GlobReaders
  <2>2. handles' \in SUBSET Handle
    BY <1>29 DEF CompactGlob, Handle
  <2> QED BY <1>29, <2>1, <2>2 DEF CompactGlob
<1>30. CASE CompactSwap
  BY <1>30 DEF CompactSwap, Replaced, ToSet
<1>31. CASE CompactCloseOld
  BY <1>31 DEF CompactCloseOld
<1>32. CASE SyncTick
  BY <1>32 DEF SyncTick
<1>33. CASE BeginClose
  BY <1>33 DEF BeginClose
<1>34. CASE CloseSignal
  BY <1>34 DEF CloseSignal, SendFlush
<1>35. CASE CloseWait
  BY <1>35 DEF CloseWait
<1>36. CASE CloseReaders
  BY <1>36 DEF CloseReaders
<1>37. CASE CloseWAL
  BY <1>37 DEF CloseWAL, Fault
<1>38. CASE Crash
  <2>1. LogType'
    BY <1>38, CutLogType DEF Crash
  <2>2. DiskType' /\ MemType' /\ ReaderType' /\ ControlType'
    BY <1>38 DEF Crash
  <2>3. ClientType' /\ FlushType' /\ CompactType' /\ ObserverType' /\ LocalsOK'
    BY <1>38 DEF Crash
  <2> QED BY <2>1, <2>2, <2>3
<1>39. CASE Open
  <2>2. readers' \in Seq(Handle) /\ nextFileID' \in 1..(MaxFileID + 1)
    BY <1>39, LoadedReaders
  <2>4. handles' \in SUBSET Handle
    BY <1>39 DEF Open, Handle
  <2>5. DiskType'
    BY <1>39 DEF Open
  <2>6. active' \in Table /\ latest' \in Table
    BY <1>39 DEF Open
  <2>1. LogType'
    BY <1>39, TruncateLogType DEF Open
  <2>7. MemType' /\ ReaderType' /\ ControlType'
    BY <1>39, <2>2, <2>4, <2>6 DEF Open
  <2>8. ClientType' /\ FlushType' /\ CompactType' /\ LocalsOK'
    BY <1>39 DEF Open
  <2>9. ObserverType'
    BY <1>39, <2>6 DEF Open
  <2> QED BY <2>1, <2>5, <2>7, <2>8, <2>9
<1>40. CASE UNCHANGED vars
  BY <1>40 DEF vars
<1>41. CASE SyncTickError
  BY <1>41 DEF SyncTickError, Fault
<1> QED BY <1>1, <1>2, <1>3, <1>4, <1>5, <1>6, <1>7, <1>8, <1>9, <1>10, <1>11, <1>12,
           <1>13, <1>14, <1>15, <1>16, <1>17, <1>18, <1>19, <1>20, <1>21, <1>22, <1>23, <1>24, <1>25,
           <1>26, <1>27, <1>28, <1>29, <1>30, <1>31, <1>32, <1>33, <1>34, <1>35, <1>36, <1>37, <1>38,
           <1>39, <1>40, <1>41
        DEF Next, ClientStep, Flusher, Compactor, Closer, Clients

LEMMA TInvAlways == Spec => []TInv
BY InitTInv, NextTInv, PTL DEF Spec

(***************************************************************************)
(* Type correctness: in every reachable state of db.go's model each piece  *)
(* of state has its type, whatever the clients, goroutines and crashes do. *)
(***************************************************************************)
THEOREM TypeCorrect == Spec => []TypeOK
<1>1. TInv => TypeOK
  BY DEF TInv
<1> QED BY <1>1, TInvAlways, PTL

-----------------------------------------------------------------------------
(* The log.                                                                *)

\* While no record lies behind part of another, no step takes back or changes a
\* record of the fsynced prefix.
LEMMA SyncedPrefix ==
    ASSUME TInv, NothingBehindPiece, [Next]_vars
    PROVE  synced <= synced' /\ \A i \in 1..synced : i <= Len(wal') /\ wal'[i] = wal[i]
<1> USE DEF TInv, TypeOK, LogType, LocalsOK
<1>0. wal \in Seq(Record) /\ synced \in Nat /\ synced <= Len(wal)
  OBVIOUS
<1>1. CASE UNCHANGED logVars
  BY <1>0, <1>1 DEF logVars
<1>2. ASSUME NEW r, wal' = Append(wal, r), r \in Record, synced' \in {synced, Len(wal')}
      PROVE  /\ synced <= synced'
             /\ \A i \in 1..synced : i <= Len(wal') /\ wal'[i] = wal[i]
  BY <1>0, <1>2
<1>3. ASSUME NEW c \in Clients, WalAppend(c)
      PROVE  /\ synced <= synced'
             /\ \A i \in 1..synced : i <= Len(wal') /\ wal'[i] = wal[i]
  <2>1. [key |-> key[c], ent |-> ent[c]] \in Record
    BY <1>3 DEF WalAppend, ClientType, Record
  <2> QED BY <1>2, <1>3, <2>1 DEF WalAppend, RecordOf, SyncedAfter
<1>4. ASSUME NEW c \in Clients, WalAppendError(c)
      PROVE  /\ synced <= synced'
             /\ \A i \in 1..synced : i <= Len(wal') /\ wal'[i] = wal[i]
  <2>1. [key |-> key[c], ent |-> ent[c]] \in Record
    BY <1>4 DEF WalAppendError, ClientType, Record
  <2>2. CASE UNCHANGED wal
    BY <1>0, <1>4, <2>2 DEF WalAppendError
  <2>3. CASE wal' = Append(wal, [key |-> key[c], ent |-> ent[c]])
    BY <1>2, <1>4, <2>1, <2>3 DEF WalAppendError
  <2> QED BY <1>4, <2>2, <2>3 DEF WalAppendError
<1>5. CASE SyncTick \/ CloseWAL
  BY <1>0, <1>5 DEF SyncTick, CloseWAL
<1>6. CASE Crash \/ Open
  <2>1. CASE Crash
    BY <1>0, <2>1, CutLogType DEF Crash
  <2>2. CASE Open
    BY <1>0, <2>2, TruncateLogType DEF Open
  <2> QED BY <1>6, <2>1, <2>2
<1>7. ASSUME NEW c \in Clients,
             BeginWrite(c) \/ Apply(c) \/ SignalFlush(c) \/ BeginGet(c) \/ GetMem(c)
             \/ GetCopy(c) \/ GetScan(c) \/ GetReturn(c)
      PROVE  UNCHANGED logVars
  BY <1>7 DEF BeginWrite, Apply, SignalFlush, BeginGet, GetMem, GetCopy, GetScan, GetReturn
<1>8. CASE Flusher
  BY <1>1, <1>8 DEF Flusher, FlushTake, FlushCheck, FlushCreate, FlushFinish, FlushError,
                    FlushInstall, FlushAdd, FlushClear, FlushSignal
<1>9. CASE Compactor
  BY <1>1, <1>9 DEF Compactor, CompactTake, CompactCheck, CompactAlloc, CompactSelect,
                    CompactMerge, CompactFinish, CompactError, CompactCommit, CompactRemove,
                    CompactGlob, CompactSwap, CompactCloseOld
<1>10. CASE SyncTickError \/ BeginClose \/ CloseSignal \/ CloseWait \/ CloseReaders \/ UNCHANGED vars
  BY <1>1, <1>10 DEF SyncTickError, BeginClose, CloseSignal, CloseWait, CloseReaders, vars
<1> QED BY <1>1, <1>3, <1>4, <1>5, <1>6, <1>7, <1>8, <1>9, <1>10
        DEF Next, ClientStep, Closer, Clients

\* The record of a write that is past its Append is in the fsynced prefix, and
\* so is every acknowledged one.
AckInv ==
    /\ \A c \in Clients : pc[c] \in {"apply", "signal"} =>
          pos[c] <= synced /\ wal[pos[c]] = [key |-> key[c], ent |-> ent[c]]
    /\ AckedDurable

LEMMA NextAckInv ==
    ASSUME SyncMode = "full", TInv, NothingBehindPiece, AckInv, [Next]_vars
    PROVE  AckInv'
<1> USE DEF TInv, TypeOK, LogType, LocalsOK, ClientType
<1>0. /\ synced \in Nat /\ synced' \in Nat /\ synced <= synced'
      /\ \A i \in 1..synced : wal'[i] = wal[i]
  BY SyncedPrefix, NextTInv
\* The fsynced prefix never shrinks, so what is recorded there stays there.
<1>1. ASSUME NEW i \in Nat \ {0}, i <= synced PROVE i <= synced' /\ wal'[i] = wal[i]
  BY <1>0, <1>1
<1>2. ASSUME NEW d \in Clients, pc[d] \in {"apply", "signal"}
       PROVE  pos[d] \in Nat \ {0} /\ pos[d] <= synced
  <2>1. pos[d] \in 1..Len(wal)
    BY <1>2
  <2>2. Len(wal) \in Nat
    OBVIOUS
  <2>3. pos[d] <= synced
    BY <1>2 DEF AckInv
  <2> HIDE DEF TInv, TypeOK, LogType, LocalsOK, ClientType
  <2> QED BY <2>1, <2>2, <2>3
<1>3. \A a \in acked : a.pos <= synced' /\ wal'[a.pos] = a.rec
  <2>1. ASSUME NEW a \in acked PROVE a.pos <= synced' /\ wal'[a.pos] = a.rec
    <3>1. a.pos \in Nat \ {0}
      BY DEF ObserverType, Acked
    <3>2. a.pos <= synced /\ wal[a.pos] = a.rec
      BY DEF AckInv, AckedDurable
    <3> QED BY <1>1, <3>1, <3>2
  <2> QED BY <2>1
\* What every other step does: it keeps the acknowledged records, and every
\* call past its Append was there before or has its record in the log.
<1>4. ASSUME UNCHANGED acked,
             \A d \in Clients : pc'[d] \in {"apply", "signal"} =>
                \/ /\ pc[d] \in {"apply", "signal"}
                   /\ key'[d] = key[d] /\ ent'[d] = ent[d] /\ pos'[d] = pos[d]
                \/ pos'[d] <= synced' /\ wal'[pos'[d]] = [key |-> key'[d], ent |-> ent'[d]]
      PROVE  AckInv'
  <2>1. ASSUME NEW d \in Clients, pc'[d] \in {"apply", "signal"}
        PROVE  pos'[d] <= synced' /\ wal'[pos'[d]] = [key |-> key'[d], ent |-> ent'[d]]
    <3>1. CASE /\ pc[d] \in {"apply", "signal"}
               /\ key'[d] = key[d] /\ ent'[d] = ent[d] /\ pos'[d] = pos[d]
      <4>1. pos[d] \in Nat \ {0} /\ pos[d] <= synced
        BY <1>2, <3>1
      <4>2. wal[pos[d]] = [key |-> key[d], ent |-> ent[d]]
        BY <3>1 DEF AckInv
      <4> QED BY <1>1, <3>1, <4>1, <4>2
    <3> QED BY <1>4, <2>1, <3>1
  <2>2. AckedDurable'
    BY <1>1, <1>4, <1>3 DEF AckedDurable
  <2> QED BY <2>1, <2>2 DEF AckInv
<1>5. CASE UNCHANGED <<pc, key, ent, pos, acked>>
  BY <1>4, <1>5
<1>6. ASSUME NEW c \in Clients, BeginWrite(c) PROVE AckInv'
  BY <1>4, <1>6 DEF BeginWrite, Goto, observers
<1>7. ASSUME NEW c \in Clients, WalAppend(c) PROVE AckInv'
  <2>1. [key |-> key[c], ent |-> ent[c]] \in Record
    BY <1>7 DEF WalAppend, Record
  <2>2. Len(wal') = Len(wal) + 1 /\ wal'[Len(wal')] = [key |-> key[c], ent |-> ent[c]]
    BY <1>7, <2>1 DEF WalAppend, RecordOf
  <2>3. synced' = Len(wal')
    BY <1>7 DEF WalAppend, SyncedAfter
  <2> QED BY <1>4, <1>7, <2>2, <2>3 DEF WalAppend, Goto, observers
<1>8. ASSUME NEW c \in Clients, WalAppendError(c) PROVE AckInv'
  BY <1>4, <1>8 DEF WalAppendError, EndCall, Goto, observers
<1>9. ASSUME NEW c \in Clients, pc[c] \in {"apply", "signal"}, Acknowledge(c) PROVE AckInv'
  <2>1. pos[c] \in Nat \ {0} /\ pos[c] <= synced
    BY <1>9, <1>2
  <2>2. wal[pos[c]] = [key |-> key[c], ent |-> ent[c]]
    BY <1>9 DEF AckInv
  <2>3. ASSUME NEW a \in acked' PROVE a.pos <= synced' /\ wal'[a.pos] = a.rec
    <3>1. CASE a \in acked
      BY <1>3, <3>1 DEF AckedDurable
    <3>2. CASE a = [pos |-> pos[c], rec |-> [key |-> key[c], ent |-> ent[c]]]
      BY <1>1, <2>1, <2>2, <3>2
    <3> QED BY <1>9, <2>3, <3>1, <3>2 DEF Acknowledge, RecordOf
  <2>4. ASSUME NEW d \in Clients, pc'[d] \in {"apply", "signal"}
        PROVE  pos'[d] <= synced' /\ wal'[pos'[d]] = [key |-> key'[d], ent |-> ent'[d]]
    <3>1. d # c /\ pc[d] \in {"apply", "signal"}
      BY <1>9, <2>4 DEF Acknowledge, EndCall, Goto
    <3>2. key'[d] = key[d] /\ ent'[d] = ent[d] /\ pos'[d] = pos[d]
      BY <1>9, <3>1 DEF Acknowledge, EndCall, Goto
    <3>3. pos[d] \in Nat \ {0} /\ pos[d] <= synced
      BY <1>2, <3>1
    <3>4. wal[pos[d]] = [key |-> key[d], ent |-> ent[d]]
      BY <3>1 DEF AckInv
    <3> QED BY <1>1, <3>2, <3>3, <3>4
  <2> QED BY <2>3, <2>4 DEF AckInv, AckedDurable
<1>10. ASSUME NEW c \in Clients, Apply(c) PROVE AckInv'
  <2>1. CASE Acknowledge(c)
    BY <1>9, <1>10, <2>1 DEF Apply
  <2>2. CASE Goto(c, "signal") /\ UNCHANGED <<key, ent, pos, todo, acked>>
    BY <1>4, <1>10, <2>2 DEF Apply, Goto
  <2> QED BY <1>10, <2>1, <2>2 DEF Apply
<1>11. ASSUME NEW c \in Clients, SignalFlush(c) PROVE AckInv'
  BY <1>9, <1>11 DEF SignalFlush
<1>12. ASSUME NEW c \in Clients, BeginGet(c) PROVE AckInv'
  BY <1>4, <1>12 DEF BeginGet, Goto
<1>13. ASSUME NEW c \in Clients, GetMem(c) PROVE AckInv'
  BY <1>4, <1>13 DEF GetMem, Goto, Result, observers
<1>14. ASSUME NEW c \in Clients, GetCopy(c) PROVE AckInv'
  BY <1>4, <1>14 DEF GetCopy, Goto, observers
<1>15. ASSUME NEW c \in Clients, GetScan(c) PROVE AckInv'
  BY <1>4, <1>15 DEF GetScan, Goto, Result, observers
<1>16. ASSUME NEW c \in Clients, GetReturn(c) PROVE AckInv'
  BY <1>4, <1>16 DEF GetReturn, EndCall, Goto
<1>17. CASE Flusher
  BY <1>5, <1>17 DEF Flusher, FlushTake, FlushCheck, FlushCreate, FlushFinish, FlushError,
        FlushInstall, FlushAdd, FlushClear, FlushSignal, clientVars, observers
<1>18. CASE Compactor
  BY <1>5, <1>18 DEF Compactor, CompactTake, CompactCheck, CompactAlloc, CompactSelect,
        CompactMerge, CompactFinish, CompactError, CompactCommit, CompactRemove,
        CompactGlob, CompactSwap, CompactCloseOld, clientVars, observers
<1>19. CASE SyncTick \/ SyncTickError \/ BeginClose \/ Closer \/ Open \/ UNCHANGED vars
  BY <1>5, <1>19 DEF SyncTick, SyncTickError, BeginClose, Closer, CloseSignal, CloseWait, CloseReaders,
        CloseWAL, Open, vars, clientVars, observers
<1>20. CASE Crash
  BY <1>4, <1>20 DEF Crash
<1> QED BY <1>6, <1>7, <1>8, <1>10, <1>11, <1>12, <1>13, <1>14, <1>15, <1>16, <1>17, <1>18,
           <1>19, <1>20 DEF Next, ClientStep, Clients

(***************************************************************************)
(* Durability in SyncFull mode, as long as no record is appended behind    *)
(* part of another: the record of every Set or Delete that returned nil    *)
(* stays in the fsynced log, for any number of clients, writes, crashes,   *)
(* restarts and I/O errors, failed writes that leave part of a record      *)
(* included.                                                               *)
(***************************************************************************)
THEOREM AckedNeverLost ==
    ASSUME SyncMode = "full" PROVE Spec /\ []NothingBehindPiece => []AckedDurable
<1>1. Init => AckInv
  BY DEF Init, AckInv, AckedDurable
<1>2. TInv /\ NothingBehindPiece /\ AckInv /\ [Next]_vars => AckInv'
  BY NextAckInv
<1>3. AckInv => AckedDurable
  BY DEF AckInv
<1> QED BY <1>1, <1>2, <1>3, TInvAlways, PTL DEF Spec

\* Everything the engine keeps or is about to write came through the log.
LogInv ==
    /\ synced = Len(wal)
    /\ Logged(active) /\ Logged(immutable) /\ Logged(out)
    /\ \A f \in FileID : Logged(tab[f])

\* The log grows at its end, so what came through it still did.
LEMMA LoggedGrows ==
    ASSUME NEW t, NEW w, NEW n \in Nat, NEW w2, NEW m \in Nat, n <= m,
           \A i \in 1..n : w2[i] = w[i], LoggedIn(t, w, n)
    PROVE  LoggedIn(t, w2, m)
<1>1. ASSUME NEW i \in 1..n PROVE i \in 1..m
  OBVIOUS
<1> QED BY <1>1 DEF LoggedIn

LEMMA LoggedEmpty == ASSUME NEW w, NEW n PROVE LoggedIn(EmptyTable, w, n)
BY DEF LoggedIn, EmptyTable

LEMMA LoggedUpdate ==
    ASSUME NEW t \in Table, NEW w, NEW n, LoggedIn(t, w, n), NEW k \in Keys, NEW e,
           e = NoEntry \/ \E i \in 1..n : w[i] = [key |-> k, ent |-> e]
    PROVE  LoggedIn([t EXCEPT ![k] = e], w, n)
BY DEF LoggedIn, Table

\* replayWAL.
LEMMA LoggedReplay ==
    ASSUME NEW t \in Table, NEW w \in Seq(Record), IsReplay(t, w)
    PROVE  LoggedIn(t, w, Len(w))
<1>1. ASSUME NEW k \in Keys, t[k] # NoEntry
      PROVE  \E i \in 1..Len(w) : w[i] = [key |-> k, ent |-> t[k]]
  <2>1. PICK i \in DOMAIN w : w[i].key = k /\ t[k] = w[i].ent
    BY <1>1 DEF IsReplay
  <2>2. i \in 1..Len(w) /\ w[i] \in Record
    OBVIOUS
  <2>3. w[i] = [key |-> k, ent |-> t[k]]
    BY <2>1, <2>2 DEF Record
  <2> QED BY <2>2, <2>3
<1> QED BY <1>1 DEF LoggedIn

LEMMA NextLogInv ==
    ASSUME SyncMode = "full", "fsync" \notin Failing, TInv, NothingBehindPiece, AckInv, LogInv,
           [Next]_vars
    PROVE  LogInv'
<1> USE DEF logVars, diskVars, memVars, clientVars, compactVars
<1>0. /\ synced \in Nat /\ synced' \in Nat /\ synced <= synced'
      /\ \A i \in 1..synced : wal'[i] = wal[i]
  BY SyncedPrefix, NextTInv DEF TInv, TypeOK, LogType
<1>1. ASSUME NEW t, Logged(t) PROVE LoggedIn(t, wal', synced')
  BY <1>0, <1>1, LoggedGrows DEF Logged
<1>2. /\ LoggedIn(active, wal', synced') /\ LoggedIn(immutable, wal', synced')
      /\ LoggedIn(out, wal', synced')
      /\ \A f \in FileID : LoggedIn(tab[f], wal', synced')
  BY <1>1 DEF LogInv
<1>3. LoggedIn(EmptyTable, wal', synced')
  BY LoggedEmpty
<1> DEFINE Kept(t) == t \in {EmptyTable, active, immutable, out} \cup {tab[f] : f \in FileID}
<1>4. ASSUME NEW t, Kept(t) PROVE LoggedIn(t, wal', synced')
  BY <1>2, <1>3, <1>4
\* Most steps move tables about, or forget them.
<1>5. ASSUME synced' = Len(wal'), Kept(active'), Kept(immutable'), Kept(out'),
             \A f \in FileID : Kept(tab'[f])
      PROVE  LogInv'
  <2> HIDE DEF Kept
  <2> QED BY <1>4, <1>5 DEF LogInv, Logged
<1>6. CASE UNCHANGED <<wal, synced, memVars, tab, out>>
  BY <1>5, <1>6 DEF LogInv
<1>7. ASSUME NEW c \in Clients, WalAppend(c) PROVE LogInv'
  BY <1>5, <1>7 DEF WalAppend, SyncedAfter
<1>8. ASSUME NEW c \in Clients, WalAppendError(c) PROVE LogInv'
  BY <1>6, <1>8 DEF WalAppendError, Fault
<1>9. ASSUME NEW c \in Clients, Apply(c) PROVE LogInv'
  <2>1. /\ active \in Table /\ key[c] \in Keys /\ pos[c] \in 1..Len(wal)
        /\ synced = Len(wal) /\ wal[pos[c]] = [key |-> key[c], ent |-> ent[c]]
    BY <1>9 DEF Apply, TInv, TypeOK, MemType, ClientType, LocalsOK, AckInv, LogInv
  <2>2. LoggedIn([active EXCEPT ![key[c]] = ent[c]], wal, synced)
    BY <2>1, LoggedUpdate DEF LogInv, Logged
  <2>3. UNCHANGED <<logVars, immutable, tab, out>>
    BY <1>9 DEF Apply
  <2> QED BY <1>9, <2>2, <2>3 DEF Apply, LogInv, Logged
<1>10. ASSUME NEW c \in Clients,
              BeginWrite(c) \/ SignalFlush(c) \/ BeginGet(c) \/ GetMem(c) \/ GetCopy(c)
              \/ GetScan(c) \/ GetReturn(c)
       PROVE  LogInv'
  BY <1>6, <1>10 DEF BeginWrite, SignalFlush, BeginGet, GetMem, GetCopy, GetScan, GetReturn
<1>11. CASE FlushCheck
  BY <1>5, <1>11 DEF FlushCheck, LogInv
<1>12. CASE FlushFinish
  BY <1>5, <1>12 DEF FlushFinish, FlushTable, LogInv, TInv, TypeOK, DiskType
<1>13. CASE FlushClear
  BY <1>5, <1>13 DEF FlushClear, LogInv
<1>14. CASE FlushTake \/ FlushCreate \/ FlushError \/ FlushInstall \/ FlushAdd \/ FlushSignal
  BY <1>6, <1>14 DEF FlushTake, FlushCreate, FlushError, FlushInstall, FlushAdd, FlushSignal
<1>15. CASE CompactMerge
  <2>1. UNCHANGED <<logVars, memVars, tab>>
    BY <1>15 DEF CompactMerge
  <2>2. PICK k \in mkeys, f \in sel : out' = IF DropTombstone(tab[f][k]) THEN out
                                             ELSE [out EXCEPT ![k] = tab[f][k]]
    BY <1>15 DEF CompactMerge
  <2>3. out \in Table /\ k \in Keys /\ f \in FileID
    BY DEF TInv, TypeOK, CompactType
  <2>4. LoggedIn(out, wal, synced) /\ LoggedIn(tab[f], wal, synced)
    BY <2>3 DEF LogInv, Logged
  <2>5. LoggedIn([out EXCEPT ![k] = tab[f][k]], wal, synced)
    <3>1. tab[f][k] = NoEntry \/ \E i \in 1..synced : wal[i] = [key |-> k, ent |-> tab[f][k]]
      BY <2>3, <2>4 DEF LoggedIn
    <3> QED BY <2>3, <2>4, <3>1, LoggedUpdate
  <2>6. LoggedIn(out', wal, synced)
    BY <2>2, <2>4, <2>5
  <2> QED BY <2>1, <2>6 DEF LogInv, Logged
<1>16. CASE CompactFinish
  BY <1>5, <1>16 DEF CompactFinish, LogInv, TInv, TypeOK, DiskType
<1>17. CASE CompactError
  BY <1>5, <1>17 DEF CompactError, LogInv
<1>18. CASE CompactTake \/ CompactCheck \/ CompactAlloc \/ CompactSelect \/ CompactCommit
            \/ CompactRemove \/ CompactGlob \/ CompactSwap \/ CompactCloseOld
  BY <1>6, <1>18 DEF CompactTake, CompactCheck, CompactAlloc, CompactSelect, CompactCommit,
                     CompactRemove, CompactGlob, CompactSwap, CompactCloseOld
<1>19. CASE SyncTick \/ CloseWAL
  BY <1>5, <1>19 DEF SyncTick, CloseWAL, Fault
<1>20. CASE SyncTickError \/ BeginClose \/ CloseSignal \/ CloseWait \/ CloseReaders \/ UNCHANGED vars
  BY <1>6, <1>20 DEF SyncTickError, BeginClose, CloseSignal, CloseWait, CloseReaders, vars
<1>21. CASE Crash
  <2>1. wal \in Seq(Record)
    BY DEF TInv, TypeOK, LogType
  <2>2. synced' = Len(wal')
    BY <1>21, <2>1 DEF Crash, CutLog, LogInv
  <2> QED BY <1>5, <1>21, <2>2 DEF Crash
<1>22. CASE Open
  <2>0. LogType /\ wal \in Seq(Record) /\ Replayed = wal
    BY ReplayedType DEF TInv, TypeOK, LogType
  <2>1. UNCHANGED <<wal, synced, out>> /\ wal \in Seq(Record)
    BY <1>22, <2>0, TruncateLogType DEF Open
  <2>2. LoggedIn(active', wal, synced)
    <3>1. PICK t \in Table : IsReplay(t, wal) /\ active' = t
      BY <1>22, <2>0 DEF Open
    <3> QED BY <2>1, <3>1, LoggedReplay DEF LogInv
  <2>3. immutable' = EmptyTable /\ \A f \in FileID : Kept(tab'[f])
    BY <1>22 DEF Open
  <2>4. \A f \in FileID : LoggedIn(tab'[f], wal', synced')
    <3> HIDE DEF Kept
    <3> QED BY <1>4, <2>3
  <2> QED BY <1>2, <1>3, <2>1, <2>2, <2>3, <2>4 DEF LogInv, Logged
<1> QED BY <1>7, <1>8, <1>9, <1>10, <1>11, <1>12, <1>13, <1>14, <1>15, <1>16, <1>17, <1>18,
           <1>19, <1>20, <1>21, <1>22 DEF Next, ClientStep, Flusher, Compactor, Closer, Clients

(***************************************************************************)
(* Write-ahead logging in SyncFull mode on storage whose fsync does not    *)
(* fail, as long as no record is appended behind part of another: no       *)
(* MemTable and no SSTable ever holds an entry whose record is not in the  *)
(* fsynced log.                                                            *)
(***************************************************************************)
THEOREM LogComesFirst ==
    ASSUME SyncMode = "full", "fsync" \notin Failing
    PROVE  Spec /\ []NothingBehindPiece => []WriteAhead
<1>1. Init => AckInv /\ LogInv
  BY LoggedEmpty DEF Init, AckInv, AckedDurable, LogInv, Logged
<1>2. TInv /\ NothingBehindPiece /\ AckInv /\ LogInv /\ [Next]_vars => (AckInv /\ LogInv)'
  BY NextAckInv, NextLogInv
<1>3. TInv /\ LogInv => WriteAhead
  BY DEF TInv, TypeOK, DiskType, LogInv, WriteAhead
<1> QED BY <1>1, <1>2, <1>3, TInvAlways, PTL DEF Spec

-----------------------------------------------------------------------------
(* File IDs.                                                               *)

\* The IDs of complete tables, and the ones flushLoop and compactionLoop hold
\* but have not finished a file for, come from nextFileID and differ.
IDInv ==
    /\ \A f \in dir : f <= nextFileID
    /\ fpc \in {"create", "finish"} => ffile \notin dir /\ ffile <= nextFileID
    /\ cpc \in {"select", "merge"} => cfile \notin dir /\ cfile <= nextFileID
    /\ fpc \in {"create", "finish"} /\ cpc \in {"select", "merge"} => ffile # cfile

LEMMA NextIDInv == ASSUME TInv, IDInv, [Next]_vars PROVE IDInv'
<1> USE DEF flushVars, diskVars, memVars, compactVars
<1>0. /\ nextFileID \in Nat /\ ffile \in Nat /\ cfile \in Nat
      /\ dir \subseteq Nat
  BY DEF TInv, TypeOK, MemType, FlushType, CompactType, DiskType, FileID
<1>1. CASE UNCHANGED <<dir, nextFileID, fpc, ffile, cpc, cfile>>
  BY <1>1 DEF IDInv
<1>2. ASSUME NEW c \in Clients,
             BeginWrite(c) \/ WalAppend(c) \/ WalAppendError(c) \/ Apply(c) \/ SignalFlush(c)
             \/ BeginGet(c) \/ GetMem(c) \/ GetCopy(c) \/ GetScan(c) \/ GetReturn(c)
      PROVE  IDInv'
  BY <1>1, <1>2 DEF BeginWrite, WalAppend, WalAppendError, Apply, SignalFlush, BeginGet,
                    GetMem, GetCopy, GetScan, GetReturn
<1>3. CASE FlushCheck
  BY <1>0, <1>3 DEF FlushCheck, FlushReturn, IDInv
<1>4. CASE FlushCreate \/ FlushFinish
  BY <1>4 DEF FlushCreate, FlushFinish, IDInv
<1>5. CASE FlushTake \/ FlushError \/ FlushInstall \/ FlushAdd \/ FlushClear \/ FlushSignal
  BY <1>5 DEF FlushTake, FlushError, FlushInstall, FlushAdd, FlushClear, FlushSignal,
              FlushReturn, IDInv
<1>6. CASE CompactAlloc
  BY <1>0, <1>6 DEF CompactAlloc, IDInv
<1>7. CASE CompactSelect \/ CompactMerge \/ CompactFinish \/ CompactError
  BY <1>7 DEF CompactSelect, CompactMerge, CompactFinish, CompactError, IDInv
<1>8. CASE CompactTake \/ CompactCheck \/ CompactCommit \/ CompactRemove \/ CompactGlob
           \/ CompactSwap \/ CompactCloseOld
  BY <1>8 DEF CompactTake, CompactCheck, CompactCommit, CompactRemove, CompactGlob,
              CompactSwap, CompactCloseOld, IDInv
<1>9. CASE SyncTick \/ SyncTickError \/ BeginClose \/ Closer \/ UNCHANGED vars
  BY <1>1, <1>9 DEF SyncTick, SyncTickError, BeginClose, Closer, CloseSignal, CloseWait, CloseReaders,
                    CloseWAL, vars
<1>10. CASE Crash
  BY <1>10 DEF Crash, IDInv
<1>11. CASE Open
  <2>1. PICK s \in Descending(dir) : nextFileID' = IF dir = {} THEN 1 ELSE s[1] + 1
    BY <1>11, DescendingSeq DEF Open, IDAfter, TInv, TypeOK, DiskType
  <2>2. s \in [1..Cardinality(dir) -> dir] /\ Cardinality(dir) \in Nat
    BY DescendingSeq DEF TInv, TypeOK, DiskType
  <2>3. ASSUME NEW f \in dir PROVE f <= nextFileID'
    <3>1. PICK i \in DOMAIN s : s[i] = f
      BY DescendingIs
    <3>2. i \in 1..Cardinality(dir) /\ 1 \in DOMAIN s
      BY <2>2
    <3>3. i = 1 \/ s[1] > s[i]
      <4>1. i \in DOMAIN s /\ (i = 1 \/ 1 < i)
        BY <2>2, <3>1, <3>2
      <4> QED BY <3>2, <4>1, DescendingIs
    <3>4. s[1] \in Nat /\ f \in Nat
      BY <1>0, <2>2, <3>2
    <3> QED BY <2>1, <3>1, <3>3, <3>4
  <2> QED BY <1>11, <2>3 DEF Open, IDInv
<1> QED BY <1>2, <1>3, <1>4, <1>5, <1>6, <1>7, <1>8, <1>9, <1>10, <1>11
        DEF Next, ClientStep, Flusher, Compactor, Clients

\* The directory only loses files by the removals of a compaction.
LEMMA FilesKept ==
    ASSUME TInv, IDInv, [Next]_vars
    PROVE  CompactRemove \/ \A f \in dir : f \in dir' /\ tab'[f] = tab[f]
<1> USE DEF diskVars, memVars
<1> DEFINE Same == \A f \in dir : f \in dir' /\ tab'[f] = tab[f]
<1>0. dir \subseteq FileID /\ tab \in [FileID -> Table]
  BY DEF TInv, TypeOK, DiskType
<1>1. CASE UNCHANGED <<dir, tab>>
  BY <1>1
<1>2. ASSUME NEW c \in Clients,
             BeginWrite(c) \/ WalAppend(c) \/ WalAppendError(c) \/ Apply(c)
             \/ SignalFlush(c) \/ BeginGet(c) \/ GetMem(c) \/ GetCopy(c) \/ GetScan(c)
             \/ GetReturn(c)
      PROVE  Same
  BY <1>2 DEF BeginWrite, WalAppend, WalAppendError, Apply, SignalFlush, BeginGet,
              GetMem, GetCopy, GetScan, GetReturn
<1>3. CASE Flusher
  BY <1>0, <1>3
     DEF Flusher, FlushTake, FlushCheck, FlushCreate, FlushFinish, FlushError, FlushInstall,
         FlushAdd, FlushClear, FlushSignal, IDInv
<1>4. CASE CompactSelect
  BY <1>4 DEF CompactSelect, IDInv
<1>5. CASE CompactFinish
  BY <1>0, <1>5 DEF CompactFinish, IDInv
<1>6. CASE CompactTake \/ CompactCheck \/ CompactAlloc \/ CompactMerge \/ CompactError
           \/ CompactCommit \/ CompactGlob \/ CompactSwap \/ CompactCloseOld
  BY <1>1, <1>6 DEF CompactTake, CompactCheck, CompactAlloc, CompactMerge, CompactError,
                    CompactCommit, CompactGlob, CompactSwap, CompactCloseOld
<1>7. CASE SyncTick \/ SyncTickError \/ BeginClose \/ Closer \/ Crash \/ UNCHANGED vars
  BY <1>1, <1>7 DEF SyncTick, SyncTickError, BeginClose, Closer, CloseSignal, CloseWait, CloseReaders,
                    CloseWAL, Crash, vars
<1>8. CASE Open
  BY <1>0, <1>8 DEF Open
<1> QED BY <1>2, <1>3, <1>4, <1>5, <1>6, <1>7, <1>8 DEF Next, ClientStep, Compactor, Clients

(***************************************************************************)
(* SSTables are immutable: no flush, compaction, crash or restart ever     *)
(* truncates, rewrites or drops a complete file, except the compaction     *)
(* that removes its inputs.                                                *)
(***************************************************************************)
THEOREM FilesNeverRewritten == Spec => TablesImmutable
<1>1. ASSUME TInv, IDInv, [Next]_vars
      PROVE  \A f \in dir : \/ f \in dir' /\ tab'[f] = tab[f]
                            \/ cpc = "remove" /\ f \in sel
  <2>1. CASE CompactRemove
    BY <2>1 DEF CompactRemove
  <2> QED BY <1>1, <2>1, FilesKept
<1>2. Init => IDInv
  BY DEF Init, IDInv
<1>3. TInv /\ IDInv /\ [Next]_vars => IDInv'
  BY NextIDInv
<1>4. TInv /\ IDInv /\ [Next]_vars
        => [\A f \in dir : \/ f \in dir' /\ tab'[f] = tab[f]
                           \/ cpc = "remove" /\ f \in sel]_vars
  BY <1>1
<1> QED BY <1>2, <1>3, <1>4, TInvAlways, PTL DEF Spec, TablesImmutable
=============================================================================
