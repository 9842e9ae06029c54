------------------------------ MODULE WALProofs ------------------------------
(***************************************************************************)
(* Theorems about WAL for any number of records and any kind of storage:   *)
(* types, the order of replayed records, what a Replay keeps, and, on      *)
(* storage that cuts payloads only, the promises of the log and the        *)
(* refinement of DurableLog.                                               *)
(***************************************************************************)
EXTENDS WAL, Order, SequenceTheorems

-----------------------------------------------------------------------------
(* The intact part of a file.                                              *)

\* i is the index of the first piece of f that is not a whole record.
IsTorn(f, i) ==
    /\ i \in 1..(Len(f) + 1)
    /\ i = Len(f) + 1 \/ f[i].part # "whole"
    /\ \A j \in 1..(i - 1) : f[j].part = "whole"

LEMMA TornExists == ASSUME NEW f \in Seq(Piece) PROVE IsTorn(f, FirstTorn(f))
<1> DEFINE Ends == {i \in 1..(Len(f) + 1) : i = Len(f) + 1 \/ f[i].part # "whole"}
<1>1. Len(f) \in Nat
  BY LenProperties
<1>2. PICK i \in Ends : \A j \in Ends : i <= j
  <2>1. Ends \in SUBSET Nat /\ Len(f) + 1 \in Ends
    BY <1>1
  <2> HIDE DEF Ends
  <2> QED BY <2>1, LeastElement
<1>3. \A j \in 1..(i - 1) : f[j].part = "whole"
  BY <1>1, <1>2
<1>4. \E k \in 1..(Len(f) + 1) : IsTorn(f, k)
  BY <1>2, <1>3 DEF IsTorn
<1> QED BY <1>4 DEF FirstTorn, IsTorn

LEMMA TornUnique ==
    ASSUME NEW f \in Seq(Piece), NEW i, IsTorn(f, i) PROVE FirstTorn(f) = i
<1>1. IsTorn(f, FirstTorn(f)) /\ Len(f) \in Nat
  BY TornExists, LenProperties
<1> QED BY <1>1 DEF IsTorn

LEMMA IntactPart ==
    ASSUME NEW f \in Seq(Piece)
    PROVE  /\ Intact(f) \in Seq(Piece)
           /\ FirstTorn(f) \in 1..(Len(f) + 1)
           /\ Len(Intact(f)) = FirstTorn(f) - 1
           /\ DOMAIN Intact(f) = 1..(FirstTorn(f) - 1)
           /\ \A i \in 1..(FirstTorn(f) - 1) : Intact(f)[i] = f[i] /\ f[i].part = "whole"
<1>1. IsTorn(f, FirstTorn(f)) /\ Len(f) \in Nat
  BY TornExists, LenProperties
<1>2. FirstTorn(f) - 1 \in 0..Len(f)
  BY <1>1 DEF IsTorn
<1>3. Intact(f) \in Seq(Piece) /\ Len(Intact(f)) = FirstTorn(f) - 1
  BY <1>1, <1>2 DEF Intact
<1>4. \A i \in 1..(FirstTorn(f) - 1) : Intact(f)[i] = f[i] /\ f[i].part = "whole"
  BY <1>1, <1>2 DEF Intact, IsTorn
<1> QED BY <1>1, <1>2, <1>3, <1>4, LenProperties DEF IsTorn

\* What Replay hands to its callback.
LEMMA Delivered ==
    ASSUME NEW f \in Seq(Piece)
    PROVE  /\ Delivers(f) \in Seq(Records) /\ Len(Delivers(f)) = FirstTorn(f) - 1
           /\ \A i \in 1..Len(Delivers(f)) :
                 i <= Len(f) /\ f[i].part = "whole" /\ Delivers(f)[i] = f[i].rec
<1> DEFINE d == [i \in DOMAIN Intact(f) |-> Intact(f)[i].rec]
<1>1. /\ Intact(f) \in Seq(Piece) /\ FirstTorn(f) \in 1..(Len(f) + 1) /\ Len(f) \in Nat
      /\ DOMAIN Intact(f) = 1..(FirstTorn(f) - 1) /\ Len(Intact(f)) = FirstTorn(f) - 1
      /\ \A i \in 1..(FirstTorn(f) - 1) : Intact(f)[i] = f[i] /\ f[i].part = "whole"
  BY IntactPart, LenProperties
<1>2. \A i \in 1..(FirstTorn(f) - 1) : Intact(f)[i].rec \in Records
  <2>1. \A i \in 1..(FirstTorn(f) - 1) : Intact(f)[i] \in Piece
    BY <1>1, ElementOfSeq
  <2> QED BY <2>1 DEF Piece
<1>3. FirstTorn(f) - 1 \in Nat
  BY <1>1
<1>4. d \in Seq(Records) /\ Len(d) = FirstTorn(f) - 1
  <2>1. d \in [1..(FirstTorn(f) - 1) -> Records]
    BY <1>1, <1>2
  <2> HIDE DEF d
  <2> QED BY <1>3, <2>1
<1> QED BY <1>1, <1>3, <1>4 DEF Delivers

-----------------------------------------------------------------------------
(* What each step does to the file.                                        *)

\* A write at the end of the file.
LEMMA Written ==
    ASSUME TypeOK, next <= MaxRecords, NEW p \in Parts
    PROVE  /\ Write(p) \in Seq(Piece) /\ Len(Write(p)) = Len(file) + 1
           /\ \A i \in 1..Len(file) : Write(p)[i] = file[i]
           /\ Write(p)[Len(file) + 1] = [rec |-> next, part |-> p]
<1>1. [rec |-> next, part |-> p] \in Piece
  BY WALAssumption DEF TypeOK, Piece, Records
<1>2. file \in Seq(Piece)
  BY DEF TypeOK
<1> QED BY <1>1, <1>2, AppendProperties DEF Write

\* A cut behind the first n pieces, n >= synced, perhaps inside the next one.
Cut(n) ==
    /\ n \in synced..Len(file) /\ file' \in Seq(Piece) /\ Len(file') \in {n, n + 1}
    /\ \A i \in 1..n : file'[i] = file[i]
    /\ Len(file') = n + 1 =>
          /\ n < Len(file) /\ file'[n + 1].rec = file[n + 1].rec
          /\ file'[n + 1].part \in storage.tears

LEMMA FileCut == ASSUME TypeOK, CutFile PROVE \E n \in Nat : Cut(n)
<1>0. /\ file \in Seq(Piece) /\ Len(file) \in Nat /\ synced \in 0..Len(file)
      /\ storage.tears \subseteq Parts
  BY WALAssumption, LenProperties DEF TypeOK, StorageKind
<1>1. PICK n \in synced..Len(file) :
        \/ file' = SubSeq(file, 1, n)
        \/ /\ n < Len(file)
           /\ \E p \in storage.tears :
                 file' = Append(SubSeq(file, 1, n), [file[n + 1] EXCEPT !.part = p])
  BY DEF CutFile
<1>2. /\ n \in Nat /\ SubSeq(file, 1, n) \in Seq(Piece) /\ Len(SubSeq(file, 1, n)) = n
      /\ \A i \in 1..n : SubSeq(file, 1, n)[i] = file[i]
  BY <1>0, <1>1
<1>3. CASE file' = SubSeq(file, 1, n)
  BY <1>0, <1>1, <1>2, <1>3 DEF Cut
<1>4. ASSUME NEW p \in storage.tears, n < Len(file),
             file' = Append(SubSeq(file, 1, n), [file[n + 1] EXCEPT !.part = p])
      PROVE  Cut(n)
  <2>1. file[n + 1] \in Piece
    BY <1>0, <1>2, <1>4, ElementOfSeq
  <2>2. /\ [file[n + 1] EXCEPT !.part = p] \in Piece
        /\ [file[n + 1] EXCEPT !.part = p].rec = file[n + 1].rec
        /\ [file[n + 1] EXCEPT !.part = p].part = p
    BY <1>0, <2>1 DEF Piece
  <2>3. /\ file' \in Seq(Piece) /\ Len(file') = n + 1
        /\ \A i \in 1..n : file'[i] = file[i]
        /\ file'[n + 1] = [file[n + 1] EXCEPT !.part = p]
    BY <1>2, <1>4, <2>2, AppendProperties
  <2> QED BY <1>1, <1>4, <2>2, <2>3 DEF Cut
<1> QED BY <1>1, <1>2, <1>3, <1>4

\* Replay leaves the file, or its intact part.
LEMMA Replayed ==
    ASSUME TypeOK, Replay
    PROVE  /\ got' \in Seq(Records) /\ Len(got') = FirstTorn(file) - 1
           /\ \A i \in 1..Len(got') :
                 i <= Len(file) /\ file[i].part = "whole" /\ got'[i] = file[i].rec
           /\ state' \in {"up", "failed"}
           /\ \/ UNCHANGED <<file, synced>>
              \/ /\ file' = Intact(file) /\ state' = "up"
                 /\ synced' = IF synced < Len(Intact(file)) THEN synced ELSE Len(Intact(file))
<1>1. file \in Seq(Piece)
  BY DEF TypeOK
<1>2. got' = Delivers(file)
  BY DEF Replay
<1>3. /\ got' \in Seq(Records) /\ Len(got') = FirstTorn(file) - 1
      /\ \A i \in 1..Len(got') :
            i <= Len(file) /\ file[i].part = "whole" /\ got'[i] = file[i].rec
  BY <1>1, <1>2, Delivered
<1>4. /\ state' \in {"up", "failed"}
      /\ \/ UNCHANGED <<file, synced>>
         \/ /\ file' = Intact(file) /\ state' = "up"
            /\ synced' = IF synced < Len(Intact(file)) THEN synced ELSE Len(Intact(file))
  BY DEF Replay, TruncateAt
<1> QED BY <1>3, <1>4

-----------------------------------------------------------------------------
(* Types.                                                                  *)

LEMMA NextTypeOK == TypeOK /\ [Next]_vars => TypeOK'
<1> SUFFICES ASSUME TypeOK, [Next]_vars PROVE TypeOK'
  OBVIOUS
<1>0. /\ file \in Seq(Piece) /\ Len(file) \in Nat /\ synced \in 0..Len(file)
      /\ MaxRecords \in Nat /\ next \in 1..(MaxRecords + 1)
      /\ storage.tears \subseteq Parts /\ storage.shorts \subseteq Parts
  BY WALAssumption, LenProperties DEF TypeOK, StorageKind
<1>1. CASE AppendOK
  <2>1. file' \in Seq(Piece) /\ Len(file') = Len(file) + 1 /\ next <= MaxRecords
    BY <1>1, Written DEF AppendOK, Parts
  <2>2. synced' \in 0..Len(file') /\ next' \in 1..(MaxRecords + 1) /\ next \in Records
    BY <1>0, <1>1, <2>1 DEF AppendOK, Records
  <2> QED BY <1>1, <2>1, <2>2 DEF AppendOK, TypeOK
<1>2. CASE AppendError
  <2>1. PICK p \in Parts : file' = Write(p)
    BY <1>0, <1>2 DEF AppendError, Parts
  <2>2. file' \in Seq(Piece) /\ Len(file') = Len(file) + 1 /\ next <= MaxRecords
    BY <1>2, <2>1, Written DEF AppendError
  <2>3. synced' \in 0..Len(file') /\ next' \in 1..(MaxRecords + 1)
    BY <1>0, <1>2, <2>2 DEF AppendError
  <2> QED BY <1>2, <2>2, <2>3 DEF AppendError, TypeOK
<1>3. CASE Sync \/ Close
  BY <1>0, <1>3 DEF Sync, Close, SyncFile, TypeOK
<1>4. CASE Crash
  <2>1. file' \in Seq(Piece) /\ synced \in 0..Len(file') /\ next' \in 1..(MaxRecords + 1)
    <3>1. CASE CutFile
      <4>1. PICK n \in Nat : Cut(n)
        BY <3>1, FileCut
      <4> QED BY <1>0, <3>1, <4>1 DEF Cut, CutFile
    <3>2. CASE CutWrite
      <4>1. PICK p \in Parts : file' = Write(p)
        BY <1>0, <3>2 DEF CutWrite, Parts
      <4>2. file' \in Seq(Piece) /\ Len(file') = Len(file) + 1
        BY <3>2, <4>1, Written DEF CutWrite
      <4> QED BY <1>0, <3>2, <4>2 DEF CutWrite
    <3> QED BY <1>4, <3>1, <3>2 DEF Crash
  <2> QED BY <1>4, <2>1 DEF Crash, TypeOK
<1>5. CASE Open
  <2>1. /\ got' \in Seq(Records) /\ state' \in {"up", "failed"}
        /\ \/ UNCHANGED <<file, synced>>
           \/ /\ file' = Intact(file)
              /\ synced' = IF synced < Len(Intact(file)) THEN synced ELSE Len(Intact(file))
    BY <1>5, Replayed DEF Open
  <2>2. Intact(file) \in Seq(Piece) /\ Len(Intact(file)) \in Nat
    BY <1>0, IntactPart, LenProperties
  <2>3. file' \in Seq(Piece) /\ synced' \in 0..Len(file')
    BY <1>0, <2>1, <2>2
  <2> QED BY <1>5, <2>1, <2>3 DEF Open, TypeOK
<1>6. CASE UNCHANGED vars
  BY <1>6 DEF vars, TypeOK
<1> QED BY <1>1, <1>2, <1>3, <1>4, <1>5, <1>6 DEF Next

(***************************************************************************)
(* Type correctness of the log: no crash, short write, truncation or       *)
(* replay leaves anything but a sequence of pieces, of which a prefix is   *)
(* known to be on disk.                                                    *)
(***************************************************************************)
THEOREM LogTypeCorrect == Spec => []TypeOK
<1>1. Init => TypeOK
  BY WALAssumption DEF Init, TypeOK
<1> QED BY <1>1, NextTypeOK, PTL DEF Spec

-----------------------------------------------------------------------------
(* Order of the records.                                                   *)

\* Pieces stand in the file in the order of their records, all numbered below
\* the next one.
InOrder ==
    /\ \A i \in 1..Len(file) : file[i].rec < next
    /\ \A i, j \in 1..Len(file) : i < j => file[i].rec < file[j].rec
    /\ ReplayInOrder

LEMMA NextInOrder == TypeOK /\ InOrder /\ [Next]_vars => InOrder'
<1> SUFFICES ASSUME TypeOK, InOrder, [Next]_vars PROVE InOrder'
  OBVIOUS
<1>0. /\ file \in Seq(Piece) /\ Len(file) \in Nat /\ next \in Nat
      /\ storage.tears \subseteq Parts /\ storage.shorts \subseteq Parts
      /\ \A i \in 1..Len(file) : file[i].rec \in Nat
  <2>1. \A i \in 1..Len(file) : file[i] \in Piece
    BY ElementOfSeq DEF TypeOK
  <2> QED BY <2>1, WALAssumption, LenProperties DEF TypeOK, StorageKind, Piece, Records
\* A write puts the highest number at the end.
<1>1. ASSUME NEW p \in Parts, next <= MaxRecords, file' = Write(p), next' = next + 1,
             UNCHANGED got
      PROVE  InOrder'
  <2>1. /\ Len(file') = Len(file) + 1 /\ \A i \in 1..Len(file) : file'[i] = file[i]
        /\ file'[Len(file) + 1].rec = next
    <3>1. /\ Len(Write(p)) = Len(file) + 1 /\ \A i \in 1..Len(file) : Write(p)[i] = file[i]
          /\ Write(p)[Len(file) + 1] = [rec |-> next, part |-> p]
      BY <1>1, Written
    <3> QED BY <1>1, <3>1
  <2>2. \A i \in 1..Len(file') : i \in 1..Len(file) \/ i = Len(file) + 1
    BY <1>0, <2>1
  <2>3. \A i \in 1..Len(file) : file'[i].rec < next /\ file'[i].rec \in Nat
    BY <1>0, <2>1 DEF InOrder
  <2>4. \A i \in 1..Len(file') : file'[i].rec < next'
    BY <1>0, <1>1, <2>1, <2>2, <2>3
  <2>5. ASSUME NEW i \in 1..Len(file'), NEW j \in 1..Len(file'), i < j
        PROVE  file'[i].rec < file'[j].rec
    <3>1. i \in 1..Len(file)
      BY <1>0, <2>1, <2>5
    <3>2. CASE j \in 1..Len(file)
      BY <2>1, <2>5, <3>1, <3>2 DEF InOrder
    <3>3. CASE j = Len(file) + 1
      BY <2>1, <2>3, <3>1, <3>3
    <3> QED BY <2>2, <3>2, <3>3
  <2> QED BY <1>1, <2>4, <2>5 DEF InOrder, ReplayInOrder
\* Everything else keeps a part of the file from its front.
<1>2. ASSUME Len(file') \in 0..Len(file), \A i \in 1..Len(file') : file'[i].rec = file[i].rec,
             UNCHANGED next, ReplayInOrder'
      PROVE  InOrder'
  BY <1>0, <1>2 DEF InOrder
<1>3. CASE AppendOK
  BY <1>1, <1>3 DEF AppendOK, Parts
<1>4. CASE AppendError
  <2>1. PICK p \in Parts : file' = Write(p)
    BY <1>0, <1>4 DEF AppendError, Parts
  <2> QED BY <1>1, <1>4, <2>1 DEF AppendError
<1>5. CASE Sync \/ Close \/ UNCHANGED vars
  BY <1>0, <1>2, <1>5 DEF Sync, Close, SyncFile, vars, InOrder, ReplayInOrder
<1>6. CASE Crash
  <2>1. CASE CutFile
    <3>1. PICK n \in Nat : Cut(n)
      BY <2>1, FileCut
    <3>2. Len(file') \in 0..Len(file) /\ \A i \in 1..Len(file') : file'[i].rec = file[i].rec
      <4>1. /\ n \in synced..Len(file) /\ Len(file') \in {n, n + 1} /\ synced \in Nat
            /\ \A i \in 1..n : file'[i] = file[i]
            /\ Len(file') = n + 1 => n < Len(file) /\ file'[n + 1].rec = file[n + 1].rec
        BY <1>0, <3>1 DEF Cut, TypeOK
      <4>2. CASE Len(file') = n
        BY <1>0, <4>1, <4>2
      <4>3. CASE Len(file') = n + 1
        <5>1. \A i \in 1..(n + 1) : i \in 1..n \/ i = n + 1
          OBVIOUS
        <5> QED BY <1>0, <4>1, <4>3, <5>1
      <4> QED BY <4>1, <4>2, <4>3
    <3> QED BY <1>2, <1>6, <2>1, <3>2 DEF Crash, CutFile, InOrder, ReplayInOrder
  <2>2. CASE CutWrite
    <3>1. PICK p \in Parts : file' = Write(p)
      BY <1>0, <2>2 DEF CutWrite, Parts
    <3> QED BY <1>1, <1>6, <2>2, <3>1 DEF Crash, CutWrite
  <2> QED BY <1>6, <2>1, <2>2 DEF Crash
<1>7. CASE Open
  <2>1. /\ got' \in Seq(Records)
        /\ \A i \in 1..Len(got') : i <= Len(file) /\ got'[i] = file[i].rec
        /\ file' = file \/ file' = Intact(file)
    BY <1>7, Replayed DEF Open
  <2>2. ReplayInOrder'
    <3>1. DOMAIN got' = 1..Len(got') /\ Len(got') \in Nat
      BY <2>1, LenProperties
    <3> QED BY <1>0, <2>1, <3>1 DEF InOrder, ReplayInOrder
  <2>3. Len(file') \in 0..Len(file) /\ \A i \in 1..Len(file') : file'[i].rec = file[i].rec
    <3>1. /\ FirstTorn(file) \in 1..(Len(file) + 1) /\ Len(Intact(file)) = FirstTorn(file) - 1
          /\ \A i \in 1..(FirstTorn(file) - 1) : Intact(file)[i] = file[i]
      BY <1>0, IntactPart
    <3> QED BY <1>0, <2>1, <3>1
  <2> QED BY <1>2, <1>7, <2>2, <2>3 DEF Open
<1> QED BY <1>3, <1>4, <1>5, <1>6, <1>7 DEF Next

LEMMA InOrderAlways == Spec => []InOrder
<1>1. Init => InOrder
  BY DEF Init, InOrder, ReplayInOrder
<1> QED BY <1>1, NextInOrder, LogTypeCorrect, PTL DEF Spec

(***************************************************************************)
(* Replay hands records over in the order they were appended and each at   *)
(* most once, on any storage, however often the log was torn, cut and      *)
(* written behind.                                                         *)
(***************************************************************************)
THEOREM RecordsInOrder == Spec => []ReplayInOrder
<1>1. InOrder => ReplayInOrder
  BY DEF InOrder
<1> QED BY <1>1, InOrderAlways, PTL

-----------------------------------------------------------------------------
(* What a Replay delivered.                                                *)

\* What the last Replay delivered is still at the front of the file, all of it
\* while the file is open, and the fsynced part of it ever after.
GotInv ==
    \A i \in 1..Len(got) : state = "up" \/ i <= synced =>
        i <= Len(file) /\ file[i].rec = got[i] /\ file[i].part = "whole"

LEMMA NextGotInv == TypeOK /\ GotInv /\ [Next]_vars => GotInv'
<1> SUFFICES ASSUME TypeOK, GotInv, [Next]_vars PROVE GotInv'
  OBVIOUS
<1>0. /\ file \in Seq(Piece) /\ Len(file) \in Nat /\ synced \in 0..Len(file)
      /\ got \in Seq(Records) /\ Len(got) \in Nat
      /\ storage.tears \subseteq Parts /\ storage.shorts \subseteq Parts
      /\ \A i \in 1..Len(file) : file[i] \in Piece
  BY WALAssumption, LenProperties, ElementOfSeq DEF TypeOK, StorageKind
<1>1. ASSUME state = "up", Len(file) <= Len(file'), Len(file') \in Nat,
             \A i \in 1..Len(file) : file'[i] = file[i], UNCHANGED got
      PROVE  GotInv'
  BY <1>0, <1>1 DEF GotInv
<1>2. CASE AppendOK
  <2>1. Len(file') = Len(file) + 1 /\ \A i \in 1..Len(file) : file'[i] = file[i]
    BY <1>2, Written DEF AppendOK, Parts
  <2> QED BY <1>0, <1>1, <1>2, <2>1 DEF AppendOK
<1>3. CASE AppendError
  <2>1. PICK p \in Parts : file' = Write(p)
    BY <1>0, <1>3 DEF AppendError, Parts
  <2>2. Len(file') = Len(file) + 1 /\ \A i \in 1..Len(file) : file'[i] = file[i]
    BY <1>3, <2>1, Written DEF AppendError
  <2> QED BY <1>0, <1>1, <1>3, <2>2 DEF AppendError
<1>4. CASE Sync \/ Close
  BY <1>0, <1>1, <1>4 DEF Sync, Close, SyncFile
<1>5. CASE UNCHANGED vars
  BY <1>5 DEF vars, GotInv
<1>6. CASE Crash
  <2>0. state = "up" /\ state' = "down" /\ UNCHANGED <<synced, got>>
    BY <1>6 DEF Crash
  <2>1. CASE CutFile
    <3>1. PICK n \in Nat : Cut(n)
      BY <2>1, FileCut
    <3> QED BY <1>0, <2>0, <3>1 DEF Cut, GotInv
  <2>2. CASE CutWrite
    <3>1. PICK p \in Parts : file' = Write(p)
      BY <1>0, <2>2 DEF CutWrite, Parts
    <3>2. Len(file') = Len(file) + 1 /\ \A i \in 1..Len(file) : file'[i] = file[i]
      BY <2>2, <3>1, Written DEF CutWrite
    <3> QED BY <1>0, <1>1, <2>0, <3>2
  <2> QED BY <1>6, <2>1, <2>2 DEF Crash
<1>7. CASE Open
  <2>1. /\ got' \in Seq(Records) /\ Len(got') = FirstTorn(file) - 1
        /\ \A i \in 1..Len(got') :
              i <= Len(file) /\ file[i].part = "whole" /\ got'[i] = file[i].rec
        /\ file' = file \/ file' = Intact(file)
    BY <1>7, Replayed DEF Open
  <2>2. ASSUME NEW i \in 1..Len(got')
        PROVE  i <= Len(file') /\ file'[i].rec = got'[i] /\ file'[i].part = "whole"
    <3>1. Len(got') \in Nat /\ i \in 1..Len(file)
      BY <1>0, <2>1, LenProperties
    <3>2. file[i].rec = got'[i] /\ file[i].part = "whole"
      BY <2>1
    <3>3. i <= Len(file') /\ file'[i] = file[i]
      <4>1. /\ FirstTorn(file) \in 1..(Len(file) + 1) /\ Len(Intact(file)) = FirstTorn(file) - 1
            /\ \A j \in 1..(FirstTorn(file) - 1) : Intact(file)[j] = file[j]
        BY <1>0, IntactPart
      <4> QED BY <1>0, <2>1, <3>1, <4>1
    <3> QED BY <3>2, <3>3
  <2> QED BY <2>2 DEF GotInv
<1> QED BY <1>2, <1>3, <1>4, <1>5, <1>6, <1>7 DEF Next

(***************************************************************************)
(* What a Replay delivered and an fsync covered is delivered again, first  *)
(* and in the same order, by every later Open that succeeds, on any        *)
(* storage.                                                                *)
(***************************************************************************)
THEOREM ReplayRepeats == Spec => RecoveredStays
<1> DEFINE Fsynced == IF synced < Len(got) THEN synced ELSE Len(got)
           Stays == state' = "up" /\ state # "up" => IsPrefix(SubSeq(got, 1, Fsynced), got')
<1>1. ASSUME TypeOK, GotInv, [Next]_vars, state' = "up", state # "up"
      PROVE  IsPrefix(SubSeq(got, 1, Fsynced), got')
  <2>0. /\ file \in Seq(Piece) /\ Len(file) \in Nat /\ synced \in 0..Len(file)
        /\ got \in Seq(Records) /\ Len(got) \in Nat
    BY <1>1, LenProperties DEF TypeOK
  <2>1. Open
    BY <1>1 DEF Next, vars, AppendOK, AppendError, Sync, Close, SyncFile, Crash
  <2>2. /\ got' \in Seq(Records) /\ Len(got') = FirstTorn(file) - 1
        /\ \A i \in 1..Len(got') : got'[i] = file[i].rec
    BY <1>1, <2>1, Replayed DEF Open
  <2>3. PICK n \in 0..Len(got) : n = Fsynced /\ n <= synced
    BY <2>0
  <2>4. \A i \in 1..n : file[i].rec = got[i] /\ file[i].part = "whole"
    BY <1>1, <2>0, <2>3 DEF GotInv
  <2>5. IsTorn(file, FirstTorn(file))
    BY <2>0, TornExists
  <2>6. n <= Len(got') /\ Len(got') \in Nat
    <3>0. FirstTorn(file) \in 1..(Len(file) + 1)
      BY <2>5 DEF IsTorn
    <3>1. \A i \in 1..n : file[i].part = "whole"
      BY <2>4
    <3>2. FirstTorn(file) \notin 1..n
      BY <2>0, <2>3, <2>5, <3>1 DEF IsTorn
    <3> QED BY <2>0, <2>2, <2>3, <3>0, <3>2
  <2>7. \A i \in 1..n : got'[i] = got[i]
    BY <2>0, <2>2, <2>3, <2>4, <2>6
  <2>8. /\ SubSeq(got, 1, n) \in Seq(Records) /\ Len(SubSeq(got, 1, n)) = n
        /\ \A i \in 1..n : SubSeq(got, 1, n)[i] = got[i]
        /\ SubSeq(got', 1, n) \in Seq(Records) /\ Len(SubSeq(got', 1, n)) = n
        /\ \A i \in 1..n : SubSeq(got', 1, n)[i] = got'[i]
    BY <2>0, <2>2, <2>3, <2>6
  <2>9. SubSeq(got, 1, n) = SubSeq(got', 1, n)
    BY <2>7, <2>8, SeqEqual
  <2>10. SubSeq(SubSeq(got, 1, n), 1, n) = SubSeq(got, 1, n)
    BY <2>8, SubSeqFull
  <2> QED BY <2>3, <2>6, <2>8, <2>9, <2>10 DEF IsPrefix
<1>2. TypeOK /\ GotInv /\ [Next]_vars => [Stays]_vars
  BY <1>1
<1>3. Init => GotInv
  BY DEF Init, GotInv
<1> QED BY <1>2, <1>3, NextGotInv, LogTypeCorrect, PTL DEF Spec, RecoveredStays

-----------------------------------------------------------------------------
(* Storage that cuts payloads only.                                        *)

\* Every piece is whole, except perhaps the last one of a file that nobody has
\* open, behind the fsynced part; the fsynced part holds what was promised.
KeptInv ==
    CutsPayloads =>
        /\ state # "failed"
        /\ \A i \in 1..Len(file) :
              \/ file[i].part = "whole"
              \/ state = "down" /\ i = Len(file) /\ i > synced /\ file[i].part = "payload"
        /\ \A r \in accepted : \E i \in 1..Len(file) : file[i].rec = r /\ file[i].part = "whole"
        /\ \A r \in promised : \E i \in 1..synced : file[i].rec = r

LEMMA AllWhole ==
    ASSUME NEW f \in Seq(Piece), \A i \in 1..Len(f) : f[i].part = "whole"
    PROVE  FirstTorn(f) = Len(f) + 1 /\ Intact(f) = f
<1>1. Len(f) \in Nat
  BY LenProperties
<1>2. IsTorn(f, Len(f) + 1)
  BY <1>1 DEF IsTorn
<1>3. FirstTorn(f) = Len(f) + 1
  BY <1>2, TornUnique
<1> QED BY <1>1, <1>3, SubSeqFull DEF Intact

LEMMA LastTorn ==
    ASSUME NEW f \in Seq(Piece), f # <<>>, f[Len(f)].part # "whole",
           \A i \in 1..(Len(f) - 1) : f[i].part = "whole"
    PROVE  FirstTorn(f) = Len(f)
<1>1. Len(f) \in Nat \ {0}
  BY EmptySeq, LenProperties
<1>2. IsTorn(f, Len(f))
  BY <1>1 DEF IsTorn
<1> QED BY <1>2, TornUnique

\* The first torn piece lies behind the fsynced part.
LEMMA SyncedIntact == ASSUME TypeOK, KeptInv, CutsPayloads PROVE synced < FirstTorn(file)
<1>1. /\ file \in Seq(Piece) /\ Len(file) \in Nat /\ synced \in 0..Len(file)
      /\ IsTorn(file, FirstTorn(file))
  BY TornExists, LenProperties DEF TypeOK
<1> QED BY <1>1 DEF IsTorn, KeptInv

\* On such storage Open always succeeds and keeps exactly the intact part.
LEMMA OpenKeeps ==
    ASSUME TypeOK, KeptInv, CutsPayloads, Open
    PROVE  /\ state' = "up" /\ file' = Intact(file) /\ UNCHANGED <<synced, storage>>
           /\ got' = Delivers(file)
<1> DEFINE rest == SubSeq(file, FirstTorn(file), Len(file))
<1>0. /\ file \in Seq(Piece) /\ Len(file) \in Nat /\ synced \in 0..Len(file)
      /\ state = "down" /\ UNCHANGED storage /\ got' = Delivers(file)
  BY LenProperties DEF TypeOK, Open, Replay, KeptInv
<1>1. /\ \/ ShortHeader(rest) /\ state' = "up" /\ UNCHANGED <<file, synced>>
         \/ NoPayload(rest) /\ state' = "failed" /\ UNCHANGED <<file, synced>>
         \/ /\ Garbled(rest) /\ state' = "up" /\ file' = Intact(file)
            /\ synced' = IF synced < Len(Intact(file)) THEN synced ELSE Len(Intact(file))
  BY DEF Open, Replay, TruncateAt
<1>2. CASE \A i \in 1..Len(file) : file[i].part = "whole"
  <2>1. FirstTorn(file) = Len(file) + 1 /\ Intact(file) = file
    BY <1>0, <1>2, AllWhole
  <2>2. rest = <<>>
    BY <1>0, <2>1
  <2>3. ~NoPayload(rest) /\ ~Garbled(rest)
    BY <2>2 DEF NoPayload, Garbled
  <2> QED BY <1>0, <1>1, <2>1, <2>3
<1>3. CASE \E i \in 1..Len(file) : file[i].part # "whole"
  <2>1. /\ file # <<>> /\ file[Len(file)].part = "payload" /\ Len(file) > synced
        /\ \A i \in 1..(Len(file) - 1) : file[i].part = "whole"
    BY <1>0, <1>3 DEF KeptInv
  <2>2. FirstTorn(file) = Len(file) /\ Len(file) \in Nat \ {0}
    BY <1>0, <2>1, LastTorn, EmptySeq
  <2>3. Len(rest) = 1 /\ rest[1].part = "payload" /\ DOMAIN rest = 1..1 /\ rest # <<>>
    BY <1>0, <2>1, <2>2
  <2>4. ~ShortHeader(rest) /\ ~NoPayload(rest)
    <3> HIDE DEF rest
    <3> QED BY <2>3 DEF ShortHeader, NoPayload
  <2>5. Len(Intact(file)) = Len(file) - 1
    BY <1>0, <2>2, IntactPart
  <2>6. /\ state' = "up" /\ file' = Intact(file)
        /\ synced' = IF synced < Len(Intact(file)) THEN synced ELSE Len(Intact(file))
    <3> HIDE DEF rest
    <3> QED BY <1>1, <2>4
  <2>7. synced' = synced
    BY <1>0, <2>1, <2>5, <2>6
  <2> QED BY <1>0, <2>6, <2>7
<1> QED BY <1>2, <1>3

LEMMA InWhole ==
    ASSUME NEW f \in Seq(Piece), NEW r \in WholeRecords(f)
    PROVE  \E i \in 1..Len(f) : f[i].rec = r /\ f[i].part = "whole"
<1>1. DOMAIN f = 1..Len(f)
  BY LenProperties
<1> QED BY <1>1 DEF WholeRecords

\* A step that puts one more piece at the end of the file, on such storage.
OneMore(p) ==
    /\ next <= MaxRecords /\ file' = Write(p) /\ UNCHANGED storage
    /\ state = "up" /\ state' # "failed"
    /\ \/ p = "whole"
       \/ p = "payload" /\ state' = "down" /\ synced' = synced
    /\ \/ synced' = synced /\ promised' = promised
       \/ synced' = Len(file) + 1 /\ promised' = promised \cup {next}
    /\ \/ accepted' = accepted
       \/ accepted' = accepted \cup {next} /\ p = "whole"
       \/ accepted' \subseteq WholeRecords(file')

LEMMA WriteKept ==
    ASSUME TypeOK, KeptInv, CutsPayloads, NEW p \in Parts, OneMore(p) PROVE KeptInv'
<1> USE DEF OneMore
<1>0. /\ file \in Seq(Piece) /\ Len(file) \in Nat /\ synced \in 0..Len(file)
  BY LenProperties DEF TypeOK
<1>1. /\ file' \in Seq(Piece) /\ Len(file') = Len(file) + 1
      /\ \A i \in 1..Len(file) : file'[i] = file[i]
      /\ file'[Len(file) + 1].rec = next /\ file'[Len(file) + 1].part = p
  <2>1. /\ Write(p) \in Seq(Piece) /\ Len(Write(p)) = Len(file) + 1
        /\ \A i \in 1..Len(file) : Write(p)[i] = file[i]
        /\ Write(p)[Len(file) + 1] = [rec |-> next, part |-> p]
    BY Written
  <2> QED BY <2>1
<1>2. \A i \in 1..Len(file') : i \in 1..Len(file) \/ i = Len(file) + 1
  BY <1>0, <1>1
<1>3. \A i \in 1..Len(file') :
         \/ file'[i].part = "whole"
         \/ state' = "down" /\ i = Len(file') /\ i > synced' /\ file'[i].part = "payload"
  <2>1. \A i \in 1..Len(file) : file'[i].part = "whole"
    BY <1>1 DEF KeptInv
  <2> QED BY <1>0, <1>1, <1>2, <2>1
<1>4. \A r \in accepted' : \E i \in 1..Len(file') : file'[i].rec = r /\ file'[i].part = "whole"
  <2> SUFFICES ASSUME NEW r \in accepted'
               PROVE  \E i \in 1..Len(file') : file'[i].rec = r /\ file'[i].part = "whole"
    OBVIOUS
  <2>1. CASE r \in accepted
    <3>1. PICK i \in 1..Len(file) : file[i].rec = r /\ file[i].part = "whole"
      BY <2>1 DEF KeptInv
    <3>2. i \in 1..Len(file')
      BY <1>0, <1>1
    <3> QED BY <1>1, <3>1, <3>2
  <2>2. CASE r = next /\ p = "whole"
    BY <1>0, <1>1, <2>2
  <2>3. CASE r \in WholeRecords(file')
    BY <1>1, <2>3, InWhole
  <2> QED BY <2>1, <2>2, <2>3
<1>5. \A r \in promised' : \E i \in 1..synced' : file'[i].rec = r
  <2> SUFFICES ASSUME NEW r \in promised' PROVE \E i \in 1..synced' : file'[i].rec = r
    OBVIOUS
  <2>1. CASE r \in promised
    <3>1. PICK i \in 1..synced : file[i].rec = r
      BY <2>1 DEF KeptInv
    <3>2. i \in 1..synced' /\ i \in 1..Len(file)
      BY <1>0
    <3> QED BY <1>1, <3>1, <3>2
  <2>2. CASE r = next /\ synced' = Len(file) + 1
    BY <1>0, <1>1, <2>2
  <2> QED BY <2>1, <2>2
<1> QED BY <1>3, <1>4, <1>5 DEF KeptInv

LEMMA NextKeptInv == TypeOK /\ KeptInv /\ [Next]_vars => KeptInv'
<1> SUFFICES ASSUME TypeOK, KeptInv, [Next]_vars, CutsPayloads' PROVE KeptInv'
  BY DEF KeptInv
<1>0. /\ file \in Seq(Piece) /\ Len(file) \in Nat /\ synced \in 0..Len(file)
      /\ UNCHANGED storage /\ CutsPayloads
  <2>1. UNCHANGED storage
    BY DEF Next, vars, AppendOK, AppendError, Sync, Close, SyncFile, Crash, Open
  <2> QED BY <2>1, LenProperties DEF TypeOK, CutsPayloads
<1>1. CASE AppendOK
  <2>1. Len(file') = Len(file) + 1 /\ "whole" \in Parts
    BY <1>1, Written DEF AppendOK, Parts
  <2>2. OneMore("whole")
    BY <1>0, <1>1, <2>1 DEF AppendOK, OneMore
  <2> QED BY <1>0, <2>1, <2>2, WriteKept
<1>2. CASE AppendError
  <2>1. file' = Write("whole") /\ "whole" \in Parts
    BY <1>0, <1>2 DEF AppendError, CutsPayloads, Parts
  <2>2. OneMore("whole")
    BY <1>0, <1>2, <2>1 DEF AppendError, OneMore
  <2> QED BY <1>0, <2>1, <2>2, WriteKept
<1>3. CASE Sync \/ Close
  BY <1>0, <1>3 DEF Sync, Close, SyncFile, KeptInv
<1>4. CASE Crash
  <2>0. /\ state = "up" /\ state' = "down" /\ UNCHANGED <<synced, promised>>
        /\ accepted' \subseteq WholeRecords(file')
    BY <1>4 DEF Crash
  <2>1. CASE CutFile
    <3>1. PICK n \in Nat : Cut(n)
      BY <2>1, FileCut
    <3>2. /\ n \in synced..Len(file) /\ file' \in Seq(Piece) /\ Len(file') \in {n, n + 1}
          /\ \A i \in 1..n : file'[i] = file[i]
          /\ Len(file') = n + 1 => file'[n + 1].part = "payload"
      BY <1>0, <3>1 DEF Cut, CutsPayloads
    <3>3. \A i \in 1..n : file'[i].part = "whole"
      BY <1>0, <2>0, <3>2 DEF KeptInv
    <3>4. \A i \in 1..Len(file') :
             \/ file'[i].part = "whole"
             \/ i = Len(file') /\ i > synced /\ file'[i].part = "payload"
      <4>1. \A i \in 1..Len(file') : i \in 1..n \/ (i = n + 1 /\ Len(file') = n + 1)
        <5>1. CASE Len(file') = n
          BY <3>1, <5>1
        <5>2. CASE Len(file') = n + 1
          BY <3>1, <5>2
        <5> QED BY <3>2, <5>1, <5>2
      <4> QED BY <1>0, <3>2, <3>3, <4>1
    <3>5. \A r \in promised : \E i \in 1..synced : file'[i].rec = r
      BY <1>0, <3>2 DEF KeptInv
    <3>6. \A r \in accepted' :
             \E i \in 1..Len(file') : file'[i].rec = r /\ file'[i].part = "whole"
      BY <2>0, <3>2, InWhole
    <3> QED BY <2>0, <3>4, <3>5, <3>6 DEF KeptInv
  <2>2. CASE CutWrite
    <3>1. PICK p \in Parts : p \in {"payload", "whole"} /\ file' = Write(p)
      BY <1>0, <2>2 DEF CutWrite, Parts, CutsPayloads
    <3>2. OneMore(p)
      BY <1>0, <2>0, <2>2, <3>1 DEF CutWrite, OneMore
    <3> QED BY <1>0, <3>1, <3>2, WriteKept
  <2> QED BY <1>4, <2>1, <2>2 DEF Crash
<1>5. CASE Open
  <2>1. state' = "up" /\ file' = Intact(file) /\ UNCHANGED <<synced, storage, promised>>
    BY <1>0, <1>5, OpenKeeps DEF Open
  <2>2. /\ file' \in Seq(Piece) /\ Len(file') = FirstTorn(file) - 1
        /\ FirstTorn(file) \in 1..(Len(file) + 1) /\ synced < FirstTorn(file)
        /\ \A i \in 1..Len(file') : file'[i] = file[i] /\ file'[i].part = "whole"
    <3>1. /\ Intact(file) \in Seq(Piece) /\ Len(Intact(file)) = FirstTorn(file) - 1
          /\ FirstTorn(file) \in 1..(Len(file) + 1)
          /\ \A i \in 1..(FirstTorn(file) - 1) : Intact(file)[i] = file[i] /\ file[i].part = "whole"
      BY <1>0, IntactPart
    <3> QED BY <1>0, <2>1, <3>1, SyncedIntact
  <2>3. \A r \in promised : \E i \in 1..synced : file'[i].rec = r
    BY <1>0, <2>2 DEF KeptInv
  <2>4. \A r \in accepted' : \E i \in 1..Len(file') : file'[i].rec = r /\ file'[i].part = "whole"
    <3>1. accepted' \subseteq WholeRecords(file')
      BY <1>5 DEF Open
    <3> QED BY <2>2, <3>1, InWhole
  <2> QED BY <2>1, <2>2, <2>3, <2>4 DEF KeptInv
<1>6. CASE UNCHANGED vars
  BY <1>0, <1>6 DEF vars, KeptInv
<1> QED BY <1>1, <1>2, <1>3, <1>4, <1>5, <1>6 DEF Next

LEMMA KeptAlways == Spec => []KeptInv
<1>1. Init => KeptInv
  BY DEF Init, KeptInv
<1> QED BY <1>1, NextKeptInv, LogTypeCorrect, PTL DEF Spec

(***************************************************************************)
(* On storage that cuts payloads only, every Open that succeeds hands back *)
(* every record an Append, Sync or Close has promised to keep, through any *)
(* number of crashes, torn records and truncations.                        *)
(***************************************************************************)
THEOREM LogKeepsPromises == Spec => PromisesKept
<1>1. ASSUME TypeOK, KeptInv, [Next]_vars, CutsPayloads, state' = "up", state # "up",
             NEW r \in promised
      PROVE  r \in ToSet(got')
  <2>1. Open
    BY <1>1 DEF Next, vars, AppendOK, AppendError, Sync, Close, SyncFile, Crash
  <2>2. /\ file \in Seq(Piece) /\ Len(file) \in Nat /\ synced \in Nat
        /\ synced < FirstTorn(file) /\ FirstTorn(file) \in Nat
    <3>1. file \in Seq(Piece) /\ Len(file) \in Nat /\ synced \in Nat
      BY <1>1, LenProperties DEF TypeOK
    <3>2. FirstTorn(file) \in 1..(Len(file) + 1)
      BY <3>1, IntactPart
    <3> QED BY <1>1, <3>1, <3>2, SyncedIntact
  <2>3. /\ got' \in Seq(Records) /\ Len(got') = FirstTorn(file) - 1
        /\ \A i \in 1..Len(got') : got'[i] = file[i].rec
    BY <1>1, <2>1, Replayed DEF Open
  <2>4. PICK i \in 1..synced : file[i].rec = r
    BY <1>1 DEF KeptInv
  <2>5. i \in 1..Len(got') /\ got'[i] = r
    <3>1. Len(got') \in Nat
      BY <2>3, LenProperties
    <3> QED BY <2>2, <2>3, <2>4, <3>1
  <2> QED BY <2>3, <2>5, LenProperties DEF ToSet
<1>2. TypeOK /\ KeptInv /\ [Next]_vars => [CutsPayloads => HandsBack]_vars
  BY <1>1 DEF HandsBack
<1> QED BY <1>2, KeptAlways, LogTypeCorrect, PTL DEF Spec, PromisesKept

-----------------------------------------------------------------------------
(* The refinement of DurableLog.                                           *)

\* What is delivered of a file whose first n pieces are its intact part.
LEMMA DeliveredOf ==
    ASSUME NEW f \in Seq(Piece), NEW n \in Nat, IsTorn(f, n + 1)
    PROVE  /\ FirstTorn(f) = n + 1
           /\ Delivers(f) \in Seq(Records) /\ Len(Delivers(f)) = n
           /\ \A i \in 1..n : Delivers(f)[i] = f[i].rec
<1>1. FirstTorn(f) = n + 1
  BY TornUnique
<1> QED BY <1>1, Delivered

\* Two files with the same records in their intact parts deliver the same.
LEMMA SameDelivered ==
    ASSUME NEW f \in Seq(Piece), NEW g \in Seq(Piece), NEW n \in Nat,
           IsTorn(f, n + 1), IsTorn(g, n + 1), \A i \in 1..n : f[i].rec = g[i].rec
    PROVE  Delivers(f) = Delivers(g)
<1>1. /\ Delivers(f) \in Seq(Records) /\ Len(Delivers(f)) = n
      /\ Delivers(g) \in Seq(Records) /\ Len(Delivers(g)) = n
      /\ \A i \in 1..n : Delivers(f)[i] = f[i].rec /\ Delivers(g)[i] = g[i].rec
  BY DeliveredOf
<1> QED BY <1>1, SeqEqual

\* What an intact part of k pieces or more holds among its first k is in the
\* first k records delivered.
LEMMA PromiseHeld ==
    ASSUME NEW f \in Seq(Piece), NEW k \in Nat, k < FirstTorn(f), NEW P,
           \A r \in P : \E i \in 1..k : f[i].rec = r
    PROVE  P \subseteq Log!ToSet(SubSeq(Delivers(f), 1, k))
<1>1. /\ Delivers(f) \in Seq(Records) /\ Len(Delivers(f)) = FirstTorn(f) - 1
      /\ \A i \in 1..Len(Delivers(f)) : Delivers(f)[i] = f[i].rec
      /\ FirstTorn(f) \in 1..(Len(f) + 1) /\ Len(f) \in Nat
  BY Delivered, IntactPart, LenProperties
<1>2. /\ DOMAIN SubSeq(Delivers(f), 1, k) = 1..k
      /\ \A i \in 1..k : SubSeq(Delivers(f), 1, k)[i] = f[i].rec
  BY <1>1
<1> QED BY <1>2 DEF Log!ToSet

\* The views of a state on such storage.
LEMMA Views ==
    TypeOK /\ KeptInv /\ CutsPayloads =>
        /\ LogView = Delivers(file) /\ DurableView = synced /\ PromiseView = promised
        /\ promised \subseteq Log!ToSet(SubSeq(Delivers(file), 1, synced))
<1> SUFFICES ASSUME TypeOK, KeptInv, CutsPayloads
             PROVE  /\ DurableView = synced
                    /\ promised \subseteq Log!ToSet(SubSeq(Delivers(file), 1, synced))
  BY DEF LogView, PromiseView
<1>1. file \in Seq(Piece) /\ synced \in Nat /\ synced < FirstTorn(file)
  BY SyncedIntact, LenProperties DEF TypeOK
<1>2. DurableView = synced
  BY <1>1 DEF DurableView
<1>3. \A r \in promised : \E i \in 1..synced : file[i].rec = r
  BY DEF KeptInv
<1> QED BY <1>1, <1>2, <1>3, PromiseHeld

\* One more whole record is one more delivered; a torn one is not.
LEMMA WriteSeen ==
    ASSUME TypeOK, KeptInv, CutsPayloads, NEW p \in Parts, OneMore(p)
    PROVE  /\ p = "whole" => Delivers(file') = Append(Delivers(file), next)
           /\ p # "whole" => Delivers(file') = Delivers(file)
<1>0. file \in Seq(Piece) /\ Len(file) \in Nat /\ next \in Records
  BY WALAssumption, LenProperties DEF TypeOK, OneMore, Records
<1>1. /\ file' \in Seq(Piece) /\ Len(file') = Len(file) + 1
      /\ \A i \in 1..Len(file) : file'[i] = file[i]
      /\ file'[Len(file) + 1].rec = next /\ file'[Len(file) + 1].part = p
  <2>1. /\ Write(p) \in Seq(Piece) /\ Len(Write(p)) = Len(file) + 1
        /\ \A i \in 1..Len(file) : Write(p)[i] = file[i]
        /\ Write(p)[Len(file) + 1] = [rec |-> next, part |-> p]
    BY Written DEF OneMore
  <2> QED BY <2>1 DEF OneMore
<1>2. \A i \in 1..Len(file) : file[i].part = "whole"
  BY DEF KeptInv, OneMore
<1>3. IsTorn(file, Len(file) + 1)
  BY <1>0, <1>2 DEF IsTorn
<1>4. /\ Delivers(file) \in Seq(Records) /\ Len(Delivers(file)) = Len(file)
      /\ \A i \in 1..Len(file) : Delivers(file)[i] = file[i].rec
  BY <1>0, <1>3, DeliveredOf
<1>5. ASSUME p = "whole" PROVE Delivers(file') = Append(Delivers(file), next)
  <2>1. IsTorn(file', (Len(file) + 1) + 1)
    BY <1>0, <1>1, <1>2, <1>5 DEF IsTorn
  <2>2. Len(file) + 1 \in Nat
    BY <1>0
  <2>3. /\ Delivers(file') \in Seq(Records) /\ Len(Delivers(file')) = Len(file) + 1
        /\ \A i \in 1..(Len(file) + 1) : Delivers(file')[i] = file'[i].rec
    BY <1>1, <2>1, <2>2, DeliveredOf
  <2>4. /\ Append(Delivers(file), next) \in Seq(Records)
        /\ Len(Append(Delivers(file), next)) = Len(file) + 1
        /\ \A i \in 1..Len(file) : Append(Delivers(file), next)[i] = Delivers(file)[i]
        /\ Append(Delivers(file), next)[Len(file) + 1] = next
    BY <1>0, <1>4, AppendProperties
  <2>5. \A i \in 1..(Len(file) + 1) : Delivers(file')[i] = Append(Delivers(file), next)[i]
    BY <1>0, <1>1, <1>4, <2>3, <2>4
  <2> QED BY <2>3, <2>4, <2>5, SeqEqual
<1>6. ASSUME p # "whole" PROVE Delivers(file') = Delivers(file)
  <2>1. IsTorn(file', Len(file) + 1)
    BY <1>0, <1>1, <1>2, <1>6 DEF IsTorn
  <2> QED BY <1>0, <1>1, <1>3, <2>1, SameDelivered
<1> QED BY <1>5, <1>6

\* A cut file delivers a prefix.
LEMMA CutSeen ==
    ASSUME TypeOK, KeptInv, CutsPayloads, state = "up", NEW n \in Nat, Cut(n)
    PROVE  /\ n \in synced..Len(Delivers(file))
           /\ Delivers(file') = SubSeq(Delivers(file), 1, n)
<1>0. file \in Seq(Piece) /\ Len(file) \in Nat /\ synced \in 0..Len(file)
  BY LenProperties DEF TypeOK
<1>1. /\ n \in synced..Len(file) /\ file' \in Seq(Piece) /\ Len(file') \in {n, n + 1}
      /\ \A i \in 1..n : file'[i] = file[i]
      /\ Len(file') = n + 1 => file'[n + 1].part # "whole"
  BY DEF Cut, CutsPayloads
<1>2. \A i \in 1..Len(file) : file[i].part = "whole"
  BY DEF KeptInv
<1>3. IsTorn(file, Len(file) + 1) /\ IsTorn(file', n + 1)
  <2>1. IsTorn(file, Len(file) + 1)
    BY <1>0, <1>2 DEF IsTorn
  <2>2. \A i \in 1..n : file'[i].part = "whole"
    BY <1>0, <1>1, <1>2
  <2>3. n + 1 \in 1..(Len(file') + 1) /\ (n + 1 = Len(file') + 1 \/ file'[n + 1].part # "whole")
    BY <1>1
  <2> QED BY <2>1, <2>2, <2>3 DEF IsTorn
<1>4. /\ Delivers(file) \in Seq(Records) /\ Len(Delivers(file)) = Len(file)
      /\ \A i \in 1..Len(file) : Delivers(file)[i] = file[i].rec
  BY <1>0, <1>3, DeliveredOf
<1>5. /\ Delivers(file') \in Seq(Records) /\ Len(Delivers(file')) = n
      /\ \A i \in 1..n : Delivers(file')[i] = file'[i].rec
  BY <1>1, <1>3, DeliveredOf
<1>6. /\ SubSeq(Delivers(file), 1, n) \in Seq(Records)
      /\ Len(SubSeq(Delivers(file), 1, n)) = n
      /\ \A i \in 1..n : SubSeq(Delivers(file), 1, n)[i] = Delivers(file)[i]
  BY <1>0, <1>1, <1>4
<1>7. \A i \in 1..n : Delivers(file')[i] = SubSeq(Delivers(file), 1, n)[i]
  BY <1>0, <1>1, <1>4, <1>5, <1>6
<1> QED BY <1>1, <1>4, <1>5, <1>6, <1>7, SeqEqual

\* What Open leaves delivers what Open delivered.
LEMMA OpenSeen ==
    ASSUME TypeOK, KeptInv, CutsPayloads, Open PROVE Delivers(file') = Delivers(file)
<1>1. file' = Intact(file) /\ file \in Seq(Piece) /\ Len(file) \in Nat
  BY OpenKeeps, LenProperties DEF TypeOK
<1>2. PICK n \in Nat : n + 1 = FirstTorn(file)
  <2>1. FirstTorn(file) \in 1..(Len(file) + 1)
    BY <1>1, IntactPart
  <2>2. FirstTorn(file) - 1 \in Nat /\ (FirstTorn(file) - 1) + 1 = FirstTorn(file)
    BY <1>1, <2>1
  <2> QED BY <2>2
<1>3. /\ Intact(file) \in Seq(Piece) /\ Len(Intact(file)) = n
      /\ \A i \in 1..n : Intact(file)[i] = file[i] /\ file[i].part = "whole"
  <2>1. FirstTorn(file) - 1 = n
    BY <1>2
  <2> QED BY <1>1, <2>1, IntactPart
<1>4. IsTorn(file, n + 1) /\ IsTorn(Intact(file), n + 1)
  <2>1. IsTorn(file, n + 1)
    BY <1>1, <1>2, TornExists
  <2> QED BY <1>3, <2>1 DEF IsTorn
<1> QED BY <1>1, <1>3, <1>4, SameDelivered

\* Every step of the log is a step of DurableLog, or leaves it as it is.
LEMMA LogStep == TypeOK /\ KeptInv /\ [Next]_vars => [Log!Next]_(Log!vars)
<1> SUFFICES ASSUME TypeOK, KeptInv, [Next]_vars
             PROVE  Log!Next \/ UNCHANGED <<LogView, DurableView, PromiseView>>
  BY DEF Log!vars
<1>0. TypeOK' /\ KeptInv' /\ UNCHANGED storage
  <2>1. UNCHANGED storage
    BY DEF Next, vars, AppendOK, AppendError, Sync, Close, SyncFile, Crash, Open
  <2> QED BY <2>1, NextTypeOK, NextKeptInv
<1>1. CASE ~CutsPayloads
  BY <1>0, <1>1 DEF CutsPayloads, LogView, DurableView, PromiseView
<1>2. CASE CutsPayloads
  <2>0. CutsPayloads'
    BY <1>0, <1>2 DEF CutsPayloads
  <2>1. LogView = Delivers(file) /\ DurableView = synced /\ PromiseView = promised
    BY <1>2, Views
  <2>2. /\ LogView' = Delivers(file') /\ DurableView' = synced' /\ PromiseView' = promised'
        /\ promised' \subseteq Log!ToSet(SubSeq(Delivers(file'), 1, synced'))
    <3>1. (TypeOK /\ KeptInv /\ CutsPayloads =>
             /\ LogView = Delivers(file) /\ DurableView = synced /\ PromiseView = promised
             /\ promised \subseteq Log!ToSet(SubSeq(Delivers(file), 1, synced)))'
      BY Views, PTL
    <3> QED BY <1>0, <2>0, <3>1
  <2>3. promised \subseteq promised'
    BY DEF Next, vars, AppendOK, AppendError, Sync, Close, SyncFile, Crash, Open
  <2>4. Log!Promise
    BY <2>1, <2>2, <2>3 DEF Log!Promise
  <2>5. /\ file \in Seq(Piece) /\ Len(file) \in Nat /\ synced \in 0..Len(file)
    BY LenProperties DEF TypeOK
  <2>6. ASSUME NEW p \in Parts, OneMore(p)
        PROVE  Log!Next \/ UNCHANGED <<LogView, DurableView, PromiseView>>
    <3>1. CASE p = "whole"
      <4>1. LogView' = Append(LogView, next) /\ next \in Records
        <5>1. next \in Records
          BY <2>6, WALAssumption DEF TypeOK, OneMore, Records
        <5> QED BY <1>2, <2>1, <2>2, <2>6, <3>1, <5>1, WriteSeen
      <4>2. DurableView' \in {DurableView, Len(LogView')}
        <5>1. \A i \in 1..Len(file) : file[i].part = "whole"
          BY <1>2, <2>6 DEF KeptInv, OneMore
        <5>2. IsTorn(file, Len(file) + 1)
          BY <2>5, <5>1 DEF IsTorn
        <5>3. LogView \in Seq(Records) /\ Len(LogView) = Len(file)
          BY <2>1, <2>5, <5>2, DeliveredOf
        <5>4. Len(LogView') = Len(file) + 1
          BY <4>1, <5>3, AppendProperties
        <5> QED BY <2>1, <2>2, <2>6, <5>4 DEF OneMore
      <4> QED BY <2>4, <4>1, <4>2 DEF Log!Next, Log!Append1
    <3>2. CASE p # "whole"
      <4>1. LogView' = LogView
        BY <1>2, <2>1, <2>2, <2>6, <3>2, WriteSeen
      <4>2. synced' = synced /\ promised' = promised
        BY <2>5, <2>6, <3>2 DEF OneMore
      <4> QED BY <2>1, <2>2, <4>1, <4>2
    <3> QED BY <3>1, <3>2
  <2>7. CASE AppendOK
    <3>1. "whole" \in Parts /\ OneMore("whole")
      <4>1. Len(file') = Len(file) + 1 /\ "whole" \in Parts
        BY <2>7, Written DEF AppendOK, Parts
      <4> QED BY <2>7, <4>1 DEF AppendOK, OneMore
    <3> QED BY <2>6, <3>1
  <2>8. CASE AppendError
    <3>1. "whole" \in Parts /\ OneMore("whole")
      BY <1>2, <2>8 DEF AppendError, CutsPayloads, Parts, OneMore
    <3> QED BY <2>6, <3>1
  <2>9. CASE Sync \/ Close
    <3>1. state = "up" /\ UNCHANGED file /\ synced' = Len(file)
      BY <2>9 DEF Sync, Close, SyncFile
    <3>2. IsTorn(file, Len(file) + 1)
      BY <1>2, <2>5, <3>1 DEF IsTorn, KeptInv
    <3>3. Len(Delivers(file)) = Len(file)
      BY <2>5, <3>2, DeliveredOf
    <3> QED BY <2>1, <2>2, <2>4, <3>1, <3>3 DEF Log!Next, Log!MakeDurable
  <2>10. CASE Crash
    <3>0. state = "up" /\ state' = "down" /\ UNCHANGED <<synced, promised>>
          /\ accepted' \subseteq WholeRecords(file')
      BY <2>10 DEF Crash
    <3>1. CASE CutFile
      <4>1. PICK n \in Nat : Cut(n)
        BY <3>1, FileCut
      <4>2. n \in synced..Len(Delivers(file)) /\ Delivers(file') = SubSeq(Delivers(file), 1, n)
        BY <1>2, <3>0, <4>1, CutSeen
      <4> QED BY <2>1, <2>2, <3>0, <4>2 DEF Log!Next, Log!Lose
    <3>2. CASE CutWrite
      <4>1. PICK p \in Parts : p \in {"payload", "whole"} /\ file' = Write(p)
        BY <1>2, <3>2 DEF CutWrite, Parts, CutsPayloads
      <4>2. OneMore(p)
        BY <1>0, <3>0, <3>2, <4>1 DEF CutWrite, OneMore
      <4> QED BY <2>6, <4>2
    <3> QED BY <2>10, <3>1, <3>2 DEF Crash
  <2>11. CASE Open
    <3>1. UNCHANGED <<synced, promised>>
      BY <1>2, <2>11, OpenKeeps DEF Open
    <3> QED BY <1>2, <2>1, <2>2, <2>11, <3>1, OpenSeen
  <2>12. CASE UNCHANGED vars
    BY <2>1, <2>2, <2>12 DEF vars
  <2> QED BY <2>7, <2>8, <2>9, <2>10, <2>11, <2>12 DEF Next
<1> QED BY <1>1, <1>2

(***************************************************************************)
(* On storage that cuts payloads only, the byte-level log implements the   *)
(* durable log, for any number of records: each step is an append, a sync  *)
(* or the loss of an unsynced suffix, or is not seen; tearing the record   *)
(* being written and cutting it off in Replay are among those not seen.    *)
(***************************************************************************)
THEOREM LogRefines == Spec => LogImplemented
<1>1. Init => Log!Init
  <2> SUFFICES ASSUME Init PROVE LogView = <<>> /\ DurableView = 0 /\ PromiseView = {}
    BY DEF Log!Init
  <2>1. file \in Seq(Piece) /\ Len(file) = 0 /\ synced = 0 /\ promised = {}
    BY DEF Init
  <2>2. IsTorn(file, 1)
    BY <2>1 DEF IsTorn
  <2>3. FirstTorn(file) = 1
    BY <2>1, <2>2, TornUnique
  <2>4. Delivers(file) = <<>>
    <3>1. Delivers(file) \in Seq(Records) /\ Len(Delivers(file)) = FirstTorn(file) - 1
      BY <2>1, Delivered
    <3>2. Len(Delivers(file)) = 0
      BY <2>3, <3>1
    <3> QED BY <3>1, <3>2, EmptySeq
  <2> QED BY <2>1, <2>3, <2>4 DEF LogView, DurableView, PromiseView
<1> QED BY <1>1, LogStep, KeptAlways, LogTypeCorrect, PTL DEF Spec, LogImplemented, Log!Spec
=============================================================================
