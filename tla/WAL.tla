-------------------------------- MODULE WAL --------------------------------
(***************************************************************************)
(* The write-ahead log of internal/wal at the grain where a record can be  *)
(* torn.  The file is a sequence of pieces, each a whole record or what is *)
(* left of one; Replay is followed branch by branch, because which piece   *)
(* it meets decides whether it truncates, stops, or fails.                 *)
(* WriteUnlocked, SyncFileSkipped and the two Truncate variants are wrong  *)
(* forms of the definition that follows them, which the properties reject. *)
(***************************************************************************)
EXTENDS Naturals, Sequences, FiniteSets, SequencesExt

CONSTANTS
    MaxRecords, \* bound on the records ever appended; they are numbered from 1
    Storages    \* the kinds of storage to consider, see below

(***************************************************************************)
(* What can be left of a record, by how many of its bytes are there: part  *)
(* of the 13-byte header, exactly the header, the header and some of the   *)
(* payload, all of it (a key is never empty, so there is a payload).       *)
(***************************************************************************)
Parts == {"header", "bare", "payload", "whole"}
Rank  == [header |-> 1, bare |-> 2, payload |-> 3, whole |-> 4]

\* A storage: what a crash may leave of the record it cuts, and what a failed
\* write may leave of its record.
StorageKind == [tears : SUBSET (Parts \ {"whole"}), shorts : SUBSET (Parts \ {"whole"})]

ASSUME WALAssumption == MaxRecords \in Nat /\ Storages \subseteq StorageKind

VARIABLES
    storage,        \* the storage underneath; it never changes
    file,           \* the pieces in WALFILE
    synced,         \* how many of them are known to be on disk
    syncOnAppend,   \* Options.SyncOnAppend of the current handle
    state,          \* "up", "down" (no process has the file open), "failed" (Open failed)
    got,            \* what the last Replay handed to its callback
    next,           \* number of the next record
    accepted,       \* records whose Append returned nil and that are in the file
    promised        \* records a returned Append, Sync or Close made durable

vars == <<storage, file, synced, syncOnAppend, state, got, next, accepted, promised>>

Records == 1..MaxRecords
Piece   == [rec : Records, part : Parts]

TypeOK ==
    /\ storage \in Storages
    /\ file \in Seq(Piece) /\ synced \in 0..Len(file)
    /\ syncOnAppend \in BOOLEAN /\ state \in {"up", "down", "failed"}
    /\ got \in Seq(Records) /\ next \in 1..(MaxRecords + 1)
    /\ accepted \in SUBSET Records /\ promised \in SUBSET Records

Init ==
    /\ storage \in Storages
    /\ file = <<>> /\ synced = 0 /\ syncOnAppend \in BOOLEAN /\ state = "up"
    /\ got = <<>> /\ next = 1 /\ accepted = {} /\ promised = {}

WholeRecords(f) == {f[i].rec : i \in {j \in DOMAIN f : f[j].part = "whole"}}

-----------------------------------------------------------------------------
\* The file after a write that put the part p of the next record at its end.
WriteUnlocked(p) == LET n == IF file = <<>> THEN 0 ELSE Len(file) - 1
                    IN  SubSeq(file, 1, n) \o <<[rec |-> next, part |-> p]>>
                        \o SubSeq(file, n + 1, Len(file))

Write(p) == Append(file, [rec |-> next, part |-> p])

\* Append: one write of the encoded record, then an fsync if so configured.
AppendOK ==
    /\ state = "up" /\ next <= MaxRecords
    /\ file' = Write("whole")
    /\ synced' = IF syncOnAppend THEN Len(file') ELSE synced
    /\ accepted' = accepted \cup {next}
    /\ promised' = IF syncOnAppend THEN promised \cup {next} ELSE promised
    /\ next' = next + 1
    /\ UNCHANGED <<storage, syncOnAppend, state, got>>

\* Append returns an error: the write stopped short, or the fsync failed.
AppendError ==
    /\ state = "up" /\ next <= MaxRecords
    /\ \E p \in storage.shorts \cup (IF syncOnAppend THEN {"whole"} ELSE {}) :
          file' = Write(p)
    /\ next' = next + 1
    /\ UNCHANGED <<storage, synced, syncOnAppend, state, got, accepted, promised>>

SyncFileSkipped ==
    /\ state = "up"
    /\ promised' = promised \cup accepted
    /\ UNCHANGED <<storage, file, synced, syncOnAppend, got, next, accepted>>

\* Sync and Close both fsync; Close also gives the file up.
SyncFile ==
    /\ state = "up"
    /\ synced' = Len(file) /\ promised' = promised \cup accepted
    /\ UNCHANGED <<storage, file, syncOnAppend, got, next, accepted>>

Sync  == SyncFile /\ UNCHANGED state
Close == SyncFile /\ state' = "down"

\* The process dies or power fails: what was fsynced stays, the rest stays up
\* to some byte, which may lie inside a record; or it happens while one more
\* record is being written.
CutFile ==
    /\ UNCHANGED next
    /\ \E n \in synced..Len(file) :
          \/ file' = SubSeq(file, 1, n)
          \/ /\ n < Len(file)
             /\ \E p \in storage.tears :
                   /\ Rank[p] < Rank[file[n + 1].part]
                   /\ file' = Append(SubSeq(file, 1, n), [file[n + 1] EXCEPT !.part = p])

CutWrite ==
    /\ next <= MaxRecords /\ next' = next + 1
    /\ \E p \in storage.tears \cup {"whole"} : file' = Write(p)

Crash ==
    /\ state = "up" /\ state' = "down"
    /\ CutFile \/ CutWrite
    /\ accepted' = accepted \cap WholeRecords(file')
    /\ UNCHANGED <<storage, synced, syncOnAppend, got, promised>>

-----------------------------------------------------------------------------
(* Open and Replay.                                                        *)

\* The index of the first piece that is not a whole record; Replay delivers
\* the records before it and then meets it.
FirstTorn(f) == CHOOSE i \in 1..(Len(f) + 1) :
                    /\ i = Len(f) + 1 \/ f[i].part # "whole"
                    /\ \A j \in 1..(i - 1) : f[j].part = "whole"

Intact(f) == SubSeq(f, 1, FirstTorn(f) - 1)

\* The records a Replay of f hands to its callback.
Delivers(f) == [i \in DOMAIN Intact(f) |-> Intact(f)[i].rec]

\* The header read ends early (io.EOF or io.ErrUnexpectedEOF): fewer than 13
\* bytes are left.  Replay stops and leaves them where they are.
ShortHeader(rest) == rest = <<>> \/ \A i \in DOMAIN rest : rest[i].part = "header"

\* A complete header and not one byte after it: ReadFull returns io.EOF, not
\* io.ErrUnexpectedEOF, and Replay returns it as an error.  Several header
\* pieces may add up to the same.
NoPayload(rest) ==
    \/ Len(rest) = 1 /\ rest[1].part = "bare"
    \/ Len(rest) > 1 /\ \A i \in DOMAIN rest : rest[i].part = "header"

\* Otherwise 13 bytes are read as a header and what follows as its payload: an
\* unknown opcode, a payload cut short or a checksum mismatch; all truncate.
Garbled(rest) ==
    /\ rest # <<>>
    /\ ~ (Len(rest) = 1 /\ rest[1].part \in {"header", "bare"})

\* truncateAt: the file is cut after its last good record.
TruncateNothing(good) == file
TruncateTooMuch(good) == SubSeq(good, 1, Len(good) - 1)

TruncateAt(good) == good

Replay ==
    LET good == Intact(file)
        rest == SubSeq(file, FirstTorn(file), Len(file))
    IN  /\ got' = Delivers(file)
        /\ \/ ShortHeader(rest) /\ state' = "up" /\ UNCHANGED <<file, synced>>
           \/ NoPayload(rest) /\ state' = "failed" /\ UNCHANGED <<file, synced>>
           \/ /\ Garbled(rest) /\ state' = "up"
              /\ file' = TruncateAt(good)
              /\ synced' = IF synced < Len(good) THEN synced ELSE Len(good)

Open ==
    /\ state \in {"down", "failed"}
    /\ syncOnAppend' \in BOOLEAN
    /\ Replay
    /\ accepted' = accepted \cap WholeRecords(file')
    /\ UNCHANGED <<storage, next, promised>>

-----------------------------------------------------------------------------
Next == AppendOK \/ AppendError \/ Sync \/ Close \/ Crash \/ Open

Spec == Init /\ [][Next]_vars

-----------------------------------------------------------------------------
(* Properties.                                                             *)

\* A step that is a successful Open hands back everything promised.
HandsBack == state' = "up" /\ state # "up" => promised \subseteq ToSet(got')

(***************************************************************************)
(* Every record that was promised to be durable is handed back by the      *)
(* Replay of every later Open that succeeds, whatever crashes, failed      *)
(* appends and truncations happened in between.                            *)
(***************************************************************************)
PromisesReplayed == [][HandsBack]_vars

\* The storage for which the log keeps its promises: a crash cuts records
\* behind their header only, and a failed write leaves nothing.
CutsPayloads == storage.tears \subseteq {"payload"} /\ storage.shorts = {}

(***************************************************************************)
(* The same on storage that cuts payloads only: the torn record, which     *)
(* Replay then truncates, is never a promised one and never stands in      *)
(* front of one.                                                           *)
(***************************************************************************)
PromisesKept == [][CutsPayloads => HandsBack]_vars

(***************************************************************************)
(* Replay hands the records over in the order they were appended, each     *)
(* once, and a torn record is never followed by a delivered one.           *)
(***************************************************************************)
ReplayInOrder == \A i, j \in DOMAIN got : i < j => got[i] < got[j]

(***************************************************************************)
(* What a Replay delivered and an fsync covered stays: every later Open    *)
(* that succeeds delivers it again, first and in the same order, whatever  *)
(* torn records, short writes and truncations there are in between.        *)
(***************************************************************************)
RecoveredStays ==
    [][state' = "up" /\ state # "up" =>
          IsPrefix(SubSeq(got, 1, IF synced < Len(got) THEN synced ELSE Len(got)), got')]_vars

(***************************************************************************)
(* A crash never leaves a log that Open refuses: Replay returns an error   *)
(* only for unexpected I/O failures.                                       *)
(***************************************************************************)
OpenSucceeds == state # "failed"

\* The log as the engine sees it, on such storage (on any other the abstract
\* log stays empty): the records before the first torn piece.
LogView     == IF CutsPayloads THEN Delivers(file) ELSE <<>>
DurableView == IF ~CutsPayloads THEN 0
               ELSE IF synced < FirstTorn(file) THEN synced ELSE FirstTorn(file) - 1
PromiseView == IF CutsPayloads THEN promised ELSE {}

Log == INSTANCE DurableLog WITH
          log <- LogView, durable <- DurableView, promised <- PromiseView

(***************************************************************************)
(* On storage that cuts payloads only, the byte-level log implements the   *)
(* durable log: an Append, Sync or Close that returns nil has put its      *)
(* records where no crash and no truncation by a later Replay takes them.  *)
(***************************************************************************)
LogImplemented == Log!Spec
=============================================================================
