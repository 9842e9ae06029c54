------------------------------ MODULE DBStore ------------------------------
(***************************************************************************)
(* The storage engine implements the key-value store of module KeyValue,   *)
(* as long as five orderings of steps do not happen, which nothing in the  *)
(* code rules out.                                                         *)
(***************************************************************************)
EXTENDS DB

-----------------------------------------------------------------------------
(* The orderings.                                                          *)

\* No two calls that write the same key are both between Append and Apply,
\* where Set and Delete hold no lock.
NoRacingWrites ==
    \A c, d \in Clients :
        pc[c] = "apply" /\ pc[d] = "apply" /\ key[c] = key[d] => c = d

\* When a table is written, its ID is higher than those of the tables whose
\* entries it supersedes and lower than those of the tables that supersede it:
\* a flush writes the newest file, and no file lies between a merge's inputs
\* and its output.
FilesInOrder ==
    /\ IDsInOrder
    /\ fpc \in {"create", "finish"} => \A f \in dir : f < ffile
    /\ cpc = "merge" => \A f \in sel, g \in dir \ sel : g < f \/ cfile < g

Files(s) == {h.file : h \in ToSet(s)}

\* A flush that has put its reader in front of db.readers while reloadReaders
\* is between listing the directory and swapping had its file listed.
ReloadSeesFlush == cpc = "swap" /\ fpc = "add" => ffile \in Files(fresh)

\* No Get is in the middle of readers that reloadReaders is about to close.
ReadersLetGo ==
    cpc = "close" => \A c \in Clients : pc[c] = "scan" => ToSet(todo[c]) \cap old = {}

StepsInOrder ==
    /\ NoRacingWrites /\ FilesInOrder /\ ReloadSeesFlush /\ ReadersLetGo
    /\ NothingBehindPiece

-----------------------------------------------------------------------------
(* The refinement.                                                         *)

AllIdle == \A c \in Clients : pc[c] = "idle"

\* What a restart would show for k: the log replayed over the files.
RestartView(k) ==
    LET S == {i \in DOMAIN Replayed : Replayed[i].key = k}
    IN  IF S = {} THEN DiskView(k) ELSE Replayed[Max(S)].ent

\* The abstract map: what an undisturbed Get would find, and, when there is no
\* process and no call left, what the next Open will find.
Stored(k) == Visible(IF Ended /\ AllIdle THEN RestartView(k) ELSE StoreView(k))

Calling(c) ==
    CASE pc[c] \in {"idle", "signal"}      -> [op |-> "idle"]
      [] pc[c] \in {"append", "apply"}     -> [op |-> "write", key |-> key[c], val |-> Visible(ent[c])]
      [] pc[c] \in {"mem", "copy", "scan"} -> [op |-> "get", key |-> key[c], may |-> seen[c]]
      [] pc[c] = "return"                  -> [op |-> "answered", val |-> ent[c]]

StoredMap == [k \in Keys |-> Stored(k)]

Calls == [c \in Clients |-> Calling(c)]

Phase ==
    CASE life = "open"                       -> "open"
      [] life \in {"signal", "wait", "drain"} -> "closing"
      [] life = "wal" \/ Ended               -> "closed"

Store == INSTANCE KeyValue WITH
            None <- NoEntry, store <- StoredMap, call <- Calls, phase <- Phase

(***************************************************************************)
(* In SyncFull, without I/O errors other than failing merges, and while    *)
(* StepsInOrder, the engine implements the key-value store: every Get      *)
(* returns what its key held at some moment of the call, although MemTables*)
(* and files are searched at different moments while flushes and           *)
(* compactions move the entries; a crash anywhere loses nothing but calls  *)
(* that were running; and a restart brings back the same map.              *)
(***************************************************************************)
StoreImplemented == Store!Spec
=============================================================================
