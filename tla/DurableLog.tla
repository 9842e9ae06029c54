----------------------------- MODULE DurableLog -----------------------------
(***************************************************************************)
(* What the storage engine needs of its write-ahead log: a sequence of     *)
(* records that grows at the end, loses at most a suffix that was never    *)
(* made durable, and whose durable part holds every record the log has     *)
(* promised to keep.                                                       *)
(***************************************************************************)
EXTENDS Naturals, Sequences, SequencesExt

CONSTANT Records

VARIABLES
    log,        \* the records a replay would deliver
    durable,    \* how many of them no crash can take
    promised    \* records the log has promised to keep

vars == <<log, durable, promised>>

Init == log = <<>> /\ durable = 0 /\ promised = {}

\* A promise may be made only for a record in the durable part.
Promise == /\ promised \subseteq promised'
           /\ promised' \subseteq ToSet(SubSeq(log', 1, durable'))

Append1 ==
    /\ \E r \in Records : log' = Append(log, r)
    /\ durable' \in {durable, Len(log')}
    /\ Promise

MakeDurable == UNCHANGED log /\ durable' = Len(log) /\ Promise

Lose ==
    /\ \E n \in durable..Len(log) : log' = SubSeq(log, 1, n)
    /\ UNCHANGED <<durable, promised>>

Next == Append1 \/ MakeDurable \/ Lose

Spec == Init /\ [][Next]_vars
=============================================================================
