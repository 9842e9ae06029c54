------------------------------ MODULE MCServer ------------------------------
(* A small instance of Server for TLC. *)
EXTENDS Server

CONSTANTS c1, c2, whole, cut

OwnKeys   == (c1 :> 1) @@ (c2 :> 2)
CutValues == {<<cut, whole>>}
TwoAndOne == (c1 :> 2) @@ (c2 :> 1)

\* One client writes and reads its key, with blank lines in between; the other
\* deletes its own or sends a line that is too long.
Scripts ==
    (c1 :> {[op |-> "write", key |-> 1, val |-> whole], [op |-> "get", key |-> 1],
            [op |-> "blank"]})
    @@ (c2 :> {[op |-> "write", key |-> 2, val |-> None], [op |-> "long"]})
=============================================================================
