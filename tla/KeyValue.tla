------------------------------ MODULE KeyValue ------------------------------
(***************************************************************************)
(* What VaultKV promises its callers: one map from keys to values, on      *)
(* which Set, Delete and Get take effect at a moment between their call    *)
(* and their return.  After a crash the map is what it was, except that    *)
(* calls that were running may or may not have taken effect.  Once Close   *)
(* has gone past the background loops, a running Get may answer anything   *)
(* and a running write may fail.                                           *)
(***************************************************************************)
EXTENDS Naturals, FiniteSets

CONSTANTS
    Clients, Keys, Values,
    None,       \* the key has no value
    Failed      \* an error returned by Get

Held == Values \cup {None}

VARIABLES
    store,      \* the map
    call,       \* call[c]: what client c is doing
    phase       \* "open", "closing" (no new calls) or "closed"

vars == <<phase, call, store>>

Idle            == [op |-> "idle"]
Writing(k, v)   == [op |-> "write", key |-> k, val |-> v]
\* may: the values the key has held since the call began.
Getting(k, may) == [op |-> "get", key |-> k, may |-> may]
Answered(r)     == [op |-> "answered", val |-> r]

Init == store = [k \in Keys |-> None] /\ call = [c \in Clients |-> Idle] /\ phase = "open"

Begin(c, what) ==
    /\ phase = "open" /\ call[c] = Idle
    /\ call' = [call EXCEPT ![c] = what]
    /\ UNCHANGED <<store, phase>>

BeginWrite(c) == \E k \in Keys, v \in Held : Begin(c, Writing(k, v))
BeginGet(c)   == \E k \in Keys : Begin(c, Getting(k, {store[k]}))

\* A write takes effect: every running Get of its key may from now on see it.
TakeEffect(c) ==
    /\ call[c].op = "write"
    /\ store' = [store EXCEPT ![call[c].key] = call[c].val]
    /\ call' = [d \in Clients |->
                  IF d = c THEN Idle
                  ELSE IF call[d].op = "get" /\ call[d].key = call[c].key
                       THEN [call[d] EXCEPT !.may = @ \cup {call[c].val}]
                       ELSE call[d]]
    /\ UNCHANGED phase

Answer(c) ==
    /\ call[c].op = "get"
    /\ \E r \in IF phase = "closed" THEN Held \cup {Failed} ELSE call[c].may :
          call' = [call EXCEPT ![c] = Answered(r)]
    /\ UNCHANGED <<store, phase>>

\* A Get returns its answer, or a write on a closed database fails.
End(c) ==
    /\ call[c].op = "answered" \/ (call[c].op = "write" /\ phase = "closed")
    /\ call' = [call EXCEPT ![c] = Idle]
    /\ UNCHANGED <<store, phase>>

Close ==
    /\ \/ phase = "open" /\ phase' = "closing"
       \/ phase = "closing" /\ phase' = "closed"
    /\ UNCHANGED <<store, call>>

\* For every key: as it was, or as a running write would have it.
Crash ==
    /\ phase' = "closed" /\ call' = [c \in Clients |-> Idle]
    /\ store' \in {s \in [Keys -> Held] : \A k \in Keys :
                     \/ s[k] = store[k]
                     \/ \E c \in Clients : call[c] = Writing(k, s[k])}

Reopen ==
    /\ phase = "closed" /\ phase' = "open"
    /\ \A c \in Clients : call[c] = Idle
    /\ UNCHANGED <<store, call>>

Next ==
    \/ \E c \in Clients : BeginWrite(c) \/ BeginGet(c) \/ TakeEffect(c) \/ Answer(c) \/ End(c)
    \/ Close \/ Crash \/ Reopen

Spec == Init /\ [][Next]_vars
=============================================================================
