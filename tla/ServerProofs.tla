---------------------------- MODULE ServerProofs ----------------------------
(***************************************************************************)
(* Theorems about Server for any number of connections, any requests and   *)
(* any number of restarts: replies stay in step with requests, and what a  *)
(* client concludes from them about its own key is true.                   *)
(***************************************************************************)
EXTENDS Server, SequenceTheorems, TLAPS

-----------------------------------------------------------------------------
(* Requests and the lines they travel in.                                  *)

\* q is what is left of the lines s without the blank ones.
Requests(q, s) ==
    \E f \in [DOMAIN q -> DOMAIN s] :
        /\ \A i, j \in DOMAIN q : i < j => f[i] < f[j]
        /\ \A i \in DOMAIN q : q[i] = s[f[i]]
        /\ \A j \in DOMAIN s : s[j].op # "blank" <=> \E i \in DOMAIN q : f[i] = j

LEMMA NoRequests == Requests(<<>>, <<>>)
<1> DEFINE f == [i \in {} |-> 0]
<1>1. f \in [DOMAIN <<>> -> DOMAIN <<>>]
  OBVIOUS
<1> QED BY <1>1 DEF Requests

LEMMA RequestAdded ==
    ASSUME NEW q \in Seq(ClientLine), NEW s \in Seq(ClientLine), NEW r \in ClientLine,
           r.op # "blank", Requests(q, s)
    PROVE  Requests(Append(q, r), Append(s, r))
<1>1. PICK f \in [DOMAIN q -> DOMAIN s] :
        /\ \A i, j \in DOMAIN q : i < j => f[i] < f[j]
        /\ \A i \in DOMAIN q : q[i] = s[f[i]]
        /\ \A j \in DOMAIN s : s[j].op # "blank" <=> \E i \in DOMAIN q : f[i] = j
  BY DEF Requests
<1> DEFINE Q == Append(q, r)
           S == Append(s, r)
           g == [i \in DOMAIN Q |-> IF i = Len(Q) THEN Len(S) ELSE f[i]]
<1>2. /\ Len(q) \in Nat /\ Len(s) \in Nat /\ DOMAIN q = 1..Len(q) /\ DOMAIN s = 1..Len(s)
      /\ Len(Q) = Len(q) + 1 /\ DOMAIN Q = 1..(Len(q) + 1) /\ Q[Len(q) + 1] = r
      /\ Len(S) = Len(s) + 1 /\ DOMAIN S = 1..(Len(s) + 1) /\ S[Len(s) + 1] = r
      /\ \A i \in 1..Len(q) : Q[i] = q[i]
      /\ \A i \in 1..Len(s) : S[i] = s[i]
  BY AppendProperties, LenProperties
<1> HIDE DEF Q, S
<1>3. g \in [DOMAIN Q -> DOMAIN S]
  BY <1>1, <1>2
<1>4. \A i, j \in DOMAIN Q : i < j => g[i] < g[j]
  BY <1>1, <1>2
<1>5. \A i \in DOMAIN Q : Q[i] = S[g[i]]
  BY <1>1, <1>2
<1>6. ASSUME NEW j \in DOMAIN S PROVE S[j].op # "blank" <=> \E i \in DOMAIN Q : g[i] = j
  <2>1. CASE j = Len(s) + 1
    BY <1>2, <2>1
  <2>2. CASE j # Len(s) + 1
    <3>1. j \in DOMAIN s /\ S[j] = s[j]
      BY <1>2, <1>6, <2>2
    <3>2. ASSUME NEW i \in DOMAIN q, f[i] = j PROVE i \in DOMAIN Q /\ g[i] = j
      BY <1>2, <3>2
    <3>3. ASSUME NEW i \in DOMAIN Q, g[i] = j PROVE i \in DOMAIN q /\ f[i] = j
      BY <1>2, <2>2, <3>3
    <3> HIDE DEF g
    <3> QED BY <1>1, <3>1, <3>2, <3>3
  <2> QED BY <2>1, <2>2
<1> HIDE DEF g
<1> QED BY <1>3, <1>4, <1>5, <1>6 DEF Requests, Q, S

LEMMA BlankAdded ==
    ASSUME NEW q \in Seq(ClientLine), NEW s \in Seq(ClientLine), NEW r \in ClientLine,
           r.op = "blank", Requests(q, s)
    PROVE  Requests(q, Append(s, r))
<1>1. PICK f \in [DOMAIN q -> DOMAIN s] :
        /\ \A i, j \in DOMAIN q : i < j => f[i] < f[j]
        /\ \A i \in DOMAIN q : q[i] = s[f[i]]
        /\ \A j \in DOMAIN s : s[j].op # "blank" <=> \E i \in DOMAIN q : f[i] = j
  BY DEF Requests
<1> DEFINE S == Append(s, r)
<1>2. /\ Len(s) \in Nat /\ DOMAIN s = 1..Len(s)
      /\ DOMAIN S = 1..(Len(s) + 1) /\ S[Len(s) + 1] = r
      /\ \A i \in 1..Len(s) : S[i] = s[i]
  BY AppendProperties, LenProperties
<1> HIDE DEF S
<1>3. f \in [DOMAIN q -> DOMAIN S] /\ \A i \in DOMAIN q : q[i] = S[f[i]] /\ f[i] # Len(s) + 1
  BY <1>1, <1>2
<1>4. ASSUME NEW j \in DOMAIN S PROVE S[j].op # "blank" <=> \E i \in DOMAIN q : f[i] = j
  <2>1. CASE j = Len(s) + 1
    BY <1>2, <1>3, <2>1
  <2>2. CASE j # Len(s) + 1
    <3>1. j \in DOMAIN s /\ S[j] = s[j]
      BY <1>2, <1>4, <2>2
    <3> QED BY <1>1, <3>1
  <2> QED BY <2>1, <2>2
<1> QED BY <1>1, <1>3, <1>4 DEF Requests, S

\* The head of the lines, if not blank, is the head of the requests.
LEMMA RequestTaken ==
    ASSUME NEW q \in Seq(ClientLine), NEW s \in Seq(ClientLine),
           s # <<>>, Head(s).op # "blank", Requests(q, s)
    PROVE  q # <<>> /\ Head(q) = Head(s) /\ Requests(Tail(q), Tail(s))
<1>1. PICK f \in [DOMAIN q -> DOMAIN s] :
        /\ \A i, j \in DOMAIN q : i < j => f[i] < f[j]
        /\ \A i \in DOMAIN q : q[i] = s[f[i]]
        /\ \A j \in DOMAIN s : s[j].op # "blank" <=> \E i \in DOMAIN q : f[i] = j
  BY DEF Requests
<1>2. /\ Len(q) \in Nat /\ Len(s) \in Nat \ {0}
      /\ DOMAIN q = 1..Len(q) /\ DOMAIN s = 1..Len(s)
      /\ Head(s) = s[1] /\ DOMAIN Tail(s) = 1..(Len(s) - 1)
      /\ \A i \in 1..(Len(s) - 1) : Tail(s)[i] = s[i + 1]
  BY HeadTailProperties, LenProperties, EmptySeq
<1>3. PICK m \in DOMAIN q : f[m] = 1
  BY <1>1, <1>2
<1>4. m = 1
  BY <1>1, <1>2, <1>3
<1>5. /\ q # <<>> /\ Head(q) = q[1] /\ DOMAIN Tail(q) = 1..(Len(q) - 1)
      /\ \A i \in 1..(Len(q) - 1) : Tail(q)[i] = q[i + 1]
  BY <1>2, <1>3, HeadTailProperties, LenProperties, EmptySeq
<1>6. Head(q) = Head(s)
  BY <1>1, <1>2, <1>3, <1>4, <1>5
<1> DEFINE Q == Tail(q)
           S == Tail(s)
           g == [i \in DOMAIN Q |-> f[i + 1] - 1]
<1> HIDE DEF Q, S
<1>7. ASSUME NEW i \in DOMAIN Q
      PROVE  i + 1 \in DOMAIN q /\ f[i + 1] \in 2..Len(s) /\ g[i] \in DOMAIN S /\ Q[i] = S[g[i]]
  <2>1. i \in 1..(Len(q) - 1) /\ i + 1 \in DOMAIN q /\ 1 < i + 1
    BY <1>2, <1>5, <1>7 DEF Q
  <2>2. f[i + 1] \in 2..Len(s)
    BY <1>1, <1>2, <1>3, <1>4, <2>1
  <2>3. g[i] = f[i + 1] - 1 /\ g[i] + 1 = f[i + 1] /\ g[i] \in 1..(Len(s) - 1)
    BY <1>7, <1>2, <2>2
  <2>4. S[g[i]] = s[f[i + 1]] /\ Q[i] = q[i + 1]
    BY <1>2, <1>5, <2>1, <2>3 DEF S, Q
  <2> QED BY <1>1, <1>2, <2>1, <2>2, <2>3, <2>4 DEF S
<1>8. g \in [DOMAIN Q -> DOMAIN S]
  BY <1>7
<1>9. \A i, j \in DOMAIN Q : i < j => g[i] < g[j]
  <2> SUFFICES ASSUME NEW i \in DOMAIN Q, NEW j \in DOMAIN Q, i < j PROVE g[i] < g[j]
    OBVIOUS
  <2>1. i + 1 < j + 1
    BY <1>2, <1>5 DEF Q
  <2>2. f[i + 1] < f[j + 1]
    BY <1>1, <1>7, <2>1
  <2> QED BY <1>2, <1>7, <2>2
<1>10. ASSUME NEW j \in DOMAIN S PROVE S[j].op # "blank" <=> \E i \in DOMAIN Q : g[i] = j
  <2>1. j \in 1..(Len(s) - 1) /\ j + 1 \in DOMAIN s /\ S[j] = s[j + 1]
    BY <1>2, <1>10 DEF S
  <2>2. ASSUME NEW i \in DOMAIN Q, g[i] = j PROVE i + 1 \in DOMAIN q /\ f[i + 1] = j + 1
    BY <1>2, <1>7, <2>1, <2>2
  <2>3. ASSUME NEW i \in DOMAIN q, f[i] = j + 1 PROVE i - 1 \in DOMAIN Q /\ g[i - 1] = j
    <3>1. i # 1
      BY <1>2, <1>3, <1>4, <2>1, <2>3
    <3>2. i - 1 \in DOMAIN Q /\ (i - 1) + 1 = i
      BY <1>2, <1>5, <2>3, <3>1 DEF Q
    <3>3. g[i - 1] = f[i] - 1
      BY <3>2
    <3> QED BY <1>2, <2>1, <2>3, <3>2, <3>3
  <2> HIDE DEF g
  <2> QED BY <1>1, <2>1, <2>2, <2>3
<1>11. Requests(Q, S)
  <2> HIDE DEF g
  <2> QED BY <1>7, <1>8, <1>9, <1>10 DEF Requests
<1> QED BY <1>5, <1>6, <1>11 DEF Q, S

LEMMA BlankTaken ==
    ASSUME NEW q \in Seq(ClientLine), NEW s \in Seq(ClientLine),
           s # <<>>, Head(s).op = "blank", Requests(q, s)
    PROVE  Requests(q, Tail(s))
<1>1. PICK f \in [DOMAIN q -> DOMAIN s] :
        /\ \A i, j \in DOMAIN q : i < j => f[i] < f[j]
        /\ \A i \in DOMAIN q : q[i] = s[f[i]]
        /\ \A j \in DOMAIN s : s[j].op # "blank" <=> \E i \in DOMAIN q : f[i] = j
  BY DEF Requests
<1> DEFINE S == Tail(s)
           g == [i \in DOMAIN q |-> f[i] - 1]
<1>2. /\ Len(s) \in Nat \ {0} /\ DOMAIN s = 1..Len(s)
      /\ Head(s) = s[1] /\ DOMAIN S = 1..(Len(s) - 1)
      /\ \A i \in 1..(Len(s) - 1) : S[i] = s[i + 1]
  BY HeadTailProperties, LenProperties, EmptySeq
<1> HIDE DEF S
<1>3. ASSUME NEW i \in DOMAIN q
      PROVE  f[i] \in 2..Len(s) /\ g[i] = f[i] - 1 /\ g[i] \in DOMAIN S /\ q[i] = S[g[i]]
  <2>1. f[i] \in 1..Len(s) /\ f[i] # 1
    BY <1>1, <1>2, <1>3
  <2>2. g[i] \in 1..(Len(s) - 1) /\ g[i] + 1 = f[i]
    BY <1>2, <1>3, <2>1
  <2>3. S[g[i]] = s[f[i]]
    BY <1>2, <2>2
  <2> QED BY <1>1, <1>2, <1>3, <2>1, <2>2, <2>3
<1>4. g \in [DOMAIN q -> DOMAIN S] /\ \A i, j \in DOMAIN q : i < j => g[i] < g[j]
  BY <1>1, <1>2, <1>3
<1>5. ASSUME NEW j \in DOMAIN S PROVE S[j].op # "blank" <=> \E i \in DOMAIN q : g[i] = j
  <2>1. j \in 1..(Len(s) - 1) /\ j + 1 \in DOMAIN s /\ S[j] = s[j + 1]
    BY <1>2, <1>5
  <2>2. \A i \in DOMAIN q : f[i] = j + 1 <=> g[i] = j
    BY <1>2, <1>3, <2>1
  <2> HIDE DEF g
  <2> QED BY <1>1, <2>1, <2>2
<1> HIDE DEF g
<1> QED BY <1>3, <1>4, <1>5 DEF Requests, S

\* Every line that is not blank is a request.
LEMMA RequestKnown ==
    ASSUME NEW q \in Seq(ClientLine), NEW s \in Seq(ClientLine), Requests(q, s)
    PROVE  \A j \in DOMAIN s : s[j].op # "blank" => \E i \in DOMAIN q : q[i] = s[j]
BY DEF Requests

-----------------------------------------------------------------------------
(* The inductive invariants.                                               *)

Calls ==
    {DB!Idle} \cup [op : {"write"}, key : Keys, val : Held]
    \cup [op : {"get"}, key : Keys, may : SUBSET Held]
    \cup [op : {"answered"}, val : Held \cup {Failed}]

ServerType ==
    /\ store \in [Keys -> Held] /\ call \in [Conns -> Calls]
    /\ phase \in {"open", "closing", "closed"}
    /\ conn \in [Conns -> {"none", "backlog", "read", "call", "reply", "gone"}]
    /\ inbox \in [Conns -> Seq(ClientLine)] /\ eof \in [Conns -> BOOLEAN]
    /\ req \in [Conns -> ClientLine \cup {NoLine}]
    /\ res \in [Conns -> Held \cup {"not found", Wrote, Refused, Local}]
    /\ sent \in [Conns -> Seq(ClientLine)] /\ doubt \in [Conns -> SUBSET Held]

\* A connection with handler state st, end of input e, line in work r, waiting
\* requests q and lines s: the client waits for the line in work, then for the
\* lines that have arrived and are not blank.
InStep(st, e, r, q, s) ==
    /\ st \in {"none", "gone"} => ~e /\ q = <<>> /\ s = <<>>
    /\ e => q = <<>>
    /\ ~e /\ st \in {"backlog", "read"} => Requests(q, s)
    /\ ~e /\ st \in {"call", "reply"} => q # <<>> /\ Head(q) = r /\ Requests(Tail(q), s)

StepInv == \A c \in Conns : InStep(conn[c], eof[c], req[c], sent[c], inbox[c])

\* A line that writes, writes the key own, and a value in d.
Claimed(l, own, d) == l.op = "write" => l.key = own /\ l.val \in d

\* A connection that owns the key own, which holds v: what it has written there
\* is v or on the way, and its client knows of both.
OwnerSide(own, v, d, st, s, r, rs, cl, ph) ==
    /\ v \in d
    /\ \A i \in DOMAIN s : Claimed(s[i], own, d)
    /\ Claimed(r, own, d)
    /\ st # "call" => cl = DB!Idle
    /\ cl.op = "write" => r.op = "write" /\ cl = DB!Writing(r.key, r.val)
    /\ cl.op = "get" => r.op = "get" /\ cl.key = r.key /\ (r.key = own => cl.may \subseteq d)
    /\ cl.op = "answered" => r.op = "get" /\ (r.key = own /\ ph # "closed" => cl.val \in d)
    /\ st = "reply" /\ r.op = "write" /\ rs = Wrote => v = r.val

OwnerInv ==
    \A c \in Conns : OwnerSide(Own[c], store[Own[c]], doubt[c], conn[c], inbox[c], req[c],
                               res[c], call[c], phase)

-----------------------------------------------------------------------------
(* Types.                                                                  *)

LEMMA LineFields ==
    ASSUME NEW l \in ClientLine
    PROVE  /\ l.op \in {"write", "get", "local", "blank", "long"}
           /\ l.op = "write" => l.key \in Keys /\ l.val \in Held
           /\ l.op = "get" => l.key \in Keys
BY DEF ClientLine

\* What is cut off a line leaves a line, and the key of a write is still there.
LEMMA CutLine ==
    ASSUME NEW r \in ClientLine, NEW l \in CutLines(r)
    PROVE  l \in ClientLine /\ (l.op = "write" => r.op = "write" /\ l.key = r.key)
<1>1. CASE l = r
  BY <1>1
<1>2. CASE l = [op |-> "local"]
  BY <1>2 DEF ClientLine
<1>3. CASE l \notin {r, [op |-> "local"]}
  <2>1. PICK v \in Values : r.op = "write" /\ l = [r EXCEPT !.val = v]
    BY <1>3 DEF CutLines
  <2>2. r \in [op : {"write"}, key : Keys, val : Held]
    BY <2>1 DEF ClientLine
  <2> QED BY <2>1, <2>2 DEF ClientLine, Held
<1> QED BY <1>1, <1>2, <1>3

LEMMA CallTypes ==
    ASSUME NEW k \in Keys
    PROVE  /\ DB!Idle \in Calls
           /\ \A v \in Held : DB!Writing(k, v) \in Calls
           /\ \A m \in SUBSET Held : DB!Getting(k, m) \in Calls
           /\ \A r \in Held \cup {Failed} : DB!Answered(r) \in Calls
BY DEF Calls, DB!Idle, DB!Writing, DB!Getting, DB!Answered

LEMMA CallFields ==
    ASSUME NEW cl \in Calls
    PROVE  /\ cl.op \in {"idle", "write", "get", "answered"}
           /\ cl.op = "idle" => cl = DB!Idle
           /\ cl.op = "write" => cl.key \in Keys /\ cl.val \in Held
           /\ cl.op = "get" => cl.key \in Keys /\ cl.may \in SUBSET Held
           /\ cl.op = "get" => \A v \in Held : LET w == [cl EXCEPT !.may = @ \cup {v}]
                                              IN  w \in Calls /\ w.op = "get" /\ w.key = cl.key
                                                  /\ w.may = cl.may \cup {v}
           /\ cl.op = "answered" => cl.val \in Held \cup {Failed}
BY DEF Calls, DB!Idle

LEMMA WrittenHeld ==
    ASSUME NEW c \in Conns, NEW l \in ClientLine
    PROVE  Written(c, l) \in SUBSET Held
BY LineFields DEF Written

LEMMA NextType == ServerType /\ [Next]_vars => ServerType'
<1> SUFFICES ASSUME ServerType, [Next]_vars PROVE ServerType'
  OBVIOUS
<1>1. ASSUME NEW c \in Conns, Connect(c) PROVE ServerType'
  BY <1>1 DEF ServerType, Connect, dbVars, mainVars, clientVars
<1>2. ASSUME NEW c \in Conns, Send(c) PROVE ServerType'
  <2>1. PICK r \in Script[c] :
          /\ inbox' = [inbox EXCEPT ![c] = Append(@, r)]
          /\ sent' = IF r.op = "blank" THEN sent ELSE [sent EXCEPT ![c] = Append(@, r)]
          /\ doubt' = [doubt EXCEPT ![c] = @ \cup Written(c, r)]
    BY <1>2 DEF Send
  <2>2. r \in ClientLine /\ Written(c, r) \in SUBSET Held
    BY <1>2, <2>1, ServerAssumption, WrittenHeld
  <2>3. Append(inbox[c], r) \in Seq(ClientLine) /\ Append(sent[c], r) \in Seq(ClientLine)
    BY <2>2, AppendProperties DEF ServerType
  <2> QED BY <1>2, <2>1, <2>2, <2>3 DEF ServerType, Send, dbVars, mainVars
<1>3. ASSUME NEW c \in Conns, Leave(c) PROVE ServerType'
  <2>1. inbox' \in [Conns -> Seq(ClientLine)] /\ doubt' \in [Conns -> SUBSET Held]
    <3>1. ASSUME NEW n \in 0..Len(inbox[c]), inbox' = [inbox EXCEPT ![c] = SubSeq(@, 1, n)],
                 UNCHANGED doubt
          PROVE  inbox' \in [Conns -> Seq(ClientLine)] /\ doubt' \in [Conns -> SUBSET Held]
      <4>1. SubSeq(inbox[c], 1, n) \in Seq(ClientLine)
        <5>1. inbox[c] \in Seq(ClientLine) /\ Len(inbox[c]) \in Nat
          BY <1>3, LenProperties DEF ServerType
        <5> QED BY <3>1, <5>1, SubSeqProperties
      <4> QED BY <3>1, <4>1 DEF ServerType
    <3>2. ASSUME NEW r \in Script[c], NEW l \in CutLines(r),
                 inbox' = [inbox EXCEPT ![c] = Append(@, l)],
                 doubt' = [doubt EXCEPT ![c] = @ \cup Written(c, l)]
          PROVE  inbox' \in [Conns -> Seq(ClientLine)] /\ doubt' \in [Conns -> SUBSET Held]
      <4>1. r \in ClientLine
        BY <1>3, <3>2, ServerAssumption
      <4>2. l \in ClientLine
        BY <3>2, <4>1, CutLine
      <4>3. Append(inbox[c], l) \in Seq(ClientLine) /\ Written(c, l) \in SUBSET Held
        BY <1>3, <4>2, WrittenHeld, AppendProperties DEF ServerType
      <4> QED BY <3>2, <4>3 DEF ServerType
    <3> QED BY <1>3, <3>1, <3>2 DEF Leave
  <2>2. sent' \in [Conns -> Seq(ClientLine)] /\ eof' \in [Conns -> BOOLEAN]
    <3>1. sent' = [sent EXCEPT ![c] = <<>>] /\ eof' = [eof EXCEPT ![c] = TRUE]
      BY <1>3 DEF Leave
    <3>2. <<>> \in Seq(ClientLine) /\ TRUE \in BOOLEAN
      OBVIOUS
    <3>3. sent \in [Conns -> Seq(ClientLine)] /\ eof \in [Conns -> BOOLEAN]
      BY DEF ServerType
    <3> QED BY <3>1, <3>2, <3>3
  <2> QED BY <1>3, <2>1, <2>2 DEF ServerType, Leave, dbVars, mainVars
<1>4. ASSUME NEW c \in Conns, Accept(c) PROVE ServerType'
  BY <1>4 DEF ServerType, Accept, dbVars, mainVars, clientVars
<1>5. ASSUME NEW c \in Conns, inbox[c] # <<>>
      PROVE  Line(c) \in ClientLine /\ Tail(inbox[c]) \in Seq(ClientLine)
  BY <1>5, HeadTailProperties DEF ServerType, Line
<1>6. ASSUME NEW c \in Conns, SkipLine(c) PROVE ServerType'
  BY <1>5, <1>6 DEF ServerType, SkipLine, HasLine, dbVars, mainVars, clientVars
<1>7. ASSUME NEW c \in Conns, AnswerLine(c) PROVE ServerType'
  BY <1>5, <1>7 DEF ServerType, AnswerLine, HasLine, TakeLine, dbVars, mainVars, clientVars
<1>8. ASSUME NEW c \in Conns, CallStore(c) PROVE ServerType'
  <2>1. call' \in [Conns -> Calls] /\ UNCHANGED <<store, phase>>
    <3>1. Line(c) \in ClientLine /\ Line(c).op \in {"write", "get"}
      BY <1>5, <1>8 DEF CallStore, HasLine
    <3>2. Line(c).key \in Keys /\ store[Line(c).key] \in Held
      BY <3>1, LineFields DEF ServerType
    <3>3. CASE Line(c).op = "write"
      BY <1>8, <3>1, <3>2, <3>3, LineFields, CallTypes DEF CallStore, DB!Begin, KeyIn, ServerType
    <3>4. CASE Line(c).op = "get"
      BY <1>8, <3>2, <3>4, CallTypes DEF CallStore, DB!Begin, KeyIn, ServerType
    <3> QED BY <3>1, <3>3, <3>4
  <2> QED BY <1>5, <1>8, <2>1 DEF ServerType, CallStore, HasLine, TakeLine, mainVars, clientVars
<1>9. ASSUME NEW c \in Conns, InCall(c) PROVE ServerType'
  <2>1. PICK r \in IF phase = "closed" THEN DB!Held \cup {Failed} ELSE call[c].may :
          call' = [call EXCEPT ![c] = DB!Answered(r)]
    BY <1>9 DEF InCall, DB!Answer
  <2>2. call[c] \in Calls /\ call[c].op = "get"
    BY <1>9 DEF InCall, DB!Answer, ServerType
  <2>3. r \in Held \cup {Failed} /\ call[c].key \in Keys
    BY <2>1, <2>2, CallFields DEF DB!Held, Held
  <2>4. DB!Answered(r) \in Calls
    BY <2>3, CallTypes
  <2> QED BY <1>9, <2>1, <2>4 DEF ServerType, InCall, DB!Answer, mainVars, connVars, clientVars
<1>10. ASSUME NEW c \in Conns, Returns(c) PROVE ServerType'
  <2>1. CASE DB!TakeEffect(c) /\ res' = [res EXCEPT ![c] = Wrote]
    <3>1. call[c].op = "write" /\ call[c].key \in Keys /\ call[c].val \in Held
      BY <1>10, <2>1, CallFields DEF DB!TakeEffect, ServerType
    <3>2. store' \in [Keys -> Held]
      BY <2>1, <3>1 DEF DB!TakeEffect, ServerType
    <3>3. call' \in [Conns -> Calls]
      <4>1. ASSUME NEW d \in Conns PROVE call'[d] \in Calls
        <5>1. CASE d = c
          BY <2>1, <3>1, <5>1, CallTypes DEF DB!TakeEffect
        <5>2. CASE d # c /\ call[d].op = "get" /\ call[d].key = call[c].key
          <6>1. call'[d] = [call[d] EXCEPT !.may = @ \cup {call[c].val}] /\ call[d] \in Calls
            BY <2>1, <4>1, <5>2 DEF DB!TakeEffect, ServerType
          <6> QED BY <3>1, <5>2, <6>1, CallFields
        <5>3. CASE d # c /\ ~(call[d].op = "get" /\ call[d].key = call[c].key)
          BY <2>1, <4>1, <5>3 DEF DB!TakeEffect, ServerType
        <5> QED BY <5>1, <5>2, <5>3
      <4> QED BY <2>1, <4>1 DEF DB!TakeEffect
    <3> QED BY <1>10, <2>1, <3>2, <3>3 DEF ServerType, Returns, DB!TakeEffect, mainVars, clientVars
  <2>2. CASE DB!End(c) /\ res' = [res EXCEPT ![c] = IF call[c].op = "write" THEN FailedWrite
                                                   ELSE Found(call[c].val)]
    <3>1. res'[c] \in Held \cup {"not found", Wrote, Refused, Local}
      <4>1. call[c] \in Calls
        BY <1>10 DEF ServerType
      <4>2. CASE call[c].op = "write"
        BY <1>10, <2>2, <4>2 DEF ServerType, FailedWrite
      <4>3. CASE call[c].op # "write"
        <5>1. call[c].val \in Held \cup {Failed}
          BY <2>2, <4>1, <4>3, CallFields DEF DB!End
        <5>2. res'[c] = Found(call[c].val)
          BY <1>10, <2>2, <4>3 DEF ServerType
        <5> QED BY <5>1, <5>2 DEF Found
      <4> QED BY <4>2, <4>3
    <3>2. DB!Idle \in Calls
      BY DEF Calls
    <3> QED BY <1>10, <2>2, <3>1, <3>2
            DEF ServerType, Returns, DB!End, mainVars, clientVars
  <2> QED BY <1>10, <2>1, <2>2 DEF Returns
<1>11. ASSUME NEW c \in Conns, Reply(c) PROVE ServerType'
  <2>1. sent' \in [Conns -> Seq(ClientLine)]
    <3>1. sent \in [Conns -> Seq(ClientLine)]
      BY DEF ServerType
    <3>2. sent[c] # <<>> => Tail(sent[c]) \in Seq(ClientLine)
      BY <1>11, <3>1, HeadTailProperties
    <3> QED BY <1>11, <3>1, <3>2 DEF Reply
  <2>2. UNION {Written(c, r) : r \in ToSet(sent[c])} \in SUBSET Held
    <3>1. \A r \in ToSet(sent[c]) : r \in ClientLine
      <4>1. sent[c] \in Seq(ClientLine)
        BY <1>11 DEF ServerType
      <4> QED BY <4>1, ElementOfSeq, LenProperties DEF ToSet
    <3> QED BY <1>11, <3>1, WrittenHeld
  <2>3. doubt' \in [Conns -> SUBSET Held]
    BY <1>11, <2>2 DEF ServerType, Reply
  <2> QED BY <1>11, <2>1, <2>3 DEF ServerType, Reply, dbVars, mainVars
<1>12. ASSUME NEW c \in Conns, Hangup(c) PROVE ServerType'
  <2>1. <<>> \in Seq(ClientLine)
    OBVIOUS
  <2> QED BY <1>12, <2>1 DEF ServerType, Hangup, dbVars, mainVars
<1>13. ASSUME ProcessEnds PROVE ServerType'
  <2>1. <<>> \in Seq(ClientLine) /\ DB!Idle \in Calls
    BY DEF Calls
  <2> QED BY <1>13, <2>1 DEF ServerType, ProcessEnds, DB!Crash, DB!Held, Held
<1>14. ASSUME CloseListener, UNCHANGED dbVars PROVE ServerType'
  <2>1. <<>> \in Seq(ClientLine)
    OBVIOUS
  <2> QED BY <1>14, <2>1 DEF ServerType, CloseListener, dbVars
<1>15. ASSUME Listen \/ Signal \/ CloseStore \/ Start \/ UNCHANGED vars PROVE ServerType'
  BY <1>15 DEF ServerType, Listen, Signal, CloseStore, Start, DB!Close, DB!Reopen, vars, dbVars,
               mainVars, connVars, clientVars
<1> QED
  BY <1>1, <1>2, <1>3, <1>4, <1>6, <1>7, <1>8, <1>9, <1>10, <1>11, <1>12, <1>13, <1>14, <1>15
  DEF Next, Handler, ListenError, SignalHandler, AcceptError, Exit, Kill

-----------------------------------------------------------------------------
(* Replies.                                                                *)

\* The state of connection d that InStep is about does not change.
Untouched(d) ==
    /\ conn'[d] = conn[d] /\ eof'[d] = eof[d] /\ req'[d] = req[d]
    /\ sent'[d] = sent[d] /\ inbox'[d] = inbox[d]

LEMMA OnlyOne ==
    ASSUME StepInv, NEW c \in Conns, \A d \in Conns \ {c} : Untouched(d),
           InStep(conn[c], eof[c], req[c], sent[c], inbox[c])'
    PROVE  StepInv'
BY DEF StepInv, Untouched

LEMMA NextStepInv == ServerType /\ StepInv /\ [Next]_vars => StepInv'
<1> SUFFICES ASSUME ServerType, StepInv, [Next]_vars PROVE StepInv'
  OBVIOUS
<1>0. ASSUME NEW c \in Conns
      PROVE  /\ InStep(conn[c], eof[c], req[c], sent[c], inbox[c])
             /\ sent[c] \in Seq(ClientLine) /\ inbox[c] \in Seq(ClientLine)
             /\ sent[c] # <<>> => Head(sent[c]) \in ClientLine /\ Tail(sent[c]) \in Seq(ClientLine)
             /\ inbox[c] # <<>> => Line(c) \in ClientLine /\ Line(c) = Head(inbox[c])
  BY <1>0, HeadTailProperties DEF ServerType, StepInv, Line
<1>1. ASSUME NEW c \in Conns, Connect(c) PROVE StepInv'
  <2>1. /\ \A d \in Conns \ {c} : Untouched(d)
        /\ conn[c] = "none" /\ conn'[c] = "backlog" /\ eof'[c] = eof[c] /\ req'[c] = req[c]
        /\ sent'[c] = sent[c] /\ inbox'[c] = inbox[c]
    BY <1>1 DEF ServerType, Connect, Untouched, clientVars
  <2>2. sent'[c] = <<>> /\ inbox'[c] = <<>> /\ ~eof'[c]
    BY <1>0, <1>1, <2>1 DEF InStep
  <2>3. InStep(conn[c], eof[c], req[c], sent[c], inbox[c])'
    BY <2>1, <2>2, NoRequests DEF InStep
  <2> QED BY <1>1, <2>1, <2>3, OnlyOne
<1>2. ASSUME NEW c \in Conns, Send(c) PROVE StepInv'
  <2>1. PICK r \in Script[c] :
          /\ inbox' = [inbox EXCEPT ![c] = Append(@, r)]
          /\ sent' = IF r.op = "blank" THEN sent ELSE [sent EXCEPT ![c] = Append(@, r)]
    BY <1>2 DEF Send
  <2>2. /\ \A d \in Conns \ {c} : Untouched(d)
        /\ conn'[c] = conn[c] /\ eof'[c] = eof[c] /\ req'[c] = req[c]
        /\ conn[c] \notin {"none", "gone"} /\ ~eof[c]
        /\ conn[c] \in {"none", "backlog", "read", "call", "reply", "gone"}
        /\ sent'[c] = (IF r.op = "blank" THEN sent[c] ELSE Append(sent[c], r))
        /\ inbox'[c] = Append(inbox[c], r)
    BY <1>2, <2>1 DEF ServerType, Send, Connected, Untouched
  <2>3. r \in ClientLine
    BY <1>2, <2>1, ServerAssumption
  <2>4. CASE conn[c] \in {"backlog", "read"}
    <3>1. Requests(sent[c], inbox[c])
      BY <1>0, <1>2, <2>2, <2>4 DEF InStep
    <3>2. Requests(sent[c], inbox[c])'
      BY <1>0, <1>2, <2>2, <2>3, <3>1, RequestAdded, BlankAdded
    <3> QED BY <1>2, <2>2, <2>4, <3>2, OnlyOne DEF InStep
  <2>5. CASE conn[c] \in {"call", "reply"}
    <3>1. sent[c] # <<>> /\ Head(sent[c]) = req[c] /\ Requests(Tail(sent[c]), inbox[c])
      BY <1>0, <1>2, <2>2, <2>5 DEF InStep
    <3>2. /\ Append(sent[c], r) # <<>> /\ Head(Append(sent[c], r)) = Head(sent[c])
          /\ Tail(Append(sent[c], r)) = Append(Tail(sent[c]), r)
      BY <1>0, <1>2, <2>3, <3>1, HeadTailAppend, AppendProperties
    <3>3. sent'[c] # <<>> /\ Head(sent'[c]) = req'[c]
      BY <2>2, <3>1, <3>2
    <3>4. Requests(Tail(sent'[c]), inbox'[c])
      BY <1>0, <1>2, <2>2, <2>3, <3>1, <3>2, RequestAdded, BlankAdded
    <3> QED BY <1>2, <2>2, <2>5, <3>3, <3>4, OnlyOne DEF InStep
  <2> QED BY <2>2, <2>4, <2>5
<1>3. ASSUME NEW c \in Conns, Leave(c) PROVE StepInv'
  <2>1. /\ \A d \in Conns \ {c} : Untouched(d)
        /\ conn'[c] = conn[c] /\ conn[c] \notin {"none", "gone"} /\ eof'[c] /\ sent'[c] = <<>>
    BY <1>3 DEF ServerType, Leave, Connected, Untouched
  <2>2. InStep(conn[c], eof[c], req[c], sent[c], inbox[c])'
    BY <2>1 DEF InStep
  <2> QED BY <1>3, <2>1, <2>2, OnlyOne
<1>4. ASSUME NEW c \in Conns, Accept(c) PROVE StepInv'
  <2>1. /\ \A d \in Conns \ {c} : Untouched(d)
        /\ conn[c] = "backlog" /\ conn'[c] = "read" /\ eof'[c] = eof[c] /\ req'[c] = req[c]
        /\ sent'[c] = sent[c] /\ inbox'[c] = inbox[c]
    BY <1>4 DEF ServerType, Accept, Untouched, clientVars
  <2>2. InStep(conn[c], eof[c], req[c], sent[c], inbox[c])'
    BY <1>0, <1>4, <2>1 DEF InStep
  <2> QED BY <1>4, <2>1, <2>2, OnlyOne
<1>5. ASSUME NEW c \in Conns, SkipLine(c) PROVE StepInv'
  <2>1. /\ \A d \in Conns \ {c} : Untouched(d)
        /\ conn[c] = "read" /\ conn'[c] = "read" /\ eof'[c] = eof[c] /\ req'[c] = req[c]
        /\ sent'[c] = sent[c] /\ inbox'[c] = Tail(inbox[c])
        /\ inbox[c] # <<>> /\ Line(c).op = "blank"
    BY <1>5 DEF ServerType, SkipLine, HasLine, Skipped, Untouched, clientVars
  <2>2. ~eof[c] => Requests(sent[c], Tail(inbox[c]))
    BY <1>0, <1>5, <2>1, BlankTaken DEF InStep
  <2>3. eof[c] => sent[c] = <<>>
    BY <1>0, <1>5 DEF InStep
  <2>4. InStep(conn[c], eof[c], req[c], sent[c], inbox[c])'
    BY <2>1, <2>2, <2>3 DEF InStep
  <2> QED BY <1>5, <2>1, <2>4, OnlyOne
<1>6. ASSUME NEW c \in Conns, AnswerLine(c) \/ CallStore(c) PROVE StepInv'
  <2>1. /\ \A d \in Conns \ {c} : Untouched(d)
        /\ conn[c] = "read" /\ conn'[c] \in {"call", "reply"} /\ eof'[c] = eof[c]
        /\ req'[c] = Line(c) /\ sent'[c] = sent[c] /\ inbox'[c] = Tail(inbox[c])
        /\ inbox[c] # <<>> /\ Line(c).op # "blank"
    BY <1>6 DEF ServerType, AnswerLine, CallStore, HasLine, Skipped, TakeLine, Untouched, clientVars
  <2>2. ~eof[c] => /\ sent[c] # <<>> /\ Head(sent[c]) = Line(c)
                   /\ Requests(Tail(sent[c]), Tail(inbox[c]))
    BY <1>0, <1>6, <2>1, RequestTaken DEF InStep
  <2>3. eof[c] => sent[c] = <<>>
    BY <1>0, <1>6 DEF InStep
  <2>4. InStep(conn[c], eof[c], req[c], sent[c], inbox[c])'
    BY <2>1, <2>2, <2>3 DEF InStep
  <2> QED BY <1>6, <2>1, <2>4, OnlyOne
<1>7. ASSUME NEW c \in Conns, InCall(c) PROVE StepInv'
  BY <1>7 DEF InCall, connVars, clientVars, StepInv
<1>8. ASSUME NEW c \in Conns, Returns(c) PROVE StepInv'
  <2>1. /\ \A d \in Conns \ {c} : Untouched(d)
        /\ conn[c] = "call" /\ conn'[c] = "reply" /\ eof'[c] = eof[c] /\ req'[c] = req[c]
        /\ sent'[c] = sent[c] /\ inbox'[c] = inbox[c]
    BY <1>8 DEF ServerType, Returns, Untouched, clientVars
  <2>2. InStep(conn[c], eof[c], req[c], sent[c], inbox[c])'
    BY <1>0, <1>8, <2>1 DEF InStep
  <2> QED BY <1>8, <2>1, <2>2, OnlyOne
<1>9. ASSUME NEW c \in Conns, Reply(c) PROVE StepInv'
  <2>1. /\ \A d \in Conns \ {c} : Untouched(d)
        /\ conn[c] = "reply" /\ conn'[c] = "read" /\ eof'[c] = eof[c]
        /\ sent'[c] = (IF sent[c] = <<>> THEN sent[c] ELSE Tail(sent[c]))
        /\ inbox'[c] = inbox[c]
    BY <1>9 DEF ServerType, Reply, Untouched
  <2>2. InStep(conn[c], eof[c], req[c], sent[c], inbox[c])'
    BY <1>0, <1>9, <2>1 DEF InStep
  <2> QED BY <1>9, <2>1, <2>2, OnlyOne
<1>10. ASSUME NEW c \in Conns, Hangup(c) PROVE StepInv'
  <2>1. /\ \A d \in Conns \ {c} : Untouched(d)
        /\ conn'[c] = "gone" /\ ~eof'[c] /\ sent'[c] = <<>> /\ inbox'[c] = <<>>
    BY <1>10 DEF ServerType, Hangup, Untouched
  <2>2. InStep(conn[c], eof[c], req[c], sent[c], inbox[c])'
    BY <2>1 DEF InStep
  <2> QED BY <1>10, <2>1, <2>2, OnlyOne
<1>11. ASSUME ProcessEnds PROVE StepInv'
  BY <1>11 DEF ProcessEnds, StepInv, InStep
<1>12. ASSUME CloseListener PROVE StepInv'
  <2> SUFFICES ASSUME NEW c \in Conns
               PROVE  InStep(conn[c], eof[c], req[c], sent[c], inbox[c])'
    BY DEF StepInv
  <2>1. CASE conn[c] = "backlog"
    <3>1. conn'[c] = "gone" /\ ~eof'[c] /\ sent'[c] = <<>> /\ inbox'[c] = <<>>
      BY <1>12, <2>1 DEF CloseListener
    <3> QED BY <3>1 DEF InStep
  <2>2. CASE conn[c] # "backlog"
    <3>1. conn'[c] = conn[c] /\ (eof'[c] <=> eof[c]) /\ req'[c] = req[c]
          /\ sent'[c] = sent[c] /\ inbox'[c] = inbox[c]
      BY <1>12, <2>2 DEF CloseListener
    <3> QED BY <1>0, <3>1 DEF InStep
  <2> QED BY <2>1, <2>2
<1>13. ASSUME UNCHANGED <<connVars, clientVars>> PROVE StepInv'
  BY <1>13 DEF connVars, clientVars, StepInv
<1> QED
  BY <1>1, <1>2, <1>3, <1>4, <1>5, <1>6, <1>7, <1>8, <1>9, <1>10, <1>11, <1>12, <1>13
  DEF Next, Handler, Listen, ListenError, Signal, SignalHandler, AcceptError, CloseStore, Exit,
      Kill, Start, vars

\* A fresh server: nobody is connected.
LEMMA InitServer == Init => ServerType /\ StepInv /\ OwnerInv
<1> SUFFICES ASSUME Init PROVE ServerType /\ StepInv /\ OwnerInv
  OBVIOUS
<1>1. ServerType
  <2>1. <<>> \in Seq(ClientLine) /\ DB!Idle \in Calls
    BY DEF Calls
  <2> QED BY <2>1 DEF Init, DB!Init, ServerType, Held
<1>2. StepInv
  BY DEF Init, StepInv, InStep
<1>3. OwnerInv
  BY ServerAssumption DEF Init, DB!Init, DB!Idle, OwnerInv, OwnerSide, Claimed, NoLine
<1> QED BY <1>1, <1>2, <1>3

(***************************************************************************)
(* Whatever clients send, however far ahead of the replies, and whoever    *)
(* else is connected, the reply a handler is about to write is for the     *)
(* oldest request its client waits for.                                    *)
(***************************************************************************)
THEOREM RepliesMatchRequests == Spec => []RepliesInStep
<1>1. ServerType /\ StepInv => RepliesInStep
  BY DEF StepInv, InStep, RepliesInStep
<1> QED BY <1>1, InitServer, NextType, NextStepInv, PTL DEF Spec

-----------------------------------------------------------------------------
(* What a client may conclude about its key.                               *)

\* OwnerSide of connection c, in this state.
Side(c) ==
    OwnerSide(Own[c], store[Own[c]], doubt[c], conn[c], inbox[c], req[c], res[c], call[c], phase)

\* What Side is about, except the phase, does not change for connection d.
Unmoved(d) ==
    /\ store'[Own[d]] = store[Own[d]] /\ doubt'[d] = doubt[d] /\ conn'[d] = conn[d]
    /\ inbox'[d] = inbox[d] /\ req'[d] = req[d] /\ res'[d] = res[d] /\ call'[d] = call[d]

LEMMA OthersKeep ==
    ASSUME OwnerInv, NEW c \in Conns, \A d \in Conns \ {c} : Unmoved(d), UNCHANGED phase, Side(c)'
    PROVE  OwnerInv'
BY DEF OwnerInv, Side, Unmoved

LEMMA NextOwnerInv == ServerType /\ StepInv /\ OwnerInv /\ [Next]_vars => OwnerInv'
<1> SUFFICES ASSUME ServerType, StepInv, OwnerInv, [Next]_vars PROVE OwnerInv'
  OBVIOUS
<1>0. ASSUME NEW c \in Conns
      PROVE  /\ Side(c) /\ Own[c] \in Keys
             /\ sent[c] \in Seq(ClientLine) /\ inbox[c] \in Seq(ClientLine)
             /\ DOMAIN inbox[c] = 1..Len(inbox[c]) /\ Len(inbox[c]) \in Nat
             /\ call[c] \in Calls /\ \A d \in Conns : Own[d] = Own[c] => d = c
  BY <1>0, ServerAssumption, LenProperties DEF ServerType, OwnerInv, Side
<1>1. ASSUME NEW c \in Conns, Connect(c) \/ Accept(c) PROVE OwnerInv'
  <2>1. /\ \A d \in Conns \ {c} : Unmoved(d)
        /\ store' = store /\ doubt' = doubt /\ inbox' = inbox /\ req' = req /\ res' = res
        /\ call' = call /\ phase' = phase /\ conn[c] # "call" /\ conn'[c] \in {"backlog", "read"}
    BY <1>1 DEF ServerType, Connect, Accept, Unmoved, dbVars, clientVars
  <2>2. Side(c)'
    BY <1>0, <1>1, <2>1 DEF Side, OwnerSide
  <2> QED BY <1>1, <2>1, <2>2, OthersKeep
\* A line arrives, whole or cut, and the client takes note of what it writes.
<1>2. ASSUME NEW c \in Conns, NEW l \in ClientLine, l.op = "write" => l.key = Own[c],
             inbox' = [inbox EXCEPT ![c] = Append(@, l)],
             doubt' = [doubt EXCEPT ![c] = @ \cup Written(c, l)],
             UNCHANGED <<dbVars, conn, req, res>>
      PROVE  OwnerInv'
  <2>1. /\ \A d \in Conns \ {c} : Unmoved(d)
        /\ store' = store /\ conn' = conn /\ req' = req /\ res' = res /\ call' = call
        /\ phase' = phase /\ inbox'[c] = Append(inbox[c], l)
        /\ doubt'[c] = doubt[c] \cup Written(c, l)
    BY <1>2 DEF ServerType, Unmoved, dbVars
  <2>2. Side(c)
    BY <1>0, <1>2
  <2>3. ASSUME NEW i \in DOMAIN inbox'[c] PROVE Claimed(inbox'[c][i], Own[c], doubt'[c])
    <3>1. CASE i \in DOMAIN inbox[c]
      <4>1. inbox'[c][i] = inbox[c][i]
        BY <1>0, <1>2, <2>1, <3>1, AppendProperties
      <4> QED BY <2>1, <2>2, <3>1, <4>1 DEF Side, OwnerSide, Claimed
    <3>2. CASE i \notin DOMAIN inbox[c]
      <4>1. inbox'[c][i] = l
        BY <1>0, <1>2, <2>1, <2>3, <3>2, AppendProperties
      <4> QED BY <1>2, <2>1, <4>1 DEF Claimed, Written
    <3> QED BY <3>1, <3>2
  <2>4. Side(c)'
    BY <2>1, <2>2, <2>3 DEF Side, OwnerSide, Claimed
  <2> QED BY <1>2, <2>1, <2>4, OthersKeep
<1>3. ASSUME NEW c \in Conns, Send(c) PROVE OwnerInv'
  <2>1. PICK r \in Script[c] :
          /\ inbox' = [inbox EXCEPT ![c] = Append(@, r)]
          /\ doubt' = [doubt EXCEPT ![c] = @ \cup Written(c, r)]
    BY <1>3 DEF Send
  <2>2. r \in ClientLine /\ (r.op = "write" => r.key = Own[c])
    BY <1>3, <2>1, ServerAssumption
  <2> QED BY <1>2, <1>3, <2>1, <2>2 DEF Send
<1>4. ASSUME NEW c \in Conns, Leave(c) PROVE OwnerInv'
  <2>1. ASSUME NEW n \in 0..Len(inbox[c]), inbox' = [inbox EXCEPT ![c] = SubSeq(@, 1, n)],
               UNCHANGED doubt
        PROVE  OwnerInv'
    <3>1. /\ \A d \in Conns \ {c} : Unmoved(d)
          /\ store' = store /\ conn' = conn /\ req' = req /\ res' = res /\ call' = call
          /\ phase' = phase /\ doubt' = doubt /\ inbox'[c] = SubSeq(inbox[c], 1, n)
      BY <1>4, <2>1 DEF ServerType, Leave, Unmoved, dbVars
    <3>2. Side(c)
      BY <1>0, <1>4
    <3>3. \A i \in DOMAIN inbox'[c] : i \in DOMAIN inbox[c] /\ inbox'[c][i] = inbox[c][i]
      BY <1>0, <1>4, <2>1, <3>1
    <3>4. Side(c)'
      BY <3>1, <3>2, <3>3 DEF Side, OwnerSide
    <3> QED BY <1>4, <3>1, <3>4, OthersKeep
  <2>2. ASSUME NEW r \in Script[c], NEW l \in CutLines(r),
               inbox' = [inbox EXCEPT ![c] = Append(@, l)],
               doubt' = [doubt EXCEPT ![c] = @ \cup Written(c, l)]
        PROVE  OwnerInv'
    <3>1. r \in ClientLine /\ (r.op = "write" => r.key = Own[c])
      BY <1>4, <2>2, ServerAssumption
    <3>2. l \in ClientLine /\ (l.op = "write" => l.key = Own[c])
      BY <2>2, <3>1, CutLine
    <3> QED BY <1>2, <1>4, <2>2, <3>2 DEF Leave
  <2> QED BY <1>4, <2>1, <2>2 DEF Leave
\* Taking a line off the front leaves lines.
<1>5. ASSUME NEW c \in Conns, inbox[c] # <<>>
      PROVE  /\ Line(c) \in ClientLine /\ Claimed(Line(c), Own[c], doubt[c])
             /\ \A i \in DOMAIN Tail(inbox[c]) : Claimed(Tail(inbox[c])[i], Own[c], doubt[c])
  <2>1. /\ Len(inbox[c]) \in Nat \ {0} /\ Line(c) = inbox[c][1] /\ Line(c) \in ClientLine
        /\ DOMAIN Tail(inbox[c]) = 1..(Len(inbox[c]) - 1)
        /\ \A i \in 1..(Len(inbox[c]) - 1) : Tail(inbox[c])[i] = inbox[c][i + 1]
    BY <1>0, <1>5, HeadTailProperties, LenProperties, EmptySeq DEF Line
  <2>2. \A i \in 1..Len(inbox[c]) : Claimed(inbox[c][i], Own[c], doubt[c])
    BY <1>0, <1>5 DEF Side, OwnerSide
  <2> QED BY <2>1, <2>2
<1>6. ASSUME NEW c \in Conns, SkipLine(c) PROVE OwnerInv'
  <2>1. /\ \A d \in Conns \ {c} : Unmoved(d)
        /\ store' = store /\ conn' = conn /\ req' = req /\ res' = res /\ call' = call
        /\ phase' = phase /\ doubt' = doubt /\ inbox'[c] = Tail(inbox[c]) /\ inbox[c] # <<>>
    BY <1>6 DEF ServerType, SkipLine, HasLine, Unmoved, dbVars, clientVars
  <2>2. Side(c)'
    BY <1>0, <1>5, <1>6, <2>1 DEF Side, OwnerSide
  <2> QED BY <1>6, <2>1, <2>2, OthersKeep
<1>7. ASSUME NEW c \in Conns, AnswerLine(c) PROVE OwnerInv'
  <2>1. /\ \A d \in Conns \ {c} : Unmoved(d)
        /\ store' = store /\ call' = call /\ phase' = phase /\ doubt' = doubt
        /\ conn[c] = "read" /\ conn'[c] = "reply" /\ req'[c] = Line(c)
        /\ res'[c] \in {Local, Refused} /\ inbox'[c] = Tail(inbox[c]) /\ inbox[c] # <<>>
    BY <1>7 DEF ServerType, AnswerLine, HasLine, TakeLine, Unmoved, dbVars, clientVars
  <2>2. call[c] = DB!Idle /\ store[Own[c]] \in doubt[c]
    BY <1>0, <1>7, <2>1 DEF Side, OwnerSide
  <2>3. Side(c)'
    BY <1>5, <1>7, <2>1, <2>2 DEF Side, OwnerSide, DB!Idle, Local, Refused, Wrote
  <2> QED BY <1>7, <2>1, <2>3, OthersKeep
<1>8. ASSUME NEW c \in Conns, CallStore(c) PROVE OwnerInv'
  <2>1. /\ \A d \in Conns \ {c} : Unmoved(d)
        /\ store' = store /\ phase' = phase /\ doubt' = doubt
        /\ conn'[c] = "call" /\ req'[c] = Line(c) /\ Line(c).op \in {"write", "get"}
        /\ inbox'[c] = Tail(inbox[c]) /\ inbox[c] # <<>>
        /\ call'[c] = (IF Line(c).op = "write" THEN DB!Writing(Line(c).key, Line(c).val)
                       ELSE DB!Getting(Line(c).key, {store[Line(c).key]}))
    BY <1>8 DEF ServerType, CallStore, DB!Begin, KeyIn, HasLine, TakeLine, Unmoved, clientVars
  <2>2. store[Own[c]] \in doubt[c]
    BY <1>0, <1>8 DEF Side, OwnerSide
  <2>3. CASE Line(c).op = "write"
    <3>1. call'[c] = DB!Writing(req'[c].key, req'[c].val) /\ call'[c].op = "write"
      BY <2>1, <2>3 DEF DB!Writing
    <3>2. Side(c)'
      BY <1>5, <1>8, <2>1, <2>2, <2>3, <3>1 DEF Side, OwnerSide
    <3> QED BY <1>8, <2>1, <3>2, OthersKeep
  <2>4. CASE Line(c).op = "get"
    <3>1. /\ call'[c].op = "get" /\ call'[c].key = req'[c].key
          /\ call'[c].may = {store[req'[c].key]}
      BY <2>1, <2>4 DEF DB!Getting
    <3>2. Side(c)'
      BY <1>5, <1>8, <2>1, <2>2, <2>4, <3>1 DEF Side, OwnerSide
    <3> QED BY <1>8, <2>1, <3>2, OthersKeep
  <2> QED BY <2>1, <2>3, <2>4
<1>9. ASSUME NEW c \in Conns, InCall(c) PROVE OwnerInv'
  <2>1. PICK r \in IF phase = "closed" THEN DB!Held \cup {Failed} ELSE call[c].may :
          call' = [call EXCEPT ![c] = DB!Answered(r)]
    BY <1>9 DEF InCall, DB!Answer
  <2>2. /\ \A d \in Conns \ {c} : Unmoved(d)
        /\ store' = store /\ phase' = phase /\ doubt' = doubt /\ conn' = conn /\ req' = req
        /\ res' = res /\ inbox' = inbox /\ conn[c] = "call" /\ call[c].op = "get"
        /\ call'[c].op = "answered" /\ call'[c].val = r
    BY <1>9, <2>1 DEF ServerType, InCall, DB!Answer, DB!Answered, Unmoved, connVars, clientVars
  <2>3. Side(c)
    BY <1>0, <1>9
  <2>4. Side(c)'
    BY <2>1, <2>2, <2>3 DEF Side, OwnerSide
  <2> QED BY <1>9, <2>2, <2>4, OthersKeep
<1>10. ASSUME NEW c \in Conns, Returns(c) PROVE OwnerInv'
  <2>0. Side(c) /\ call[c] \in Calls
    BY <1>0, <1>10
  <2>1. CASE DB!TakeEffect(c) /\ res' = [res EXCEPT ![c] = Wrote]
    <3>1. /\ call[c].op = "write" /\ req[c].op = "write" /\ call[c].key = Own[c]
          /\ call[c].val = req[c].val /\ req[c].val \in doubt[c]
      BY <2>0, <2>1 DEF DB!TakeEffect, DB!Writing, Side, OwnerSide, Claimed
    <3>2. /\ store' = [store EXCEPT ![Own[c]] = req[c].val] /\ phase' = phase /\ doubt' = doubt
          /\ inbox' = inbox /\ req' = req /\ conn' = [conn EXCEPT ![c] = "reply"]
          /\ call' = [d \in Conns |->
                        IF d = c THEN DB!Idle
                        ELSE IF call[d].op = "get" /\ call[d].key = Own[c]
                             THEN [call[d] EXCEPT !.may = @ \cup {req[c].val}]
                             ELSE call[d]]
      BY <1>10, <2>1, <3>1 DEF Returns, DB!TakeEffect, clientVars
    <3>3. Side(c)'
      <4>1. /\ store'[Own[c]] = req[c].val /\ conn'[c] = "reply" /\ call'[c] = DB!Idle
            /\ call'[c].op = "idle"
        BY <1>0, <1>10, <3>2 DEF ServerType, DB!Idle
      <4> QED BY <2>0, <3>1, <3>2, <4>1 DEF Side, OwnerSide
    <3>4. ASSUME NEW d \in Conns, d # c PROVE Side(d)'
      <4>1. Side(d) /\ Own[d] # Own[c] /\ Own[d] \in Keys /\ call[d] \in Calls
        BY <1>0, <1>10, <3>4
      <4>2. store'[Own[d]] = store[Own[d]] /\ conn'[d] = conn[d] /\ res'[d] = res[d]
        BY <1>10, <2>1, <3>2, <3>4, <4>1 DEF ServerType
      <4>3. CASE call[d].op = "get" /\ call[d].key = Own[c]
        <5>1. call'[d] = [call[d] EXCEPT !.may = @ \cup {req[c].val}]
          BY <3>2, <3>4, <4>3
        <5>2. req[c].val \in Held
          BY <3>1, <2>0, CallFields
        <5>3. call'[d].op = "get" /\ call'[d].key = call[d].key
          BY <4>1, <4>3, <5>1, <5>2, CallFields
        <5>4. req[d].key # Own[d] /\ conn[d] = "call" /\ req[d].op = "get"
          BY <4>1, <4>3 DEF Side, OwnerSide, DB!Idle
        <5> QED BY <3>2, <4>1, <4>2, <4>3, <5>3, <5>4 DEF Side, OwnerSide
      <4>4. CASE ~(call[d].op = "get" /\ call[d].key = Own[c])
        <5>1. call'[d] = call[d]
          BY <3>2, <3>4, <4>4
        <5> QED BY <3>2, <4>1, <4>2, <5>1 DEF Side
      <4> QED BY <4>3, <4>4
    <3>5. \A d \in Conns : Side(d)'
      BY <3>3, <3>4
    <3> QED BY <3>5 DEF OwnerInv, Side
  <2>2. CASE DB!End(c) /\ res' = [res EXCEPT ![c] = IF call[c].op = "write" THEN FailedWrite
                                                   ELSE Found(call[c].val)]
    <3>1. /\ \A d \in Conns \ {c} : Unmoved(d)
          /\ store' = store /\ phase' = phase /\ doubt' = doubt /\ req' = req
          /\ inbox' = inbox /\ conn'[c] = "reply" /\ call'[c] = DB!Idle /\ call'[c].op = "idle"
          /\ call[c].op \in {"answered", "write"}
          /\ call[c].op = "write" => res'[c] = Refused
      BY <1>10, <2>2 DEF ServerType, Returns, DB!End, FailedWrite, Unmoved, DB!Idle, clientVars
    <3>2. req[c].op = "write" => call[c].op = "write"
      BY <2>0, <3>1 DEF Side, OwnerSide
    <3>3. Side(c)'
      BY <2>0, <3>1, <3>2 DEF Side, OwnerSide, Refused, Wrote
    <3> QED BY <1>10, <3>1, <3>3, OthersKeep
  <2> QED BY <1>10, <2>1, <2>2 DEF Returns
<1>11. ASSUME NEW c \in Conns, Reply(c) PROVE OwnerInv'
  <2>0. Side(c) /\ conn[c] = "reply" /\ call[c] = DB!Idle
    BY <1>0, <1>11 DEF Reply, Side, OwnerSide
  <2>1. /\ \A d \in Conns \ {c} : Unmoved(d)
        /\ store' = store /\ phase' = phase /\ call' = call /\ inbox' = inbox
        /\ conn'[c] = "read" /\ req'[c] = NoLine
    BY <1>11 DEF ServerType, Reply, Unmoved, dbVars
  <2>2. CASE doubt'[c] = doubt[c]
    <3>1. Side(c)'
      BY <2>0, <2>1, <2>2 DEF Side, OwnerSide, Claimed, NoLine, DB!Idle
    <3> QED BY <1>11, <2>1, <3>1, OthersKeep
  <2>3. CASE doubt'[c] # doubt[c]
    <3>1. /\ sent[c] # <<>> /\ res[c] = Wrote /\ Head(sent[c]).op = "write"
          /\ doubt'[c] = UNION {Written(c, r) : r \in ToSet(sent[c])}
      BY <1>11, <2>3 DEF Reply, ServerType
    <3>2. Head(sent[c]) = req[c] /\ Requests(Tail(sent[c]), inbox[c])
      BY <1>11, <2>0, <3>1 DEF StepInv, InStep, ServerType
    <3>3. /\ Head(sent[c]) \in ToSet(sent[c])
          /\ \A i \in DOMAIN Tail(sent[c]) : Tail(sent[c])[i] \in ToSet(sent[c])
      <4>1. /\ Len(sent[c]) \in Nat \ {0} /\ DOMAIN sent[c] = 1..Len(sent[c])
            /\ Head(sent[c]) = sent[c][1] /\ DOMAIN Tail(sent[c]) = 1..(Len(sent[c]) - 1)
            /\ \A i \in 1..(Len(sent[c]) - 1) : Tail(sent[c])[i] = sent[c][i + 1]
        BY <1>0, <1>11, <3>1, HeadTailProperties, LenProperties, EmptySeq
      <4>2. ASSUME NEW i \in DOMAIN Tail(sent[c])
            PROVE  i + 1 \in DOMAIN sent[c] /\ Tail(sent[c])[i] = sent[c][i + 1]
        BY <4>1, <4>2
      <4>3. 1 \in DOMAIN sent[c]
        BY <4>1
      <4> QED BY <4>1, <4>2, <4>3 DEF ToSet
    <3>4. store[Own[c]] \in doubt'[c]
      <4>1. req[c].op = "write" /\ req[c].key = Own[c] /\ store[Own[c]] = req[c].val
        BY <2>0, <3>1, <3>2 DEF Side, OwnerSide, Claimed
      <4>2. store[Own[c]] \in Written(c, req[c])
        BY <4>1 DEF Written
      <4> QED BY <3>1, <3>2, <3>3, <4>2
    <3>5. ASSUME NEW i \in DOMAIN inbox[c] PROVE Claimed(inbox[c][i], Own[c], doubt'[c])
      <4> SUFFICES ASSUME inbox[c][i].op = "write"
                   PROVE  inbox[c][i].key = Own[c] /\ inbox[c][i].val \in doubt'[c]
        BY DEF Claimed
      <4>1. inbox[c][i].key = Own[c]
        BY <2>0, <3>5 DEF Side, OwnerSide, Claimed
      <4>2. inbox[c][i] \in ToSet(sent[c])
        <5>1. PICK j \in DOMAIN Tail(sent[c]) : Tail(sent[c])[j] = inbox[c][i]
          <6>1. \A n \in DOMAIN inbox[c] : inbox[c][n].op # "blank" =>
                    \E m \in DOMAIN Tail(sent[c]) : Tail(sent[c])[m] = inbox[c][n]
            <7>1. Tail(sent[c]) \in Seq(ClientLine) /\ inbox[c] \in Seq(ClientLine)
              BY <1>0, <1>11, <3>1, HeadTailProperties
            <7> QED BY <3>2, <7>1, RequestKnown, Zenon
          <6> QED BY <3>5, <6>1
        <5> QED BY <3>3, <5>1
      <4>3. inbox[c][i].val \in Written(c, inbox[c][i])
        BY <4>1 DEF Written
      <4> QED BY <3>1, <4>1, <4>2, <4>3
    <3>6. Side(c)'
      BY <2>0, <2>1, <3>4, <3>5 DEF Side, OwnerSide, Claimed, NoLine, DB!Idle
    <3> QED BY <1>11, <2>1, <3>6, OthersKeep
  <2> QED BY <2>2, <2>3
<1>12. ASSUME NEW c \in Conns, Hangup(c) PROVE OwnerInv'
  <2>1. /\ \A d \in Conns \ {c} : Unmoved(d)
        /\ store' = store /\ phase' = phase /\ doubt' = doubt /\ req' = req /\ res' = res
        /\ call' = call /\ conn[c] = "read" /\ conn'[c] = "gone" /\ inbox'[c] = <<>>
    BY <1>12 DEF ServerType, Hangup, Unmoved, dbVars
  <2>2. Side(c)'
    BY <1>0, <1>12, <2>1 DEF Side, OwnerSide
  <2> QED BY <1>12, <2>1, <2>2, OthersKeep
\* Of what was running when the process ended, only the owner's write can have
\* reached its key.
<1>13. ASSUME ProcessEnds PROVE OwnerInv'
  <2> SUFFICES ASSUME NEW c \in Conns PROVE Side(c)'
    BY DEF OwnerInv, Side
  <2>1. /\ inbox'[c] = <<>> /\ req'[c] = NoLine /\ conn'[c] = "none" /\ call'[c] = DB!Idle
        /\ doubt' = doubt
    BY <1>13 DEF ProcessEnds, DB!Crash
  <2>2. store'[Own[c]] \in doubt[c]
    <3>1. CASE store'[Own[c]] = store[Own[c]]
      BY <1>0, <3>1 DEF Side, OwnerSide
    <3>2. CASE store'[Own[c]] # store[Own[c]]
      <4>1. PICK d \in Conns : call[d] = DB!Writing(Own[c], store'[Own[c]])
        BY <1>0, <1>13, <3>2 DEF ProcessEnds, DB!Crash
      <4>2. /\ call[d].op = "write" /\ call[d].key = Own[c] /\ call[d].val = store'[Own[c]]
        BY <4>1 DEF DB!Writing
      <4>3. call[d].key = Own[d] /\ call[d].val \in doubt[d]
        <5>1. Side(d)
          BY <1>0
        <5>2. req[d].op = "write" /\ call[d] = DB!Writing(req[d].key, req[d].val)
          BY <4>2, <5>1 DEF Side, OwnerSide
        <5>3. req[d].key = Own[d] /\ req[d].val \in doubt[d]
          BY <5>1, <5>2 DEF Side, OwnerSide, Claimed
        <5> QED BY <5>2, <5>3 DEF DB!Writing
      <4> QED BY <1>0, <4>2, <4>3
    <3> QED BY <3>1, <3>2
  <2> QED BY <2>1, <2>2 DEF Side, OwnerSide, Claimed, NoLine, DB!Idle
<1>14. ASSUME CloseListener, UNCHANGED dbVars PROVE OwnerInv'
  <2> SUFFICES ASSUME NEW c \in Conns PROVE Side(c)'
    BY DEF OwnerInv, Side
  <2>1. /\ store' = store /\ call' = call /\ phase' = phase /\ req' = req /\ res' = res
        /\ doubt' = doubt
        /\ \/ conn[c] = "backlog" /\ conn'[c] = "gone" /\ inbox'[c] = <<>>
           \/ conn'[c] = conn[c] /\ inbox'[c] = inbox[c]
    BY <1>14 DEF CloseListener, dbVars
  <2> QED BY <1>0, <2>1 DEF Side, OwnerSide
<1>15. ASSUME CloseStore \/ Start PROVE OwnerInv'
  <2> SUFFICES ASSUME NEW c \in Conns PROVE Side(c)'
    BY DEF OwnerInv, Side
  <2>1. /\ UNCHANGED <<store, call, connVars, clientVars>>
        /\ phase = "closed" => call[c] = DB!Idle
    BY <1>15 DEF CloseStore, Start, DB!Close, DB!Reopen
  <2> QED BY <1>0, <2>1 DEF Side, OwnerSide, DB!Idle, connVars, clientVars
<1>16. ASSUME UNCHANGED <<dbVars, connVars, clientVars>> PROVE OwnerInv'
  BY <1>16 DEF OwnerInv, dbVars, connVars, clientVars
<1> QED
  BY <1>1, <1>3, <1>4, <1>6, <1>7, <1>8, <1>9, <1>10, <1>11, <1>12, <1>13, <1>14, <1>15, <1>16
  DEF Next, Handler, Listen, ListenError, Signal, SignalHandler, AcceptError, Exit, Kill, vars

(***************************************************************************)
(* For any set of clients that write keys of their own, whatever they send *)
(* and wherever they leave, the server is stopped, killed or restarted:    *)
(* the key of a client holds the value of its last write answered +OK, or  *)
(* of a later one that it has no answer for.                               *)
(***************************************************************************)
THEOREM AcknowledgedStored == Spec => []AckedStored
<1>1. OwnerInv => AckedStored
  BY DEF OwnerInv, OwnerSide, AckedStored
<1> QED BY <1>1, InitServer, NextType, NextStepInv, NextOwnerInv, PTL DEF Spec

(***************************************************************************)
(* A GET of the client's own key is answered, until shutdown has closed    *)
(* the store, by a value that the replies it has leave possible.           *)
(***************************************************************************)
THEOREM OwnWritesRead == Spec => []ReadYourWrites
<1>1. OwnerInv => ReadYourWrites
  BY DEF OwnerInv, OwnerSide, ReadYourWrites
<1> QED BY <1>1, InitServer, NextType, NextStepInv, NextOwnerInv, PTL DEF Spec
=============================================================================
