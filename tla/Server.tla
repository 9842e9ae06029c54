------------------------------- MODULE Server -------------------------------
(***************************************************************************)
(* The TCP server of cmd/server: the accept loop, one handler goroutine    *)
(* per connection, shutdown by a signal, and the processes that follow one *)
(* another on the same data directory.  The handlers call the store that   *)
(* module KeyValue describes (in SyncFull), each under its connection's    *)
(* name.                                                                   *)
(*                                                                         *)
(* A request line is abstracted to what handleConn makes of it: a write of *)
(* a key (DEL writes None), a GET, a "local" line that is answered without *)
(* touching the store (PING, STAT, an unknown command, too few arguments,  *)
(* an empty key), a blank line, or a line beyond the Scanner's limit.      *)
(*                                                                         *)
(* Clients send whole lines, up to Window of them ahead of the replies     *)
(* (cmd/cli has a Window of 1), and may go away at any moment, in the      *)
(* middle of a line too.                                                   *)
(*                                                                         *)
(* FailedWriteOK, FoldedKey, AnswerBlank, ServeInline and WaitForHandlers  *)
(* are wrong forms of the definition that follows them, which the          *)
(* properties reject.                                                      *)
(***************************************************************************)
EXTENDS Naturals, Sequences, FiniteSets, SequencesExt

CONSTANTS
    Conns,          \* connections; also the store's clients
    Keys, Values,
    None,           \* no value
    Failed,         \* an error of Get
    Own,            \* Own[c]: the key that only connection c writes
    Script,         \* Script[c]: the lines connection c may send
    ShortOf,        \* pairs <<p, v>>: the value p is a proper prefix of v
    Window,         \* requests a client sends ahead of the replies
    MaxRequests,    \* MaxRequests[c]: bound on the requests of connection c
    MaxStarts       \* bound on the processes started

Held == Values \cup {None}

\* A line as handleConn understands it.
ClientLine ==
    [op : {"write"}, key : Keys, val : Held] \cup [op : {"get"}, key : Keys]
    \cup [op : {"local", "blank", "long"}]

ASSUME ServerAssumption ==
    /\ Own \in [Conns -> Keys] /\ \A c, d \in Conns : Own[c] = Own[d] => c = d
    /\ \A c \in Conns : Script[c] \subseteq ClientLine
    /\ \A c \in Conns : \A r \in Script[c] : r.op = "write" => r.key = Own[c]
    /\ ShortOf \subseteq Values \X Values
    /\ Window \in Nat \ {0} /\ MaxRequests \in [Conns -> Nat] /\ MaxStarts \in Nat

VARIABLES
    \* The store.
    store, call, phase,
    \* The process: main's program counter, the listener, the signal goroutine,
    \* how many processes there were.
    main, listener, signal, starts,
    \* A connection at the server: its handler's program counter, the lines that
    \* have arrived, end of input, the line in work and its result.
    conn, inbox, eof, req, res,
    \* Its client: requests sent, those waiting for a reply, and what the client
    \* cannot rule out that its key holds.
    count, sent, doubt

dbVars     == <<store, call, phase>>
mainVars   == <<main, listener, signal, starts>>
connVars   == <<conn, inbox, eof, req, res>>
clientVars == <<count, sent, doubt>>
vars == <<dbVars, mainVars, connVars, clientVars>>

DB == INSTANCE KeyValue WITH Clients <- Conns

\* No line in work, and the kinds of replies: +OK, -ERR, and what "local" lines get.
NoLine  == [op |-> "none"]
Wrote   == "ok"
Refused == "err"
Local   == "local"

\* The reply to a GET that returned v.
Found(v) == IF v = None THEN "not found" ELSE IF v = Failed THEN Refused ELSE v

Init ==
    /\ DB!Init
    /\ main = "opened" /\ listener = "closed" /\ signal = "none" /\ starts = 1
    /\ conn = [c \in Conns |-> "none"] /\ inbox = [c \in Conns |-> <<>>]
    /\ eof = [c \in Conns |-> FALSE]
    /\ req = [c \in Conns |-> NoLine] /\ res = [c \in Conns |-> Local]
    /\ count = [c \in Conns |-> 0] /\ sent = [c \in Conns |-> <<>>]
    /\ doubt = [c \in Conns |-> {None}]

-----------------------------------------------------------------------------
(* Clients.                                                                *)

Connect(c) ==
    /\ conn[c] = "none" /\ listener = "open"
    /\ conn' = [conn EXCEPT ![c] = "backlog"]
    /\ UNCHANGED <<dbVars, mainVars, inbox, eof, req, res, clientVars>>

Connected(c) == conn[c] \notin {"none", "gone"} /\ ~eof[c]

\* The values that a write by line r may leave in the key of connection c.
Written(c, r) == IF r.op = "write" /\ r.key = Own[c] THEN {r.val} ELSE {}

Send(c) ==
    /\ Connected(c) /\ count[c] < MaxRequests[c] /\ Len(sent[c]) < Window
    /\ count' = [count EXCEPT ![c] = @ + 1]
    /\ \E r \in Script[c] :
          /\ inbox' = [inbox EXCEPT ![c] = Append(@, r)]
          /\ sent' = IF r.op = "blank" THEN sent ELSE [sent EXCEPT ![c] = Append(@, r)]
          /\ doubt' = [doubt EXCEPT ![c] = @ \cup Written(c, r)]
    /\ UNCHANGED <<dbVars, mainVars, conn, eof, req, res>>

\* What may arrive of a line cut short: all but its line end, a write of a
\* shorter value, or too little to be a command with its arguments.  (No key is
\* a prefix of another; the key of a cut DEL would be such a prefix.)
CutLines(r) ==
    {r, [op |-> "local"]}
    \cup {[r EXCEPT !.val = v] : v \in {u \in Values : r.op = "write" /\ <<u, r.val>> \in ShortOf}}

\* The client goes away, between lines (a reset may take the last ones that
\* nobody has read yet) or in the middle of one.
Leave(c) ==
    /\ Connected(c)
    /\ eof' = [eof EXCEPT ![c] = TRUE] /\ sent' = [sent EXCEPT ![c] = <<>>]
    /\ \/ /\ \E n \in 0..Len(inbox[c]) : inbox' = [inbox EXCEPT ![c] = SubSeq(@, 1, n)]
          /\ UNCHANGED <<count, doubt>>
       \/ /\ count[c] < MaxRequests[c] /\ count' = [count EXCEPT ![c] = @ + 1]
          /\ \E r \in Script[c] : \E cut \in CutLines(r) :
                /\ inbox' = [inbox EXCEPT ![c] = Append(@, cut)]
                /\ doubt' = [doubt EXCEPT ![c] = @ \cup Written(c, cut)]
    /\ UNCHANGED <<dbVars, mainVars, conn, req, res>>

-----------------------------------------------------------------------------
(* handleConn.                                                             *)

\* Accept, and the handler goroutine starts; the loop waits for no other one.
ServeInline(c) == \A d \in Conns : conn[d] \notin {"read", "call", "reply"}

MayServe(c) == TRUE

Accept(c) ==
    /\ main = "accept" /\ listener = "open" /\ conn[c] = "backlog" /\ MayServe(c)
    /\ conn' = [conn EXCEPT ![c] = "read"]
    /\ UNCHANGED <<dbVars, mainVars, inbox, eof, req, res, clientVars>>

\* scanner.Scan has a line; an unterminated last one counts.
HasLine(c) == conn[c] = "read" /\ inbox[c] # <<>>
Line(c)    == Head(inbox[c])

TakeLine(c) ==
    /\ inbox' = [inbox EXCEPT ![c] = Tail(@)]
    /\ req' = [req EXCEPT ![c] = Line(c)]

AnswerBlank(c) == FALSE

Skipped(c) == Line(c).op = "blank"

SkipLine(c) ==
    /\ HasLine(c) /\ Skipped(c)
    /\ inbox' = [inbox EXCEPT ![c] = Tail(@)]
    /\ UNCHANGED <<dbVars, mainVars, conn, eof, req, res, clientVars>>

\* Answered without a call, or refused because the store is closing.
AnswerLine(c) ==
    /\ HasLine(c) /\ ~Skipped(c)
    /\ \/ Line(c).op \notin {"write", "get", "long"} /\ res' = [res EXCEPT ![c] = Local]
       \/ Line(c).op \in {"write", "get"} /\ phase # "open" /\ res' = [res EXCEPT ![c] = Refused]
    /\ TakeLine(c)
    /\ conn' = [conn EXCEPT ![c] = "reply"]
    /\ UNCHANGED <<dbVars, mainVars, eof, clientVars>>

\* The key of the call: the second word of the line as it stands.
FoldedKey(r) == CHOOSE k \in Keys : TRUE

KeyIn(r) == r.key

CallStore(c) ==
    LET r == Line(c)
        what == IF r.op = "write" THEN DB!Writing(KeyIn(r), r.val)
                ELSE DB!Getting(KeyIn(r), {store[KeyIn(r)]})
    IN  /\ HasLine(c) /\ r.op \in {"write", "get"}
        /\ DB!Begin(c, what)
        /\ TakeLine(c)
        /\ conn' = [conn EXCEPT ![c] = "call"]
        /\ UNCHANGED <<mainVars, eof, res, clientVars>>

\* The call goes on inside the store.
InCall(c) ==
    /\ conn[c] = "call" /\ DB!Answer(c)
    /\ UNCHANGED <<mainVars, connVars, clientVars>>

\* The reply to a write that failed.
FailedWriteOK == Wrote

FailedWrite == Refused

Returns(c) ==
    /\ conn[c] = "call"
    /\ \/ DB!TakeEffect(c) /\ res' = [res EXCEPT ![c] = Wrote]
       \/ /\ DB!End(c)
          /\ res' = [res EXCEPT ![c] = IF call[c].op = "write" THEN FailedWrite
                                       ELSE Found(call[c].val)]
    /\ conn' = [conn EXCEPT ![c] = "reply"]
    /\ UNCHANGED <<mainVars, inbox, eof, req, clientVars>>

\* The reply is written; the client, if it is still there, takes it for the
\* answer to its oldest waiting request: only that request tells the +OK of a
\* write from the reply to a GET that found "OK".  An error of the write is
\* ignored.
Reply(c) ==
    /\ conn[c] = "reply"
    /\ conn' = [conn EXCEPT ![c] = "read"]
    /\ req' = [req EXCEPT ![c] = NoLine] /\ res' = [res EXCEPT ![c] = Local]
    /\ IF sent[c] = <<>> THEN UNCHANGED <<sent, doubt>>
       ELSE /\ sent' = [sent EXCEPT ![c] = Tail(@)]
            /\ doubt' = IF res[c] = Wrote /\ Head(sent[c]).op = "write"
                        THEN [doubt EXCEPT ![c] = UNION {Written(c, r) : r \in ToSet(sent[c])}]
                        ELSE doubt
    /\ UNCHANGED <<dbVars, mainVars, inbox, eof, count>>

\* Scan returns false: the input has ended, or the line is too long.
Hangup(c) ==
    /\ conn[c] = "read"
    /\ IF inbox[c] = <<>> THEN eof[c] ELSE Line(c).op = "long"
    /\ conn' = [conn EXCEPT ![c] = "gone"]
    /\ eof' = [eof EXCEPT ![c] = FALSE]
    /\ inbox' = [inbox EXCEPT ![c] = <<>>] /\ sent' = [sent EXCEPT ![c] = <<>>]
    /\ UNCHANGED <<dbVars, mainVars, req, res, count, doubt>>

Handler(c) ==
    \/ SkipLine(c) \/ AnswerLine(c) \/ CallStore(c) \/ InCall(c) \/ Returns(c)
    \/ Reply(c) \/ Hangup(c)

-----------------------------------------------------------------------------
(* main.                                                                   *)

Listen ==
    /\ main = "opened" /\ main' = "accept" /\ listener' = "open"
    /\ UNCHANGED <<dbVars, signal, starts, connVars, clientVars>>

\* The process ends: handlers are gone wherever they were, sockets are closed.
ProcessEnds ==
    /\ DB!Crash
    /\ main' = "down" /\ listener' = "closed" /\ signal' = "none"
    /\ conn' = [c \in Conns |-> "none"] /\ inbox' = [c \in Conns |-> <<>>]
    /\ eof' = [c \in Conns |-> FALSE] /\ req' = [c \in Conns |-> NoLine]
    /\ res' = [c \in Conns |-> Local] /\ sent' = [c \in Conns |-> <<>>]
    /\ UNCHANGED <<starts, count, doubt>>

\* net.Listen fails: os.Exit(1), without the deferred db.Close.
ListenError == main = "opened" /\ starts < MaxStarts /\ ProcessEnds

\* SIGINT or SIGTERM arrives; the goroutine closes the listener.
Signal ==
    /\ main = "accept" /\ signal = "none" /\ signal' = "pending"
    /\ UNCHANGED <<dbVars, main, listener, starts, connVars, clientVars>>

\* Closing the listener resets the connections nobody has accepted.
CloseListener ==
    LET left == {c \in Conns : conn[c] = "backlog"}
    IN  /\ listener' = "closed"
        /\ conn' = [c \in Conns |-> IF c \in left THEN "gone" ELSE conn[c]]
        /\ inbox' = [c \in Conns |-> IF c \in left THEN <<>> ELSE inbox[c]]
        /\ sent' = [c \in Conns |-> IF c \in left THEN <<>> ELSE sent[c]]
        /\ eof' = [c \in Conns |-> c \notin left /\ eof[c]]
        /\ UNCHANGED <<req, res, count, doubt>>

SignalHandler ==
    /\ signal = "pending" /\ signal' = "handled"
    /\ CloseListener
    /\ UNCHANGED <<dbVars, main, starts>>

\* Accept returns an error, because the listener is closed or for any other
\* reason: the loop ends and the deferred ln.Close runs.
AcceptError ==
    /\ main = "accept" /\ main' = "closing"
    /\ CloseListener
    /\ UNCHANGED <<dbVars, signal, starts>>

\* The deferred db.Close, which waits for no handler, and the end of main.
WaitForHandlers == \A c \in Conns : conn[c] \in {"none", "gone"}

MayClose == TRUE

CloseStore ==
    /\ main = "closing" /\ MayClose
    /\ DB!Close
    /\ UNCHANGED <<mainVars, connVars, clientVars>>

Exit == main = "closing" /\ phase = "closed" /\ ProcessEnds

\* The process is killed.
Kill == main # "down" /\ starts < MaxStarts /\ ProcessEnds

\* A new process: flags are parsed and the store is opened.
Start ==
    /\ main = "down" /\ starts < MaxStarts
    /\ starts' = starts + 1 /\ main' = "opened"
    /\ DB!Reopen
    /\ UNCHANGED <<listener, signal, connVars, clientVars>>

Main == Listen \/ (AcceptError /\ listener = "closed") \/ CloseStore \/ Exit

-----------------------------------------------------------------------------
Next ==
    \/ \E c \in Conns : Connect(c) \/ Send(c) \/ Leave(c) \/ Accept(c) \/ Handler(c)
    \/ Listen \/ ListenError \/ Signal \/ SignalHandler \/ AcceptError
    \/ CloseStore \/ Exit \/ Kill \/ Start

Spec == Init /\ [][Next]_vars

(***************************************************************************)
(* Goroutines keep running, and calls of the store return (module DB,      *)
(* CloseReturns among others).  Clients, signals, I/O errors and restarts  *)
(* come or do not come.                                                    *)
(***************************************************************************)
FairSpec ==
    /\ Spec
    /\ \A c \in Conns : WF_vars(Handler(c)) /\ WF_vars(Accept(c))
    /\ WF_vars(Main) /\ WF_vars(SignalHandler)

-----------------------------------------------------------------------------
(* Properties.                                                             *)

(***************************************************************************)
(* A client that alone writes a key can rely on its replies: the key holds *)
(* the value of its last write answered +OK, or that of a later write it   *)
(* has no answer for; through disconnects, shutdown, kills and restarts.   *)
(***************************************************************************)
AckedStored == \A c \in Conns : store[Own[c]] \in doubt[c]

(***************************************************************************)
(* A client reads its own writes: the answer to a GET of its own key is a  *)
(* value that its replies leave possible, until shutdown has closed the    *)
(* store, when a running GET may be answered anything.                     *)
(***************************************************************************)
ReadYourWrites ==
    \A c \in Conns :
        call[c].op = "answered" /\ req[c].key = Own[c] /\ phase # "closed" =>
            call[c].val \in doubt[c]

(***************************************************************************)
(* The reply a handler is about to write is for the oldest request its     *)
(* client waits for: blank lines, refused and malformed requests and       *)
(* pipelining never shift replies against requests.                        *)
(***************************************************************************)
RepliesInStep ==
    \A c \in Conns :
        conn[c] = "reply" /\ ~eof[c] => sent[c] # <<>> /\ Head(sent[c]) = req[c]

(***************************************************************************)
(* After a signal the process ends, whatever the clients do: idle and      *)
(* silent connections do not hold it up.                                   *)
(***************************************************************************)
ShutdownEnds == signal = "pending" ~> main = "down"

(***************************************************************************)
(* No request waits for ever: a client that stops sending gets all its     *)
(* answers, or learns that the connection is closed; a silent client does  *)
(* not stop another's.                                                     *)
(***************************************************************************)
AlwaysAnswered == \A c \in Conns : sent[c] # <<>> ~> sent[c] = <<>>
=============================================================================
