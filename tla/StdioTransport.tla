--------------------------- MODULE StdioTransport ---------------------------
(***************************************************************************)
(* The MCP stdio transport (src/mcp/transport_stdio.go): calls that wait   *)
(* for the answer with their id, the reader goroutine that hands answers   *)
(* out, the goroutines that serve the server's own requests, and close.    *)
(*                                                                         *)
(* The server is external: it reads its stdin when it likes, answers what  *)
(* it has read in any order and as often as it likes, sends requests and   *)
(* lines that are not for us, and may exit at any time.  Pipes are bounded *)
(* queues of whole lines: writeMu keeps a line in one piece, and a writer  *)
(* that finds the pipe full waits, whatever its context says.              *)
(***************************************************************************)
EXTENDS Naturals, Sequences, FiniteSets

CONSTANTS
    Caller,       \* calls of call()
    Nobody,       \* a model value that is no call
    StdinSize,    \* bound: lines the pipe to the server holds
    StdoutSize,   \* bound: lines the pipe from the server holds
    MaxHandlers   \* bound: server requests being handled at once

ASSUME StdioAssumption ==
    /\ IsFiniteSet(Caller) /\ Nobody \notin Caller
    /\ {StdinSize, StdoutSize} \subseteq Nat \ {0}
    /\ MaxHandlers \in Nat

ID == 1..Cardinality(Caller)

VARIABLES
    nextID,    \* nextID
    id,        \* the id each call took, 0 before
    caller,    \* where each call is
    ctx,       \* calls whose context is done
    pending,   \* pending: the call whose channel is kept under each id
    buffer,    \* the answer in each call's channel (its id), 0 when empty
    closed,    \* calls whose channel has been closed
    outcome,   \* how each call returned
    got,       \* the id of the answer a call returned with
    holding,   \* the reader's ch and id between mu.Unlock and the send
    stopped,   \* the reader has stopped: err is set and done is closed
    handling,  \* server requests whose handler has not written its reply
    closing,   \* how far close() is
    stdin,     \* lines written and not yet read by the server
    stdout,    \* lines the server wrote and the reader has not read
    received,  \* ids of the requests the server has read
    alive,     \* the server process runs
    eof        \* the server has closed its stdout

calls  == <<nextID, id, caller, ctx, outcome, got>>
reader == <<holding, stopped>>
server == <<stdout, received, alive, eof>>
stdioVars   == <<calls, pending, buffer, closed, reader, handling, closing, stdin, server>>

\* A line in a pipe; i is 0 where the id is not one of ours.
Line(kind, i) == [kind |-> kind, id |-> i]

ToServer   == [kind : {"request", "cancelled"}, id : ID] \cup [kind : {"reply", "notify"}, id : {0}]
FromServer == [kind : {"answer"}, id : ID] \cup [kind : {"ask", "other"}, id : {0}]

NothingHeld == [call |-> Nobody, id |-> 0]

-----------------------------------------------------------------------------
(* write.  It fails once stdin is closed or nobody is left to read. *)

Broken == closing # "no" \/ ~alive

Write(line) == ~Broken /\ Len(stdin) < StdinSize /\ stdin' = Append(stdin, line)

-----------------------------------------------------------------------------
(* call. *)

Return(c, how) == /\ caller' = [caller EXCEPT ![c] = "returned"]
                  /\ outcome' = [outcome EXCEPT ![c] = how]

ReusedID == Cardinality({i \in ID : pending[i] # Nobody}) + 1

\* nextID.Add(1).
FreshID == nextID + 1

NeverRefused == FALSE

\* t.err # nil, read under mu.
Refused == stopped

TakeID(c) ==
    /\ caller[c] = "idle"
    /\ nextID' = nextID + 1 /\ id' = [id EXCEPT ![c] = FreshID]
    /\ IF Refused
       THEN Return(c, "exited") /\ UNCHANGED pending
       ELSE /\ pending' = [pending EXCEPT ![FreshID] = c]
            /\ caller' = [caller EXCEPT ![c] = "writing"]
            /\ UNCHANGED outcome
    /\ UNCHANGED <<ctx, got, buffer, closed, reader, handling, closing, stdin, server>>

forget(c) == pending' = [pending EXCEPT ![id[c]] = Nobody]

WriteRequest(c) ==
    /\ caller[c] = "writing"
    /\ Write(Line("request", id[c]))
    /\ caller' = [caller EXCEPT ![c] = "waiting"]
    /\ UNCHANGED <<nextID, id, ctx, outcome, got, pending, buffer, closed, reader, handling,
                   closing, server>>

WriteFails(c) ==
    /\ caller[c] = "writing" /\ Broken
    /\ forget(c) /\ Return(c, "failed")
    /\ UNCHANGED <<nextID, id, ctx, got, buffer, closed, reader, handling, closing, stdin, server>>

\* <-ch with a response in it: a result or an RPC error.
TakeAnswer(c) ==
    /\ caller[c] = "waiting" /\ buffer[c] # 0
    /\ buffer' = [buffer EXCEPT ![c] = 0] /\ got' = [got EXCEPT ![c] = buffer[c]]
    /\ Return(c, "answered")
    /\ UNCHANGED <<nextID, id, ctx, pending, closed, reader, handling, closing, stdin, server>>

\* <-ch with the channel closed and empty: the reader stopped.
TakeClosed(c) ==
    /\ caller[c] = "waiting" /\ c \in closed /\ buffer[c] = 0
    /\ Return(c, "exited")
    /\ UNCHANGED <<nextID, id, ctx, got, pending, buffer, closed, reader, handling, closing, stdin,
                   server>>

\* <-ctx.Done(), which may win against an answer that is there too.
GiveUp(c) ==
    /\ caller[c] = "waiting" /\ c \in ctx
    /\ forget(c)
    /\ caller' = [caller EXCEPT ![c] = "cancelling"]
    /\ UNCHANGED <<nextID, id, ctx, outcome, got, buffer, closed, reader, handling, closing, stdin,
                   server>>

\* notifications/cancelled, its error ignored.
SendCancelled(c) ==
    /\ caller[c] = "cancelling"
    /\ Write(Line("cancelled", id[c])) \/ (Broken /\ UNCHANGED stdin)
    /\ Return(c, "cancelled")
    /\ UNCHANGED <<nextID, id, ctx, got, pending, buffer, closed, reader, handling, closing, server>>

\* notify.
Notify ==
    /\ Write(Line("notify", 0))
    /\ UNCHANGED <<calls, pending, buffer, closed, reader, handling, closing, server>>

CancelContext(c) ==
    /\ c \notin ctx /\ caller[c] \in {"writing", "waiting"}
    /\ ctx' = ctx \cup {c}
    /\ UNCHANGED <<nextID, id, caller, outcome, got, pending, buffer, closed, reader, handling,
                   closing, stdin, server>>

-----------------------------------------------------------------------------
(* The reader: read, dispatch and the handlers it starts. *)

\* cmd.Wait has closed our end of the server's stdout.
PipeClosed == closing \in {"reaped", "closed"}

HandlesInline == ~stopped /\ holding = NothingHeld /\ stdout # <<>> /\ ~PipeClosed /\ handling = 0

Reading == ~stopped /\ holding = NothingHeld /\ stdout # <<>> /\ ~PipeClosed

\* delete(t.pending, id).
Dispatched(i) == pending' = [pending EXCEPT ![i] = Nobody]

DispatchAnswer ==
    LET i == Head(stdout).id IN
    /\ Reading /\ Head(stdout).kind = "answer"
    /\ stdout' = Tail(stdout)
    /\ Dispatched(i)
    /\ holding' = IF pending[i] = Nobody THEN holding ELSE [call |-> pending[i], id |-> i]
    /\ UNCHANGED <<calls, buffer, closed, stopped, handling, closing, stdin, received, alive, eof>>

\* ch <- response, into a buffer of one.
HandOver ==
    /\ holding # NothingHeld /\ buffer[holding.call] = 0
    /\ buffer' = [buffer EXCEPT ![holding.call] = holding.id]
    /\ holding' = NothingHeld
    /\ UNCHANGED <<calls, pending, closed, stopped, handling, closing, stdin, server>>

\* A request of the server, handled off the reader goroutine.
DispatchRequest ==
    /\ Reading /\ Head(stdout).kind = "ask"
    /\ stdout' = Tail(stdout) /\ handling' = handling + 1
    /\ UNCHANGED <<calls, pending, buffer, closed, reader, closing, stdin, received, alive, eof>>

\* A notification, a line that is not JSON-RPC, an answer whose id is no number.
DispatchOther ==
    /\ Reading /\ Head(stdout).kind = "other"
    /\ stdout' = Tail(stdout)
    /\ UNCHANGED <<calls, pending, buffer, closed, reader, handling, closing, stdin, received, alive, eof>>

\* The handler returned and its reply is written, an error ignored.
Reply ==
    /\ handling > 0 /\ handling' = handling - 1
    /\ Write(Line("reply", 0)) \/ (Broken /\ UNCHANGED stdin)
    /\ UNCHANGED <<calls, pending, buffer, closed, reader, closing, server>>

\* Nothing more will be written to the server's stdout.
NoMore == ~alive \/ eof

\* Nothing more can be read: set err, close every pending channel, close done.
ReaderStops ==
    /\ ~stopped /\ holding = NothingHeld
    /\ PipeClosed \/ (NoMore /\ stdout = <<>>)
    /\ stopped' = TRUE
    /\ closed' = closed \cup {c \in Caller : \E i \in ID : pending[i] = c}
    /\ pending' = [i \in ID |-> Nobody]
    /\ UNCHANGED <<calls, buffer, holding, handling, closing, stdin, server>>

-----------------------------------------------------------------------------
(* close. *)

CloseStdin ==
    /\ closing = "no"
    /\ closing' = "waiting"
    /\ UNCHANGED <<calls, pending, buffer, closed, reader, handling, stdin, server>>

\* stopGrace is over and the server still runs.
Kill ==
    /\ closing = "waiting" /\ alive
    /\ alive' = FALSE
    /\ UNCHANGED <<calls, pending, buffer, closed, reader, handling, closing, stdin, stdout, received,
                   eof>>

\* cmd.Wait returns.
Reap ==
    /\ closing = "waiting" /\ ~alive
    /\ closing' = "reaped"
    /\ UNCHANGED <<calls, pending, buffer, closed, reader, handling, stdin, server>>

\* <-t.done.
CloseReturns ==
    /\ closing = "reaped" /\ stopped
    /\ closing' = "closed"
    /\ UNCHANGED <<calls, pending, buffer, closed, reader, handling, stdin, server>>

-----------------------------------------------------------------------------
(* The server process. *)

ServerReads ==
    /\ alive /\ stdin # <<>>
    /\ stdin' = Tail(stdin)
    /\ received' = received \cup (IF Head(stdin).kind = "request" THEN {Head(stdin).id} ELSE {})
    /\ UNCHANGED <<calls, pending, buffer, closed, reader, handling, closing, stdout, alive, eof>>

Emits(line) ==
    /\ ~NoMore /\ Len(stdout) < StdoutSize
    /\ stdout' = Append(stdout, line)
    /\ UNCHANGED <<calls, pending, buffer, closed, reader, handling, closing, stdin, received, alive, eof>>

ServerAnswers == \E i \in received : Emits(Line("answer", i))

ServerAsks == handling < MaxHandlers /\ Emits(Line("ask", 0))

ServerChatters == Emits(Line("other", 0))

ServerClosesStdout ==
    /\ ~NoMore
    /\ eof' = TRUE
    /\ UNCHANGED <<calls, pending, buffer, closed, reader, handling, closing, stdin, stdout, received,
                   alive>>

ServerExits ==
    /\ alive
    /\ alive' = FALSE
    /\ UNCHANGED <<calls, pending, buffer, closed, reader, handling, closing, stdin, stdout, received,
                   eof>>

-----------------------------------------------------------------------------
StdioInit ==
    /\ nextID = 0 /\ id = [c \in Caller |-> 0]
    /\ caller = [c \in Caller |-> "idle"] /\ ctx = {}
    /\ outcome = [c \in Caller |-> "none"] /\ got = [c \in Caller |-> 0]
    /\ pending = [i \in ID |-> Nobody]
    /\ buffer = [c \in Caller |-> 0] /\ closed = {}
    /\ holding = NothingHeld /\ stopped = FALSE
    /\ handling = 0 /\ closing = "no"
    /\ stdin = <<>> /\ stdout = <<>> /\ received = {} /\ alive = TRUE /\ eof = FALSE

Writes(c) == WriteRequest(c) \/ WriteFails(c) \/ SendCancelled(c)

Waits(c) == TakeAnswer(c) \/ TakeClosed(c) \/ GiveUp(c)

Read == DispatchAnswer \/ HandOver \/ DispatchRequest \/ DispatchOther \/ ReaderStops

Close == Kill \/ Reap \/ CloseReturns

Server == \/ ServerReads \/ ServerAnswers \/ ServerAsks \/ ServerChatters
          \/ ServerClosesStdout \/ ServerExits

StdioNext ==
    \/ \E c \in Caller : TakeID(c) \/ Writes(c) \/ Waits(c) \/ CancelContext(c)
    \/ Notify \/ Read \/ Reply \/ CloseStdin \/ Close \/ Server

StdioSpec == StdioInit /\ [][StdioNext]_stdioVars

\* The goroutines of the transport run; sync.Mutex lets every writer have its
\* turn.  Handlers may never return, and nothing is asked of the server but
\* to read its stdin.
StdioFairSpec ==
    /\ StdioSpec
    /\ \A c \in Caller : SF_stdioVars(Writes(c)) /\ WF_stdioVars(Waits(c))
    /\ WF_stdioVars(Read) /\ WF_stdioVars(Close)
    /\ WF_stdioVars(ServerReads)

-----------------------------------------------------------------------------
(* Properties. *)

\* The transport's fields and goroutines are in a state the code can be in.
TypeOK ==
    /\ nextID \in Nat /\ id \in [Caller -> {0} \cup ID]
    /\ caller \in [Caller -> {"idle", "writing", "waiting", "cancelling", "returned"}]
    /\ ctx \subseteq Caller /\ closed \subseteq Caller
    /\ outcome \in [Caller -> {"none", "answered", "exited", "failed", "cancelled"}]
    /\ pending \in [ID -> Caller \cup {Nobody}]
    /\ buffer \in [Caller -> {0} \cup ID] /\ got \in [Caller -> {0} \cup ID]
    /\ holding \in [call : Caller, id : ID] \cup {NothingHeld}
    /\ {stopped, alive, eof} \subseteq BOOLEAN /\ handling \in Nat
    /\ closing \in {"no", "waiting", "reaped", "closed"}
    /\ received \subseteq ID
    /\ stdin \in Seq(ToServer) /\ stdout \in Seq(FromServer)

\* A call returns the answer to its own request, one whose id no other call
\* has used, though answers come in any order, twice, or after the call they
\* are for was given up (transport_stdio.go:145).
OwnAnswer == \A c \in Caller :
    outcome[c] = "answered" => got[c] = id[c] /\ \A d \in Caller \ {c} : id[d] # got[c]

\* The reader never blocks on a call's channel and never sends on a closed one
\* (transport_stdio.go:150): every other call depends on it.
ReaderNeverBlocks ==
    holding # NothingHeld => buffer[holding.call] = 0 /\ holding.call \notin closed

\* A call that waits can be reached: it is pending while there is a reader, or
\* its answer or the end of the reader is on the way (transport_stdio.go:110,
\* transport_stdio.go:170).
NoOrphan == \A c \in Caller :
    caller[c] = "waiting" =>
      \/ pending[id[c]] = c /\ ~stopped
      \/ holding.call = c
      \/ buffer[c] # 0
      \/ c \in closed

\* A call that has returned leaves no entry behind (transport_stdio.go:180,
\* transport_stdio.go:197).
NoLeak == \A i \in ID : pending[i] # Nobody =>
    id[pending[i]] = i /\ caller[pending[i]] \in {"writing", "waiting"}

\* What should end call c: the server is gone, its context is done, or its
\* answer is on the wire.
Ending(c) ==
    \/ NoMore
    \/ c \in ctx
    \/ \E n \in 1..Len(stdout) : stdout[n] = Line("answer", id[c])

\* A call in flight returns when the server exits or its stdout ends
\* (transport_stdio.go:21), when its context is done, and when its answer
\* arrives, even while a handler waits on a human (transport_stdio.go:131).
CallEnds == \A c \in Caller :
    (caller[c] \in {"writing", "waiting"} /\ Ending(c)) ~> (caller[c] = "returned")

\* close() returns, whatever the server does (transport_stdio.go:214).
CloseEnds == (closing = "waiting") ~> (closing = "closed")

\* Nobody waits on the transport (transport_stdio.go:21) for ever.
WaitsEnd == CallEnds /\ CloseEnds
=============================================================================
