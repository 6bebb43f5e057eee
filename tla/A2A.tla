--------------------------------- MODULE A2A ---------------------------------
(***************************************************************************)
(* One request of an A2A client to an A2A server (src/a2a/client.go,       *)
(* server.go).  A call posts a JSON-RPC request and decodes the one        *)
(* answer.  A stream is a pipe: the task handler sends events on a         *)
(* channel, the HTTP handler writes them to the body, readStream (a        *)
(* goroutine of the client) classifies them and sends them on a channel to *)
(* the reader.                                                             *)
(*                                                                         *)
(* The network may break the connection, the client's HTTP timeout does,   *)
(* and the reader may leave: nothing else frees a stage that waits.        *)
(***************************************************************************)
EXTENDS SSE, SequencesExt

CONSTANTS
    Capacity,   \* of the channel on each side; 64 in the code
    Window,     \* events the connection holds before a write blocks
    MaxEvents   \* the task handler sends

ASSUME A2AAssumption == {Capacity, Window, MaxEvents} \subseteq Nat \ {0}

VARIABLES
    method,   \* of the request
    server,   \* the HTTP handler: "dispatch", "range", "returned"
    task,     \* the task handler: "idle", "running", "done"
    told,     \* what the task handler said: its events, or its one answer
    events,   \* channel of the task handler
    body,     \* written and not read
    whole,    \* nothing was lost with the connection
    linked,   \* the connection stands
    client,   \* "waiting" for the response, "next" or "send" in readStream, "closed"
    out,      \* event readStream sends, <<>> for none
    over,     \* readStream returns once it is sent
    channel,  \* to the reader
    seen,     \* events, or the answer, the caller has received
    reading   \* the caller still receives

remote == <<server, task, told, events>>
local  == <<client, out, over, channel, seen>>
vars   == <<method, remote, body, whole, linked, local, reading>>

-----------------------------------------------------------------------------
(* What is sent. *)

(***************************************************************************)
(* A task handler's event: its type, and the JSON fields of its payload    *)
(* that readStream looks at.  A task without messages omits the field, and *)
(* an event of another type, or one whose payload is not set, is null.     *)
(***************************************************************************)
StreamEvents ==
    {[type |-> "status",   probe |-> {"status"}],
     [type |-> "artifact", probe |-> {"artifact"}],
     [type |-> "task",     probe |-> {"status", "messages"}],
     [type |-> "task",     probe |-> {"status"}],
     [type |-> "message",  probe |-> {}],
     [type |-> "error",    probe |-> {}]}

Internal == "internal"

\* The answers a task handler has for a call: a task, an error of this
\* package, which has a code, or some other error.
Answers == {[type |-> "task", code |-> ""], [type |-> "error", code |-> "not found"], [type |-> "error", code |-> ""]}

Result(probe)  == [type |-> "result", probe |-> probe, code |-> ""]
RPCError(code) == [type |-> "error", probe |-> {}, code |-> code]

\* The JSON-RPC response for an event of the stream.
Encoded(e) == IF e.type = "error" THEN RPCError(Internal) ELSE Result(e.probe)

\* writeError: an error of this package keeps its code.
WriteError(a) == RPCError(IF a.code = "" THEN Internal ELSE a.code)

\* A broken connection swallows what is written to it; nobody looks at the
\* error of a write.
Write(lines) == body' = IF linked THEN body \o lines ELSE body

EventLines(data) == <<Line("data", data), Line("", "")>>

\* What is there of a data line that was cut short: no JSON, and not [DONE].
Junk == [type |-> "junk"]

(***************************************************************************)
(* What a broken connection leaves of a body: its first lines, and perhaps *)
(* the beginning of the next one, which the scanner hands out as a line.   *)
(***************************************************************************)
Remains(lines) ==
    {SubSeq(lines, 1, n) : n \in 0..Len(lines)} \union
    {Append(SubSeq(lines, 1, i - 1), Line("data", Junk)) : i \in DataLines(lines)}

\* A write to a connection that is gone blocks, too.
NeedsConnection == linked /\ Cardinality(DataLines(body)) < Window

\* A write blocks while the connection is full.
CanWrite == ~linked \/ Cardinality(DataLines(body)) < Window

-----------------------------------------------------------------------------
(* The server. *)

\* A plain JSON answer: the request failed, or was a call.
Respond(response) ==
    /\ server' = "returned"
    /\ Write(<<Line("json", response)>>)
    /\ UNCHANGED <<method, events, whole, linked, local, reading>>

\* dispatch and the handlers: a request that cannot be read, or a stream that
\* the response writer cannot flush, is an error.
Refuse ==
    /\ server = "dispatch"
    /\ Respond(RPCError("refused"))
    /\ UNCHANGED <<task, told>>

\* handleSendMessage, handleGetTask, handleCancelTask.
HandleCall(a) ==
    /\ server = "dispatch" /\ method # "message/stream"
    /\ task' = "done" /\ told' = <<a>>
    /\ Respond(IF a.type = "error" THEN WriteError(a) ELSE Result({"status"}))

\* handleStreamMessage starts the task handler.
StartStream ==
    /\ server = "dispatch" /\ method = "message/stream"
    /\ server' = "range" /\ task' = "running"
    /\ UNCHANGED <<method, told, events, body, whole, linked, local, reading>>

\* The task handler, which is external: it sends, and closes its channel.
HandlerSends(e) ==
    /\ task = "running" /\ Len(told) < MaxEvents /\ Len(events) < Capacity
    /\ told' = Append(told, e) /\ events' = Append(events, e)
    /\ UNCHANGED <<method, server, task, body, whole, linked, local, reading>>

HandlerEnds ==
    /\ task = "running"
    /\ task' = "done"
    /\ UNCHANGED <<method, server, told, events, body, whole, linked, local, reading>>

\* One turn of the loop over the events; an error does not end it.
Forward ==
    /\ server = "range" /\ events # <<>> /\ CanWrite
    /\ Write(EventLines(Encoded(Head(events))))
    /\ events' = Tail(events)
    /\ UNCHANGED <<method, server, task, told, whole, linked, local, reading>>

WriteDone ==
    /\ server = "range" /\ task = "done" /\ events = <<>> /\ CanWrite
    /\ Write(EventLines([type |-> "[DONE]"]))
    /\ server' = "returned"
    /\ UNCHANGED <<method, task, told, events, whole, linked, local, reading>>

\* The network, a proxy or the client's timeout ends the connection, between
\* two events or inside one.
Disconnect == \E left \in Remains(body) :
    /\ linked
    /\ linked' = FALSE /\ body' = left
    /\ whole' = (whole /\ server = "returned" /\ left = body)
    /\ UNCHANGED <<method, remote, local, reading>>

-----------------------------------------------------------------------------
(* The client. *)

\* The client goes on, or closes the body, and with it the connection.
Go(label) ==
    /\ client' = label
    /\ UNCHANGED <<method, remote, whole, linked, reading>>

Hangup ==
    /\ client' = "closed" /\ linked' = FALSE /\ body' = <<>>
    /\ UNCHANGED <<method, remote, whole, reading>>

\* call: the answer, or an error when there is none.
CallEnds ==
    /\ client = "waiting" /\ method # "message/stream"
    /\ \/ body # <<>> /\ seen' = <<[type |-> body[1].value.type, code |-> body[1].value.code]>>
       \/ ~linked /\ seen' = <<[type |-> "failed", code |-> ""]>>
    /\ Hangup
    /\ UNCHANGED <<out, over, channel>>

\* StreamMessage has its response when the server has written something; a
\* connection that broke before is an error.
StreamMessage ==
    /\ client = "waiting" /\ method = "message/stream"
    /\ \/ body # <<>> /\ Go("next") /\ UNCHANGED <<body, seen>>
       \/ ~linked /\ Hangup /\ seen' = <<[type |-> "failed", code |-> ""]>>
    /\ UNCHANGED <<out, over, channel>>

\* Classifying by the presence of a status alone.
IgnoresMessages(probe) ==
    IF "artifact" \in probe THEN "artifact" ELSE IF "status" \in probe THEN "status" ELSE "none"

\* The type of a result is read off its fields.
Classify(probe) ==
    CASE "artifact" \in probe -> "artifact"
      [] {"status", "messages"} \subseteq probe /\ "artifact" \notin probe -> "task"
      [] "status" \in probe /\ "messages" \notin probe /\ "artifact" \notin probe -> "status"
      [] OTHER -> "none"

\* The event for data that is no JSON.
ParseError == [type |-> "error", code |-> "parse"]

\* What readStream does with an event: the event it sends, if any, and
\* whether it returns.
Read(data) ==
    CASE data.type = "[DONE]" -> [out |-> <<>>, over |-> TRUE]
      [] data.type = "junk"   -> [out |-> <<ParseError>>, over |-> TRUE]
      [] data.type = "error"  -> [out |-> <<[type |-> "error", code |-> data.code]>>, over |-> TRUE]
      [] OTHER -> [out |-> IF Classify(data.probe) = "none" THEN <<>>
                           ELSE <<[type |-> Classify(data.probe), code |-> ""]>>,
                   over |-> FALSE]

\* Nothing more comes.
NoMore == server = "returned" \/ ~linked

\* Reader.Next returns an event: at the end of the body the last one need not
\* be complete.
Readable == HasEvent(body) \/ (NoMore /\ NextEvent(body).ok)

ReadEvent ==
    /\ client = "next" /\ Readable
    /\ LET r == Read(NextEvent(body).data) IN
       /\ out' = r.out /\ over' = r.over
       /\ IF r.out = <<>> /\ r.over THEN Hangup
          ELSE Go(IF r.out = <<>> THEN "next" ELSE "send") /\ body' = NextEvent(body).rest
    /\ UNCHANGED <<channel, seen>>

\* The body is over, or failed: the channel is closed and nothing is said.
EndOfBody ==
    /\ client = "next" /\ ~Readable /\ NoMore
    /\ Hangup
    /\ UNCHANGED <<out, over, channel, seen>>

Send ==
    /\ client = "send" /\ Len(channel) < Capacity
    /\ channel' = channel \o out /\ out' = <<>>
    /\ IF over THEN Hangup ELSE Go("next") /\ UNCHANGED body
    /\ UNCHANGED <<over, seen>>

Receive ==
    /\ reading /\ channel # <<>>
    /\ seen' = Append(seen, Head(channel)) /\ channel' = Tail(channel)
    /\ UNCHANGED <<method, remote, body, whole, linked, client, out, over, reading>>

StopReading ==
    /\ reading /\ client # "closed" /\ method = "message/stream"
    /\ reading' = FALSE
    /\ UNCHANGED <<method, remote, body, whole, linked, local>>

-----------------------------------------------------------------------------
Init ==
    /\ method \in {"message/send", "message/stream", "tasks/get", "tasks/cancel"}
    /\ server = "dispatch" /\ task = "idle" /\ told = <<>> /\ events = <<>>
    /\ body = <<>> /\ whole = TRUE /\ linked = TRUE
    /\ client = "waiting" /\ out = <<>> /\ over = FALSE /\ channel = <<>> /\ seen = <<>> /\ reading = TRUE

Serve ==
    \/ Refuse
    \/ \E a \in Answers : HandleCall(a)
    \/ StartStream
    \/ Forward
    \/ WriteDone

Handle == HandlerEnds \/ \E e \in StreamEvents : HandlerSends(e)

ReadOn == CallEnds \/ StreamMessage \/ ReadEvent \/ EndOfBody \/ Send

Next == Serve \/ Handle \/ Disconnect \/ ReadOn \/ Receive \/ StopReading

(***************************************************************************)
(* Both sides run and a task handler that can go on does.  The client made *)
(* by NewClient has a timeout that covers the body, so no connection is    *)
(* for ever.                                                               *)
(***************************************************************************)
Spec ==
    /\ Init /\ [][Next]_vars
    /\ WF_vars(Serve) /\ WF_vars(Handle) /\ WF_vars(ReadOn) /\ WF_vars(Receive) /\ WF_vars(Disconnect)

-----------------------------------------------------------------------------
(* Properties. *)

\* What the caller is to see of an event: nothing of one without a payload,
\* and of a task without messages its status.
Shown(e) ==
    CASE e.type = "message" -> <<>>
      [] e.type = "error"   -> <<[type |-> "error", code |-> Internal]>>
      [] e.type = "task" /\ "messages" \notin e.probe -> <<[type |-> "status", code |-> ""]>>
      [] OTHER -> <<[type |-> e.type, code |-> ""]>>

\* An error ends what the caller sees, even if the task handler went on.
Due ==
    LET shown  == FlattenSeq([i \in DOMAIN told |-> Shown(told[i])])
        errors == {i \in DOMAIN shown : shown[i].type = "error"}
    IN IF errors = {} THEN shown ELSE SubSeq(shown, 1, Min(errors))

\* The beginning of Due, and behind it the error a broken connection makes.
TornOff(got) == got # <<>> /\ Last(got) = ParseError /\ IsPrefix(Front(got), Due)

(***************************************************************************)
(* What the caller receives is what the task handler said: of a stream     *)
(* (client.go:243) a prefix of its events, in order and with their types,  *)
(* and all of them when the connection held; of a call (client.go:171) its *)
(* task, its error with the code it had, or a failure to get either.  When *)
(* the connection breaks inside an event, sse.Reader returns the half of   *)
(* it (reader.go:64) and the caller is sent a last error that the task     *)
(* handler never sent (client.go:260), even when only the end of [DONE] is *)
(* missing.                                                                *)
(***************************************************************************)
AnswersArrive ==
    IF method = "message/stream"
    THEN LET got == seen \o channel \o out IN
         seen # <<[type |-> "failed", code |-> ""]>> =>
            /\ IsPrefix(got, Due) \/ (~whole /\ TornOff(got))
            /\ client = "closed" /\ whole /\ task = "done" => got = Due
    ELSE client = "closed" =>
            \/ seen[1].type = "result" /\ told # <<>> /\ told[1].type = "task"
            \/ seen[1].type = "error" /\ told # <<>> /\ told[1].type = "error"
               /\ seen[1].code = (IF told[1].code = "" THEN Internal ELSE told[1].code)
            \/ seen[1] = [type |-> "error", code |-> "refused"] /\ told = <<>>
            \/ seen[1].type = "failed"

(***************************************************************************)
(* Nobody on the server waits for ever, whatever the client does: a write  *)
(* to a connection that is gone does not stop the loop (server.go:140),    *)
(* which empties the channel the task handler sends on.  The client's      *)
(* goroutine ends when its reader reads on.                                *)
(***************************************************************************)
StreamsEnd ==
    /\ <>(server = "returned" /\ task # "running")
    /\ <>(client = "closed" \/ ~reading)
=============================================================================
