------------------------------ MODULE LLMStream ------------------------------
(***************************************************************************)
(* One streamed completion of a provider: the server writes its reply to   *)
(* the body, readStream (a goroutine) turns wire events into stream events *)
(* on a bounded channel, and a reader collects them.  The five dialects    *)
(* are the operators of their own modules.                                 *)
(*                                                                         *)
(* The server may cut the body short, cleanly or with an error, in the     *)
(* middle of an event too, and send events nobody can parse.  The caller   *)
(* may cancel its context, and stop reading, at any time.                  *)
(***************************************************************************)
EXTENDS LLMProviders, SSE

CONSTANTS
    Replies,   \* what a server may answer: blocks in pieces, and the finish reason
    Capacity   \* of the event channel; 64 in the code

\* "server" is a call of a tool the server runs itself, as a web search, and
\* "result" what that gave.
ServerSide == {"server", "result"}
Kinds      == {"thinking", "text", "call"} \union ServerSide

\* The field that holds a thinking block's text in a whole message.
Fields == {"text", "thinking"}

ASSUME StreamAssumption ==
    /\ Capacity \in Nat \ {0}
    /\ \A r \in Replies : r.blocks \in Seq([kind : Kinds, id : STRING, name : STRING, pieces : Seq(Seq(STRING)),
                                            signature : STRING, field : Fields])

VARIABLES
    dialect,   \* the provider; fixed
    reply,     \* what the server answers; fixed
    progress,  \* pieces written of each block; -1 before it is opened
    closed,    \* blocks written to their end
    server,    \* "writing", "finished", or how the body was cut: "eof", "failed"
    body,      \* what was written and not read: lines, or frames
    pc,        \* where readStream stands
    parser,    \* what readStream keeps between events
    out,       \* events readStream has yet to send
    over,      \* readStream returns when they are sent
    channel,   \* the event channel
    seen,      \* events the reader has received
    reading,   \* the reader still receives
    cancelled  \* the caller's context is done

serving == <<progress, closed, server>>
stream  == <<pc, parser, out, over>>
vars    == <<dialect, reply, serving, body, stream, channel, seen, reading, cancelled>>

Blocks == DOMAIN reply.blocks

-----------------------------------------------------------------------------
(* The dialects side by side. *)

Opening(i) == LET b == reply.blocks IN
    CASE dialect = "compat"    -> CompatD!Opening(b, i)
      [] dialect = "anthropic" -> AnthropicD!Opening(b, i)
      [] dialect = "bedrock"   -> BedrockD!Opening(b, i)
      [] dialect = "gemini"    -> GeminiD!Opening(b, i)
      [] dialect = "responses" -> ResponsesD!Opening(b, i)

Piece(i, text) == LET b == reply.blocks IN
    CASE dialect = "compat"    -> CompatD!Piece(b, i, text)
      [] dialect = "anthropic" -> AnthropicD!Piece(b, i, text)
      [] dialect = "bedrock"   -> BedrockD!Piece(b, i, text)
      [] dialect = "gemini"    -> GeminiD!Piece(b, i, text)
      [] dialect = "responses" -> ResponsesD!Piece(b, i, text)

Closing(i) == LET b == reply.blocks IN
    CASE dialect = "compat"    -> CompatD!Closing(b, i)
      [] dialect = "anthropic" -> AnthropicD!Closing(b, i)
      [] dialect = "bedrock"   -> BedrockD!Closing(b, i)
      [] dialect = "gemini"    -> GeminiD!Closing(b, i)
      [] dialect = "responses" -> ResponsesD!Closing(b, i)

Ending == LET b == reply.blocks IN
    CASE dialect = "compat"    -> CompatD!Ending(b, reply.finish)
      [] dialect = "anthropic" -> AnthropicD!Ending(b, reply.finish)
      [] dialect = "bedrock"   -> BedrockD!Ending(b, reply.finish)
      [] dialect = "gemini"    -> GeminiD!Ending(b, reply.finish)
      [] dialect = "responses" -> ResponsesD!Ending(b, reply.finish)

NewStream ==
    CASE dialect = "bedrock"   -> BedrockD!NewStream
      [] dialect = "responses" -> ResponsesD!NewStream
      [] OTHER                 -> <<>>

ReadStream(e) ==
    CASE dialect = "compat"    -> CompatD!ReadStream(parser, e)
      [] dialect = "anthropic" -> AnthropicD!ReadStream(parser, e)
      [] dialect = "bedrock"   -> BedrockD!ReadStream(parser, e)
      [] dialect = "gemini"    -> GeminiD!ReadStream(parser, e)
      [] dialect = "responses" -> ResponsesD!ReadStream(parser, e)

StreamEnded(failed) ==
    CASE dialect = "compat"    -> CompatD!StreamEnded(parser, failed)
      [] dialect = "anthropic" -> AnthropicD!StreamEnded(parser, failed)
      [] dialect = "bedrock"   -> BedrockD!StreamEnded(parser, failed)
      [] dialect = "gemini"    -> GeminiD!StreamEnded(parser, failed)
      [] dialect = "responses" -> ResponsesD!StreamEnded(parser, failed)

\* What Complete would have returned for the same reply, or for one without
\* results of server tools (see Undecodable).
Complete == LET b == reply.blocks IN
    CASE dialect = "compat"    -> CompatD!ParseResponse(b, reply.finish)
      [] dialect = "anthropic" -> AnthropicD!ParseResponse(b, reply.finish)
      [] dialect = "bedrock"   -> BedrockD!ParseResponse(b, reply.finish)
      [] dialect = "gemini"    -> GeminiD!ParseResponse(b, reply.finish)
      [] dialect = "responses" -> ResponsesD!ParseResponse(b, reply.finish)

\* Dialects whose events name their block, so that blocks may overlap.
Indexed == dialect \in {"compat", "bedrock", "responses"}

\* Sending without a look at the context.
NeverGivesUp == FALSE

\* Only the Responses client looks at the context while it sends, and only
\* the others look at it before they read.
SendsUntilCancelled == dialect = "responses"
ChecksContext == dialect # "responses"

-----------------------------------------------------------------------------
(* The server, which is external.  It writes when all before was read. *)

Write(events) ==
    body' = IF dialect = "bedrock" THEN events
            ELSE FlattenSeq([i \in DOMAIN events |-> Written(events[i])])

Serving == server = "writing" /\ body = <<>>

OpenBlock(i) ==
    /\ Serving /\ progress[i] = -1
    /\ \A j \in Blocks : j < i => progress[j] # -1 /\ (Indexed \/ j <= closed)
    /\ progress' = [progress EXCEPT ![i] = 0]
    /\ Write(Opening(i))
    /\ UNCHANGED <<dialect, reply, closed, server, stream, channel, seen, reading, cancelled>>

SendPiece(i) ==
    /\ Serving /\ progress[i] \in 0..(Len(reply.blocks[i].pieces) - 1)
    /\ progress' = [progress EXCEPT ![i] = @ + 1]
    /\ Write(Piece(i, reply.blocks[i].pieces[progress[i] + 1]))
    /\ UNCHANGED <<dialect, reply, closed, server, stream, channel, seen, reading, cancelled>>

CloseBlock(i) ==
    /\ Serving /\ i = closed + 1 /\ progress[i] = Len(reply.blocks[i].pieces)
    /\ closed' = i
    /\ Write(Closing(i))
    /\ UNCHANGED <<dialect, reply, progress, server, stream, channel, seen, reading, cancelled>>

Finish ==
    /\ Serving /\ closed = Len(reply.blocks)
    /\ server' = "finished"
    /\ Write(Ending)
    /\ UNCHANGED <<dialect, reply, progress, closed, stream, channel, seen, reading, cancelled>>

\* The body ends early, perhaps in the middle of an event.
Cut(how, tail) ==
    /\ Serving
    /\ server' = how
    /\ body' = tail
    /\ UNCHANGED <<dialect, reply, progress, closed, stream, channel, seen, reading, cancelled>>

\* What is left of an event that was cut: a line, or a frame, that is not whole.
Torn == IF dialect = "bedrock" THEN {<<[BedrockD!Frame("event", "", "") EXCEPT !.whole = FALSE]>>}
        ELSE {<<Line("data", [type |-> "junk"])>>}

\* The server gives up in mid-reply and says so, and the body ends.
Refusal ==
    CASE dialect = "compat"  -> [CompatD!Chunk EXCEPT !.choices = FALSE]
      [] dialect = "bedrock" -> BedrockD!Frame("exception", "", "")
      [] dialect = "gemini"  -> [GeminiD!Chunk(<<>>, "") EXCEPT !.candidates = FALSE]
      [] OTHER               -> [type |-> "error"]

Fail ==
    /\ Serving
    /\ server' = "eof"
    /\ Write(<<Refusal>>)
    /\ UNCHANGED <<dialect, reply, progress, closed, stream, channel, seen, reading, cancelled>>

-----------------------------------------------------------------------------
(* The goroutine. *)

\* After an event: send what it gave, or return, or go on reading.
Proceed(events, last) ==
    /\ out' = events /\ over' = last
    /\ pc' = CASE events # <<>> -> "send"
              [] events = <<>> /\ last -> "closed"
              [] OTHER -> IF ChecksContext THEN "check" ELSE "next"

\* select { case <-ctx.Done(): return; default: }
CheckContext ==
    /\ pc = "check"
    /\ pc' = IF cancelled THEN "closed" ELSE "next"
    /\ UNCHANGED <<dialect, reply, serving, body, parser, out, over, channel, seen, reading, cancelled>>

\* The next event of the body is there: reader.Next, or dec.Next.
Ended == server # "writing"
Ready == IF dialect = "bedrock" THEN body # <<>> ELSE HasEvent(body) \/ (Ended /\ DataLines(body) # {})

ReadEvent ==
    /\ pc = "next" /\ Ready
    /\ LET e == IF dialect = "bedrock" THEN Head(body) ELSE NextEvent(body).data
           r == ReadStream(e)
       IN parser' = r.state /\ Proceed(r.events, r.over)
    /\ body' = IF dialect = "bedrock" THEN Tail(body) ELSE NextEvent(body).rest
    /\ UNCHANGED <<dialect, reply, serving, channel, seen, reading, cancelled>>

\* No more events.  A cancelled context fails the body, too.
EndOfBody(failed) ==
    /\ pc = "next" /\ ~Ready
    /\ IF failed THEN server = "failed" \/ cancelled ELSE server \in {"eof", "finished"}
    /\ Proceed(StreamEnded(failed), TRUE)
    /\ UNCHANGED <<dialect, reply, serving, body, parser, channel, seen, reading, cancelled>>

Send ==
    /\ pc = "send" /\ Len(channel) < Capacity
    /\ channel' = Append(channel, Head(out))
    /\ Proceed(Tail(out), over)
    /\ UNCHANGED <<dialect, reply, serving, body, parser, seen, reading, cancelled>>

GiveUpSend ==
    /\ pc = "send" /\ cancelled /\ SendsUntilCancelled
    /\ pc' = "closed" /\ out' = <<>>
    /\ UNCHANGED <<dialect, reply, serving, body, parser, over, channel, seen, reading, cancelled>>

-----------------------------------------------------------------------------
(* The reader, and the caller's context. *)

Receive ==
    /\ reading /\ channel # <<>>
    /\ seen' = Append(seen, Head(channel))
    /\ channel' = Tail(channel)
    /\ UNCHANGED <<dialect, reply, serving, body, stream, reading, cancelled>>

StopReading ==
    /\ reading /\ pc # "closed"
    /\ reading' = FALSE
    /\ UNCHANGED <<dialect, reply, serving, body, stream, channel, seen, cancelled>>

Cancel ==
    /\ ~cancelled /\ pc # "closed"
    /\ cancelled' = TRUE
    /\ UNCHANGED <<dialect, reply, serving, body, stream, channel, seen, reading>>

\* Two dialects hear of server tools in blocks of their own.
RunsServerTools == dialect \in {"anthropic", "responses"}

Init ==
    /\ dialect \in Dialects /\ reply \in Replies
    /\ \A i \in Blocks : reply.blocks[i].kind \in ServerSide => RunsServerTools
    /\ progress = [i \in Blocks |-> -1] /\ closed = 0 /\ server = "writing" /\ body = <<>>
    /\ pc = (IF ChecksContext THEN "check" ELSE "next") /\ parser = NewStream /\ out = <<>> /\ over = FALSE
    /\ channel = <<>> /\ seen = <<>> /\ reading = TRUE /\ cancelled = FALSE

Serve ==
    \/ \E i \in Blocks : OpenBlock(i) \/ SendPiece(i) \/ CloseBlock(i)
    \/ Finish
    \/ \E how \in {"eof", "failed"}, tail \in Torn \union {<<>>} : Cut(how, tail)
    \/ Fail

ReadOn ==
    \/ CheckContext
    \/ ReadEvent
    \/ \E failed \in BOOLEAN : EndOfBody(failed)
    \/ Send
    \/ GiveUpSend

Next ==
    \/ Serve
    \/ ReadOn
    \/ Receive
    \/ StopReading
    \/ Cancel

(***************************************************************************)
(* The goroutine runs, a server that stays writes or ends its reply, and a *)
(* reader that stays receives.  Nothing makes anybody cancel or leave.     *)
(***************************************************************************)
Spec ==
    /\ Init /\ [][Next]_vars
    /\ WF_vars(Serve) /\ WF_vars(ReadOn) /\ WF_vars(Receive)

-----------------------------------------------------------------------------
(* Properties. *)

Of(type) == SelectSeq(seen, LAMBDA ev : ev.type = type)

Collected == Response(FoldLeft(Add, NewAccumulator, seen))

\* The stream was read to its end, and the end was success.
ReadToDone == pc = "closed" /\ channel = <<>> /\ Of("done") # <<>>

\* Arguments as JSON: without blanks, and no arguments are an empty object.
SameArguments(a, b) ==
    LET json(x) == IF x \in {<<>>, <<"null">>} THEN Object ELSE Marshal(x) IN json(a) = json(b)

\* The k-th call when a server tool's arguments come behind it: the Anthropic
\* reader does not look at the index of a block, and gives them to the last
\* call it knows (anthropic.go:201).
Disturbed(k) ==
    /\ dialect = "anthropic"
    /\ \E j \in Blocks :
          /\ reply.blocks[j].kind = "server" /\ FlattenSeq(reply.blocks[j].pieces) # <<>>
          /\ Cardinality({i \in 1..j : reply.blocks[i].kind = "call"}) = k

SameCall(k) == LET a == Collected.calls[k]
                   b == Complete.calls[k]
               IN /\ a.id = b.id /\ a.name = b.name /\ a.metadata = b.metadata
                  /\ Disturbed(k) \/ SameArguments(a.arguments, b.arguments)

\* Structured output comes as a call of this tool in two dialects, which only
\* Complete turns into content.
Structured == dialect \in {"anthropic", "bedrock"} /\ \E i \in Blocks : reply.blocks[i].name = "structured_output"

\* A message with results of a server tool, which are a list where contentBlock
\* has a string (types.go:47): Anthropic's Complete fails to decode it.
Undecodable == dialect = "anthropic" /\ \E i \in Blocks : reply.blocks[i].kind = "result"

\* Thinking that Anthropic's Complete does not see: it reads the block's text,
\* which is where a whole message may have it, or not (anthropic.go:397).
Unseen == dialect = "anthropic"
          /\ \E i \in Blocks : reply.blocks[i].kind = "thinking" /\ reply.blocks[i].field # "text"

(***************************************************************************)
(* Collecting a stream (CollectStream, stream.go) gives what Complete      *)
(* gives for the same reply: the text, the reasoning and the calls with    *)
(* their metadata, however the reply was split, interleaved and mixed with *)
(* events to be skipped (compat.go:218, responses.go:555).  Left out is    *)
(* what the Anthropic client reads differently, or not at all: structured  *)
(* output, which Bedrock reads so, too; results of server tools; thinking  *)
(* that is not in a whole message's text; and the arguments of a call      *)
(* behind which a server tool's come.                                      *)
(***************************************************************************)
StreamMatchesComplete ==
    ReadToDone /\ server = "finished" /\ ~Structured /\ ~Undecodable =>
        /\ Collected.content = Complete.content
        /\ Unseen \/ Collected.thinking = Complete.thinking
        /\ DOMAIN Collected.calls = DOMAIN Complete.calls
        /\ \A k \in DOMAIN Complete.calls : SameCall(k)

Fragments(k) == FlattenSeq([i \in DOMAIN Of("tool_call_delta") |->
    LET d == Of("tool_call_delta")[i].value IN IF d.index = k - 1 THEN d.arguments ELSE <<>>])

(***************************************************************************)
(* A caller may run a tool call as soon as its event arrives               *)
(* (EventToolCall, stream.go): it is one of the reply, whole, and the      *)
(* fragments shown before add up to it.  (The compat reader hands out what *)
(* it has when a body ends early, compat.go:262; and where a server tool   *)
(* is called behind a call, the Anthropic reader adds the arguments of the *)
(* one to those of the other, anthropic.go:203: of that call only the      *)
(* identifier and the name are claimed, and what the fragments add up to.) *)
(***************************************************************************)
CallsAreWhole ==
    \A k \in DOMAIN Collected.calls :
        /\ dialect # "gemini" => Fragments(k) = Collected.calls[k].arguments
        /\ (dialect # "compat" \/ server = "finished") /\ ~Structured =>
              k \in DOMAIN Complete.calls /\ SameCall(k)

(***************************************************************************)
(* A stream ends with one done or error event and nothing behind it, and   *)
(* is not closed without one unless the caller cancelled (readStream of    *)
(* every dialect, gemini.go:230).  The Responses client says done only of  *)
(* a reply that the server finished (responses.go:576).                    *)
(***************************************************************************)
EndIsTold ==
    LET sent == seen \o channel IN
    /\ \A i \in DOMAIN sent : Final(sent[i]) => i = Len(sent) /\ pc = "closed"
    /\ pc = "closed" => cancelled \/ (sent # <<>> /\ Final(Last(sent)))
    /\ dialect = "responses" /\ (\E i \in DOMAIN seen : seen[i].type = "done") => server = "finished"

(***************************************************************************)
(* The goroutine of readStream ends, and with it the channel and the       *)
(* connection, when the reader reads on; with the Responses client also    *)
(* when the reader left and the context is cancelled (responses.go:495).   *)
(***************************************************************************)
StreamEnds ==
    /\ <>(pc = "closed" \/ ~reading)
    /\ (dialect = "responses" /\ cancelled) ~> pc = "closed"
=============================================================================
