------------------------------- MODULE Compat --------------------------------
(***************************************************************************)
(* The OpenAI-compatible dialect (src/llm/compat/compat.go): reading a     *)
(* stream, parsing a response, and building a request.  Twenty providers   *)
(* are this dialect with another address.                                  *)
(***************************************************************************)
EXTENDS Completion

(* What a server sends for a response: blocks in order, each in pieces. *)

\* The position of block i among the calls of the response, from 0.
CallIndex(blocks, i) == Cardinality({j \in 1..(i - 1) : blocks[j].kind = "call"})

Chunk == [type |-> "chunk", choices |-> TRUE, reasoning |-> <<>>, content |-> <<>>,
          calls |-> <<>>, finish |-> "", usage |-> FALSE]

CallPart(index, id, name, arguments, signature) ==
    <<[index |-> index, id |-> id, name |-> name, arguments |-> arguments, signature |-> signature]>>

Opening(blocks, i) ==
    LET b == blocks[i] IN
    IF b.kind = "call"
    THEN <<[Chunk EXCEPT !.calls = CallPart(CallIndex(blocks, i), b.id, b.name, <<>>, b.signature)]>>
    ELSE <<>>

Piece(blocks, i, text) ==
    CASE blocks[i].kind = "thinking" -> <<[Chunk EXCEPT !.reasoning = text]>>
      [] blocks[i].kind = "text"     -> <<[Chunk EXCEPT !.content = text]>>
      [] OTHER -> <<[Chunk EXCEPT !.calls = CallPart(CallIndex(blocks, i), "", "", text, "")]>>

Closing(blocks, i) == <<>>

Ending(blocks, finish) ==
    <<[Chunk EXCEPT !.finish = finish, !.usage = TRUE], [Chunk EXCEPT !.choices = FALSE], [type |-> "[DONE]"]>>

-----------------------------------------------------------------------------
(* readStream.  Its state is pendingToolCalls. *)

NewStream == <<>>

\* Room for a call at an index the stream has not mentioned yet.
Grown(pending, index) ==
    [i \in 1..(IF index < Len(pending) THEN Len(pending) ELSE index + 1) |->
        IF i <= Len(pending) THEN pending[i] ELSE ToolCall("", "", <<>>, NoMetadata)]

\* Keeping only the last fragment of a call's arguments.
KeepsLast(pending, part) ==
    [Grown(pending, part.index) EXCEPT ![part.index + 1] =
        ToolCall(IF part.id # "" THEN part.id ELSE @.id, IF part.name # "" THEN part.name ELSE @.name,
                 part.arguments, @.metadata)]

Merged(pending, part) ==
    [Grown(pending, part.index) EXCEPT ![part.index + 1] =
        [id        |-> IF part.id # "" THEN part.id ELSE @.id,
         name      |-> IF part.name # "" THEN part.name ELSE @.name,
         arguments |-> @.arguments \o part.arguments,
         metadata  |-> IF part.signature # "" THEN [NoMetadata EXCEPT !.signature = part.signature]
                                               ELSE @.metadata]]

\* The fragments of one chunk, one after the other.
MergedAll(pending, parts) ==
    LET after[n \in 0..Len(parts)] == IF n = 0 THEN pending ELSE Merged(after[n - 1], parts[n])
    IN after[Len(parts)]

Deltas(parts) == FlattenSeq([i \in DOMAIN parts |->
    Delta(parts[i].index, parts[i].id, parts[i].name, parts[i].arguments)])

ReadStream(pending, e) ==
    CASE e.type = "[DONE]" -> Return(pending, Calls(pending) \o Done)
      [] e.type = "junk"   -> Return(pending, Error)
      [] e.type = "chunk" /\ ~e.choices -> Go(pending, <<>>)
      [] e.type = "chunk" /\ e.choices ->
            Go(MergedAll(pending, e.calls),
               Reasoning(e.reasoning) \o Content(e.content) \o Deltas(e.calls)
               \o Usage(e.usage /\ e.finish \in {"stop", "tool_calls"}))

\* The body ended, or failed, before [DONE].
StreamEnded(pending, failed) == IF failed THEN Error ELSE Calls(pending) \o Done

-----------------------------------------------------------------------------
(* parseResponse: the message holds the same blocks with their pieces joined. *)

Joined(blocks, kind) ==
    FlattenSeq([i \in DOMAIN blocks |-> IF blocks[i].kind = kind THEN FlattenSeq(blocks[i].pieces) ELSE <<>>])

ParsedCall(b) == ToolCall(b.id, b.name, FlattenSeq(b.pieces), [NoMetadata EXCEPT !.signature = b.signature])

ParseResponse(blocks, finish) ==
    LET calls == Selected(blocks, LAMBDA b : b.kind = "call") IN
    [content |-> Joined(blocks, "text"), thinking |-> Joined(blocks, "thinking"),
     calls |-> [i \in DOMAIN calls |-> ParsedCall(calls[i])], finish |-> finish]

-----------------------------------------------------------------------------
(* buildRequestBody and convertMessages. *)

Accepts(messages) == CheckParts(messages, Support({"wav"}, TRUE, FALSE))

ConvertContent(m) ==
    IF m.parts # <<>> THEN [i \in DOMAIN m.parts |-> Block("part", "", m.parts[i])]
    ELSE <<Block(IF m.callID = "" THEN "text" ELSE "result", m.callID, m.content)>>

ConvertCalls(calls) == [i \in DOMAIN calls |-> CallBlock(calls[i], calls[i].arguments)]

ConvertMessages(prompt, messages) ==
    (IF prompt = <<>> THEN <<>> ELSE <<Sent("system", TextBlock(prompt))>>)
    \o [i \in DOMAIN messages |->
          Sent(messages[i].role, ConvertContent(messages[i]) \o ConvertCalls(messages[i].calls))]

\* effortField is ReasoningStyleEffortField, the style of OpenAI itself.
ReasoningSent(req, effortField) ==
    LET effort == CASE req.effort # "" -> req.effort
                    [] req.effort = "" /\ req.budget # <<>> -> NearestEffort(req.budget[1])
                    [] OTHER -> ""
    IN IF effort # "" /\ (effortField \/ Thinks(req)) THEN effort ELSE ""

ConvertToolChoice(choice) == IF choice = "tool" THEN "function" ELSE choice

FormatSent(req) ==
    CASE req.schema -> "schema"
      [] ~req.schema /\ req.json -> "json"
      [] OTHER -> "text"

BuildRequest(req, effortField) ==
    [tools |-> req.tools, choice |-> ConvertToolChoice(req.choice), forced |-> req.forced,
     format |-> FormatSent(req), search |-> req.search, cachePoints |-> {},
     effort |-> ReasoningSent(req, effortField), budget |-> <<>>]
=============================================================================
