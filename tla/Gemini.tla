------------------------------- MODULE Gemini --------------------------------
(***************************************************************************)
(* The Gemini and Vertex dialect (src/llm/gemini/gemini.go).  A chunk      *)
(* holds parts; a function call is one part, has no identifier, and may    *)
(* carry a signature that Gemini wants back with the call.                 *)
(***************************************************************************)
EXTENDS Completion

Chunk(parts, finish) ==
    [type |-> "chunk", candidates |-> TRUE, parts |-> parts, finish |-> finish, usage |-> TRUE]

\* A part with a function call arrives whole; a text arrives in pieces.
Opening(blocks, i) == IF blocks[i].kind = "call" THEN <<Chunk(<<blocks[i]>>, "")>> ELSE <<>>

Piece(blocks, i, text) ==
    IF blocks[i].kind = "call" THEN <<>> ELSE <<Chunk(<<[blocks[i] EXCEPT !.pieces = <<text>>]>>, "")>>

Closing(blocks, i) == <<>>

Ending(blocks, finish) ==
    <<[Chunk(<<>>, "") EXCEPT !.candidates = FALSE], Chunk(<<>>, IF finish = "length" THEN "MAX_TOKENS" ELSE "STOP")>>

-----------------------------------------------------------------------------
(* readStream keeps nothing between chunks. *)

NewStream == <<>>

\* A call without arguments has none to write out.
Arguments(b) == LET text == FlattenSeq(b.pieces) IN IF text = <<>> THEN <<"null">> ELSE Marshal(text)

\* Gemini gives no identifiers: the name stands for one.
Call(b) == ToolCall(b.name, b.name, Arguments(b), [NoMetadata EXCEPT !.signature = b.signature])

PartEvents(b) ==
    CASE b.kind = "thinking" -> Reasoning(FlattenSeq(b.pieces))
      [] b.kind = "text"     -> Content(FlattenSeq(b.pieces))
      [] OTHER               -> Calls(<<Call(b)>>)

\* Going on behind a chunk that does not parse.
PassesJunk(s) == Go(s, Error)

\* A chunk that does not parse ends the stream.
Unparsable(s) == Return(s, Error)

ReadStream(s, e) ==
    CASE e.type = "junk" -> Unparsable(s)
      [] e.type = "chunk" /\ ~e.candidates -> Go(s, <<>>)
      [] e.type = "chunk" /\ e.candidates ->
            Go(s, FlattenSeq([i \in DOMAIN e.parts |-> PartEvents(e.parts[i])]) \o Usage(e.finish = "STOP" /\ e.usage))

StreamEnded(s, failed) == IF failed THEN Error ELSE Done

-----------------------------------------------------------------------------
(* parseResponse. *)

ParsePart(r, b) ==
    CASE b.kind = "thinking" -> [r EXCEPT !.thinking = @ \o FlattenSeq(b.pieces)]
      [] b.kind = "text"     -> [r EXCEPT !.content = @ \o FlattenSeq(b.pieces)]
      [] OTHER               -> [r EXCEPT !.calls = Append(@, Call(b))]

ParseResponse(blocks, finish) ==
    LET read[n \in 0..Len(blocks)] ==
            IF n = 0 THEN [content |-> <<>>, thinking |-> <<>>, calls |-> <<>>, finish |-> finish]
            ELSE ParsePart(read[n - 1], blocks[n])
    IN read[Len(blocks)]

-----------------------------------------------------------------------------
(* buildRequestBody and convertMessages. *)

Accepts(messages) == CheckParts(messages, Support({"wav", "ogg"}, TRUE, TRUE))

ToolCallKey(call) == IF call.id # "" THEN call.id ELSE call.name

TurnIsSigned(calls) == \E i \in DOMAIN calls : calls[i].metadata.signature # ""

Unsigned(m) == m.calls # <<>> /\ ~TurnIsSigned(m.calls)

\* Calls told as text whose results are not.
NoneTextified(messages) == {}

\* The calls, by key, that are told as text because Gemini did not make them.
Textified(messages) ==
    UNION {{ToolCallKey(messages[i].calls[j]) : j \in DOMAIN messages[i].calls} :
           i \in {k \in DOMAIN messages : Unsigned(messages[k])}}

ConvertParts(m) ==
    IF m.parts = <<>> THEN TextBlock(m.content)
    ELSE [i \in DOMAIN m.parts |-> Block("part", "", m.parts[i])]

\* Calls are known by the name of the tool, results by the identifier of the call.
Told(call) == Block("told call", call.name, call.arguments)

Called(call) == [CallBlock(call, Marshal(call.arguments)) EXCEPT !.key = call.name]

ConvertMessage(m, textified) ==
    CASE m.role = "tool" /\ m.callID \in textified    -> Sent("user", <<Block("told result", m.callID, m.content)>>)
      [] m.role = "tool" /\ m.callID \notin textified -> Sent("user", <<Block("result", m.callID, m.content)>>)
      [] m.role # "tool" /\ Unsigned(m) ->
            Sent("model", TextBlock(m.content) \o [i \in DOMAIN m.calls |-> Told(m.calls[i])])
      [] m.role # "tool" /\ m.calls # <<>> /\ ~Unsigned(m) ->
            Sent("model", [i \in DOMAIN m.calls |-> Called(m.calls[i])])
      [] OTHER -> Sent(IF m.role = "assistant" THEN "model" ELSE m.role, ConvertParts(m))

\* A message that comes to nothing is dropped: Gemini refuses empty parts.
ConvertMessages(prompt, messages) ==
    LET sent == [i \in DOMAIN messages |-> ConvertMessage(messages[i], Textified(messages))]
    IN (IF prompt = <<>> THEN <<>> ELSE <<Sent("system field", TextBlock(prompt))>>)
       \o Selected(sent, LAMBDA c : c.blocks # <<>>)

ConvertToolChoice(choice) ==
    CASE choice = "auto" -> "AUTO"
      [] choice = "none" -> "NONE"
      [] choice \in {"required", "tool"} -> "ANY"
      [] OTHER -> ""

\* Gemini 3 takes a level; others a budget, where 0 turns thinking off: but a
\* caller's 0, or less, is left out, and the model thinks as it likes.
ThinkingSent(req) ==
    LET budget == BudgetAsked(req)
        level  == req.budget = <<>> /\ req.model = "gemini-3"
    IN CASE Thinks(req) /\ level              -> [effort |-> req.effort, budget |-> <<>>]
         [] Thinks(req) /\ ~level /\ budget > 0  -> [effort |-> "", budget |-> <<budget>>]
         [] Thinks(req) /\ ~level /\ budget <= 0 -> [effort |-> "default", budget |-> <<>>]
         [] ~Thinks(req) /\ req.tools # {} /\ req.model = "gemini-2.5-flash" -> [effort |-> "", budget |-> <<0>>]
         [] OTHER                             -> [effort |-> "", budget |-> <<>>]

BuildRequest(req) ==
    [tools |-> req.tools, choice |-> ConvertToolChoice(req.choice),
     forced |-> IF req.choice = "tool" THEN req.forced ELSE "",
     format |-> CASE req.schema -> "schema"
                  [] ~req.schema /\ req.json -> "json"
                  [] OTHER -> "text",
     search |-> req.search, cachePoints |-> {},
     effort |-> ThinkingSent(req).effort, budget |-> ThinkingSent(req).budget]
=============================================================================
