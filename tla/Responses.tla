------------------------------ MODULE Responses ------------------------------
(***************************************************************************)
(* The OpenAI Responses dialect (src/llm/openai/responses.go).  A response *)
(* is output items; reasoning items are encrypted, and go back with the    *)
(* first call of the response that made them.                              *)
(***************************************************************************)
EXTENDS Completion

DeltaType(kind) ==
    CASE kind = "thinking" -> "response.reasoning_summary_text.delta"
      [] kind = "text"     -> "response.output_text.delta"
      [] kind = "call"     -> "response.function_call_arguments.delta"
      [] OTHER             -> "response.web_search_call.searching"

Opening(blocks, i) == <<[type |-> "response.output_item.added", index |-> i, item |-> blocks[i]]>>

Piece(blocks, i, text) == <<[type |-> DeltaType(blocks[i].kind), index |-> i, delta |-> text]>>

Closing(blocks, i) == <<[type |-> "response.output_item.done", item |-> blocks[i]]>>

Ending(blocks, finish) ==
    <<[type |-> IF finish = "length" THEN "response.incomplete" ELSE "response.completed", usage |-> TRUE]>>

-----------------------------------------------------------------------------
(* readStream, attachReasoning and finishReason. *)

NewStream == [callIndex |-> <<>>, calls |-> <<>>, reasoning |-> <<>>]

FunctionCall(b) == ToolCall(b.id, b.name, FlattenSeq(b.pieces), NoMetadata)

AttachReasoning(calls, reasoning) ==
    IF calls = <<>> THEN calls ELSE [calls EXCEPT ![1].metadata.reasoning = reasoning]

ItemAdded(s, index, b) ==
    IF b.kind = "call"
    THEN Go([s EXCEPT !.callIndex = (index :> Cardinality(DOMAIN @)) @@ @],
            Delta(Cardinality(DOMAIN s.callIndex), b.id, b.name, <<>>))
    ELSE Go(s, <<>>)

ArgumentsGrow(s, index, text) ==
    Go(s, IF index \in DOMAIN s.callIndex /\ text # <<>> THEN Delta(s.callIndex[index], "", "", text) ELSE <<>>)

ItemDone(s, b) ==
    CASE b.kind = "call"     -> Go([s EXCEPT !.calls = Append(@, FunctionCall(b))], <<>>)
      [] b.kind = "thinking" -> Go([s EXCEPT !.reasoning = Append(@, b.id)], <<>>)
      [] OTHER               -> Go(s, <<>>)

\* An event that does not parse, or of another type, is skipped.
ReadStream(s, e) ==
    CASE e.type = "response.output_text.delta"            -> Go(s, Content(e.delta))
      [] e.type = "response.reasoning_summary_text.delta" -> Go(s, Reasoning(e.delta))
      [] e.type = "response.output_item.added"            -> ItemAdded(s, e.index, e.item)
      [] e.type = "response.function_call_arguments.delta" -> ArgumentsGrow(s, e.index, e.delta)
      [] e.type = "response.output_item.done"             -> ItemDone(s, e.item)
      [] e.type \in {"response.completed", "response.incomplete"} ->
            Return(s, Calls(AttachReasoning(s.calls, s.reasoning))
                      \o <<StreamEvent("done", IF e.usage THEN "usage" ELSE "")>>)
      [] e.type \in {"response.failed", "error"} -> Return(s, Error)
      [] OTHER -> Go(s, <<>>)

\* A body that ends before the response is an error, too.
StreamEnded(s, failed) == Error

-----------------------------------------------------------------------------
(* parseOutput. *)

ParseItem(r, b) ==
    CASE b.kind = "thinking" -> [r EXCEPT !.thinking = @ \o FlattenSeq(b.pieces), !.reasoning = Append(@, b.id)]
      [] b.kind = "text"     -> [r EXCEPT !.content = @ \o FlattenSeq(b.pieces)]
      [] b.kind = "call"     -> [r EXCEPT !.calls = Append(@, FunctionCall(b))]
      [] OTHER               -> r

ParseResponse(blocks, finish) ==
    LET read[n \in 0..Len(blocks)] ==
            IF n = 0 THEN [content |-> <<>>, thinking |-> <<>>, calls |-> <<>>, reasoning |-> <<>>]
            ELSE ParseItem(read[n - 1], blocks[n])
        r == read[Len(blocks)]
    IN [content |-> r.content, thinking |-> r.thinking, calls |-> AttachReasoning(r.calls, r.reasoning),
        finish  |-> IF r.calls # <<>> THEN "tool_calls" ELSE finish]

-----------------------------------------------------------------------------
(* buildRequest and toInput. *)

Accepts(messages) == CheckParts(messages, Support({}, TRUE, TRUE))

Replayed(calls) ==
    IF calls = <<>> THEN <<>>
    ELSE LET items == calls[1].metadata.reasoning
         IN [i \in DOMAIN items |-> Block("reasoning", items[i], <<>>)]

ConvertParts(m) ==
    IF m.parts = <<>> THEN <<Block("text", "", m.content)>>
    ELSE [i \in DOMAIN m.parts |-> Block("part", "", m.parts[i])]

ConvertMessage(m) ==
    CASE m.role = "tool" -> Sent("user", <<Block("result", m.callID, m.content)>>)
      [] m.role = "assistant" ->
            Sent("assistant", Replayed(m.calls) \o TextBlock(m.content)
                 \o [i \in DOMAIN m.calls |-> CallBlock([m.calls[i] EXCEPT !.metadata = NoMetadata], m.calls[i].arguments)])
      [] m.role = "system" -> Sent("developer", ConvertParts(m))
      [] OTHER -> Sent(m.role, ConvertParts(m))

ConvertMessages(prompt, messages) ==
    (IF prompt = <<>> THEN <<>> ELSE <<Sent("system field", TextBlock(prompt))>>)
    \o [i \in DOMAIN messages |-> ConvertMessage(messages[i])]

EffortSent(req) ==
    IF req.effort = "" /\ req.budget # <<>> THEN NearestEffort(req.budget[1]) ELSE req.effort

BuildRequest(req) ==
    [tools |-> req.tools, choice |-> IF req.choice = "tool" THEN "function" ELSE req.choice,
     forced |-> req.forced,
     format |-> CASE req.schema -> "schema"
                  [] ~req.schema /\ req.json -> "json"
                  [] OTHER -> "text",
     search |-> req.search, cachePoints |-> {}, effort |-> EffortSent(req), budget |-> <<>>]
=============================================================================
