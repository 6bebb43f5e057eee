------------------------------ MODULE Anthropic ------------------------------
(***************************************************************************)
(* The Anthropic dialect (src/llm/anthropic/anthropic.go).  A response is  *)
(* content blocks, sent one after the other; a stream ends with            *)
(* message_stop.                                                           *)
(***************************************************************************)
EXTENDS Completion

DeltaType(kind) ==
    CASE kind = "thinking" -> "thinking_delta"
      [] kind = "text"     -> "text_delta"
      [] OTHER             -> "input_json_delta"

\* The start of a server tool's results does not parse: contentBlock's content
\* is a string, theirs is a list.
Opening(blocks, i) ==
    <<[type |-> IF blocks[i].kind = "result" THEN "junk" ELSE "content_block_start", block |-> blocks[i]]>>

Piece(blocks, i, text) ==
    <<[type |-> "content_block_delta", delta |-> DeltaType(blocks[i].kind), text |-> text]>>

Closing(blocks, i) == <<[type |-> "content_block_stop"]>>

Ending(blocks, finish) == <<[type |-> "message_delta", usage |-> TRUE], [type |-> "message_stop"]>>

-----------------------------------------------------------------------------
(* readStream.  currentToolIndex is always the last of pendingToolCalls, and *)
(* gets every input_json_delta, that of a server tool's block too.           *)

NewStream == <<>>

BlockStarts(pending, b) ==
    IF b.kind = "call"
    THEN Go(Append(pending, ToolCall(b.id, b.name, <<>>, NoMetadata)), Delta(Len(pending), b.id, b.name, <<>>))
    ELSE Go(pending, <<>>)

BlockGrows(pending, delta, text) ==
    CASE delta = "thinking_delta" -> Go(pending, Reasoning(text))
      [] delta = "text_delta"     -> Go(pending, Content(text))
      [] delta = "input_json_delta" /\ pending = <<>> -> Go(pending, <<>>)
      [] delta = "input_json_delta" /\ pending # <<>> ->
            Go([pending EXCEPT ![Len(pending)].arguments = @ \o text],
               IF text = <<>> THEN <<>> ELSE Delta(Len(pending) - 1, "", "", text))

\* An event that does not parse is skipped, and so is an event of type error.
ReadStream(pending, e) ==
    CASE e.type = "content_block_start" -> BlockStarts(pending, e.block)
      [] e.type = "content_block_delta" -> BlockGrows(pending, e.delta, e.text)
      [] e.type = "message_delta"       -> Go(pending, Usage(e.usage))
      [] e.type = "message_stop"        -> Return(pending, Calls(pending) \o Done)
      [] OTHER                          -> Go(pending, <<>>)

\* Handing out the calls at hand when the body ends early.
FlushesPending(pending, failed) == IF failed THEN Error ELSE Calls(pending) \o Done

StreamEnded(pending, failed) == IF failed THEN Error ELSE Done

-----------------------------------------------------------------------------
(* parseResponse.  Thinking is read where the block has text.  The         *)
(* arguments of a call are written out again; those of the                 *)
(* structured_output tool take the place of the text so far.               *)

ParseBlock(r, b) ==
    LET text == FlattenSeq(b.pieces)
        args == Marshal(IF text = <<>> THEN Object ELSE text)
    IN CASE b.kind = "thinking" /\ b.field = "text" -> [r EXCEPT !.thinking = @ \o text]
         [] b.kind = "text"     -> [r EXCEPT !.content = @ \o text]
         [] b.kind = "call" /\ b.name = "structured_output" -> [r EXCEPT !.content = args]
         [] b.kind = "call" /\ b.name # "structured_output" ->
               [r EXCEPT !.calls = Append(@, ToolCall(b.id, b.name, args, NoMetadata))]
         [] OTHER -> r

ParseResponse(blocks, finish) ==
    LET read[n \in 0..Len(blocks)] ==
            IF n = 0 THEN [content |-> <<>>, thinking |-> <<>>, calls |-> <<>>, finish |-> finish]
            ELSE ParseBlock(read[n - 1], blocks[n])
    IN read[Len(blocks)]

-----------------------------------------------------------------------------
(* buildRequestBody and convertMessages. *)

Accepts(messages) == CheckParts(messages, Support({}, TRUE, TRUE))

ConvertParts(m) ==
    IF m.parts = <<>> THEN <<Block("text", "", m.content)>>
    ELSE [i \in DOMAIN m.parts |-> Block("part", "", m.parts[i])]

\* Arguments that do not parse leave the call without its input.
ConvertCall(call) == CallBlock([call EXCEPT !.metadata = NoMetadata], Marshal(call.arguments))

ConvertMessage(m) ==
    CASE m.role = "tool" -> Sent("user", <<Block("result", m.callID, m.content)>>)
      [] m.role = "assistant" ->
            Sent("assistant", TextBlock(m.content) \o [i \in DOMAIN m.calls |-> ConvertCall(m.calls[i])])
      [] OTHER -> Sent(m.role, ConvertParts(m))

\* The system prompt is a field of its own.
ConvertMessages(prompt, messages) ==
    (IF prompt = <<>> THEN <<>> ELSE <<Sent("system field", TextBlock(prompt))>>)
    \o [i \in DOMAIN messages |-> ConvertMessage(messages[i])]

ConvertToolChoice(choice) == IF choice = "required" THEN "any" ELSE choice

\* Forgetting that an effort asks for a budget, too.
BudgetOnly(req) == req.budget

\* A given budget is sent as it is; 10000 is the default of an effort without one.
BudgetSent(req) ==
    CASE ~Thinks(req) -> <<>>
      [] Thinks(req) /\ (req.budget # <<>> \/ BudgetAsked(req) > 0) -> <<BudgetAsked(req)>>
      [] OTHER        -> <<10000>>

\* Breakpoints on the last tool, the system prompt and the last message.
CachePoints(req, tools) ==
    {p \in {"tools", "system", "messages"} :
        req.cache /\ (p = "tools" => tools # {}) /\ (p = "system" => req.prompt)}

BuildRequest(req) ==
    LET search == IF req.search THEN {"web_search"} ELSE {}
        tools  == req.tools \union search \union (IF req.schema THEN {"structured_output"} ELSE {})
    IN [tools |-> tools \ search, choice |-> IF req.schema THEN "tool" ELSE ConvertToolChoice(req.choice),
        forced |-> IF req.schema THEN "structured_output" ELSE req.forced, format |-> "text",
        search |-> req.search, cachePoints |-> CachePoints(req, tools),
        effort |-> "", budget |-> BudgetSent(req)]
=============================================================================
