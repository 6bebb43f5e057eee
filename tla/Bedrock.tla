------------------------------- MODULE Bedrock -------------------------------
(***************************************************************************)
(* The Bedrock Converse dialect (src/llm/bedrock/bedrock.go).  A stream is *)
(* binary frames; a frame belongs to a content block by its index.         *)
(***************************************************************************)
EXTENDS Completion, EventStream

Opening(blocks, i) ==
    <<Frame("event", "contentBlockStart", [index |-> i, call |-> blocks[i].kind = "call",
                                           id |-> blocks[i].id, name |-> blocks[i].name])>>

Piece(blocks, i, text) ==
    <<Frame("event", "contentBlockDelta", [index |-> i, kind |-> blocks[i].kind, text |-> text])>>

Closing(blocks, i) == <<Frame("event", "contentBlockStop", [index |-> i])>>

Ending(blocks, finish) == <<Frame("event", "messageStop", ""), Frame("event", "metadata", "")>>

-----------------------------------------------------------------------------
(* readStream.  pending maps the index of a block to the call it is; order *)
(* lists the blocks that are calls.                                        *)

NewStream == [pending |-> <<>>, order |-> <<>>]

BlockStarts(s, p) ==
    IF p.call
    THEN Go([pending |-> (p.index :> [call |-> ToolCall(p.id, p.name, <<>>, NoMetadata), position |-> Len(s.order)])
                         @@ s.pending,
             order   |-> Append(s.order, p.index)],
            Delta(Len(s.order), p.id, p.name, <<>>))
    ELSE Go(s, <<>>)

BlockGrows(s, p) ==
    CASE p.kind = "thinking" -> Go(s, Reasoning(p.text))
      [] p.kind = "text"     -> Go(s, Content(p.text))
      [] p.kind = "call" /\ p.index \in DOMAIN s.pending ->
            Go([s EXCEPT !.pending[p.index].call.arguments = @ \o p.text],
               IF p.text = <<>> THEN <<>> ELSE Delta(s.pending[p.index].position, "", "", p.text))
      [] OTHER -> Go(s, <<>>)

Finished(s) == [i \in DOMAIN s.order |-> s.pending[s.order[i]].call]

ReadMessage(s, m) ==
    CASE m.message = "exception"         -> Return(s, Error)
      [] m.event = "contentBlockStart"   -> BlockStarts(s, m.payload)
      [] m.event = "contentBlockDelta"   -> BlockGrows(s, m.payload)
      [] m.event = "messageStop"         -> Go([s EXCEPT !.order = <<>>], Calls(Finished(s)))
      [] m.event = "metadata"            -> Go(s, Usage(TRUE))
      [] OTHER                           -> Go(s, <<>>)

ReadStream(s, frame) ==
    LET m == Decode(frame) IN IF m.ok THEN ReadMessage(s, m) ELSE Return(s, Error)

StreamEnded(s, failed) == IF failed THEN Error ELSE Done

-----------------------------------------------------------------------------
(* parseResponse. *)

ParseBlock(r, b) ==
    LET text == FlattenSeq(b.pieces)
        args == IF text = <<>> THEN Object ELSE text
    IN CASE b.kind = "thinking" -> [r EXCEPT !.thinking = @ \o text]
         [] b.kind = "text"     -> [r EXCEPT !.content = @ \o text]
         [] b.kind = "call" /\ b.name = "structured_output" -> [r EXCEPT !.content = args]
         [] b.kind = "call" /\ b.name # "structured_output" ->
               [r EXCEPT !.calls = Append(@, ToolCall(b.id, b.name, args, NoMetadata))]
         [] OTHER -> r

ParseResponse(blocks, finish) ==
    LET read[n \in 0..Len(blocks)] ==
            IF n = 0 THEN [content |-> <<>>, thinking |-> <<>>, calls |-> <<>>, finish |-> finish]
            ELSE ParseBlock(read[n - 1], blocks[n])
    IN read[Len(blocks)]

-----------------------------------------------------------------------------
(* buildRequestBody, buildSystem and convertMessages. *)

\* Documents outside docFormats are refused too.
Accepts(messages) == CheckParts(messages, Support({}, TRUE, FALSE) \ {"zip"})

\* Converse cannot fetch an image: a part that is only its address is skipped.
ConvertParts(m) ==
    LET kept   == Selected(m.parts, LAMBDA p : p # "image url")
        blocks == [i \in DOMAIN kept |-> Block("part", "", kept[i])]
    IN IF blocks = <<>> THEN <<Block("text", "", m.content)>> ELSE blocks

ConvertCall(call) ==
    CallBlock([call EXCEPT !.metadata = NoMetadata], IF Parses(call.arguments) THEN call.arguments ELSE Object)

ConvertMessage(m) ==
    CASE m.role = "tool" -> Sent("user", <<Block("result", m.callID, m.content)>>)
      [] m.role = "assistant" ->
            Sent("assistant", TextBlock(m.content) \o [i \in DOMAIN m.calls |-> ConvertCall(m.calls[i])])
      [] OTHER -> Sent("user", ConvertParts(m))

\* Leaving out the messages of role system.
PromptOnly(prompt, messages) == TextBlock(prompt)

BuildSystem(prompt, messages) ==
    LET system == Selected(messages, LAMBDA m : m.role = "system")
    IN TextBlock(prompt) \o FlattenSeq([i \in DOMAIN system |-> TextBlock(system[i].content)])

ConvertMessages(prompt, messages) ==
    LET others == Selected(messages, LAMBDA m : m.role # "system") IN
    <<Sent("system field", BuildSystem(prompt, messages))>>
    \o [i \in DOMAIN others |-> ConvertMessage(others[i])]

ConvertToolChoice(choice) ==
    CASE choice = "required" -> "any"
      [] choice = "tool"     -> "tool"
      [] OTHER               -> ""

BudgetSent(req) ==
    CASE ~Thinks(req) -> <<>>
      [] Thinks(req) /\ BudgetAsked(req) = 0 -> <<10000>>
      [] OTHER        -> <<BudgetAsked(req)>>

\* Converse has no choice "none": the tools are left out instead.
BuildRequest(req) ==
    LET all   == req.tools \union (IF req.schema THEN {"structured_output"} ELSE {})
        tools == IF req.choice = "none" /\ ~req.schema THEN {} ELSE all
    IN [tools  |-> tools,
        choice |-> CASE tools = {} -> ""
                     [] req.schema -> "tool"
                     [] OTHER      -> ConvertToolChoice(req.choice),
        forced |-> IF req.schema THEN "structured_output" ELSE req.forced, format |-> "text", search |-> FALSE,
        cachePoints |-> {p \in {"tools", "system", "messages"} :
            req.cache /\ (p = "tools" => tools # {}) /\ (p = "system" => req.prompt)},
        effort |-> "", budget |-> BudgetSent(req)]
=============================================================================
