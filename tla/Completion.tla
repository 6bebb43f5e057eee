----------------------------- MODULE Completion ------------------------------
(***************************************************************************)
(* The types every provider speaks (src/message.go, src/provider.go,       *)
(* src/stream.go, src/reasoning.go, src/toolchoice.go) and the             *)
(* accumulator that makes a response out of stream events.                 *)
(*                                                                         *)
(* A text is the sequence of the pieces it was written in, so that joining *)
(* texts is concatenation and every split of one text is the same text.    *)
(***************************************************************************)
EXTENDS Integers, Sequences, FiniteSets, SequencesExt

\* White space between two JSON tokens, and a JSON object without members.
Blank  == "_"
Object == <<"{}">>

\* The elements that pass a test: SelectSeq as a concatenation, which can be proved about.
Selected(s, Test(_)) == FlattenSeq([i \in DOMAIN s |-> IF Test(s[i]) THEN <<s[i]>> ELSE <<>>])

\* encoding/json: a value put into a document again loses its blanks.
Marshal(json) == Selected(json, LAMBDA piece : piece # Blank)

\* encoding/json: an empty text is not a document.
Parses(json) == json # <<>>

\* ToolCall.Metadata: what a provider wants back with the call.
NoMetadata == [signature |-> "", reasoning |-> <<>>]

ToolCall(id, name, arguments, metadata) ==
    [id |-> id, name |-> name, arguments |-> arguments, metadata |-> metadata]

Message(role, content, parts, calls, callID) ==
    [role |-> role, content |-> content, parts |-> parts, calls |-> calls, callID |-> callID]

(***************************************************************************)
(* ContentPart, by what decides how it is sent.  mediautil.CheckParts      *)
(* refuses the parts outside of what a provider supports.                  *)
(***************************************************************************)
PartKinds == {"text", "image data", "image url", "wav", "ogg", "pdf", "pdf url", "zip", "no data"}

Support(audio, docData, docURL) ==
    {"text", "image data", "image url"} \union audio
    \union (IF docData THEN {"pdf", "zip"} ELSE {}) \union (IF docURL THEN {"pdf url"} ELSE {})

CheckParts(messages, support) ==
    \A i \in DOMAIN messages : ToSet(messages[i].parts) \subseteq support

\* What a converted message holds, whatever a dialect calls it.
Block(kind, key, value) == [kind |-> kind, key |-> key, value |-> value, metadata |-> NoMetadata]
CallBlock(call, value)  == [Block("call", call.id, value) EXCEPT !.metadata = call.metadata]
TextBlock(text)         == IF text = <<>> THEN <<>> ELSE <<Block("text", "", text)>>
Sent(role, blocks)      == [role |-> role, blocks |-> blocks]

-----------------------------------------------------------------------------
(* Stream events, and the accumulator. *)

StreamEvent(type, value) == [type |-> type, value |-> value]

Content(text)   == IF text = <<>> THEN <<>> ELSE <<StreamEvent("content", text)>>
Reasoning(text) == IF text = <<>> THEN <<>> ELSE <<StreamEvent("reasoning", text)>>
Delta(index, id, name, arguments) ==
    <<StreamEvent("tool_call_delta", [index |-> index, id |-> id, name |-> name, arguments |-> arguments])>>
Calls(calls) == [i \in DOMAIN calls |-> StreamEvent("tool_call", calls[i])]
Usage(given) == IF given THEN <<StreamEvent("", "usage")>> ELSE <<>>
Done  == <<StreamEvent("done", "")>>
Error == <<StreamEvent("error", "")>>

Final(event) == event.type \in {"done", "error"}

\* StreamAccumulator: the zero value, Add and Response.
NewAccumulator == [content |-> <<>>, thinking |-> <<>>, calls |-> <<>>, usage |-> FALSE, err |-> FALSE]

Add(a, ev) ==
    CASE ev.type = "content"   -> [a EXCEPT !.content = @ \o ev.value]
      [] ev.type = "reasoning" -> [a EXCEPT !.thinking = @ \o ev.value]
      [] ev.type = "tool_call" -> [a EXCEPT !.calls = Append(@, ev.value)]
      [] ev.type = "error"     -> [a EXCEPT !.err = TRUE]
      [] ev.type \in {"", "done"} -> [a EXCEPT !.usage = @ \/ ev.value = "usage"]
      [] OTHER                 -> a

Response(a) ==
    [content |-> a.content, thinking |-> a.thinking, calls |-> a.calls,
     finish |-> IF a.calls # <<>> THEN "tool_calls" ELSE "stop"]

-----------------------------------------------------------------------------
(* What one stream reader does with one wire event: its next state, what it *)
(* sends, and whether it returns.                                           *)

Go(state, events)     == [state |-> state, events |-> events, over |-> FALSE]
Return(state, events) == [state |-> state, events |-> events, over |-> TRUE]

-----------------------------------------------------------------------------
(* ReasoningEffort and ReasoningBudget, a pointer: <<>> is nil, <<n>> is n tokens. *)

Requested(effort) == effort \notin {"", "none"}

BudgetTokens(effort) ==
    CASE effort = "minimal" -> 1024
      [] effort = "low"     -> 4096
      [] effort = "medium"  -> 8192
      [] effort = "high"    -> 16384
      [] OTHER              -> 0

\* The effort nearest to a budget, where only efforts can be sent.
NearestEffort(budget) ==
    CASE budget <= 1024  -> "low"
      [] budget >= 16384 -> "high"
      [] OTHER           -> "medium"

Thinks(req) == req.budget # <<>> \/ Requested(req.effort)

\* A budget that is given, even one of 0, goes before that of the effort.
BudgetAsked(req) == IF req.budget # <<>> THEN req.budget[1] ELSE BudgetTokens(req.effort)
=============================================================================
