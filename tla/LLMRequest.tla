----------------------------- MODULE LLMRequest ------------------------------
(***************************************************************************)
(* A conversation that goes on with changing models: each answer is made   *)
(* by one of the dialects, with what that dialect keeps in a tool call,    *)
(* and the whole history is then converted for any of them, as a fallback  *)
(* or a switch of models does.                                             *)
(*                                                                         *)
(* Conversion is a function of the history; the steps are those that make  *)
(* the history grow.                                                       *)
(***************************************************************************)
EXTENDS LLMProviders

CONSTANTS
    Answers,    \* blocks a model may answer with
    Ids,        \* identifiers of calls, by the length of the history and the block
    Parts,      \* kinds of content parts a user may send
    Options,    \* the other fields of a request
    MaxMessages \* bound: length of the history

ASSUME RequestAssumption ==
    /\ Parts \subseteq PartKinds
    /\ MaxMessages \in Nat

\* A call names its tool and its server gives it an identifier; its arguments
\* are nothing or an object.
ASSUME AnswerAssumption ==
    /\ Answers \subseteq Seq([kind : {"text", "thinking", "call"}, id : STRING, name : STRING,
                             pieces : Seq(Seq(STRING)), signature : STRING, field : {"text", "thinking"}])
    /\ \A blocks \in Answers : \A k \in DOMAIN blocks :
          /\ \A n \in 0..MaxMessages : Ids[n][k] \in STRING \ {""}
          /\ blocks[k].kind = "call" =>
                LET text == FlattenSeq(blocks[k].pieces)
                IN blocks[k].name # "" /\ (text = <<>> \/ Marshal(text) \notin {<<>>, <<"null">>})

\* A tool is required only of a request that has tools; a budget is nil or any
\* integer (ReasoningBudget is an *int, provider.go:86).
ASSUME OptionsAssumption == \A o \in Options :
    /\ o.schema \in BOOLEAN /\ o.effort \in STRING /\ o.budget \in Seq(Int) /\ Len(o.budget) <= 1
    /\ o.choice \in {"required", "tool"} => o.tools # {}

VARIABLES
    history,  \* req.Messages
    makers,   \* the dialect that made each message; "" for the caller's
    options   \* what else the request says; fixed

requestVars == <<history, makers, options>>

Prompt == <<"prompt">>

Accepts(d) ==
    CASE d = "compat"    -> CompatD!Accepts(history)
      [] d = "anthropic" -> AnthropicD!Accepts(history)
      [] d = "bedrock"   -> BedrockD!Accepts(history)
      [] d = "gemini"    -> GeminiD!Accepts(history)
      [] d = "responses" -> ResponsesD!Accepts(history)

Converted(d) ==
    CASE d = "compat"    -> CompatD!ConvertMessages(Prompt, history)
      [] d = "anthropic" -> AnthropicD!ConvertMessages(Prompt, history)
      [] d = "bedrock"   -> BedrockD!ConvertMessages(Prompt, history)
      [] d = "gemini"    -> GeminiD!ConvertMessages(Prompt, history)
      [] d = "responses" -> ResponsesD!ConvertMessages(Prompt, history)

Parsed(d, blocks) ==
    CASE d = "compat"    -> CompatD!ParseResponse(blocks, "stop")
      [] d = "anthropic" -> AnthropicD!ParseResponse(blocks, "stop")
      [] d = "bedrock"   -> BedrockD!ParseResponse(blocks, "stop")
      [] d = "gemini"    -> GeminiD!ParseResponse(blocks, "stop")
      [] d = "responses" -> ResponsesD!ParseResponse(blocks, "stop")

Built(d) ==
    CASE d = "compat"    -> CompatD!BuildRequest(options, options.effortField)
      [] d = "anthropic" -> AnthropicD!BuildRequest(options)
      [] d = "bedrock"   -> BedrockD!BuildRequest(options)
      [] d = "gemini"    -> GeminiD!BuildRequest(options)
      [] d = "responses" -> ResponsesD!BuildRequest(options)

-----------------------------------------------------------------------------
(* The history. *)

Say(message, by) ==
    /\ Len(history) < MaxMessages /\ options.talks
    /\ history' = Append(history, message)
    /\ makers' = Append(makers, by)
    /\ UNCHANGED options

\* The last answer, and how many of its calls have their results.
Turns == {i \in DOMAIN history : history[i].role = "assistant"}
Turn  == Max(Turns)
Answered == Turns # {} => Len(history) >= Turn + Len(history[Turn].calls)

Spoken == IF history = <<>> THEN "" ELSE Last(history).role

SystemSays == history = <<>> /\ Say(Message("system", <<"rules">>, <<>>, <<>>, ""), "")

UserSays(parts) ==
    /\ Spoken # "user" /\ Answered
    /\ Say(Message("user", <<"question">>, parts, <<>>, ""), "")

\* Servers give every call of a conversation an identifier of its own.
Fresh(blocks) == [k \in DOMAIN blocks |->
    [blocks[k] EXCEPT !.id = Ids[Len(history)][k]]]

ModelAnswers(d, blocks) ==
    /\ Spoken \in {"user", "tool"} /\ Answered /\ Accepts(d)
    /\ LET r == Parsed(d, Fresh(blocks)) IN Say(Message("assistant", r.content, <<>>, r.calls, ""), d)

\* The caller runs the calls in order and names each result after its call.
ToolAnswers ==
    /\ ~Answered
    /\ LET call == history[Turn].calls[Len(history) - Turn + 1]
       IN Say(Message("tool", <<"result of", call.id>>, <<>>, <<>>, call.id), "")

RequestInit == history = <<>> /\ makers = <<>> /\ options \in Options

RequestNext ==
    \/ SystemSays
    \/ \E parts \in {<<>>} \union {<<"text", p>> : p \in Parts} : UserSays(parts)
    \/ \E d \in Dialects, blocks \in Answers : ModelAnswers(d, blocks)
    \/ ToolAnswers

RequestSpec == RequestInit /\ [][RequestNext]_requestVars

-----------------------------------------------------------------------------
(* Properties. *)

BlocksSent(d) == LET sent == Converted(d) IN FlattenSeq([i \in DOMAIN sent |-> sent[i].blocks])

\* Calls and results in the order they are sent: the key, or that it is told as text.
Form(b) == IF b.kind \in {"told call", "told result"} THEN <<>> ELSE <<b.key>>

Forms(blocks, kinds) ==
    FlattenSeq([k \in DOMAIN blocks |-> IF blocks[k].kind \in kinds THEN <<Form(blocks[k])>> ELSE <<>>])

CallsSent(d)   == Forms(BlocksSent(d), {"call", "told call"})
ResultsSent(d) == Forms(BlocksSent(d), {"result", "told result"})

\* Gemini knows a call by the name of its tool: the same tool called in a turn
\* with a signature and in one without has one key for both, and a signed call
\* that came through a compatible gateway has an identifier Gemini never saw.
Ambiguous ==
    \/ \E i \in Turns : makers[i] = "compat" /\ GeminiD!TurnIsSigned(history[i].calls)
    \/ \E i, j \in Turns :
        /\ GeminiD!Unsigned(history[i]) /\ history[j].calls # <<>> /\ ~GeminiD!Unsigned(history[j])
        /\ \E a \in ToSet(history[i].calls), b \in ToSet(history[j].calls) :
              GeminiD!ToolCallKey(a) = GeminiD!ToolCallKey(b)

\* Every call has its result behind it, under its key and in its form.
CallsPaired ==
    Answered => \A d \in Dialects :
        (d = "gemini" => ~Ambiguous) => CallsSent(d) = ResultsSent(d)

\* Signatures or reasoning items sent with the calls of turn i.
ReasoningOf(d, i) ==
    LET sent == BlocksSent(d) IN
    CASE d = "responses" -> {sent[k].key : k \in {n \in DOMAIN sent : sent[n].kind = "reasoning"}}
      [] OTHER -> {sent[k].metadata.signature : k \in {n \in DOMAIN sent :
                      sent[n].kind = "call" /\ sent[n].key \in {c.id : c \in ToSet(history[i].calls)}}}

\* What a model gave with its calls is sent to a model of its dialect.
ReasoningReturns ==
    \A i \in Turns : LET d == makers[i] IN
        /\ d \in {"compat", "gemini"} /\ (d = "gemini" => ~Ambiguous) =>
              \A c \in ToSet(history[i].calls) : c.metadata.signature # "" => c.metadata.signature \in ReasoningOf(d, i)
        /\ d = "responses" => \A c \in ToSet(history[i].calls) : ToSet(c.metadata.reasoning) \subseteq ReasoningOf(d, i)

(***************************************************************************)
(* Whichever model made the calls of a history, and whichever it is sent   *)
(* to (convertMessages, toInput), every call is followed by its result, in *)
(* the form the call has: no server accepts a result without its call.     *)
(* What a model wants back with its calls (ToolCall.Metadata, message.go)  *)
(* comes back when the history goes to its own dialect (gemini.go:486).    *)
(***************************************************************************)
CallsReplayed == CallsPaired /\ ReasoningReturns

\* A history, and what is sent of it, as the values in it.
Value(json) == IF json \in {<<>>, <<"null">>} THEN Object ELSE Marshal(json)

ValuesOf(d, m) ==
    LET signed == d = "gemini" /\ m.calls # <<>> /\ ~GeminiD!Unsigned(m)
        parts  == IF d = "bedrock" THEN Selected(m.parts, LAMBDA p : p # "image url") ELSE m.parts
    IN (IF m.parts # <<>> THEN [i \in DOMAIN parts |-> <<parts[i]>>]
        ELSE IF m.content = <<>> \/ signed THEN <<>> ELSE <<m.content>>)
       \o [i \in DOMAIN m.calls |-> Value(m.calls[i].arguments)]

ValueSent(b) ==
    CASE b.kind = "part" -> <<<<b.value>>>>
      [] b.kind \in {"call", "told call"} -> <<Value(b.value)>>
      [] b.kind = "reasoning" \/ (b.kind = "text" /\ b.value = <<>>) -> <<>>
      [] OTHER -> <<b.value>>

ValuesSent(d) == LET sent == BlocksSent(d) IN FlattenSeq([k \in DOMAIN sent |-> ValueSent(sent[k])])

(***************************************************************************)
(* Conversion (convertMessages, buildSystem, toInput) loses nothing and    *)
(* keeps the order: the prompt, each text, part, call and result of an     *)
(* accepted history is sent.  (Gemini drops the text beside signed calls;  *)
(* Bedrock skips images given by address, bedrock.go:534, and those whose  *)
(* data is not of an image type, which Parts does not have.)               *)
(***************************************************************************)
NothingLost ==
    \A d \in Dialects : Accepts(d) =>
        ValuesSent(d) = <<Prompt>> \o FlattenSeq([i \in DOMAIN history |-> ValuesOf(d, history[i])])

\* What the tool choice, the output format and the reasoning of a request ask for.
ChoiceMeant(b) ==
    /\ options.choice = "none" /\ ~options.schema => b.tools = {} \/ b.choice \in {"none", "NONE"}
    /\ options.choice = "required" /\ ~options.schema => b.choice \in {"required", "any", "ANY"}
    /\ options.choice = "tool" /\ ~options.schema =>
          b.choice \in {"function", "tool", "ANY"} /\ b.forced = options.forced
    /\ options.schema =>
          b.format = "schema" \/ (b.choice = "tool" /\ b.forced = "structured_output" /\ b.forced \in b.tools)

\* A budget that is a number of tokens, and one that is not.
Positive(budget) == budget # <<>> /\ budget[1] > 0
Oddly            == options.budget # <<>> /\ ~Positive(options.budget)

ReasoningMeant(b) ==
    LET level == b.effort \notin {"", "none"} IN
    /\ Thinks(options) /\ options.effort # "none" /\ ~Oddly => level \/ Positive(b.budget)
    /\ Positive(options.budget) => b.budget \in {<<>>, options.budget}
    /\ Oddly /\ options.effort # "none" => level \/ b.budget # <<>>
    /\ options.budget = <<>> /\ ~Requested(options.effort) => ~level /\ ~Positive(b.budget)

(***************************************************************************)
(* A request (CompletionRequest, provider.go) means the same to every      *)
(* buildRequestBody: a tool choice of none keeps tools from being called,  *)
(* one that forces forces, a schema constrains the answer, and reasoning   *)
(* is on when an effort or a budget asks for it, with that budget where    *)
(* one is sent (provider.go:82), and off when none does.  An effort of     *)
(* none with a budget contradicts itself, and the dialects settle it       *)
(* differently.  Of a budget of 0 or less, which nothing rejects, no more  *)
(* is claimed than that every dialect asks for reasoning: Anthropic sends  *)
(* the number as it is (anthropic.go:289), Bedrock 10000 for 0 and a       *)
(* negative number as it is, Gemini no number, so that the model decides,  *)
(* and the others a low effort.                                            *)
(***************************************************************************)
RequestMeans == \A d \in Dialects : ChoiceMeant(Built(d)) /\ ReasoningMeant(Built(d))
=============================================================================
