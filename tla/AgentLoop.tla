----------------------------- MODULE AgentLoop ------------------------------
(***************************************************************************)
(* One run of an agent (src/agent/agent.go, run) with the middleware of    *)
(* the package around it: ContextEditing and Summarization before each     *)
(* model call, ModelFallback around it, ModelCallLimit after it, and       *)
(* ToolCallLimit and ToolRetry around each tool call, whose executor may   *)
(* be a HumanInLoop.  A streamed run reports to a reader that may leave.   *)
(* With AwaitApproval the run is that of a graph node: a call that nobody  *)
(* has decided on pauses the graph, and the node runs again from the top   *)
(* when it is resumed with the decisions so far and the new one.           *)
(*                                                                         *)
(* The model and the tools are external and may do anything.  A message is *)
(* its role, the round it belongs to and, for a tool result, which of the  *)
(* round's calls it answers.  All calls of a tool have the same arguments, *)
(* and so the same key for a decision.  Whether a history is over a token threshold  *)
(* depends on texts the specification does not have, and is left open.     *)
(***************************************************************************)
EXTENDS Naturals, Sequences, FiniteSets

CONSTANTS
    Tool,          \* names of tools
    NoTool,        \* none of them
    Setups,        \* the configurations an agent may be made with
    MaxIterations, \* WithMaxIterations
    MaxCalls       \* bound: tool calls in one response

(***************************************************************************)
(* A configuration: the tools given with WithTools, and whether there is   *)
(* an executor; how many models ModelFallback has; modelLimit and fails of *)
(* ModelCallLimit; toolLimit and named of ToolCallLimit (nobody named: all *)
(* tools together); retries of ToolRetry, and whether it was added before  *)
(* ToolCallLimit; keepResults of ContextEditing, keepRecent of             *)
(* Summarization; the tools that awaits guards with AwaitApproval (others  *)
(* may have an Approver that blocks); and whether the run is streamed.  A  *)
(* limit out of reach is a middleware left out.                            *)
(***************************************************************************)
ASSUME AgentAssumption ==
    /\ {MaxIterations, MaxCalls} \subseteq Nat /\ NoTool \notin Tool
    /\ \A s \in Setups :
          /\ {s.fallbacks, s.modelLimit, s.toolLimit, s.retries} \subseteq Nat
          /\ {s.keepResults, s.keepRecent} \subseteq Nat
          /\ s.tools \subseteq Tool /\ s.named \subseteq Tool /\ s.awaits \subseteq Tool
          /\ {s.fails, s.retryOutside, s.executor, s.streams} \subseteq BOOLEAN

VARIABLES
    setup,      \* how the agent was made; fixed
    given,      \* the messages a run starts with; fixed
    pc,         \* where the run stands
    iteration,  \* iteration
    messages,   \* req.Messages
    model,      \* models tried before the one being called
    response,   \* the tools the model's response calls, in order
    current,    \* which call of the response is being made
    stats,      \* runStats.toolCalls
    total,      \* runStats.total
    attempt,    \* retries of the current call
    ran,        \* how often each tool was really executed
    executions, \* tool executions in all
    result,     \* what run returned
    cancelled,  \* the run's context is done
    out,        \* events emit has yet to hand to the reader
    reading,    \* the reader still receives
    seen,       \* the last event the reader received
    asking,     \* the call the run was aborted for, to ask a human; NoTool for none
    decided,    \* Approvals the graph was resumed with, by tool; "none" for no decision
    shown       \* how often a human was asked about each tool's call

counts == <<stats, total>>
runs   == <<ran, executions>>
conversation == <<iteration, messages, model, response>>
calling == <<current, counts, attempt, runs>>
stream  == <<out, reading, seen>>
agent   == <<setup, given>>
review  == <<asking, decided, shown>>
vars    == <<agent, pc, conversation, calling, result, cancelled, stream, review>>

User == [role |-> "user", round |-> 0, n |-> 0, intact |-> TRUE]

Assistant(r, calls) == [role |-> "assistant", round |-> r, n |-> calls, intact |-> TRUE]

ToolResult(r, call) == [role |-> "tool", round |-> r, n |-> call, intact |-> TRUE]

Event(kind) == [kind |-> kind, round |-> iteration, n |-> current]

NoEvent == [kind |-> "none", round |-> 0, n |-> 0]

Emit(evs) == out' = IF setup.streams THEN evs ELSE <<>>

\* The run's own code runs while emit is not blocked on the reader.
Ready(l) == pc = l /\ out = <<>>

Return(r) == pc' = "returning" /\ result' = r

-----------------------------------------------------------------------------
(* The loop and BeforeModel. *)

NextIteration ==
    /\ Ready("next")
    /\ IF iteration < MaxIterations
       THEN iteration' = iteration + 1 /\ pc' = "before" /\ UNCHANGED result
       ELSE Return("error") /\ UNCHANGED iteration
    /\ UNCHANGED <<agent, review, messages, model, response, calling, cancelled, stream>>

ResultsFrom(ms, i) == {j \in i..Len(ms) : ms[j].role = "tool"}

\* Result i is not among the most recent ones ContextEditing keeps.
Old(ms, i) == Cardinality(ResultsFrom(ms, i)) > setup.keepResults

\* ContextEditing over its threshold: a placeholder for every old result.
Edited(ms) == [i \in 1..Len(ms) |->
    IF ms[i].role = "tool" /\ Old(ms, i) THEN [ms[i] EXCEPT !.intact = FALSE] ELSE ms[i]]

CutAnywhere(ms, c) == TRUE

\* No tool result at the head of the kept tail: it goes into the summary.
CleanCut(ms, c) == c = Len(ms) \/ ms[c + 1].role # "tool"

\* How many messages Summarization replaces.
Cut(ms) == CHOOSE c \in (Len(ms) - setup.keepRecent)..Len(ms) :
    CleanCut(ms, c) /\ \A b \in (Len(ms) - setup.keepRecent)..(c - 1) : ~CleanCut(ms, b)

\* Summarization over its threshold: one message of the user for the older ones.
Summarized(ms) ==
    IF Len(ms) <= setup.keepRecent THEN ms
    ELSE <<User>> \o SubSeq(ms, Cut(ms) + 1, Len(ms))

BeforeModel == \E edited \in {messages, Edited(messages)} :
    /\ Ready("before")
    /\ messages' \in {edited, Summarized(edited)}
    /\ pc' = "model" /\ model' = 0
    /\ UNCHANGED <<agent, review, iteration, response, calling, result, cancelled, stream>>

\* The summary's own model call fails.
BeforeModelFails == \E edited \in {messages, Edited(messages)} :
    /\ Ready("before") /\ Len(messages) > setup.keepRecent
    /\ messages' = edited /\ Return("error")
    /\ UNCHANGED <<agent, review, iteration, model, response, calling, cancelled, stream>>

-----------------------------------------------------------------------------
(* The model call and AfterModel. *)

Text == {<<>>, <<Event("content")>>}

ModelAnswers == \E calls \in UNION {[1..k -> setup.tools] : k \in 0..MaxCalls}, text \in Text :
    /\ Ready("model")
    /\ response' = calls /\ pc' = "after"
    /\ Emit(text)
    /\ UNCHANGED <<agent, review, iteration, messages, model, calling, result, cancelled, reading, seen>>

\* A model fails, a streamed one perhaps in the middle of its text, and
\* ModelFallback tries the next one unless the run was cancelled.
ModelFails == \E text \in Text :
    /\ Ready("model")
    /\ IF model < setup.fallbacks /\ ~cancelled
       THEN model' = model + 1 /\ UNCHANGED <<pc, result>>
       ELSE Return("error") /\ UNCHANGED model
    /\ Emit(text)
    /\ UNCHANGED <<agent, review, iteration, messages, response, calling, cancelled, reading, seen>>

\* ModelCallLimit: the model asks for more after the last call it has.
Limited == iteration >= setup.modelLimit /\ response # <<>>

AfterModelFails ==
    /\ Ready("after") /\ Limited /\ setup.fails
    /\ Return("error")
    /\ UNCHANGED <<agent, review, conversation, calling, cancelled, stream>>

Answer ==
    /\ Ready("after") /\ ~(Limited /\ setup.fails)
    /\ response = <<>> \/ Limited
    /\ Return("ok")
    /\ UNCHANGED <<agent, review, conversation, calling, cancelled, stream>>

NoExecutor ==
    /\ Ready("after") /\ response # <<>> /\ ~Limited /\ ~setup.executor
    /\ Return("error")
    /\ UNCHANGED <<agent, review, conversation, calling, cancelled, stream>>

StartRound ==
    /\ Ready("after") /\ response # <<>> /\ ~Limited /\ setup.executor
    /\ messages' = Append(messages, Assistant(iteration, Len(response)))
    /\ current' = 1 /\ pc' = "call"
    /\ UNCHANGED <<agent, review, iteration, model, response, counts, attempt, runs, result,
                   cancelled, stream>>

-----------------------------------------------------------------------------
(* The tool calls of a response, through ToolCallLimit and ToolRetry. *)

Called == response[current]

StartCall ==
    /\ Ready("call")
    /\ stats' = [stats EXCEPT ![Called] = @ + 1] /\ total' = total + 1
    /\ attempt' = 0 /\ pc' = "exec"
    /\ Emit(<<Event("tool_call")>>)
    /\ UNCHANGED <<agent, review, conversation, current, runs, result, cancelled, reading, seen>>

\* toolCallCount of the tools the limit counts together with this one.
Count == IF setup.named = {} THEN total
         ELSE IF Called \in setup.named THEN stats[Called] ELSE 0

AllowsOneMore == Count > setup.toolLimit + 1

OverLimit == Count > setup.toolLimit

\* The result, or the error in its place, goes into the conversation.
RecordResult == messages' = Append(messages, ToolResult(iteration, current))

\* The chain returned, and with an error that does not abort the run the loop
\* goes on.
CallEnds ==
    /\ Emit(<<Event("tool_result")>>)
    /\ RecordResult
    /\ IF current < Len(response)
       THEN current' = current + 1 /\ pc' = "call"
       ELSE UNCHANGED current /\ pc' = "next"
    /\ UNCHANGED <<attempt, result>>

AfterError ==
    IF attempt < setup.retries
    THEN pc' = "sleep" /\ UNCHANGED <<messages, current, attempt, result, out>>
    ELSE CallEnds

\* A refused call is an error to a ToolRetry outside of the limit.
Refuse ==
    /\ Ready("exec") /\ OverLimit
    /\ IF setup.retryOutside THEN AfterError ELSE CallEnds
    /\ UNCHANGED <<agent, review, iteration, model, response, counts, runs, cancelled, reading, seen>>

Ran == ran' = [ran EXCEPT ![Called] = @ + 1] /\ executions' = executions + 1

\* AwaitApproval looks the decision up; another Approver, or none, decides now.
Decisions(tool) == IF tool \in setup.awaits THEN {decided[tool]} ELSE {"approve", "reject"}

ToolReturns ==
    /\ Ready("exec") /\ ~OverLimit /\ "approve" \in Decisions(Called)
    /\ Ran /\ CallEnds
    /\ UNCHANGED <<agent, review, iteration, model, response, counts, cancelled, reading, seen>>

\* The reviewer's rejection is a result, and nothing is executed.
ToolRejected ==
    /\ Ready("exec") /\ ~OverLimit /\ "reject" \in Decisions(Called)
    /\ CallEnds
    /\ UNCHANGED <<agent, review, iteration, model, response, counts, runs, cancelled, reading, seen>>

ToolFails ==
    /\ Ready("exec") /\ ~OverLimit /\ "approve" \in Decisions(Called)
    /\ Ran /\ AfterError
    /\ UNCHANGED <<agent, review, iteration, model, response, counts, cancelled, reading, seen>>

\* The chain returned an error that ends the run.
Aborted ==
    /\ Emit(<<Event("tool_result")>>)
    /\ Return("error")
    /\ UNCHANGED <<agent, conversation, current, counts, attempt, cancelled, reading, seen,
                   decided, shown>>

\* An Approver's own error, an invalid edit, or Abort from the tool.
ToolAborts ==
    /\ Ready("exec") /\ ~OverLimit /\ "approve" \in Decisions(Called)
    /\ Ran \/ UNCHANGED runs
    /\ Aborted
    /\ UNCHANGED asking

\* AwaitApproval: the interrupt of a call without a decision.
AwaitApproval ==
    /\ Ready("exec") /\ ~OverLimit /\ "none" \in Decisions(Called)
    /\ asking' = Called
    /\ Aborted
    /\ UNCHANGED runs

BackoffEnds ==
    /\ Ready("sleep")
    /\ attempt' = attempt + 1 /\ pc' = "exec"
    /\ UNCHANGED <<agent, review, conversation, current, counts, runs, result, cancelled, stream>>

BackoffCut ==
    /\ Ready("sleep") /\ cancelled
    /\ CallEnds
    /\ UNCHANGED <<agent, review, iteration, model, response, counts, runs, cancelled, reading, seen>>

-----------------------------------------------------------------------------
(* StreamMessages: the final event, and emit's select. *)

FinalEvent == Event(IF result = "ok" THEN "done" ELSE "error")

Finish ==
    /\ Ready("returning")
    /\ Emit(<<FinalEvent>>)
    /\ pc' = "returned"
    /\ UNCHANGED <<agent, review, conversation, calling, result, cancelled, reading, seen>>

Deliver ==
    /\ out # <<>> /\ reading
    /\ seen' = Head(out) /\ out' = Tail(out)
    /\ UNCHANGED <<agent, review, pc, conversation, calling, result, cancelled, reading>>

SendsOnly == FALSE

DropsAnyway == TRUE

GivesUp == cancelled

Drop ==
    /\ out # <<>> /\ GivesUp
    /\ out' = Tail(out)
    /\ UNCHANGED <<agent, review, pc, conversation, calling, result, cancelled, reading, seen>>

Cancel ==
    /\ pc # "returned" /\ ~cancelled /\ cancelled' = TRUE
    /\ UNCHANGED <<agent, review, pc, conversation, calling, result, stream>>

StopReading ==
    /\ setup.streams /\ reading /\ (pc # "returned" \/ out # <<>>)
    /\ reading' = FALSE
    /\ UNCHANGED <<agent, review, pc, conversation, calling, result, cancelled, out, seen>>

-----------------------------------------------------------------------------
(* The graph, which pauses the node, and the human. *)

OnlyLast(d) == [t \in Tool |-> IF t = asking THEN d ELSE "none"]

\* Approvals.With: decisions add up.
With(d) == [decided EXCEPT ![asking] = d]

\* The decision is made, and the node replays its run.
Resume == \E d \in {"approve", "reject"} :
    /\ pc = "returned" /\ out = <<>> /\ asking # NoTool
    /\ decided' = With(d) /\ shown' = [shown EXCEPT ![asking] = @ + 1]
    /\ asking' = NoTool
    /\ pc' = "next" /\ iteration' = 0 /\ messages' = given /\ model' = 0 /\ response' = <<>>
    /\ current' = 0 /\ stats' = [t \in Tool |-> 0] /\ total' = 0
    /\ attempt' = 0 /\ ran' = [t \in Tool |-> 0] /\ executions' = 0
    /\ result' = "none" /\ cancelled' = FALSE
    /\ out' = <<>> /\ reading' = TRUE /\ seen' = NoEvent
    /\ UNCHANGED agent

-----------------------------------------------------------------------------
\* The caller's history: a question, or one that follows an earlier round.
Histories == {<<User>>, <<User, Assistant(0, 1), ToolResult(0, 1), User>>}

Init ==
    /\ setup \in Setups /\ pc = "next" /\ iteration = 0
    /\ given \in Histories /\ messages = given /\ model = 0 /\ response = <<>>
    /\ current = 0 /\ stats = [t \in Tool |-> 0] /\ total = 0
    /\ attempt = 0 /\ ran = [t \in Tool |-> 0] /\ executions = 0
    /\ result = "none" /\ cancelled = FALSE
    /\ out = <<>> /\ reading = TRUE /\ seen = NoEvent
    /\ asking = NoTool /\ decided = [t \in Tool |-> "none"] /\ shown = [t \in Tool |-> 0]

ModelCall == BeforeModel \/ BeforeModelFails \/ ModelAnswers \/ ModelFails
Outcome   == AfterModelFails \/ Answer \/ NoExecutor \/ StartRound
ToolCall  == \/ StartCall \/ Refuse \/ ToolReturns \/ ToolRejected \/ ToolFails \/ ToolAborts
             \/ AwaitApproval
             \/ BackoffEnds \/ BackoffCut
Loop      == NextIteration \/ ModelCall \/ Outcome \/ ToolCall \/ Finish \/ Deliver \/ Drop

Next == Loop \/ Cancel \/ StopReading \/ Resume

Spec == Init /\ [][Next]_vars

\* The run is scheduled, and models and tools return.  Nothing is assumed of
\* the reader, and a human may never decide.
FairSpec == Spec /\ WF_vars(Loop)

-----------------------------------------------------------------------------
(* Properties. *)

\* The results of a round follow its assistant message, one for each call.
CallsAnswered(ms) == \A i \in 1..Len(ms) : ms[i].role = "assistant" =>
    /\ i + ms[i].n <= Len(ms)
    /\ \A k \in 1..ms[i].n : ms[i + k].role = "tool" /\ ms[i + k].round = ms[i].round
                             /\ ms[i + k].n = k

ResultsOwned(ms) == \A i \in 1..Len(ms) : ms[i].role = "tool" =>
    /\ i > ms[i].n
    /\ ms[i - ms[i].n].role = "assistant" /\ ms[i - ms[i].n].round = ms[i].round

\* Whatever tools do and middleware cuts, the conversation sent to the model is
\* one a provider accepts: every tool call is followed by its result and every
\* result has its call (agent.go:176, summarization.go:84).
ValidRequest == pc = "model" => CallsAnswered(messages) /\ ResultsOwned(messages)

\* The model sees the results of the calls it has just made, untouched, as
\* long as the middleware keeps as many as there are (context.go:66).
ResultsReachModel ==
    LET k == Len(response) IN
    (pc = "model" /\ iteration > 1 /\ setup.keepResults >= k /\ setup.keepRecent > k) =>
      /\ Len(messages) > k
      /\ \A i \in 1..k : messages[Len(messages) - k + i] = ToolResult(iteration - 1, i)

\* What is sent to a model (agent.go:139) makes sense to it.
SoundRequest == ValidRequest /\ ResultsReachModel

(***************************************************************************)
(* A tool guarded with AwaitApproval (hitl.go:209) is executed only after  *)
(* a human approved its call, whatever calls the replays of the node make, *)
(* what fails in them and how often they are retried; and nobody is asked  *)
(* about the same call twice, which would pause the node for ever.         *)
(***************************************************************************)
HumanDecides == \A t \in setup.awaits :
    /\ ran[t] > 0 => decided[t] = "approve"
    /\ shown[t] <= 1

\* The limits hold over what is executed: ModelCallLimit over the iterations
\* (limits.go:42) and ToolCallLimit over the executions (limits.go:74), where
\* each call it lets through is executed once and for each retry.
LimitsKept ==
    /\ setup.modelLimit > 0 => iteration <= setup.modelLimit
    /\ IF setup.named = {} THEN executions <= setup.toolLimit * (1 + setup.retries)
       ELSE \A t \in setup.named : ran[t] <= setup.toolLimit * (1 + setup.retries)

Final == {"done", "error"}

\* A reader that keeps reading sees each call, then its result, and as the last
\* event how the run ended (stream.go:64); nothing follows that one, even when
\* events were lost to a cancelled context.
EventsTellTheRun ==
    /\ [][seen' \notin {seen, NoEvent} =>
            /\ seen.kind \notin Final
            /\ seen'.kind \in Final => pc = "returned"
            /\ (seen'.kind = "tool_result" /\ ~cancelled) =>
                  seen = [seen' EXCEPT !.kind = "tool_call"]]_vars
    /\ [](pc = "returned" /\ out = <<>> /\ setup.streams /\ ~cancelled => seen = FinalEvent)

\* A run ends, and so does each of its replays, whatever the model wants, unless
\* it is blocked on a reader that neither reads nor cancels (stream.go:104).
RunEnds == []<>(\/ pc = "returned" /\ out = <<>>
                \/ out # <<>> /\ ~reading /\ ~cancelled)
=============================================================================
