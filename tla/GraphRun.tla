------------------------------ MODULE GraphRun ------------------------------
(***************************************************************************)
(* The graph engine (src/graph/graph.go, interrupt.go, checkpoint.go,      *)
(* drain.go): one thread, the calls of Run, Stream and Resume made on it,  *)
(* the run loop with its checkpoints, and the environment around it: the   *)
(* context being cancelled, a drain being requested, a stream's reader     *)
(* going away, the checkpoint store failing, and the process dying.        *)
(*                                                                         *)
(* A thread is one logical run (WithThreadID), so Run is only called while *)
(* it has no checkpoint, and calls on it do not overlap.  How execNode     *)
(* retries and times out is module NodeExec, how the branches of a fan-out *)
(* interleave is module RunBranches; here each is one step.                *)
(***************************************************************************)
EXTENDS Topology

CONSTANTS
    Asks,      \* Await calls one execution of a node makes, one after another
    Retrying,  \* nodes registered with WithNodeRetry
    MaxCalls   \* bound: calls of Run, Stream and Resume made on the thread

ASSUME AskAssumption ==
    /\ Asks \in [Node -> Nat]
    /\ Retrying \subseteq Node
    /\ MaxCalls \in Nat

VARIABLES
    history,   \* the checkpoint store's checkpoints of the thread, oldest first
    pc,        \* where the call stands: "idle" between calls
    node,      \* currentNode
    state,     \* state
    step,      \* step
    durable,   \* the call was given a checkpointer
    stream,    \* the call is Stream: events go to a reader
    cancelled, \* the call's context is done
    drain,     \* the call's Drain has been requested
    slot,      \* the call's resumeSlot: "none", "fresh" or "used"
    asked,     \* Await calls the executing node has got past
    out,       \* events record has yet to hand to the stream's reader
    reading,   \* the stream's reader still receives
    seen,      \* State of the last event the reader received
    result,    \* what the last call returned
    pending,   \* the interruption of the checkpoint the call resumed from
    misled,    \* an Await took a value that answered another question
    late,      \* nodes started since the drain was requested
    calls      \* calls made so far

store   == <<history>>
loop    == <<pc, node, state, step>>
config  == <<durable, stream, pending>>
signals == <<cancelled, drain, late>>
await   == <<slot, asked, misled>>
events  == <<out, reading, seen>>
vars == <<store, loop, config, signals, await, events, result, calls>>

-----------------------------------------------------------------------------
(* The values. *)

\* Interruption: the node that paused and its payload, which tells the visit
\* of the node and the Await call that asked.
Question == [node : Name, ask : Nat, step : Nat]

Ask(n, i) == [node |-> n, ask |-> i, step |-> step]

NoQuestion == [node |-> END, ask |-> 0, step |-> 0]

Checkpoint == [node : Name, state : State, step : Nat,
               done : BOOLEAN, intr : Question]

Kinds == {"none", "ok", "drained", "paused", "nodefailed", "failed", "crashed"}

Result == [kind : Kinds, node : Name, state : State, intr : Question]

Latest == history[Len(history)]

\* Where the thread's stored progress stands.
Saved == IF history = <<>> THEN Start ELSE Place(Latest.node, Latest.state)

Running == pc # "idle"

\* The loop's own code runs while record is not blocked on the reader.
Ready(l) == pc = l /\ out = <<>>

Return(kind, s, intr) ==
    /\ pc' = "idle"
    /\ result' = [kind |-> kind, node |-> node, state |-> s, intr |-> intr]

Fail(kind) == Return(kind, state, NoQuestion)

\* record: every event goes to the reader when the call is a Stream.
Record(evs) == out' = IF stream THEN evs ELSE <<>>

-----------------------------------------------------------------------------
(* The calls. *)

\* buildConfig and the fresh context, Drain and reader of a call.
Call(d, st, value) ==
    /\ pc = "idle" /\ calls < MaxCalls
    /\ calls' = calls + 1
    /\ durable' = d /\ stream' = st
    /\ cancelled' = FALSE /\ drain' = FALSE /\ late' = 0
    /\ slot' = value /\ asked' = 0 /\ misled' = FALSE
    /\ out' = <<>> /\ reading' = TRUE /\ seen' = <<>>
    /\ UNCHANGED history

\* Run and Stream: start at the entry point, at step 0.
Run == \E d, st \in BOOLEAN :
    /\ history = <<>>
    /\ Call(d, st, "none")
    /\ pending' = NoQuestion
    /\ pc' = "top" /\ node' = Entry /\ state' = <<>> /\ step' = 0
    /\ result' = [kind |-> "none", node |-> Entry, state |-> <<>>, intr |-> NoQuestion]

OldestCheckpoint == history[1]

\* Checkpointer.Load: the most recent checkpoint of the thread.
Load == history[Len(history)]

\* Resume of a finished thread returns the stored final state.
ResumeDone == \E value \in {"none", "fresh"} :
    /\ history # <<>> /\ (Load.done \/ Load.node = END)
    /\ Call(TRUE, FALSE, value)
    /\ pending' = NoQuestion
    /\ result' = [kind |-> "ok", node |-> Load.node, state |-> Load.state,
                  intr |-> NoQuestion]
    /\ UNCHANGED loop

\* Resume without a checkpoint, or whose Load fails.
ResumeRefused ==
    /\ Call(TRUE, FALSE, "none")
    /\ pending' = NoQuestion
    /\ result' = [kind |-> "failed", node |-> Entry, state |-> <<>>, intr |-> NoQuestion]
    /\ UNCHANGED loop

\* Resume: continue from the latest checkpoint.  WithResumeValue puts its slot
\* into the context, whether or not the checkpoint is paused at a question.
Resume == \E value \in {"none", "fresh"} :
    /\ history # <<>> /\ ~Load.done /\ Load.node # END
    /\ Call(TRUE, FALSE, value)
    /\ pending' = Load.intr
    /\ pc' = "top" /\ node' = Load.node /\ state' = Load.state /\ step' = Load.step
    /\ result' = [kind |-> "none", node |-> Load.node, state |-> Load.state,
                  intr |-> NoQuestion]

-----------------------------------------------------------------------------
(* The top of the loop: END, then the context, the budget and the node. *)

Finish ==
    /\ Ready("top") /\ node = END
    /\ Return("ok", state, NoQuestion)
    /\ UNCHANGED <<store, node, state, step, config, signals, await, events, calls>>

StopEarly ==
    /\ Ready("top") /\ node # END
    /\ cancelled \/ step >= MaxSteps \/ node \notin Node
    /\ Fail("failed")
    /\ UNCHANGED <<store, node, state, step, config, signals, await, events, calls>>

StartNode ==
    /\ Ready("top") /\ node \in Node
    /\ ~cancelled /\ step < MaxSteps
    /\ pc' = "exec" /\ asked' = 0
    /\ late' = IF drain THEN late + 1 ELSE late
    /\ UNCHANGED <<store, node, state, step, config, cancelled, drain, slot, misled,
                   events, result, calls>>

-----------------------------------------------------------------------------
(* execNode. *)

SlotKept == "fresh"

\* The slot is consumed by the first Await that reads it.
SlotAfterAwait == "used"

AwaitAnswered ==
    /\ Ready("exec") /\ asked < Asks[node] /\ slot = "fresh"
    /\ slot' = SlotAfterAwait
    /\ asked' = asked + 1
    /\ misled' = (misled \/ pending # Ask(node, asked + 1))
    /\ UNCHANGED <<store, loop, config, signals, events, result, calls>>

\* An Await with no value left: the node returns the InterruptError.
AwaitInterrupts ==
    /\ Ready("exec") /\ asked < Asks[node] /\ slot # "fresh"
    /\ pc' = "pause"
    /\ UNCHANGED <<store, node, state, step, config, signals, await, events, result, calls>>

\* An attempt failed and execNode runs the node from the top again.
Retry ==
    /\ Ready("exec") /\ node \in Retrying /\ asked > 0 /\ ~cancelled
    /\ asked' = 0
    /\ UNCHANGED <<store, loop, config, signals, slot, misled, events, result, calls>>

\* The node, or its error handler, produced a state: count it and record it.
Executed(by, to, next) ==
    LET s == Append(state, Exec(node, by)) IN
    /\ state' = s /\ step' = step + 1
    /\ Record(<<s>>)
    /\ pc' = to /\ node' = next
    /\ UNCHANGED <<store, config, signals, await, reading, seen, result, calls>>

NodeOk ==
    /\ Ready("exec") /\ asked = Asks[node]
    /\ Executed("node", "route", node)

\* The error handler runs only while the run's context is live.
Recover == \E next \in OverridesOf(node) :
    /\ Ready("exec") /\ ~cancelled
    /\ IF next = NoNext THEN Executed("handler", "route", node)
                        ELSE Executed("handler", "save", next)

NodeFails ==
    /\ Ready("exec")
    /\ Fail("nodefailed")
    /\ UNCHANGED <<store, node, state, step, config, signals, await, events, calls>>

-----------------------------------------------------------------------------
(* Routing: fan-out, router, edge. *)

\* The branches of a fan-out that call Await; one that fails before it and is
\* recovered by its error handler never does.
AskingBranches(sends) == {i \in 1..Len(sends) : sends[i] \in Node /\ Asks[sends[i]] > 0}

Recoverable(n) == OverridesOf(n) # {}

\* Each branch is a node execution.
StepsOf(sends) == Len(sends)

\* Every branch returned.  The branches share the run's context, so one Await
\* among them can still take the resume value; any other Await interrupts.
FanOut == \E sends \in IF node \in DOMAIN Fan THEN Fan[node] ELSE {} :
    /\ Ready("route")
    /\ Planned(sends) /\ step + StepsOf(sends) <= MaxSteps
    /\ \E asking \in SUBSET AskingBranches(sends) :
          /\ \A i \in AskingBranches(sends) \ asking : Recoverable(sends[i])
          /\ \/ asking = {} /\ UNCHANGED await
             \/ /\ slot = "fresh"
                /\ \E i \in asking :
                      /\ asking = {i} /\ (Asks[sends[i]] = 1 \/ Recoverable(sends[i]))
                      /\ misled' = (misled \/ pending # Ask(sends[i], 1))
                /\ slot' = SlotAfterAwait
                /\ UNCHANGED asked
    /\ state' = Reduced(state, sends)
    /\ step' = step + StepsOf(sends)
    /\ Record([i \in 1..Len(sends) |-> Append(state, Exec(sends[i], "branch"))])
    /\ node' = Join[node] /\ pc' = "save"
    /\ UNCHANGED <<store, config, signals, reading, seen, result, calls>>

\* The fan function failed, named an unknown node or more branches than the
\* budget has left, or a branch failed or interrupted.
FanOutFails ==
    /\ Ready("route") /\ node \in DOMAIN Fan
    /\ Fail("failed")
    /\ UNCHANGED <<store, node, state, step, config, signals, await, events, calls>>

TakeEdge == \E next \in EdgesOf(node) :
    /\ Ready("route") /\ node \notin DOMAIN Fan
    /\ node' = next /\ pc' = "save"
    /\ UNCHANGED <<store, state, step, config, signals, await, events, result, calls>>

\* The router failed, or the node has no edge.
NoEdge ==
    /\ Ready("route") /\ node \notin DOMAIN Fan
    /\ node \in DOMAIN Route \/ EdgesOf(node) = {}
    /\ Fail("failed")
    /\ UNCHANGED <<store, node, state, step, config, signals, await, events, calls>>

-----------------------------------------------------------------------------
(* saveCheckpoint and the drain check that follows it. *)

Stored(intr) == [node |-> node, state |-> state, step |-> step,
                 done |-> (node = END), intr |-> intr]

DrainsAtEnd == drain

NeverDrains == FALSE

\* drained(), asked only when there is a next node to stop before.
Draining == node # END /\ drain

Save ==
    /\ Ready("save")
    /\ history' = IF durable THEN Append(history, Stored(NoQuestion)) ELSE history
    /\ IF Draining
       THEN Return("drained", state, NoQuestion)
       ELSE pc' = "top" /\ UNCHANGED result
    /\ UNCHANGED <<node, state, step, config, signals, await, events, calls>>

\* The store reports an error, whether or not it kept the checkpoint.
SaveFails ==
    /\ Ready("save") /\ durable
    /\ history' \in {history, Append(history, Stored(NoQuestion))}
    /\ Fail("failed")
    /\ UNCHANGED <<node, state, step, config, signals, await, events, calls>>

(* pause: the interrupted node runs again on resume. *)

Asked == Ask(node, asked + 1)

Pause ==
    /\ Ready("pause")
    /\ IF durable
       THEN /\ history' = Append(history, Stored(Asked))
            /\ Record(<<state>>)
            /\ pc' = "paused" /\ UNCHANGED result
       ELSE /\ Fail("nodefailed")
            /\ UNCHANGED <<history, out>>
    /\ UNCHANGED <<node, state, step, config, signals, await, reading, seen, calls>>

PauseFails ==
    /\ Ready("pause") /\ durable
    /\ history' \in {history, Append(history, Stored(Asked))}
    /\ Fail("failed")
    /\ UNCHANGED <<node, state, step, config, signals, await, events, calls>>

PauseReturns ==
    /\ Ready("paused")
    /\ Return("paused", state, Asked)
    /\ UNCHANGED <<store, node, state, step, config, signals, await, events, calls>>

-----------------------------------------------------------------------------
(* Stream's emit: a select on the unbuffered channel and the context. *)

Deliver ==
    /\ out # <<>> /\ reading
    /\ seen' = Head(out) /\ out' = Tail(out)
    /\ UNCHANGED <<store, loop, config, signals, await, reading, result, calls>>

SendsOnly == FALSE

\* The select's other case: the context is done.
GivesUp == cancelled

Drop ==
    /\ out # <<>> /\ GivesUp
    /\ out' = Tail(out)
    /\ UNCHANGED <<store, loop, config, signals, await, reading, seen, result, calls>>

-----------------------------------------------------------------------------
(* The environment. *)

Cancel ==
    /\ Running /\ ~cancelled /\ cancelled' = TRUE
    /\ UNCHANGED <<store, loop, config, drain, late, await, events, result, calls>>

RequestDrain ==
    /\ Running /\ ~drain /\ drain' = TRUE
    /\ UNCHANGED <<store, loop, config, cancelled, late, await, events, result, calls>>

StopReading ==
    /\ Running /\ stream /\ reading /\ reading' = FALSE
    /\ UNCHANGED <<store, loop, config, signals, await, out, seen, result, calls>>

\* The process dies: everything but the store is lost.
Crash ==
    /\ Running
    /\ Fail("crashed")
    /\ out' = <<>>
    /\ UNCHANGED <<store, node, state, step, config, signals, await, reading, seen, calls>>

-----------------------------------------------------------------------------
Caller == Run \/ ResumeDone \/ ResumeRefused \/ Resume

Top     == Finish \/ StopEarly \/ StartNode
Execute == AwaitAnswered \/ AwaitInterrupts \/ Retry \/ NodeOk \/ Recover \/ NodeFails
Routing == FanOut \/ FanOutFails \/ TakeEdge \/ NoEdge
Saving  == Save \/ SaveFails \/ Pause \/ PauseFails \/ PauseReturns
Emit    == Deliver \/ Drop
Loop    == Top \/ Execute \/ Routing \/ Saving \/ Emit

Environment == Cancel \/ RequestDrain \/ StopReading \/ Crash

Init ==
    /\ history = <<>>
    /\ pc = "idle" /\ node = Entry /\ state = <<>> /\ step = 0
    /\ durable = FALSE /\ stream = FALSE /\ pending = NoQuestion
    /\ cancelled = FALSE /\ drain = FALSE /\ late = 0
    /\ slot = "none" /\ asked = 0 /\ misled = FALSE
    /\ out = <<>> /\ reading = TRUE /\ seen = <<>>
    /\ result = [kind |-> "none", node |-> Entry, state |-> <<>>, intr |-> NoQuestion]
    /\ calls = 0

Next == Caller \/ Loop \/ Environment

Spec == Init /\ [][Next]_vars

\* A running loop keeps taking steps: nodes return, the scheduler is fair.
\* Nothing is assumed of the callers or of the environment.
FairSpec == Spec /\ WF_vars(Loop)

-----------------------------------------------------------------------------
(* Properties. *)

FlagsOK ==
    /\ durable \in BOOLEAN /\ stream \in BOOLEAN /\ cancelled \in BOOLEAN
    /\ drain \in BOOLEAN /\ misled \in BOOLEAN /\ reading \in BOOLEAN

DataOK ==
    /\ history \in Seq(Checkpoint)
    /\ pc \in {"idle", "top", "exec", "route", "save", "pause", "paused"}
    /\ node \in Name /\ state \in State /\ step \in Nat /\ pending \in Question
    /\ slot \in {"none", "fresh", "used"} /\ asked \in Nat /\ late \in Nat
    /\ out \in Seq(State) /\ seen \in State
    /\ result \in Result /\ calls \in Nat

\* Every variable of the run loop (graph.go:363) holds a value of its type.
TypeOK == FlagsOK /\ DataOK

\* The output of the node the run is at, by itself or by its error handler
\* returning "", on top of the stored progress.
JustExecuted ==
    /\ node \in Node /\ Saved.node = node
    /\ Len(Saved.state) < MaxSteps
    /\ \/ state = Append(Saved.state, Exec(node, "node"))
       \/ /\ state = Append(Saved.state, Exec(node, "handler"))
          /\ NoNext \in OverridesOf(node)

\* A durable run (graph.go, run) is never more than the superstep it is in
\* ahead of the thread's latest checkpoint: at the top of the loop, and while
\* a node executes or pauses, it stands exactly where the store stands, and
\* what it is about to save is one superstep on from there.  So a crash at
\* any point loses one superstep at most and Resume repeats no earlier one.
OneSuperstepAhead ==
    durable =>
      /\ pc \in {"top", "exec", "pause", "paused"} => Place(node, state) = Saved
      /\ pc = "route" => JustExecuted
      /\ pc = "save" => Place(node, state) \in Supersteps(Saved)

\* The step counter (graph.go:372) counts the executions the state is made
\* of, in memory and in every checkpoint, through fan-outs and resumes, and
\* stays within the budget.
StepsCounted ==
    /\ step = Len(state) /\ step <= MaxSteps
    /\ pc = "exec" => node \in Node /\ step < MaxSteps
    /\ \A i \in 1..Len(history) : /\ history[i].step = Len(history[i].state)
                                 /\ history[i].step <= MaxSteps

\* What a durable call reported is what the store holds: a finished call left
\* a Done checkpoint of its result, a drained one a checkpoint Resume goes on
\* from, a paused one the question it returned.
ResultIsStored ==
    (pc = "idle" /\ durable /\ result.kind \in {"ok", "drained", "paused"}) =>
      /\ history # <<>> /\ Latest.state = result.state
      /\ Latest.done <=> result.kind = "ok"
      /\ Latest.intr = result.intr

\* A failed node is where Resume picks the thread up, with the state that
\* went into it; when there is no checkpoint yet, that is where Run starts.
FailedNodeRunsAgain ==
    (pc = "idle" /\ durable /\ result.kind = "nodefailed") =>
      Saved = Place(result.node, result.state)

\* What a durable call (graph.go, run) returned is true of the store.
CallReports == ResultIsStored /\ FailedNodeRunsAgain

\* Where every node asks at most once, a resume value reaches another Await
\* than the one that asked (interrupt.go:75) in two cases only: the checkpoint
\* asks nothing, as when the answer was taken, its superstep saved, a later
\* node failed and Resume is retried with the same value (graph.go:351 does
\* not look at the checkpoint's Interruption); or the node that asked failed
\* before its Await and its error handler recovered it (node.go:107), which
\* leaves the slot unread.
AnswerStaysWithAsker ==
    misled => \/ pending = NoQuestion
              \/ Len(state) > pending.step /\ state[pending.step + 1].by = "handler"

\* Once a drain is requested (drain.go:5) at most the superstep under way, or
\* the one about to start, is still executed by the call: after it the loop is
\* back at the top only to finish at END.
DrainStopsRun == late <= 1 /\ (late = 1 => drain /\ (pc = "top" => node = END))

\* The stream of a call that ended well without being cancelled ends with
\* the final state, unless its last superstep was a fan-out.
StreamEndsWithResult ==
    (pc = "idle" /\ stream /\ ~cancelled /\ result.kind \in {"ok", "drained", "paused"}
       /\ (state # <<>> => state[Len(state)].by # "branch"))
    => seen = result.state

\* What passes between a call and its caller besides the result, the resume
\* value and the events (graph.go:308), is the run's own.
CallerInTouch == AnswerStaysWithAsker /\ StreamEndsWithResult

\* Stored progress is that of one uninterrupted walk over the graph.
Walk == INSTANCE GraphWalk WITH at <- Saved
WalkSpec == Walk!Spec

\* Every call returns, unless it is blocked on a reader that neither reads
\* nor cancels; cancelling the context always frees it (graph.go:308).
CallReturns == []<>(pc = "idle" \/ (out # <<>> /\ ~reading /\ ~cancelled))
=============================================================================
