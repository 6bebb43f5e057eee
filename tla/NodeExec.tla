------------------------------ MODULE NodeExec ------------------------------
(***************************************************************************)
(* One execution of a node by the graph engine (src/graph/node.go,         *)
(* execNode, wrap and sleep): retries with backoff, a deadline for each    *)
(* attempt, and the error handler.  With WithNodeTimeout every attempt     *)
(* runs the node function in a goroutine of its own; an attempt that is    *)
(* given up at its deadline leaves that goroutine behind, still running    *)
(* and still sharing the run's resume slot (src/graph/interrupt.go).       *)
(***************************************************************************)
EXTENDS Naturals

CONSTANT Retries   \* WithNodeRetry

ASSUME NodeAssumption == Retries \in Nat

VARIABLES
    options,    \* how the node was added and the run resumed; fixed
    pc,         \* "call", "wait", "sleep", "handler" or "returned"
    attempt,    \* attempt
    body,       \* what the node function of each attempt is doing
    expired,    \* the current attempt's deadline has passed
    cancelled,  \* the run's context is done
    slot,       \* the resumeSlot: "none", "fresh" or "used"
    late,       \* attempts started after the run was cancelled
    returned    \* what execNode returned, and which attempt produced it

vars == <<options, pc, attempt, body, expired, cancelled, slot, late, returned>>

\* timeout: WithNodeTimeout; handler: WithErrorHandler; asks: the node function
\* calls Await before it can succeed; value: the run was resumed with a value.
Options == [timeout : BOOLEAN, handler : BOOLEAN, asks : BOOLEAN, value : BOOLEAN]

Attempt == 0..Retries

\* A node function is "running", or "answered" once past its Await, until its
\* outcome waits in the attempt's own channel.
Outcomes == {"ok", "failed", "interrupt"}

Returned(kind, a) == [kind |-> kind, from |-> a]

Live(a) == body[a] \in {"running", "answered"}

-----------------------------------------------------------------------------
(* The node function of attempt a, abandoned or not. *)

BodyAsks(a) ==
    /\ options.asks /\ body[a] = "running"
    /\ IF slot = "fresh"
       THEN slot' = "used" /\ body' = [body EXCEPT ![a] = "answered"]
       ELSE body' = [body EXCEPT ![a] = "interrupt"] /\ UNCHANGED slot
    /\ UNCHANGED <<options, pc, attempt, expired, cancelled, late, returned>>

BodyReturns(a) == \E o \in {"ok", "failed"} :
    /\ Live(a)
    /\ o = "ok" => (options.asks => body[a] = "answered")
    /\ body' = [body EXCEPT ![a] = o]
    /\ UNCHANGED <<options, pc, attempt, expired, cancelled, slot, late, returned>>

-----------------------------------------------------------------------------
(* execNode. *)

StartAttempt ==
    /\ pc = "call"
    /\ pc' = "wait" /\ expired' = FALSE
    /\ body' = [body EXCEPT ![attempt] = "running"]
    /\ late' = IF cancelled THEN late + 1 ELSE late
    /\ UNCHANGED <<options, attempt, cancelled, slot, returned>>

IgnoresCancel(err) == err # "interrupt" /\ attempt < Retries

\* The loop's test for another attempt: never after an interrupt, never in a
\* cancelled run, and only while retries are left.
TriesAgain(err) == err # "interrupt" /\ ~cancelled /\ attempt < Retries

\* The test for the error handler, evaluated after the loop.
Handles(err) == err # "interrupt" /\ options.handler /\ ~cancelled

\* What follows an attempt that ended with err.
AfterError(err) ==
    IF TriesAgain(err) THEN pc' = "sleep" /\ UNCHANGED returned
    ELSE IF Handles(err) THEN pc' = "handler" /\ UNCHANGED returned
    ELSE pc' = "returned" /\ returned' = Returned(err, attempt)

SharedChannel == {a \in Attempt : body[a] \in Outcomes}

\* The attempts whose result the select can receive: done is made anew for
\* each attempt, so only the current one.
Channel == {a \in {attempt} : body[a] \in Outcomes}

TakeResult == \E a \in Channel :
    /\ pc = "wait"
    /\ IF body[a] = "ok"
       THEN pc' = "returned" /\ returned' = Returned("ok", a)
       ELSE AfterError(body[a])
    /\ UNCHANGED <<options, attempt, body, expired, cancelled, slot, late>>

WaitsForRun ==
    /\ pc = "wait" /\ options.timeout /\ cancelled
    /\ AfterError("failed")
    /\ UNCHANGED <<options, attempt, body, expired, cancelled, slot, late>>

\* tctx is done first, by the deadline or through the run's context.
GiveUp ==
    /\ pc = "wait" /\ options.timeout
    /\ expired \/ cancelled
    /\ AfterError("failed")
    /\ UNCHANGED <<options, attempt, body, expired, cancelled, slot, late>>

Deadline ==
    /\ pc = "wait" /\ options.timeout /\ ~expired
    /\ expired' = TRUE
    /\ UNCHANGED <<options, pc, attempt, body, cancelled, slot, late, returned>>

\* The backoff timer fired; when the context is done too, either may win.
BackoffEnds ==
    /\ pc = "sleep"
    /\ pc' = "call" /\ attempt' = attempt + 1
    /\ UNCHANGED <<options, body, expired, cancelled, slot, late, returned>>

BackoffCut ==
    /\ pc = "sleep" /\ cancelled
    /\ pc' = "returned" /\ returned' = Returned("failed", attempt)
    /\ UNCHANGED <<options, attempt, body, expired, cancelled, slot, late>>

\* The handler recovers, or fails with an error of its own.
HandlerReturns == \E kind \in {"recovered", "failed"} :
    /\ pc = "handler"
    /\ pc' = "returned" /\ returned' = Returned(kind, attempt)
    /\ UNCHANGED <<options, attempt, body, expired, cancelled, slot, late>>

Cancel ==
    /\ ~cancelled /\ pc # "returned"
    /\ cancelled' = TRUE
    /\ UNCHANGED <<options, pc, attempt, body, expired, slot, late, returned>>

-----------------------------------------------------------------------------
Init ==
    /\ pc = "call" /\ attempt = 0
    /\ body = [a \in Attempt |-> "none"]
    /\ expired = FALSE /\ cancelled = FALSE /\ late = 0
    /\ options \in Options
    /\ slot = IF options.value THEN "fresh" ELSE "none"
    /\ returned = Returned("nothing", 0)

ExecNode == \/ StartAttempt \/ TakeResult \/ GiveUp \/ BackoffEnds \/ BackoffCut
            \/ HandlerReturns

Body == \E a \in Attempt : BodyAsks(a) \/ BodyReturns(a)

Next == ExecNode \/ Deadline \/ Body \/ Cancel

Spec == Init /\ [][Next]_vars

\* execNode is scheduled and its timers fire.  Nothing is assumed of the node
\* function: it may never return, and ignore its context.
FairSpec == Spec /\ WF_vars(ExecNode) /\ WF_vars(Deadline)

-----------------------------------------------------------------------------
(* Properties. *)

\* "A node that ignores its context keeps running in the background, but its
\* result is discarded" (node.go:36): whatever an abandoned attempt still does,
\* what execNode returns is the outcome of its last attempt.
StaleResultDiscarded ==
    pc = "returned" =>
      /\ returned.from = attempt
      /\ returned.kind = "ok" => body[attempt] = "ok"

\* An interrupt ends the execution and is returned as it is: it is neither
\* retried nor handed to the error handler (node.go:43, node.go:53), so a
\* node's question cannot disappear.  (A timeout may beat it to the select.)
InterruptIsFinal == \A a \in Attempt :
    (body[a] = "interrupt" /\ ~options.timeout) =>
      /\ a = attempt
      /\ pc = "wait" \/ (pc = "returned" /\ returned = Returned("interrupt", a))

\* The error handler runs once the retries are exhausted (node.go:52),
\* however attempts end: by themselves, at the deadline or by cancellation.
HandlerRunsLast == (pc = "handler" \/ returned.kind = "recovered") => attempt = Retries

\* What execNode (node.go:81) returns is its last attempt's doing, and nothing
\* that should have been its end was passed over on the way there.
LastAttemptDecides == StaleResultDiscarded /\ InterruptIsFinal /\ HandlerRunsLast

\* A cancelled run is not retried (node.go:44), but for the one attempt whose
\* backoff timer fired together with the cancellation.
CancelStopsRetries == late <= 1

\* With a timeout, execNode returns whatever the node function does.
ExecReturns == options.timeout ~> (pc = "returned")
=============================================================================
