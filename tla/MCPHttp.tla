------------------------------- MODULE MCPHttp -------------------------------
(***************************************************************************)
(* An MCP client over streamable HTTP (src/mcp/client.go,                  *)
(* transport_http.go, elicitation.go): it sets itself up, then runs tool   *)
(* calls at the same time, each a POST whose answer may be a stream in     *)
(* which the server asks the user something, answered by a POST of its     *)
(* own.  Every POST gets a token from the token source, and is sent once   *)
(* more after a 401.                                                       *)
(*                                                                         *)
(* The calls are made in graph nodes with AwaitElicitation: a question     *)
(* that has no answer yet pauses the node, whose checkpoint keeps the      *)
(* question and the answers given before; it makes its call again when it  *)
(* is resumed with them and the new one, which is only in memory until the *)
(* node pauses again.                                                      *)
(***************************************************************************)
EXTENDS TokenSource

CONSTANTS
    Main,        \* the process that makes the client; the others make calls
    Pages,       \* pages of the tool list
    Questions    \* how many things the server asks in a call of each process

ASSUME HttpAssumption ==
    Main \in Procs /\ Pages \in Nat \ {0} /\ Questions \in [Procs -> Nat]

VARIABLES
    pc,        \* where each process stands
    job,       \* what it posts: "initialize", "initialized", "list", "call" or "reply"
    tries,     \* POSTs made of it
    sessionID, \* httpTransport.sessionID is set
    listed,    \* pages of the listing under way
    next,      \* the next question of the call
    slot,      \* elicitSlot.err: the first question that had no answer
    answers,   \* Elicitations the node was resumed with, in the resume slot
    kept,      \* Answered of the PendingElicitation in its checkpoint
    open,      \* the question of that PendingElicitation, or 0
    shown,     \* times the user was shown each question
    lost,      \* times the process died with its answer in memory only
    refused,   \* processes that met a second 401 although no token died
    shaken     \* processes running since before a token was revoked or ran out

human    == <<answers, kept, open, shown, lost>>
httpVars == <<pc, job, tries, sessionID, listed, next, slot, human, refused, shaken>>
vars     == <<httpVars, tokenVars>>

Asked(p) == 1..Questions[p]

-----------------------------------------------------------------------------
(* post and postOnce. *)

\* A step that leaves the token source alone.
Idle == UNCHANGED <<holder, auth, state, bearer, session, meta, store, issuer, expired, clients, states, excused>>

Goto(p, label) == pc' = [pc EXCEPT ![p] = label]

\* post: a job is sent, which begins with a token.
Post(p, what) ==
    /\ Goto(p, "token") /\ job' = [job EXCEPT ![p] = what]
    /\ tries' = [tries EXCEPT ![p] = 1]
    /\ At(p, "lock") /\ bearer' = [bearer EXCEPT ![p] = 0]
    /\ UNCHANGED <<holder, state, session, meta, store, issuer, expired, clients, states, excused>>

\* The answer is here, and its POST is over.
Posted(p, label) ==
    /\ Goto(p, label) /\ Used(p)
    /\ job' = [job EXCEPT ![p] = ""] /\ tries' = [tries EXCEPT ![p] = 1]

\* What follows when a POST has failed: the notification is best-effort.
Failed(p) ==
    IF job[p] = "initialized" THEN Post(p, "list")
    ELSE Posted(p, "failed")

NoToken(p) ==
    /\ pc[p] = "token" /\ auth[p] = "failed" /\ May(FALSE)
    /\ Failed(p)
    /\ UNCHANGED <<sessionID, listed, next, slot, human, refused, shaken>>

\* No connection, or a status other than 200 and 401.
Lost(p) ==
    /\ pc[p] = "token" /\ auth[p] = "got" /\ May(TRUE)
    /\ Failed(p)
    /\ UNCHANGED <<sessionID, listed, next, slot, human, refused, shaken>>

Rejected(p) == pc[p] = "token" /\ auth[p] = "got" /\ bearer[p] \notin good

\* The first 401 drops the token; the second is the answer.
Reject(p) ==
    /\ Rejected(p) /\ tries[p] = 1
    /\ Goto(p, "invalidate")
    /\ UNCHANGED <<job, tries, sessionID, listed, next, slot, human, refused, shaken, tokenVars>>

Invalidate(p) ==
    /\ pc[p] = "invalidate"
    /\ InvalidateToken /\ May(FALSE)
    /\ Goto(p, "token") /\ tries' = [tries EXCEPT ![p] = 2] /\ At(p, "lock")
    /\ UNCHANGED <<job, sessionID, listed, next, slot, human, refused, shaken>>

RejectAgain(p) ==
    /\ Rejected(p) /\ tries[p] = 2 /\ May(FALSE)
    /\ Failed(p)
    /\ refused' = IF p \in shaken THEN refused ELSE refused \union {p}
    /\ UNCHANGED <<sessionID, listed, next, slot, human, shaken>>

-----------------------------------------------------------------------------
(* setup: initialize, the notification, and the pages of the tool list. *)

\* The server wants the session it gave.
Accepted(p, what) ==
    /\ pc[p] = "token" /\ auth[p] = "got" /\ bearer[p] \in good /\ job[p] = what
    /\ what # "initialize" => sessionID

Setup ==
    /\ pc[Main] = "idle" /\ May(FALSE)
    /\ Post(Main, "initialize")
    /\ sessionID' = FALSE /\ listed' = 0 /\ shaken' = shaken \ {Main}
    /\ UNCHANGED <<next, slot, human, refused>>

Initialized ==
    /\ Accepted(Main, "initialize") /\ May(FALSE)
    /\ sessionID' = TRUE
    /\ Post(Main, "initialized")
    /\ UNCHANGED <<listed, next, slot, human, refused, shaken>>

Notified ==
    /\ Accepted(Main, "initialized") /\ May(FALSE)
    /\ Post(Main, "list")
    /\ UNCHANGED <<sessionID, listed, next, slot, human, refused, shaken>>

\* paginate.
Listed ==
    /\ Accepted(Main, "list") /\ May(FALSE)
    /\ listed' = listed + 1
    /\ IF listed + 1 < Pages THEN Post(Main, "list") ELSE Posted(Main, "done")
    /\ UNCHANGED <<sessionID, next, slot, human, refused, shaken>>

-----------------------------------------------------------------------------
(* Execute, readStream and handleElicit. *)

Call(p) ==
    /\ p # Main /\ pc[p] = "idle" /\ pc[Main] = "done" /\ May(FALSE)
    /\ Post(p, "call")
    /\ next' = [next EXCEPT ![p] = 1] /\ slot' = [slot EXCEPT ![p] = 0]
    /\ shaken' = shaken \ {p}
    /\ UNCHANGED <<sessionID, listed, human, refused>>

\* The answer to a POST: the body of a call is read, that of a reply is not.
Answered(p) ==
    /\ Accepted(p, "call") \/ Accepted(p, "reply")
    /\ May(FALSE)
    /\ Posted(p, "read")
    /\ UNCHANGED <<sessionID, listed, next, slot, human, refused, shaken>>

\* elicitErrs.record: the first error of a call is its error.
Record(p, q) == slot' = IF slot[p] = 0 THEN [slot EXCEPT ![p] = q] ELSE slot

\* A server request in the stream; AwaitElicitation knows the answer or pauses.
Elicited(p) ==
    /\ pc[p] = "read" /\ next[p] \in Asked(p) /\ May(FALSE)
    /\ next' = [next EXCEPT ![p] = @ + 1]
    /\ IF next[p] \in answers[p] THEN UNCHANGED slot ELSE Record(p, next[p])
    /\ Post(p, "reply")
    /\ UNCHANGED <<sessionID, listed, human, refused, shaken>>

\* The response, or an end of the stream without one.
Response(p, ok) ==
    /\ pc[p] = "read" /\ May(~ok)
    /\ ok => next[p] \notin Asked(p) \/ slot[p] # 0
    /\ Goto(p, IF ok THEN "done" ELSE "failed")
    /\ next' = [next EXCEPT ![p] = 1] /\ shaken' = shaken \ {p}
    /\ UNCHANGED <<job, tries, sessionID, listed, slot, human, refused>>
    /\ Idle

\* Execute returns the handler's error before anything else, and the graph
\* pauses: the checkpoint has the question and the answers there were.
Paused(p) == p # Main /\ pc[p] \in {"done", "failed"} /\ slot[p] # 0

Pause(p) ==
    /\ Paused(p)
    /\ open' = [open EXCEPT ![p] = slot[p]] /\ kept' = [kept EXCEPT ![p] = answers[p]]
    /\ answers' = [answers EXCEPT ![p] = {}] /\ slot' = [slot EXCEPT ![p] = 0]
    /\ Goto(p, "paused")
    /\ UNCHANGED <<job, tries, sessionID, listed, next, shown, lost, refused, shaken, tokenVars>>

\* Forgetting the answers given before.
OnlyLast(known, q) == {q}

\* Elicitations.With: answers add up.
With(known, q) == known \union {q}

\* The user is shown the question, and the node resumed with
\* Answered.With(p, answer).
Resume(p) ==
    /\ p # Main /\ pc[p] = "paused"
    /\ answers' = [answers EXCEPT ![p] = With(kept[p], open[p])]
    /\ shown' = [shown EXCEPT ![p][open[p]] = @ + 1]
    /\ Goto(p, "idle")
    /\ UNCHANGED <<job, tries, sessionID, listed, next, slot, kept, open, lost, refused, shaken, tokenVars>>

-----------------------------------------------------------------------------
(* Tokens run out and are revoked, and the process restarts. *)

Running(p) == pc[p] \notin {"idle", "done", "failed", "paused"}

TokenDies(access) ==
    /\ Expire(access) \/ Revoke(access)
    /\ shaken' = shaken \union {p \in Procs : Running(p)}
    /\ UNCHANGED <<pc, job, tries, sessionID, listed, next, slot, human, refused>>

\* What is left of a node is its checkpoint: it waits for an answer to the
\* question there, or starts anew.
Crash ==
    /\ Restart
    /\ pc' = [p \in Procs |-> IF open[p] # 0 THEN "paused" ELSE "idle"]
    /\ job' = [p \in Procs |-> ""] /\ tries' = [p \in Procs |-> 1]
    /\ sessionID' = FALSE /\ listed' = 0
    /\ next' = [p \in Procs |-> 1] /\ slot' = [p \in Procs |-> 0]
    /\ answers' = [p \in Procs |-> {}]
    /\ lost' = [p \in Procs |-> [q \in Asked(p) |->
                   IF q \in answers[p] \ kept[p] THEN lost[p][q] + 1 ELSE lost[p][q]]]
    /\ shaken' = {}
    /\ UNCHANGED <<kept, open, shown, refused>>

Init ==
    /\ TokenInit
    /\ pc = [p \in Procs |-> "idle"] /\ job = [p \in Procs |-> ""] /\ tries = [p \in Procs |-> 1]
    /\ sessionID = FALSE /\ listed = 0
    /\ next = [p \in Procs |-> 1] /\ slot = [p \in Procs |-> 0]
    /\ answers = [p \in Procs |-> {}] /\ kept = [p \in Procs |-> {}]
    /\ open = [p \in Procs |-> 0]
    /\ shown = [p \in Procs |-> [q \in Asked(p) |-> 0]] /\ lost = shown
    /\ refused = {} /\ shaken = {}

Step(p) ==
    \/ TokenStep(p) /\ UNCHANGED httpVars
    \/ NoToken(p)
    \/ Lost(p)
    \/ Reject(p)
    \/ Invalidate(p)
    \/ RejectAgain(p)
    \/ Answered(p)
    \/ Elicited(p)
    \/ \E ok \in BOOLEAN : Response(p, ok)

SetupStep ==
    \/ Initialized
    \/ Notified
    \/ Listed

Next ==
    \/ Setup
    \/ SetupStep
    \/ \E p \in Procs : Call(p) \/ Step(p) \/ Pause(p) \/ Resume(p)
    \/ \E access \in 1..MaxTokens : TokenDies(access)
    \/ Crash

\* The client runs, servers answer or fail, and a user who is sent to the
\* authorization server comes back.
Spec ==
    /\ Init /\ [][Next]_vars
    /\ WF_vars(SetupStep) /\ \A p \in Procs : WF_vars(Step(p))

-----------------------------------------------------------------------------
(* Properties. *)

(***************************************************************************)
(* The retry after a 401 (transport_http.go:148) is enough: a call is      *)
(* refused for its token only when a token died while it was running, even *)
(* though other calls refresh and invalidate the shared one at the same    *)
(* time.                                                                   *)
(***************************************************************************)
RetryEnough == refused = {}

(***************************************************************************)
(* "a restart neither registers a new client nor asks the user to          *)
(* authorize again" (oauth.go:66): while the servers and the store work,   *)
(* one registration and one authorization last for all calls, all expired  *)
(* and revoked tokens and all restarts.                                    *)
(***************************************************************************)
AskedOnce == ~excused => clients <= 1 /\ states <= 1

(***************************************************************************)
(* A question is put to the user again (AwaitElicitation,                  *)
(* elicitation.go:181) only when the process died while its answer was in  *)
(* the resume slot (graph.go:351) and not yet in the Answered of a         *)
(* checkpoint (elicitation.go:186): not after a pause for another          *)
(* question, whatever fails or restarts then.  A call that ends well had   *)
(* all its questions answered.                                             *)
(***************************************************************************)
ElicitedOnce ==
    \A p \in Procs \ {Main} :
        /\ \A q \in Asked(p) : shown[p][q] <= 1 + lost[p][q]
        /\ pc[p] = "done" /\ slot[p] = 0 => Asked(p) \subseteq answers[p]

(***************************************************************************)
(* Every request ends, though all of them wait for one mutex while a user  *)
(* authorizes (oauth.go:163): a behaviour has finitely many, and none is   *)
(* left running.                                                           *)
(***************************************************************************)
RequestsEnd == <>[](\A p \in Procs : ~Running(p))
=============================================================================
