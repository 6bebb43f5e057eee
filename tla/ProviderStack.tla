---------------------------- MODULE ProviderStack ----------------------------
(***************************************************************************)
(* Callers that share a stack of provider wrappers:                        *)
(* Generate over WithCache over WithHooks over                             *)
(* WithFallback(WithRetry(primary), secondary)                             *)
(* (src/generate.go, cache.go, hooks.go, fallback.go, retry.go).  A call   *)
(* is a Generate, which completes and decodes, or a Stream, which passes   *)
(* the cache.                                                              *)
(*                                                                         *)
(* Time passes in ticks: they count down a wait and age what is cached.    *)
(***************************************************************************)
EXTENDS Integers, Sequences, FiniteSets, SequencesExt

CONSTANTS
    Callers,
    Plans,        \* the calls each caller may make, in order: [kind, key]
    Errors,       \* failures of a provider: [status, after]; status 0 is no APIError
    Listed,       \* WithRetryableStatuses; {} when not given
    MaxRetries, BaseDelay, MaxDelay,
    ParseRetries,
    MaxEntries, TTL,
    Events,       \* streams a provider may give: sequences of "ev", "done", "error"
    Capacity      \* of a provider's event channel

\* Nothing follows the event that ends a stream (LLMStream: EndIsTold).
ASSUME StackAssumption ==
    /\ \A some \in Plans : some \in [Callers -> Seq([kind : {"generate", "stream"}, key : STRING])]
    /\ \A e \in Errors : e \in [status : Int, after : Nat]
    /\ \A s \in Events : /\ s \in Seq({"ev", "done", "error"}) /\ s # <<>> /\ s[Len(s)] # "ev"
                         /\ \A i \in 1..Len(s) - 1 : s[i] = "ev"
    /\ MaxRetries \in Nat /\ ParseRetries \in Nat
    /\ BaseDelay \in Nat \ {0} /\ MaxDelay \in Nat \ {0}
    /\ MaxEntries \in Nat \ {0} /\ TTL \in Nat \ {0} /\ Capacity \in Nat \ {0}

VARIABLES
    plan,      \* calls each caller has yet to make
    call,      \* [kind, key] of the call
    asked,     \* transcript that Generate has added to the request
    pc,
    attempt,   \* of the retry loop
    err,       \* the last error
    delay,     \* ticks left of the wait
    since,     \* ticks waited since the primary failed
    resp,      \* the response at hand
    reported,  \* hooks run for this request
    outcome,   \* what the call returned: "", "ok", "error"
    cache,     \* MemoryCache: entries, the latest used first
    cancelled, \* callers whose context is done
    feed,      \* the provider's stream: [left, channel]
    held,      \* the event being forwarded
    got,       \* events the caller received
    reading    \* callers that receive

request   == <<plan, call, asked, attempt, err, delay, since, resp>>
streaming == <<feed, held, got, reading>>
vars == <<request, pc, reported, outcome, cache, cancelled, streaming>>

NoError == [status |-> -1, after |-> 0]
Cancelled == [status |-> 0, after |-> 0]
NoResponse == [to |-> <<>>, content |-> "", age |-> 0]

-----------------------------------------------------------------------------
(* Errors, and the cache. *)

IsRetryable(e) == e.status = 429 \/ e.status \in 500..599

Retryable(e) == IF Listed = {} THEN IsRetryable(e) ELSE e.status \in Listed

\* Jitter takes any delay from half of it on.
Backoff(n) ==
    LET d == IF BaseDelay * 2^n > MaxDelay THEN MaxDelay ELSE BaseDelay * 2^n
    IN IF d > 1 THEN (d \div 2)..d ELSE {d}

\* The request, with what Generate has appended to its messages, and its key:
\* every field takes part, the messages among them.
Request(c)  == <<call[c].key, asked[c]>>

\* A key that leaves out the transcript of a re-asked question.
FirstQuestionKey(c) == <<call[c].key, <<>>>>

CacheKey(c) == Request(c)

Found(key) == {i \in DOMAIN cache : cache[i].key = key}

\* What Get leaves of the cache: the entry first, or not at all when expired.
Touched(i) == IF cache[i].age > TTL THEN RemoveAt(cache, i) ELSE <<cache[i]>> \o RemoveAt(cache, i)

\* What Set leaves: the entry first, in place of the one with its key, or of
\* the least recently used when there are too many.
Stored(key, r) ==
    LET kept == CASE Found(key) # {} -> RemoveAt(cache, CHOOSE i \in Found(key) : TRUE)
                  [] Found(key) = {} /\ Len(cache) >= MaxEntries -> Front(cache)
                  [] OTHER -> cache
    IN <<[key |-> key, resp |-> r, age |-> 0]>> \o kept

-----------------------------------------------------------------------------
(* Generate and CacheProvider.Complete. *)

Goto(c, label) == pc' = [pc EXCEPT ![c] = label]

\* A function returns, and its local variables are gone.
Forget(c) ==
    /\ err' = [err EXCEPT ![c] = NoError] /\ attempt' = [attempt EXCEPT ![c] = 0]
    /\ delay' = [delay EXCEPT ![c] = 0] /\ since' = [since EXCEPT ![c] = 0]

Begin(c) ==
    /\ pc[c] = "idle" /\ plan[c] # <<>>
    /\ plan' = [plan EXCEPT ![c] = Tail(@)]
    /\ call' = [call EXCEPT ![c] = Head(plan[c])]
    /\ asked' = [asked EXCEPT ![c] = <<>>]
    /\ reported' = [reported EXCEPT ![c] = <<>>] /\ outcome' = [outcome EXCEPT ![c] = ""]
    /\ got' = [got EXCEPT ![c] = <<>>] /\ reading' = reading \union {c} /\ cancelled' = cancelled \ {c}
    /\ Goto(c, IF Head(plan[c]).kind = "generate" THEN "get" ELSE "start")
    /\ UNCHANGED <<attempt, err, delay, since, resp, cache, feed, held>>

Hit(c) ==
    /\ pc[c] = "get"
    /\ \E i \in Found(CacheKey(c)) :
          /\ cache' = Touched(i)
          /\ IF cache[i].age > TTL THEN resp' = resp /\ Goto(c, "start")
             ELSE /\ resp' = [resp EXCEPT ![c] = [cache[i].resp EXCEPT !.age = cache[i].age]]
                  /\ Goto(c, "decode")
    /\ UNCHANGED <<plan, call, asked, attempt, err, delay, since, reported, outcome, cancelled, streaming>>

\* The key is not there, or a remote cache fails: an error is a miss.
Miss(c, failed) ==
    /\ pc[c] = "get" /\ (failed \/ Found(CacheKey(c)) = {})
    /\ Goto(c, "start")
    /\ UNCHANGED <<request, reported, outcome, cache, cancelled, streaming>>

Store(c, failed) ==
    /\ pc[c] = "set"
    /\ cache' = IF failed THEN cache ELSE Stored(CacheKey(c), resp[c])
    /\ Goto(c, "decode")
    /\ UNCHANGED <<request, reported, outcome, cancelled, streaming>>

Decode(c) ==
    /\ pc[c] = "decode"
    /\ LET again == resp[c].content = "bad" /\ Len(asked[c]) < ParseRetries IN
       /\ asked' = IF again THEN [asked EXCEPT ![c] = Append(@, resp[c].content)] ELSE asked
       /\ outcome' = IF again THEN outcome ELSE [outcome EXCEPT ![c] = IF resp[c].content = "bad" THEN "error" ELSE "ok"]
       /\ reported' = IF again THEN [reported EXCEPT ![c] = <<>>] ELSE reported
       /\ Goto(c, IF again THEN "get" ELSE "idle")
    /\ resp' = [resp EXCEPT ![c] = NoResponse]
    /\ UNCHANGED <<plan, call, attempt, err, delay, since, cache, cancelled, streaming>>

-----------------------------------------------------------------------------
(* HooksProvider around FallbackProvider and RetryProvider. *)

Start(c) ==
    /\ pc[c] = "start"
    /\ reported' = [reported EXCEPT ![c] = Append(@, "request")]
    /\ attempt' = [attempt EXCEPT ![c] = 0] /\ err' = [err EXCEPT ![c] = NoError]
    /\ Goto(c, "primary")
    /\ UNCHANGED <<plan, call, asked, delay, since, resp, outcome, cache, cancelled, streaming>>

\* A provider, which is external, answers: a response, or a stream.
Answer(c, content, events) ==
    /\ pc[c] \in {"primary", "secondary"}
    /\ IF call[c].kind = "generate" THEN events = <<>> ELSE events # <<>> /\ content = "good"
    /\ resp' = IF events = <<>> THEN [resp EXCEPT ![c] = [to |-> Request(c), content |-> content, age |-> 0]] ELSE resp
    /\ feed' = [feed EXCEPT ![c] = [left |-> events, channel |-> <<>>]]
    /\ Goto(c, IF events = <<>> THEN "respond" ELSE "forward")
    /\ Forget(c)
    /\ UNCHANGED <<plan, call, asked, reported, outcome, cache, cancelled, held, got, reading>>

\* Waiting for an error that will not clear.
WaitsForAnyError(e, n) == n < MaxRetries /\ e.after <= MaxDelay

\* It fails; a call made with a context that is done fails with that.
RetryWaits(e, n) == Retryable(e) /\ n < MaxRetries /\ e.after <= MaxDelay

PrimaryFails(c, e) ==
    /\ pc[c] = "primary"
    /\ err' = [err EXCEPT ![c] = e] /\ since' = [since EXCEPT ![c] = 0]
    /\ \E d \in (IF e.after > 0 THEN {e.after} ELSE Backoff(attempt[c])) :
          delay' = [delay EXCEPT ![c] = IF RetryWaits(e, attempt[c]) THEN d ELSE 0]
    /\ Goto(c, IF RetryWaits(e, attempt[c]) THEN "wait" ELSE "check")
    /\ UNCHANGED <<plan, call, asked, attempt, resp, reported, outcome, cache, cancelled, streaming>>

WaitEnds(c) ==
    /\ pc[c] = "wait"
    /\ \/ delay[c] = 0 /\ attempt' = [attempt EXCEPT ![c] = @ + 1] /\ Goto(c, "primary")
       \/ c \in cancelled /\ Goto(c, "check") /\ UNCHANGED attempt
    /\ UNCHANGED <<plan, call, asked, err, delay, since, resp, reported, outcome, cache, cancelled, streaming>>

\* FallbackProvider looks at the context between its two providers.
CheckContext(c) ==
    /\ pc[c] = "check"
    /\ Goto(c, IF c \in cancelled THEN "fail" ELSE "secondary")
    /\ err' = IF c \in cancelled THEN [err EXCEPT ![c] = Cancelled] ELSE err
    /\ UNCHANGED <<plan, call, asked, attempt, delay, since, resp, reported, outcome, cache, cancelled, streaming>>

SecondaryFails(c, e) ==
    /\ pc[c] = "secondary"
    /\ err' = [err EXCEPT ![c] = e]
    /\ Goto(c, "fail")
    /\ UNCHANGED <<plan, call, asked, attempt, delay, since, resp, reported, outcome, cache, cancelled, streaming>>

Report(c, hook) == reported' = [reported EXCEPT ![c] = Append(@, hook)]

Respond(c) ==
    /\ pc[c] = "respond"
    /\ Report(c, "response")
    /\ Goto(c, "set")
    /\ UNCHANGED <<request, outcome, cache, cancelled, streaming>>

Fail(c) ==
    /\ pc[c] = "fail"
    /\ Report(c, "error")
    /\ outcome' = [outcome EXCEPT ![c] = "error"]
    /\ Goto(c, "idle") /\ Forget(c)
    /\ UNCHANGED <<plan, call, asked, resp, cache, cancelled, streaming>>

-----------------------------------------------------------------------------
(* HooksProvider.Stream: the forwarding goroutine, between the provider's  *)
(* goroutine, which is external, and the caller.                           *)

Produce(c) ==
    /\ feed[c].left # <<>> /\ Len(feed[c].channel) < Capacity
    /\ feed' = [feed EXCEPT ![c] = [left |-> Tail(@.left), channel |-> Append(@.channel, Head(@.left))]]
    /\ UNCHANGED <<request, pc, reported, outcome, cache, cancelled, held, got, reading>>

\* It returns early when the context is done.
Abandon(c) ==
    /\ feed[c].left # <<>> /\ c \in cancelled
    /\ feed' = [feed EXCEPT ![c].left = <<>>]
    /\ UNCHANGED <<request, pc, reported, outcome, cache, cancelled, held, got, reading>>

Forward(c) ==
    /\ pc[c] \in {"forward", "drain"} /\ feed[c].channel # <<>>
    /\ feed' = [feed EXCEPT ![c].channel = Tail(@)]
    /\ held' = IF pc[c] = "drain" THEN held ELSE [held EXCEPT ![c] = Append(@, Head(feed[c].channel))]
    /\ pc' = IF pc[c] = "drain" THEN pc ELSE [pc EXCEPT ![c] = "offer"]
    /\ UNCHANGED <<request, reported, outcome, cache, cancelled, got, reading>>

Deliver(c) ==
    /\ pc[c] = "offer" /\ c \in reading
    /\ got' = [got EXCEPT ![c] = Append(@, Last(held[c]))]
    /\ Goto(c, "forward")
    /\ UNCHANGED <<request, reported, outcome, cache, cancelled, feed, held, reading>>

\* A send that does not look at the context.
KeepsOffering(c) == FALSE

GiveUpOffer(c) ==
    /\ pc[c] = "offer" /\ c \in cancelled
    /\ Goto(c, "drain")
    /\ UNCHANGED <<request, reported, outcome, cache, cancelled, streaming>>

\* Overlooking the error events of a stream.
OnlyDrained(c) == pc[c] = "drain"

StreamFailed(c) == pc[c] = "drain" \/ Contains(held[c], "error")

\* The provider's channel is closed and empty.
StreamOver(c) ==
    /\ pc[c] \in {"forward", "drain"} /\ feed[c] = [left |-> <<>>, channel |-> <<>>]
    /\ Report(c, IF StreamFailed(c) THEN "error" ELSE "response")
    /\ outcome' = [outcome EXCEPT ![c] = IF StreamFailed(c) THEN "error" ELSE "ok"]
    /\ held' = [held EXCEPT ![c] = <<>>]
    /\ Goto(c, "idle")
    /\ UNCHANGED <<request, cache, cancelled, feed, got, reading>>

-----------------------------------------------------------------------------
(* The callers' contexts, and time. *)

Cancel(c) ==
    /\ c \notin cancelled /\ pc[c] # "idle"
    /\ cancelled' = cancelled \union {c}
    /\ UNCHANGED <<request, pc, reported, outcome, cache, streaming>>

StopReading(c) ==
    /\ pc[c] \in {"forward", "offer"} /\ c \in reading
    /\ reading' = reading \ {c}
    /\ UNCHANGED <<request, pc, reported, outcome, cache, cancelled, feed, held, got>>

Sooner(n) == IF n > 0 THEN n - 1 ELSE 0
Older(n, bound) == IF n < bound THEN n + 1 ELSE bound

Tick ==
    /\ delay' = [c \in Callers |-> Sooner(delay[c])]
    /\ since' = [c \in Callers |-> IF pc[c] = "wait" THEN Older(since[c], MaxDelay) ELSE since[c]]
    /\ cache' = [i \in DOMAIN cache |-> [cache[i] EXCEPT !.age = Older(@, TTL + 1)]]
    /\ UNCHANGED <<plan, call, asked, attempt, err, resp, pc, reported, outcome, cancelled, streaming>>

Init ==
    /\ plan \in Plans
    /\ call = [c \in Callers |-> [kind |-> "generate", key |-> ""]]
    /\ asked = [c \in Callers |-> <<>>] /\ attempt = [c \in Callers |-> 0]
    /\ err = [c \in Callers |-> NoError] /\ resp = [c \in Callers |-> NoResponse]
    /\ delay = [c \in Callers |-> 0] /\ since = [c \in Callers |-> 0]
    /\ pc = [c \in Callers |-> "idle"] /\ reported = [c \in Callers |-> <<>>] /\ outcome = [c \in Callers |-> ""]
    /\ cache = <<>> /\ cancelled = {} /\ reading = {}
    /\ feed = [c \in Callers |-> [left |-> <<>>, channel |-> <<>>]]
    /\ held = [c \in Callers |-> <<>>] /\ got = [c \in Callers |-> <<>>]

\* Whatever the goroutines of a call do by themselves, or its provider does.
Step(c) ==
    \/ Hit(c)
    \/ \E failed \in BOOLEAN : Miss(c, failed) \/ Store(c, failed)
    \/ Decode(c)
    \/ Start(c)
    \/ \E content \in {"good", "bad"}, events \in Events \union {<<>>} : Answer(c, content, events)
    \/ \E e \in Errors : PrimaryFails(c, e) \/ SecondaryFails(c, e)
    \/ WaitEnds(c)
    \/ CheckContext(c)
    \/ Respond(c)
    \/ Fail(c)
    \/ Produce(c)
    \/ Abandon(c)
    \/ Forward(c)
    \/ Deliver(c)
    \/ GiveUpOffer(c)
    \/ StreamOver(c)

Next ==
    \/ \E c \in Callers : Begin(c) \/ Step(c) \/ Cancel(c) \/ StopReading(c)
    \/ Tick

\* Goroutines run, providers answer, and time passes.
Spec == Init /\ [][Next]_vars /\ WF_vars(Tick) /\ \A c \in Callers : WF_vars(Step(c))

-----------------------------------------------------------------------------
(* Properties. *)

\* The request and the outcome its hooks were told.
Told(c, hook) == reported[c] = <<"request", hook>>

(***************************************************************************)
(* Hooks (hooks.go:76) see one outcome for each request, the one the       *)
(* caller meets: a stream reported as a response lost no event on its way, *)
(* and went to its end unless the caller cancelled; an error is one the    *)
(* caller saw, or its cancellation.                                        *)
(***************************************************************************)
OutcomeReported ==
    \A c \in Callers :
        /\ Len(reported[c]) <= 2
        /\ pc[c] \notin {"idle", "get", "start", "set", "decode"} => reported[c] = <<"request">>
        /\ pc[c] = "idle" /\ call[c].kind = "stream" =>
              /\ Told(c, "response") => outcome[c] = "ok" /\ ~Contains(got[c], "error") /\ (c \in cancelled \/ Last(got[c]) = "done")
              /\ Told(c, "error") => outcome[c] = "error" /\ (got[c] = <<>> \/ c \in cancelled \/ Last(got[c]) = "error")
              /\ Told(c, "response") \/ Told(c, "error")
        /\ pc[c] = "idle" /\ call[c].kind = "generate" /\ outcome[c] # "" =>
              /\ outcome[c] = "ok" => reported[c] = <<>> \/ Told(c, "response")
              /\ Told(c, "error") => outcome[c] = "error"

(***************************************************************************)
(* The response that Generate decodes (generate.go:90) answers the very    *)
(* request it sent, re-asked questions included, and a cached one          *)
(* (cache.go:65) is not older than its time to live; the cache stays       *)
(* within its size, with one entry a key.                                  *)
(***************************************************************************)
CacheHonest ==
    /\ \A c \in Callers : pc[c] = "decode" => resp[c].to = Request(c) /\ resp[c].age <= TTL
    /\ Len(cache) <= MaxEntries
    /\ \A i, j \in DOMAIN cache : cache[i].key = cache[j].key => i = j

(***************************************************************************)
(* The primary is asked again (retry.go:106) only after an error that may  *)
(* clear, no more than MaxRetries times, and not before the wait that it   *)
(* asked for (retry.go:162); the secondary (fallback.go) only once the     *)
(* primary was given all of that, and never for a caller that cancelled    *)
(* while it waited.                                                        *)
(***************************************************************************)
FallbackLast ==
    \A c \in Callers :
        /\ pc[c] = "primary" /\ attempt[c] > 0 =>
              attempt[c] <= MaxRetries /\ Retryable(err[c]) /\ since[c] >= err[c].after
        /\ pc[c] = "secondary" =>
              attempt[c] = MaxRetries \/ ~Retryable(err[c]) \/ err[c].after > MaxDelay

(***************************************************************************)
(* Every call ends, and with it the goroutines of a stream (hooks.go:91),  *)
(* unless the caller stops reading and does not cancel.                    *)
(***************************************************************************)
CallsEnd ==
    \A c \in Callers : pc[c] # "idle" ~> pc[c] = "idle" \/ (c \notin reading /\ c \notin cancelled)
=============================================================================
