----------------------------- MODULE RateLimit ------------------------------
(***************************************************************************)
(* The token bucket of RateLimitProvider (src/ratelimit.go): callers       *)
(* reserve a token under the mutex, possibly driving the bucket negative,  *)
(* sleep until the token they took has been earned, and give it back when  *)
(* their context ends first.                                               *)
(*                                                                         *)
(* Time is counted in ticks, Interval of them to a token, and the bucket   *)
(* in ticks too (tokens * interval), so that the float64 arithmetic of the *)
(* code is exact here; its rounding is not modelled.                       *)
(***************************************************************************)
EXTENDS Integers, FiniteSets

CONSTANTS
    Waiter,    \* calls of Wait, one for each request
    Interval,  \* ticks to earn a token
    Burst,     \* capacity of the bucket, in tokens
    MaxTime    \* bound: ticks the clock may run

ASSUME RateAssumption ==
    /\ Interval \in Nat \ {0}
    /\ Burst \in Nat \ {0}
    /\ MaxTime \in Nat

VARIABLES
    now,     \* the clock
    credit,  \* tokens, in ticks; negative when tokens are owed
    last,    \* last
    status,  \* of each request: "new", "waiting", "sent" or "cancelled"
    due,     \* when the token a request reserved has been earned
    seen     \* the live requests, itself included, when a request reserved

rateVars == <<now, credit, last, status, due, seen>>

With(s) == {r \in Waiter : status[r] = s}

Waiting == With("waiting")
Sent    == With("sent")
Live    == Waiting \cup Sent

AtMost(a, b) == IF a <= b THEN a ELSE b
AtLeast(a, b) == IF a >= b THEN a ELSE b

-----------------------------------------------------------------------------
\* The bucket after the time since the last reservation, at most full.
Refilled == AtMost(credit + (now - last), Burst * Interval)

\* How long the caller waits: nothing while tokens are left.
Delay(c) == AtLeast(0, -c)

\* r.last = now.
LastReserved == now

\* reserve, and Wait's return when there is nothing to wait for.
Reserve(r) ==
    LET c == Refilled - Interval IN
    /\ status[r] = "new"
    /\ credit' = c /\ last' = LastReserved
    /\ due' = [due EXCEPT ![r] = now + Delay(c)]
    /\ status' = [status EXCEPT ![r] = IF c >= 0 THEN "sent" ELSE "waiting"]
    /\ seen' = [seen EXCEPT ![r] = Live \cup {r}]
    /\ UNCHANGED now

\* The timer fired.
Send(r) ==
    /\ status[r] = "waiting" /\ now >= due[r]
    /\ status' = [status EXCEPT ![r] = "sent"]
    /\ UNCHANGED <<now, credit, last, due, seen>>

TwoBack == 2 * Interval

NothingBack == 0

\* tokens++.
GivenBack == Interval

\* The context ended while the timer was running, or along with it.
GiveUp(r) ==
    /\ status[r] = "waiting"
    /\ status' = [status EXCEPT ![r] = "cancelled"]
    /\ credit' = credit + GivenBack
    /\ UNCHANGED <<now, last, due, seen>>

ClockTicks ==
    /\ now < MaxTime
    /\ now' = now + 1
    /\ UNCHANGED <<credit, last, status, due, seen>>

-----------------------------------------------------------------------------
\* WithRateLimit: the bucket starts full.
RateInit ==
    /\ now = 0 /\ last = 0
    /\ credit = Burst * Interval
    /\ status = [r \in Waiter |-> "new"]
    /\ due = [r \in Waiter |-> 0]
    /\ seen = [r \in Waiter |-> {}]

RateNext == ClockTicks \/ \E r \in Waiter : Reserve(r) \/ Send(r) \/ GiveUp(r)

RateSpec == RateInit /\ [][RateNext]_rateVars

-----------------------------------------------------------------------------
(* Properties. *)

\* Nobody is told to wait for a time that has passed (ratelimit.go:110), and the
\* clock of the bucket never runs ahead.
TypeOK ==
    /\ now \in Nat /\ last \in 0..now /\ credit \in Int
    /\ status \in [Waiter -> {"new", "waiting", "sent", "cancelled"}]
    /\ due \in [Waiter -> Nat]
    /\ seen \in [Waiter -> SUBSET Waiter]

\* What the provider is for (ratelimit.go:9): by any time, however callers
\* come, wait and give up, no more requests have been sent than the first
\* burst and the tokens earned since the start.
RateKept == Interval * Cardinality(Sent) <= Burst * Interval + now

\* No caller is made to wait for longer than one interval for itself and each
\* caller still waiting ahead of it: tokens given back are not lost.
NoIdleWait == -(credit + (now - last)) <= Interval * Cardinality(Waiting)

\* The requests whose tokens fall due in a window.
DueIn(s, t) == {r \in Live : s <= due[r] /\ due[r] <= t}

\* The tokens reserved keep to the rate and the burst in every window of time.
SlotsSpaced == \A q, r \in Live :
    due[q] <= due[r] =>
      Interval * Cardinality(DueIn(due[q], due[r])) <= Burst * Interval + (due[r] - due[q])

\* "requests are sent no faster than a fixed rate" with "bursts of up to burst
\* requests" (ratelimit.go:9, ratelimit.go:25), as long as nobody has given up.
PatientSlotsSpaced == With("cancelled") = {} => SlotsSpaced

\* "Reserving up front keeps waiters in arrival order without a queue"
\* (ratelimit.go:96), as long as nobody has given up.
ArrivalOrder ==
    With("cancelled") = {} => \A q, r \in Waiting : q \in seen[r] => due[q] <= due[r]

\* What a caller of Wait (ratelimit.go:75) can count on, whoever else gives up.
WaitersServed == NoIdleWait /\ PatientSlotsSpaced /\ ArrivalOrder
=============================================================================
