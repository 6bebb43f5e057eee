----------------------- MODULE ProviderWrapperProofs -----------------------
(***************************************************************************)
(* Proofs about the wrappers of a provider.                                *)
(*                                                                         *)
(* RateLimit, for every set of callers, rate and burst.  RateKept is not   *)
(* inductive: it says nothing of the tokens still owed to waiters.  The    *)
(* invariant adds an account of them (Account), the price of every token   *)
(* at the moment it was reserved (Priced), and that callers see each other *)
(* in the order they reserve (Ordered, Chained), so that of those that     *)
(* were served there is one that has seen all of them (OneSawAll).         *)
(* WaitersServed rests on an invariant of its own, stated further down.    *)
(*                                                                         *)
(* ProviderStack, for any callers, calls, errors, streams and limits.      *)
(* Three properties, each with an invariant of its own on top of the       *)
(* types:                                                                  *)
(*   CacheHonest      every cached response answers its key (Honest), and  *)
(*                    so does the one a caller is about to store or decode *)
(*                    (AnswersRequest);                                    *)
(*   FallbackLast     what has been waited and what is left of the wait    *)
(*                    make up the wait that the error asks for (Retries);  *)
(*   OutcomeReported  what was forwarded, what is in the channel and what  *)
(*                    the provider has yet to send make up a stream that   *)
(*                    ends with its only last event (Unbroken).            *)
(***************************************************************************)
EXTENDS RateLimit, ProviderStack, SequenceLemmas, FiniteSetTheorems, NaturalsInduction

-----------------------------------------------------------------------------
(* The rate limiter. *)

\* The bucket never holds more than the burst and the tokens earned, less one
\* for every live request.
Account == /\ IsFiniteSet(Live)
           /\ credit + Interval * Cardinality(Live) <= Burst * Interval + last

\* A token is not due before it and those of the live requests it was
\* reserved behind have been earned.
Priced == \A r \in Live :
    /\ IsFiniteSet(seen[r])
    /\ Interval * Cardinality(seen[r]) <= Burst * Interval + due[r]

\* Of two live requests one was live when the other reserved.
Ordered == \A q, r \in Live : r \in seen[r] /\ (q \in seen[r] \/ r \in seen[q])

Chained == \A p, q, r \in Live : (p \in seen[q] /\ q \in seen[r]) => p \in seen[r]

SeenReserved == \A r \in Live : \A p \in seen[r] : status[p] # "new"

\* Of the requests sent, one has seen them all, and its token was due.
OneSawAll == Sent # {} => \E q \in Sent : Sent \subseteq seen[q]

DueWhenSent == \A r \in Sent : due[r] <= now

RateInv == /\ TypeOK /\ Account /\ Priced /\ Ordered /\ Chained /\ SeenReserved
           /\ OneSawAll /\ DueWhenSent

\* The arithmetic of RateInv: what was sent was due, and priced.
LEMMA InvKeepsRate == RateInv => RateKept
  <1> SUFFICES ASSUME RateInv PROVE RateKept
    OBVIOUS
  <1>1. now \in Nat /\ Interval \in Nat /\ Burst \in Nat /\ IsFiniteSet(Sent)
    BY RateAssumption, FS_Subset DEF RateInv, TypeOK, Account, Live
  <1>2. CASE Sent = {}
    BY <1>1, <1>2, FS_EmptySet DEF RateKept
  <1>3. CASE Sent # {}
    <2>1. PICK q \in Sent : Sent \subseteq seen[q]
      BY <1>3 DEF RateInv, OneSawAll
    <2>2. q \in Live /\ q \in Waiter /\ due[q] \in Nat
      BY DEF Live, Sent, With, RateInv, TypeOK
    <2>3. /\ IsFiniteSet(seen[q])
          /\ Interval * Cardinality(seen[q]) <= Burst * Interval + due[q]
      BY <2>2 DEF RateInv, Priced
    <2>4. Cardinality(Sent) <= Cardinality(seen[q])
      BY <2>1, <2>3, FS_Subset
    <2>5. Cardinality(Sent) \in Nat /\ Cardinality(seen[q]) \in Nat
      BY <1>1, <2>3, FS_CardinalityType
    <2>6. Interval * Cardinality(Sent) <= Interval * Cardinality(seen[q])
      BY <1>1, <2>4, <2>5
    <2>7. due[q] <= now
      BY DEF RateInv, DueWhenSent
    <2> QED
      BY <1>1, <2>2, <2>3, <2>5, <2>6, <2>7 DEF RateKept
  <1> QED
    BY <1>2, <1>3

\* A reservation (ratelimit.go:96) costs one interval and never returns a due
\* time in the past.
LEMMA ReserveArithmetic ==
    ASSUME TypeOK, NEW c, c = Refilled - Interval
    PROVE  /\ Interval \in Nat /\ Burst * Interval \in Nat /\ c \in Int
           /\ c <= credit + (now - last) - Interval
           /\ now + Delay(c) \in Nat /\ now + Delay(c) >= now - c
           /\ c >= 0 => now + Delay(c) = now
  <1>1. /\ Interval \in Nat /\ Burst \in Nat /\ now \in Nat /\ last \in Int
        /\ credit \in Int
    BY RateAssumption DEF TypeOK
  <1>2. Burst * Interval \in Nat
    BY <1>1
  <1> QED
    BY <1>1, <1>2 DEF Refilled, AtMost, Delay, AtLeast

\* The bucket's variables (ratelimit.go:13) keep their types.
THEOREM RateTypes == RateSpec => []TypeOK
  <1>1. RateInit => TypeOK
    BY RateAssumption DEF RateInit, TypeOK
  <1>2. TypeOK /\ [RateNext]_rateVars => TypeOK'
    <2> SUFFICES ASSUME TypeOK, [RateNext]_rateVars PROVE TypeOK'
      OBVIOUS
    <2>1. ASSUME NEW r \in Waiter, Reserve(r) PROVE TypeOK'
      <3> DEFINE c == Refilled - Interval
      <3>1. c \in Int /\ now + Delay(c) \in Nat
        BY ReserveArithmetic
      <3>2. Live \cup {r} \subseteq Waiter
        BY DEF Live, Waiting, Sent, With
      <3>3. /\ credit' = c /\ last' = now /\ now' = now
            /\ due' = [due EXCEPT ![r] = now + Delay(c)]
            /\ status' = [status EXCEPT ![r] = IF c >= 0 THEN "sent" ELSE "waiting"]
            /\ seen' = [seen EXCEPT ![r] = Live \cup {r}]
        BY <2>1 DEF Reserve, LastReserved
      <3> HIDE DEF c
      <3> QED
        BY <3>1, <3>2, <3>3 DEF TypeOK
    <2>2. ASSUME NEW r \in Waiter, Send(r) \/ GiveUp(r) PROVE TypeOK'
      BY <2>2, RateAssumption DEF Send, GiveUp, GivenBack, TypeOK
    <2>3. CASE ClockTicks \/ UNCHANGED rateVars
      BY <2>3 DEF ClockTicks, rateVars, TypeOK
    <2> QED
      BY <2>1, <2>2, <2>3 DEF RateNext
  <1> QED
    BY <1>1, <1>2, PTL DEF RateSpec

\* Reserving (ratelimit.go:96) keeps the invariant: the new request sees every
\* live one, and pays for all of them.
LEMMA ReserveKeepsInv ==
    ASSUME RateInv, TypeOK', NEW r \in Waiter, Reserve(r)
    PROVE  RateInv'
  <1> DEFINE c == Refilled - Interval
  <1>1. /\ Interval \in Nat /\ Burst * Interval \in Nat /\ c \in Int
        /\ c <= credit + (now - last) - Interval
        /\ now + Delay(c) \in Nat /\ now + Delay(c) >= now - c
        /\ c >= 0 => now + Delay(c) = now
    BY ReserveArithmetic DEF RateInv
  <1>2. /\ credit' = c /\ last' = now /\ now' = now
        /\ due' = [due EXCEPT ![r] = now + Delay(c)]
        /\ status' = [status EXCEPT ![r] = IF c >= 0 THEN "sent" ELSE "waiting"]
        /\ seen' = [seen EXCEPT ![r] = Live \cup {r}]
        /\ status[r] = "new"
    BY DEF Reserve, LastReserved
  <1> HIDE DEF c
  <1>3. /\ status \in [Waiter -> {"new", "waiting", "sent", "cancelled"}]
        /\ due \in [Waiter -> Nat] /\ seen \in [Waiter -> SUBSET Waiter]
        /\ now \in Nat /\ last \in Nat /\ credit \in Int
    BY DEF RateInv, TypeOK
  <1>4. /\ r \notin Live /\ Live' = Live \cup {r} /\ Sent \subseteq Live
        /\ Sent' = IF c >= 0 THEN Sent \cup {r} ELSE Sent
    BY <1>2, <1>3 DEF Live, Sent, Waiting, With
  <1>5. /\ IsFiniteSet(Live) /\ IsFiniteSet(Live')
        /\ Cardinality(Live) \in Nat /\ Cardinality(Live') = Cardinality(Live) + 1
    BY <1>4, FS_AddElement, FS_CardinalityType DEF RateInv, Account
  <1>6. Interval * Cardinality(Live') = Interval * Cardinality(Live) + Interval
    BY <1>1, <1>5
  <1>7. credit + Interval * Cardinality(Live) <= Burst * Interval + last
    BY DEF RateInv, Account
  <1>8. Interval * Cardinality(Live) \in Nat
    BY <1>1, <1>5
  <1>9. c + Interval * Cardinality(Live') <= Burst * Interval + now
    BY <1>1, <1>3, <1>6, <1>7, <1>8
  <1>10. Account'
    BY <1>2, <1>5, <1>9 DEF Account
  <1>11. /\ seen'[r] = Live' /\ due'[r] = now + Delay(c)
         /\ \A q \in Live : q # r /\ seen'[q] = seen[q] /\ due'[q] = due[q]
    BY <1>2, <1>3, <1>4 DEF Live, Sent, Waiting, With
  <1>12. Priced'
    <2>1. Interval * Cardinality(Live') <= Burst * Interval + (now + Delay(c))
      BY <1>1, <1>3, <1>6, <1>8, <1>9
    <2> QED
      BY <1>4, <1>5, <1>11, <2>1 DEF RateInv, Priced
  <1>13. Ordered'
    BY <1>4, <1>11 DEF RateInv, Ordered
  <1>14. Chained'
    <2>1. \A q \in Live : r \notin seen[q]
      BY <1>2 DEF RateInv, SeenReserved
    <2> QED
      BY <1>4, <1>11, <2>1 DEF RateInv, Chained
  <1>15. SeenReserved'
    <2>1. \A q \in Live : status[q] # "new"
      BY DEF Live, Sent, Waiting, With
    <2>2. \A p \in Waiter : status[p] # "new" => status'[p] # "new"
      BY <1>2, <1>3
    <2>3. status'[r] # "new" /\ Live \subseteq Waiter
      BY <1>2, <1>3 DEF Live, Sent, Waiting, With
    <2>4. \A q \in Live : seen[q] \subseteq Waiter
      BY <1>3, <2>3
    <2> QED
      BY <1>4, <1>11, <2>1, <2>2, <2>3, <2>4 DEF RateInv, SeenReserved
  <1>16. OneSawAll'
    <2>1. CASE c >= 0
      BY <1>4, <1>11, <2>1 DEF OneSawAll
    <2>2. CASE ~(c >= 0)
      <3>1. Sent' = Sent
        BY <1>4, <2>2
      <3> QED
        BY <1>4, <1>11, <3>1 DEF RateInv, OneSawAll
    <2> QED
      BY <2>1, <2>2
  <1>17. DueWhenSent'
    BY <1>1, <1>2, <1>3, <1>4, <1>11 DEF RateInv, DueWhenSent
  <1> QED
    BY <1>10, <1>12, <1>13, <1>14, <1>15, <1>16, <1>17 DEF RateInv

\* Sending (ratelimit.go:81) keeps the invariant: either the one that saw all
\* the others sent saw this one too, or this one saw it, and so all of them.
LEMMA SendKeepsInv ==
    ASSUME RateInv, TypeOK', NEW r \in Waiter, Send(r)
    PROVE  RateInv'
  <1>1. /\ UNCHANGED <<now, credit, last, due, seen>>
        /\ status' = [status EXCEPT ![r] = "sent"]
        /\ status[r] = "waiting" /\ now >= due[r]
        /\ status \in [Waiter -> {"new", "waiting", "sent", "cancelled"}]
        /\ now \in Nat /\ due \in [Waiter -> Nat]
    BY DEF Send, RateInv, TypeOK
  <1>2. /\ Live' = Live /\ Sent' = Sent \cup {r} /\ r \in Live
        /\ Sent \subseteq Live
    BY <1>1 DEF Live, Sent, Waiting, With
  <1>3. Account' /\ Priced' /\ Ordered' /\ Chained'
    BY <1>1, <1>2 DEF RateInv, Account, Priced, Ordered, Chained
  <1>4. SeenReserved'
    BY <1>1, <1>2 DEF RateInv, SeenReserved
  <1>5. DueWhenSent'
    BY <1>1, <1>2 DEF RateInv, DueWhenSent
  <1>6. OneSawAll'
    <2>1. CASE Sent = {}
      BY <1>1, <1>2, <2>1 DEF RateInv, Ordered, OneSawAll
    <2>2. CASE Sent # {}
      <3>1. PICK q \in Sent : Sent \subseteq seen[q]
        BY <2>2 DEF RateInv, OneSawAll
      <3>2. CASE r \in seen[q]
        BY <1>1, <1>2, <3>1, <3>2 DEF OneSawAll
      <3>3. CASE q \in seen[r]
        <4>1. Sent \subseteq seen[r]
          BY <1>2, <3>1, <3>3 DEF RateInv, Chained
        <4>2. r \in seen[r]
          BY <1>2 DEF RateInv, Ordered
        <4> QED
          BY <1>1, <1>2, <4>1, <4>2 DEF OneSawAll
      <3> QED
        BY <1>2, <3>1, <3>2, <3>3 DEF RateInv, Ordered
    <2> QED
      BY <2>1, <2>2
  <1> QED
    BY <1>3, <1>4, <1>5, <1>6 DEF RateInv

\* Giving a token back (ratelimit.go:84) pays for the request that goes away.
LEMMA CancelKeepsInv ==
    ASSUME RateInv, TypeOK', NEW r \in Waiter, GiveUp(r)
    PROVE  RateInv'
  <1>1. /\ UNCHANGED <<now, last, due, seen>> /\ credit' = credit + Interval
        /\ status' = [status EXCEPT ![r] = "cancelled"]
        /\ status[r] = "waiting"
        /\ status \in [Waiter -> {"new", "waiting", "sent", "cancelled"}]
        /\ credit \in Int /\ last \in Nat
        /\ Interval \in Nat /\ Burst \in Nat
    BY RateAssumption DEF GiveUp, GivenBack, RateInv, TypeOK
  <1>2. /\ r \in Live /\ Live' = Live \ {r} /\ Sent' = Sent
    BY <1>1 DEF Live, Sent, Waiting, With
  <1>3. /\ IsFiniteSet(Live') /\ Cardinality(Live) \in Nat
        /\ Cardinality(Live') = Cardinality(Live) - 1
    BY <1>2, FS_RemoveElement, FS_CardinalityType DEF RateInv, Account
  <1>4. Interval * Cardinality(Live') = Interval * Cardinality(Live) - Interval
    BY <1>1, <1>3
  <1>5. Interval * Cardinality(Live) \in Nat /\ Burst * Interval \in Nat
    BY <1>1, <1>3
  <1>6. Account'
    <2>1. credit + Interval * Cardinality(Live) <= Burst * Interval + last
      BY DEF RateInv, Account
    <2>2. credit' + Interval * Cardinality(Live') <= Burst * Interval + last'
      BY <1>1, <1>4, <1>5, <2>1
    <2> QED
      BY <1>3, <2>2 DEF Account
  <1>7. Priced' /\ Ordered' /\ Chained'
    BY <1>1, <1>2 DEF RateInv, Priced, Ordered, Chained
  <1>8. SeenReserved'
    BY <1>1, <1>2 DEF RateInv, SeenReserved
  <1>9. OneSawAll' /\ DueWhenSent'
    BY <1>1, <1>2 DEF RateInv, OneSawAll, DueWhenSent
  <1> QED
    BY <1>6, <1>7, <1>8, <1>9 DEF RateInv

\* Every step of the bucket keeps the account of the tokens and the order the
\* requests reserved in (ratelimit.go:96).
THEOREM RateInvariant == RateSpec => []RateInv
  <1>1. RateInit => RateInv
    <2>1. RateInit => Live = {} /\ Sent = {} /\ TypeOK
      BY RateAssumption DEF RateInit, Live, Sent, Waiting, With, TypeOK
    <2>2. Burst * Interval \in Nat
      BY RateAssumption
    <2>3. RateInit => Account
      BY <2>1, <2>2, FS_EmptySet, RateAssumption DEF RateInit, Account
    <2> QED
      BY <2>1, <2>3 DEF RateInv, Priced, Ordered, Chained, SeenReserved, OneSawAll, DueWhenSent
  <1>2. TypeOK' /\ RateInv /\ [RateNext]_rateVars => RateInv'
    <2> SUFFICES ASSUME TypeOK', RateInv, [RateNext]_rateVars PROVE RateInv'
      OBVIOUS
    <2>1. CASE ClockTicks \/ UNCHANGED rateVars
      <3>1. /\ UNCHANGED <<credit, last, status, due, seen>>
            /\ now' >= now /\ now \in Nat /\ now' \in Nat /\ due \in [Waiter -> Nat]
        BY <2>1 DEF ClockTicks, rateVars, RateInv, TypeOK
      <3>2. Live' = Live /\ Sent' = Sent /\ Sent \subseteq Waiter
        BY <3>1 DEF Live, Sent, Waiting, With
      <3>3. Account' /\ Priced' /\ Ordered' /\ Chained' /\ SeenReserved' /\ OneSawAll'
        BY <3>1, <3>2 DEF RateInv, Account, Priced, Ordered, Chained, SeenReserved, OneSawAll
      <3>4. DueWhenSent'
        BY <3>1, <3>2 DEF RateInv, DueWhenSent
      <3> QED
        BY <3>3, <3>4 DEF RateInv
    <2> QED
      BY <2>1, ReserveKeepsInv, SendKeepsInv, CancelKeepsInv DEF RateNext
  <1> QED
    BY <1>1, <1>2, RateTypes, PTL DEF RateSpec

\* The rate limit (ratelimit.go:9): for every rate and burst, and however many
\* callers come, wait and give up, no more requests have been sent at any time
\* than the first burst and the tokens earned since the start.
THEOREM RateIsKept == RateSpec => []RateKept
  BY RateInvariant, InvKeepsRate, PTL

-----------------------------------------------------------------------------
(***************************************************************************)
(* WaitersServed.  What a waiter can count on follows from the time every  *)
(* token that is reserved has been earned (PaidUp): a reservation moves it *)
(* by one interval, a token given back moves it back.  Of the tokens owed  *)
(* once a waiter's time has come, all are owed to the waiters behind it    *)
(* (OwedBehind); and while nobody has given up, due times keep up with     *)
(* PaidUp, within the burst (Patient).                                     *)
(***************************************************************************)

\* The ticks that earn a token for each of a set of requests.
Cost(S) == Interval * Cardinality(S)

\* When every token that is reserved has been earned.
PaidUp == last - credit

\* Of two live requests only the later one has seen the other.
OneWay == \A q, r \in Live : q \in seen[r] /\ r \in seen[q] => q = r

\* The waiters from r on.
Behind(r) == {w \in Waiting : r \in seen[w]}

\* Once a waiter's time has come, what is owed is owed to the waiters behind it.
OwedBehind == \A r \in Waiting :
    PaidUp + Interval <= AtLeast(due[r], now) + Cost(Behind(r))

\* The live requests from q on, and those of them that r saw.
From(q) == {w \in Live : q \in seen[w]}
Between(q, r) == {w \in seen[r] : q \in seen[w]}

\* As long as nobody has given up, due times only grow, and no faster and not
\* much slower than tokens are reserved.
DueKeepsUp == \A q \in Waiting : due[q] <= PaidUp

LagsABurst == \A q \in Live : due[q] + Cost(From(q)) <= PaidUp + Burst * Interval

Spaced == \A q, r \in Live :
    q \in seen[r] => due[q] + Cost(Between(q, r)) <= Burst * Interval + due[r]

Patient == With("cancelled") = {} => DueKeepsUp /\ LagsABurst /\ Spaced

ServeInv == OneWay /\ NoIdleWait /\ OwedBehind /\ ArrivalOrder /\ Patient

\* The arithmetic of Cost: one interval a request.
LEMMA CostArithmetic ==
    ASSUME NEW S, IsFiniteSet(S)
    PROVE  /\ Cost(S) \in Nat
           /\ \A r : r \notin S => Cost(S \cup {r}) = Cost(S) + Interval
           /\ \A r \in S : Cost(S \ {r}) = Cost(S) - Interval
           /\ \A T \in SUBSET S : IsFiniteSet(T) /\ Cost(T) \in Nat /\ Cost(T) <= Cost(S)
  <1>1. Interval \in Nat
    BY RateAssumption
  <1>2. \A m, n \in Nat : /\ Interval * n \in Nat
                          /\ Interval * (n + 1) = Interval * n + Interval
                          /\ Interval * (n - 1) = Interval * n - Interval
                          /\ m <= n => Interval * m <= Interval * n
    BY <1>1
  <1>3. Cardinality(S) \in Nat
    BY FS_CardinalityType
  <1>4. ASSUME NEW r, r \notin S PROVE Cost(S \cup {r}) = Cost(S) + Interval
    <2>1. Cardinality(S \cup {r}) = Cardinality(S) + 1
      BY <1>4, FS_AddElement
    <2> QED
      BY <1>2, <1>3, <2>1 DEF Cost
  <1>5. ASSUME NEW r \in S PROVE Cost(S \ {r}) = Cost(S) - Interval
    <2>1. Cardinality(S \ {r}) = Cardinality(S) - 1
      BY FS_RemoveElement
    <2> QED
      BY <1>2, <1>3, <2>1 DEF Cost
  <1>6. ASSUME NEW T \in SUBSET S
        PROVE  IsFiniteSet(T) /\ Cost(T) \in Nat /\ Cost(T) <= Cost(S)
    <2>1. IsFiniteSet(T) /\ Cardinality(T) <= Cardinality(S)
      BY FS_Subset
    <2>2. Cardinality(T) \in Nat
      BY <2>1, FS_CardinalityType
    <2> QED
      BY <1>2, <1>3, <2>1, <2>2 DEF Cost
  <1>7. Cost(S) \in Nat
    BY <1>2, <1>3 DEF Cost
  <1> QED
    BY <1>4, <1>5, <1>6, <1>7

\* What a reservation (ratelimit.go:96) does to the time all is paid up: one
\* interval later, or less far behind the clock than the burst.
LEMMA ReservePaysUp ==
    ASSUME TypeOK, TypeOK', NEW r \in Waiter, Reserve(r)
    PROVE  /\ PaidUp' \in Int /\ PaidUp \in Int
           /\ PaidUp' >= PaidUp + Interval
           /\ PaidUp' + Burst * Interval >= now + Interval
           /\ due'[r] = AtLeast(now, PaidUp')
           /\ credit' >= 0 <=> PaidUp' <= now
           /\ credit' < 0 => PaidUp' = PaidUp + Interval
  <1>1. /\ Interval \in Nat /\ now \in Nat /\ last \in Int /\ credit \in Int /\ credit' \in Int
        /\ Burst * Interval \in Nat
    BY RateAssumption DEF TypeOK
  <1>2. Interval <= Burst * Interval
    BY RateAssumption
  <1>3. credit' = Refilled - Interval /\ last' = now
    BY DEF Reserve, LastReserved
  <1>4. due'[r] = now + Delay(credit')
    BY <1>3 DEF Reserve, TypeOK
  <1>5. PaidUp' = now - credit' /\ PaidUp = last - credit
    BY <1>3 DEF PaidUp
  <1> QED
    BY <1>1, <1>2, <1>3, <1>4, <1>5 DEF Refilled, AtMost, Delay, AtLeast

\* Who is live, waiting and in sight once r has reserved (ratelimit.go:96).
LEMMA ReserveInSight ==
    ASSUME RateInv, NEW r \in Waiter, Reserve(r)
    PROVE  /\ now' = now /\ r \notin Live /\ Live' = Live \cup {r} /\ Waiting \subseteq Live
           /\ Waiting' = IF credit' >= 0 THEN Waiting ELSE Waiting \cup {r}
           /\ With("cancelled")' = With("cancelled")
           /\ seen'[r] = Live \cup {r}
           /\ \A q \in Live : /\ q # r /\ seen'[q] = seen[q] /\ due'[q] = due[q]
                              /\ r \notin seen[q]
  <1>1. /\ due' = [due EXCEPT ![r] = now + Delay(credit')]
        /\ status' = [status EXCEPT ![r] = IF credit' >= 0 THEN "sent" ELSE "waiting"]
        /\ seen' = [seen EXCEPT ![r] = Live \cup {r}]
        /\ status[r] = "new" /\ now' = now
    BY DEF Reserve
  <1>2. /\ status \in [Waiter -> {"new", "waiting", "sent", "cancelled"}]
        /\ due \in [Waiter -> Nat] /\ seen \in [Waiter -> SUBSET Waiter]
    BY DEF RateInv, TypeOK
  <1>3. /\ r \notin Live /\ Live' = Live \cup {r} /\ Waiting \subseteq Live /\ Live \subseteq Waiter
        /\ Waiting' = IF credit' >= 0 THEN Waiting ELSE Waiting \cup {r}
    BY <1>1, <1>2 DEF Live, Sent, Waiting, With
  <1>4. With("cancelled")' = With("cancelled")
    BY <1>1, <1>2 DEF With
  <1>5. \A q \in Live : r \notin seen[q]
    BY <1>1 DEF RateInv, SeenReserved
  <1>6. \A q \in Live : q # r /\ seen'[q] = seen[q] /\ due'[q] = due[q]
    BY <1>1, <1>2, <1>3
  <1>7. seen'[r] = Live \cup {r}
    BY <1>1, <1>2
  <1> QED
    BY <1>1, <1>3, <1>4, <1>5, <1>6, <1>7

\* Reserving (ratelimit.go:96) keeps what waiters count on: whoever reserves
\* comes after every live request, and is due last of them.
LEMMA ReserveKeepsServing ==
    ASSUME RateInv, TypeOK', ServeInv, NEW r \in Waiter, Reserve(r)
    PROVE  ServeInv'
  <1>1. TypeOK /\ IsFiniteSet(Live)
    BY DEF RateInv, Account
  <1>2. /\ PaidUp' \in Int /\ PaidUp \in Int
        /\ PaidUp' >= PaidUp + Interval
        /\ PaidUp' + Burst * Interval >= now + Interval
        /\ due'[r] = AtLeast(now, PaidUp')
        /\ credit' >= 0 <=> PaidUp' <= now
        /\ credit' < 0 => PaidUp' = PaidUp + Interval
    BY <1>1, ReservePaysUp
  <1>3. /\ now' = now /\ r \notin Live /\ Live' = Live \cup {r} /\ Waiting \subseteq Live
        /\ Waiting' = IF credit' >= 0 THEN Waiting ELSE Waiting \cup {r}
        /\ With("cancelled")' = With("cancelled")
        /\ seen'[r] = Live \cup {r}
        /\ \A q \in Live : /\ q # r /\ seen'[q] = seen[q] /\ due'[q] = due[q]
                           /\ r \notin seen[q]
    BY ReserveInSight
  <1>4. /\ Interval \in Nat /\ Burst * Interval \in Nat /\ now \in Nat
        /\ credit' \in Int
    BY RateAssumption DEF RateInv, TypeOK
  <1>5. Interval <= Burst * Interval
    BY RateAssumption
  <1>6. \A q \in Live : due[q] \in Nat
    BY DEF RateInv, TypeOK, Live, Sent, Waiting, With
  <1>7. Cost({r}) = Interval
    <2>1. {} \cup {r} = {r} /\ IsFiniteSet({}) /\ Cardinality({}) = 0
      BY FS_EmptySet
    <2>2. Cost({}) = 0
      BY <1>4, <2>1 DEF Cost
    <2>3. Cost({} \cup {r}) = Cost({}) + Interval
      BY <2>1, CostArithmetic
    <2> QED
      BY <1>4, <2>1, <2>2, <2>3
  <1>8. OneWay'
    BY <1>3 DEF ServeInv, OneWay
  <1>9. NoIdleWait'
    <2>1. Cost(Waiting) \in Nat /\ IsFiniteSet(Waiting)
      BY <1>1, <1>3, CostArithmetic
    <2>2. PaidUp <= now + Cost(Waiting)
      BY <1>4, <2>1 DEF ServeInv, NoIdleWait, Cost, PaidUp, RateInv, TypeOK
    <2>3. PaidUp' <= now + Cost(Waiting')
      <3>1. CASE credit' >= 0
        <4>1. Waiting' = Waiting
          BY <1>3, <3>1
        <4>2. PaidUp' <= now
          BY <1>2, <3>1
        <4> QED
          BY <1>2, <1>4, <2>1, <4>1, <4>2
      <3>2. CASE ~(credit' >= 0)
        <4>1. Waiting' = Waiting \cup {r} /\ r \notin Waiting
          BY <1>3, <3>2
        <4>2. Cost(Waiting') = Cost(Waiting) + Interval
          BY <2>1, <4>1, CostArithmetic
        <4>3. PaidUp' = PaidUp + Interval
          BY <1>2, <1>4, <3>2
        <4> QED
          BY <1>2, <1>4, <2>1, <2>2, <4>2, <4>3
      <3> QED
        BY <3>1, <3>2
    <2>4. Cost(Waiting') \in Nat
      <3>1. IsFiniteSet(Waiting \cup {r})
        BY <2>1, FS_AddElement
      <3>2. IsFiniteSet(Waiting')
        BY <1>3, <2>1, <3>1
      <3> QED
        BY <3>2, CostArithmetic
    <2>5. PaidUp' = last' - credit' /\ Cost(Waiting') = Interval * Cardinality(Waiting')
          /\ last' = now
      BY DEF PaidUp, Cost, Reserve, LastReserved
    <2>6. -(credit' + (now' - last')) <= Interval * Cardinality(Waiting')
      BY <1>2, <1>3, <1>4, <2>3, <2>4, <2>5
    <2> QED
      BY <2>6 DEF NoIdleWait
  <1>10. OwedBehind'
    <2> SUFFICES ASSUME NEW w \in Waiting'
                 PROVE  PaidUp' + Interval <= AtLeast(due'[w], now') + Cost(Behind(w)')
      BY DEF OwedBehind
    <2>1. CASE w = r
      <3>1. credit' < 0 /\ Waiting' = Waiting \cup {r}
        BY <1>3, <1>4, <2>1
      <3>2. Behind(w)' = {r}
        BY <1>3, <2>1, <3>1 DEF Behind
      <3>3. due'[w] = AtLeast(now, PaidUp')
        BY <1>2, <2>1
      <3>4. Cost(Behind(w)') = Interval
        BY <1>7, <3>2
      <3>5. PaidUp' <= AtLeast(due'[w], now')
        BY <1>2, <1>3, <1>4, <3>3 DEF AtLeast
      <3>6. AtLeast(due'[w], now') \in Int
        BY <1>2, <1>3, <1>4, <3>3 DEF AtLeast
      <3> QED
        BY <1>2, <1>4, <3>4, <3>5, <3>6
    <2>2. CASE w # r
      <3>1. w \in Waiting /\ w \in Live /\ due'[w] = due[w] /\ due[w] \in Nat
        BY <1>3, <1>6, <2>2
      <3>2. IsFiniteSet(Behind(w)) /\ w \in Behind(w) /\ r \notin Behind(w)
        <4>1. Behind(w) \in SUBSET Live
          BY <1>3 DEF Behind
        <4>2. w \in seen[w]
          BY <3>1 DEF RateInv, Ordered
        <4> QED
          BY <1>1, <1>3, <3>1, <4>1, <4>2, FS_Subset DEF Behind
      <3>3. PaidUp + Interval <= AtLeast(due[w], now) + Cost(Behind(w))
        BY <3>1 DEF ServeInv, OwedBehind
      <3>4. Cost(Behind(w)) \in Nat /\ Interval <= Cost(Behind(w))
        <4>1. Cost(Behind(w)) \in Nat /\ Cost(Behind(w) \ {w}) = Cost(Behind(w)) - Interval
          BY <3>2, CostArithmetic
        <4>2. Behind(w) \ {w} \in SUBSET Behind(w)
          OBVIOUS
        <4>3. Cost(Behind(w) \ {w}) \in Nat
          BY <3>2, <4>2, CostArithmetic
        <4> QED
          BY <1>4, <4>1, <4>3
      <3>5. CASE credit' >= 0
        <4>1. Waiting' = Waiting
          BY <1>3, <3>5
        <4>2. Behind(w)' = Behind(w)
          BY <1>3, <4>1 DEF Behind
        <4>3. PaidUp' <= now
          BY <1>2, <3>5
        <4> QED
          BY <1>2, <1>3, <1>4, <3>1, <3>4, <4>2, <4>3 DEF AtLeast
      <3>6. CASE ~(credit' >= 0)
        <4>1. Waiting' = Waiting \cup {r}
          BY <1>3, <3>6
        <4>2. Behind(w)' = Behind(w) \cup {r}
          BY <1>3, <3>1, <4>1 DEF Behind
        <4>3. Cost(Behind(w)') = Cost(Behind(w)) + Interval
          BY <3>2, <4>2, CostArithmetic
        <4>4. PaidUp' = PaidUp + Interval
          BY <1>2, <1>4, <3>6
        <4> QED
          BY <1>2, <1>3, <1>4, <3>1, <3>3, <3>4, <4>3, <4>4 DEF AtLeast
      <3> QED
        BY <3>5, <3>6
    <2> QED
      BY <2>1, <2>2
  <1>11. ArrivalOrder'
    <2> SUFFICES ASSUME With("cancelled") = {}, NEW q \in Waiting', NEW p \in Waiting',
                        q \in seen'[p]
                 PROVE  due'[q] <= due'[p]
      BY <1>3 DEF ArrivalOrder
    <2>1. DueKeepsUp /\ \A u, v \in Waiting : u \in seen[v] => due[u] <= due[v]
      BY DEF ServeInv, Patient, ArrivalOrder
    <2>2. CASE p # r
      <3>1. p \in Waiting /\ p \in Live
        BY <1>3, <2>2
      <3>2. q \in seen[p] /\ q # r
        BY <1>3, <3>1
      <3>3. q \in Waiting /\ q \in Live
        BY <1>3, <3>2
      <3> QED
        BY <1>3, <2>1, <3>1, <3>2, <3>3
    <2>3. CASE p = r /\ q = r
      BY <1>2, <1>4, <2>3 DEF AtLeast
    <2>4. CASE p = r /\ q # r
      <3>1. q \in Waiting /\ q \in Live /\ due'[q] = due[q] /\ due[q] \in Nat
        BY <1>3, <1>6, <2>4
      <3>2. due[q] <= PaidUp
        BY <2>1, <3>1 DEF DueKeepsUp
      <3>3. due'[p] = AtLeast(now, PaidUp')
        BY <1>2, <2>4
      <3> QED
        BY <1>2, <1>4, <3>1, <3>2, <3>3 DEF AtLeast
    <2> QED
      BY <2>2, <2>3, <2>4
  <1>12. Patient'
    <2> SUFFICES ASSUME With("cancelled") = {}
                 PROVE  DueKeepsUp' /\ LagsABurst' /\ Spaced'
      BY <1>3 DEF Patient
    <2>1. DueKeepsUp /\ LagsABurst /\ Spaced
      BY DEF ServeInv, Patient
    <2>2. ASSUME NEW q \in Waiting' PROVE due'[q] <= PaidUp'
      <3>1. CASE q = r
        <4>1. PaidUp' > now
          BY <1>2, <1>3, <1>4, <3>1
        <4> QED
          BY <1>2, <1>4, <3>1, <4>1 DEF AtLeast
      <3>2. CASE q # r
        <4>1. q \in Waiting /\ q \in Live /\ due'[q] = due[q] /\ due[q] \in Nat
          BY <1>3, <1>6, <3>2
        <4>2. due[q] <= PaidUp
          BY <2>1, <4>1 DEF DueKeepsUp
        <4> QED
          BY <1>2, <1>4, <4>1, <4>2
      <3> QED
        BY <3>1, <3>2
    <2>3. ASSUME NEW q \in Live'
          PROVE  /\ due'[q] \in Nat /\ Cost(From(q)') \in Nat
                 /\ due'[q] + Cost(From(q)') <= PaidUp' + Burst * Interval
      <3>1. CASE q = r
        <4>1. From(q)' = {r}
          BY <1>3, <3>1 DEF From
        <4>2. due'[q] = AtLeast(now, PaidUp')
          BY <1>2, <3>1
        <4> QED
          BY <1>2, <1>4, <1>5, <1>7, <4>1, <4>2 DEF AtLeast
      <3>2. CASE q # r
        <4>1. q \in Live /\ due'[q] = due[q] /\ due[q] \in Nat
          BY <1>3, <1>6, <3>2
        <4>2. From(q)' = From(q) \cup {r} /\ r \notin From(q) /\ From(q) \in SUBSET Live
          BY <1>3, <4>1 DEF From
        <4>3. IsFiniteSet(From(q))
          BY <1>1, <4>2, FS_Subset
        <4>4. Cost(From(q)') = Cost(From(q)) + Interval /\ Cost(From(q)) \in Nat
          BY <4>2, <4>3, CostArithmetic
        <4>5. due[q] + Cost(From(q)) <= PaidUp + Burst * Interval
          BY <2>1, <4>1 DEF LagsABurst
        <4> QED
          BY <1>2, <1>4, <4>1, <4>4, <4>5
      <3> QED
        BY <3>1, <3>2
    <2>4. ASSUME NEW q \in Live', NEW p \in Live', q \in seen'[p]
          PROVE  due'[q] + Cost(Between(q, p)') <= Burst * Interval + due'[p]
      <3>1. CASE p # r
        <4>1. p \in Live /\ q \in seen[p] /\ q # r
          <5>1. p \in Live
            BY <1>3, <3>1
          <5>2. seen'[p] = seen[p] /\ r \notin seen[p]
            BY <1>3, <5>1
          <5> QED
            BY <2>4, <5>1, <5>2
        <4>2. q \in Live
          BY <1>3, <4>1
        <4>3. \A w \in seen[p] : seen'[w] = seen[w]
          <5>1. seen' = [seen EXCEPT ![r] = Live \cup {r}] /\ r \notin seen[p]
            BY <1>3, <4>1 DEF Reserve
          <5>2. seen[p] \subseteq Waiter /\ seen \in [Waiter -> SUBSET Waiter]
            BY <4>1 DEF RateInv, TypeOK, Live, Sent, Waiting, With
          <5> QED
            BY <5>1, <5>2
        <4>4. Between(q, p)' = Between(q, p)
          BY <1>3, <4>1, <4>3 DEF Between
        <4>5. due[q] + Cost(Between(q, p)) <= Burst * Interval + due[p]
          BY <2>1, <4>1, <4>2 DEF Spaced
        <4> QED
          BY <1>3, <4>1, <4>2, <4>4, <4>5
      <3>2. CASE p = r
        <4>1. Between(q, p)' = From(q)'
          BY <1>3, <3>2 DEF Between, From
        <4>2. /\ due'[q] \in Nat /\ Cost(From(q)') \in Nat
              /\ due'[q] + Cost(From(q)') <= PaidUp' + Burst * Interval
          BY <2>3
        <4>3. due'[p] = AtLeast(now, PaidUp')
          BY <1>2, <3>2
        <4> QED
          BY <1>2, <1>4, <4>1, <4>2, <4>3 DEF AtLeast
      <3> QED
        BY <3>1, <3>2
    <2>5. DueKeepsUp'
      BY <2>2 DEF DueKeepsUp
    <2>6. LagsABurst'
      BY <2>3 DEF LagsABurst
    <2>7. Spaced'
      BY <2>4 DEF Spaced
    <2> QED
      BY <2>5, <2>6, <2>7
  <1> QED
    BY <1>8, <1>9, <1>10, <1>11, <1>12 DEF ServeInv

\* A timer that fires (ratelimit.go:81) keeps what waiters count on: what was
\* owed then was owed to the waiters behind.
LEMMA SendKeepsServing ==
    ASSUME RateInv, ServeInv, NEW x \in Waiter, Send(x)
    PROVE  ServeInv'
  <1>1. /\ now' = now /\ PaidUp' = PaidUp /\ due' = due /\ seen' = seen
        /\ credit' = credit /\ last' = last
        /\ x \in Waiting /\ x \in Live /\ Waiting \subseteq Live /\ due[x] <= now
        /\ Waiting' = Waiting \ {x} /\ Live' = Live
        /\ With("cancelled")' = With("cancelled")
    <2>1. /\ UNCHANGED <<now, credit, last, due, seen>>
          /\ status' = [status EXCEPT ![x] = "sent"]
          /\ status[x] = "waiting" /\ now >= due[x]
          /\ status \in [Waiter -> {"new", "waiting", "sent", "cancelled"}]
      BY DEF Send, RateInv, TypeOK
    <2>2. now \in Nat /\ due[x] \in Nat
      BY DEF RateInv, TypeOK
    <2> QED
      BY <2>1, <2>2 DEF Live, Sent, Waiting, With, PaidUp
  <1>2. /\ Interval \in Nat /\ now \in Nat /\ credit \in Int /\ last \in Int /\ PaidUp \in Int
        /\ \A w \in Waiting : due[w] \in Nat
    BY RateAssumption DEF RateInv, TypeOK, PaidUp, Waiting, With
  <1>3. IsFiniteSet(Waiting) /\ \A w \in Waiting : Behind(w) \in SUBSET Waiting
    BY <1>1, FS_Subset DEF RateInv, Account, Behind
  <1>4. \A w \in Waiting : IsFiniteSet(Behind(w)) /\ Cost(Behind(w)) \in Nat
    BY <1>3, CostArithmetic
  <1>5. PaidUp + Interval <= now + Cost(Behind(x))
    <2>1. PaidUp + Interval <= AtLeast(due[x], now) + Cost(Behind(x))
      BY <1>1 DEF ServeInv, OwedBehind
    <2> QED
      BY <1>1, <1>2, <1>4, <2>1 DEF AtLeast
  <1>6. NoIdleWait'
    <2>1. /\ Cost(Waiting) \in Nat /\ Cost(Waiting') = Cost(Waiting) - Interval
          /\ Cost(Behind(x)) <= Cost(Waiting)
      BY <1>1, <1>3, CostArithmetic
    <2>2. last - credit <= now + Interval * Cardinality(Waiting')
      BY <1>1, <1>2, <1>4, <1>5, <2>1 DEF Cost, PaidUp
    <2>3. Interval * Cardinality(Waiting') = Cost(Waiting) - Interval
      BY <2>1 DEF Cost
    <2> QED
      BY <1>1, <1>2, <2>1, <2>2, <2>3 DEF NoIdleWait
  <1>7. OwedBehind'
    <2> SUFFICES ASSUME NEW w \in Waiting, w # x
                 PROVE  PaidUp + Interval <= AtLeast(due[w], now) + Cost(Behind(w)')
      BY <1>1 DEF OwedBehind
    <2>1. PaidUp + Interval <= AtLeast(due[w], now) + Cost(Behind(w))
      BY DEF ServeInv, OwedBehind
    <2>2. CASE x \notin Behind(w)
      <3>1. Behind(w)' = Behind(w)
        BY <1>1, <2>2 DEF Behind
      <3> QED
        BY <2>1, <3>1
    <2>3. CASE x \in Behind(w)
      <3>1. Behind(w)' = Behind(w) \ {x}
        BY <1>1 DEF Behind
      <3>2. w \in Live /\ w \in seen[w] /\ w \in seen[x]
        BY <1>1, <2>3 DEF RateInv, Ordered, Behind
      <3>3. w \notin seen[x] \/ x \notin seen[w]
        BY <1>1, <3>2 DEF ServeInv, OneWay
      <3>4. Behind(x) \in SUBSET (Behind(w) \ {w})
        <4>1. \A v \in Behind(x) : v \in Waiting /\ v \in Live /\ x \in seen[v]
          BY <1>1 DEF Behind
        <4>2. \A v \in Behind(x) : w \in seen[v]
          BY <1>1, <3>2, <4>1 DEF RateInv, Chained
        <4> QED
          BY <3>2, <3>3, <4>1, <4>2 DEF Behind
      <3>5. w \in Behind(w)
        BY <3>2 DEF Behind
      <3>6. /\ Cost(Behind(w) \ {w}) = Cost(Behind(w)) - Interval
            /\ Cost(Behind(w) \ {x}) = Cost(Behind(w)) - Interval
            /\ IsFiniteSet(Behind(w) \ {w})
        BY <1>4, <2>3, <3>5, CostArithmetic
      <3>7. Cost(Behind(x)) <= Cost(Behind(w) \ {w})
        BY <3>4, <3>6, CostArithmetic
      <3> QED
        BY <1>1, <1>2, <1>4, <1>5, <3>1, <3>6, <3>7 DEF AtLeast
    <2> QED
      BY <2>2, <2>3
  <1>8. OneWay' /\ ArrivalOrder'
    BY <1>1 DEF ServeInv, OneWay, ArrivalOrder
  <1>9. Patient'
    BY <1>1 DEF ServeInv, Patient, DueKeepsUp, LagsABurst, Spaced, From, Between
  <1> QED
    BY <1>6, <1>7, <1>8, <1>9 DEF ServeInv

\* A token given back (ratelimit.go:84) is one that nobody behind has to wait
\* for.
LEMMA CancelKeepsServing ==
    ASSUME RateInv, ServeInv, NEW x \in Waiter, GiveUp(x)
    PROVE  ServeInv'
  <1>1. /\ now' = now /\ due' = due /\ seen' = seen
        /\ credit' = credit + Interval /\ last' = last
        /\ x \in Waiting /\ Waiting \subseteq Live
        /\ Waiting' = Waiting \ {x} /\ Live' = Live \ {x}
        /\ x \in With("cancelled")'
    <2>1. /\ UNCHANGED <<now, last, due, seen>> /\ credit' = credit + Interval
          /\ status' = [status EXCEPT ![x] = "cancelled"]
          /\ status[x] = "waiting"
          /\ status \in [Waiter -> {"new", "waiting", "sent", "cancelled"}]
      BY DEF GiveUp, GivenBack, RateInv, TypeOK
    <2> QED
      BY <2>1 DEF Live, Sent, Waiting, With
  <1>2. /\ Interval \in Nat /\ now \in Nat /\ credit \in Int /\ last \in Int
        /\ \A w \in Waiting : due[w] \in Nat
    BY RateAssumption DEF RateInv, TypeOK, Waiting, With
  <1>3. PaidUp \in Int /\ PaidUp' = PaidUp - Interval
    BY <1>1, <1>2 DEF PaidUp
  <1>4. IsFiniteSet(Waiting) /\ \A w \in Waiting : Behind(w) \in SUBSET Waiting
    BY <1>1, FS_Subset DEF RateInv, Account, Behind
  <1>5. NoIdleWait'
    <2>1. Cost(Waiting) \in Nat /\ Cost(Waiting') = Cost(Waiting) - Interval
      BY <1>1, <1>4, CostArithmetic
    <2>2. PaidUp <= now + Cost(Waiting)
      BY <1>2, <2>1 DEF ServeInv, NoIdleWait, Cost, PaidUp
    <2>3. Interval * Cardinality(Waiting') = Cost(Waiting')
      BY DEF Cost
    <2> QED
      BY <1>1, <1>2, <2>1, <2>2, <2>3 DEF NoIdleWait, PaidUp
  <1>6. OwedBehind'
    <2> SUFFICES ASSUME NEW w \in Waiting, w # x
                 PROVE  PaidUp' + Interval <= AtLeast(due[w], now) + Cost(Behind(w)')
      BY <1>1 DEF OwedBehind
    <2>1. PaidUp + Interval <= AtLeast(due[w], now) + Cost(Behind(w))
      BY DEF ServeInv, OwedBehind
    <2>2. Behind(w)' = Behind(w) \ {x} /\ IsFiniteSet(Behind(w))
      BY <1>1, <1>4, FS_Subset DEF Behind
    <2>3. CASE x \in Behind(w)
      <3>1. Cost(Behind(w)') = Cost(Behind(w)) - Interval /\ Cost(Behind(w)) \in Nat
        BY <2>2, <2>3, CostArithmetic
      <3> QED
        BY <1>2, <1>3, <2>1, <3>1 DEF AtLeast
    <2>4. CASE x \notin Behind(w)
      <3>1. Behind(w)' = Behind(w)
        BY <2>2, <2>4
      <3>2. Cost(Behind(w)) \in Nat
        BY <2>2, CostArithmetic
      <3> QED
        BY <1>2, <1>3, <2>1, <3>1, <3>2 DEF AtLeast
    <2> QED
      BY <2>3, <2>4
  <1>7. OneWay'
    BY <1>1 DEF ServeInv, OneWay
  <1>8. ArrivalOrder' /\ Patient'
    BY <1>1 DEF ArrivalOrder, Patient
  <1> QED
    BY <1>5, <1>6, <1>7, <1>8 DEF ServeInv

\* Time passing keeps what waiters count on.
LEMMA TimeKeepsServing ==
    ASSUME RateInv, ServeInv, ClockTicks \/ UNCHANGED rateVars
    PROVE  ServeInv'
  <1>1. /\ UNCHANGED <<credit, last, status, due, seen>>
        /\ now' >= now /\ now \in Nat /\ now' \in Nat /\ due \in [Waiter -> Nat]
        /\ credit \in Int /\ last \in Int /\ Interval \in Nat
    BY RateAssumption DEF ClockTicks, rateVars, RateInv, TypeOK
  <1>2. /\ Live' = Live /\ Waiting' = Waiting /\ PaidUp' = PaidUp /\ PaidUp \in Int
        /\ With("cancelled")' = With("cancelled")
        /\ IsFiniteSet(Waiting) /\ \A w \in Waiting : Behind(w)' = Behind(w) /\ w \in Waiter
    BY <1>1, FS_Subset DEF Live, Sent, Waiting, With, PaidUp, Behind, RateInv, Account
  <1>3. OneWay' /\ ArrivalOrder'
    BY <1>1, <1>2 DEF ServeInv, OneWay, ArrivalOrder
  <1>4. Patient'
    BY <1>1, <1>2 DEF ServeInv, Patient, DueKeepsUp, LagsABurst, Spaced, From, Between
  <1>5. NoIdleWait'
    <2>1. Cost(Waiting) \in Nat
      BY <1>2, CostArithmetic
    <2>2. Interval * Cardinality(Waiting') = Cost(Waiting)
          /\ Interval * Cardinality(Waiting) = Cost(Waiting)
      BY <1>2 DEF Cost
    <2> QED
      BY <1>1, <2>1, <2>2 DEF ServeInv, NoIdleWait
  <1>6. OwedBehind'
    <2> SUFFICES ASSUME NEW w \in Waiting
                 PROVE  PaidUp + Interval <= AtLeast(due[w], now') + Cost(Behind(w))
      BY <1>1, <1>2 DEF OwedBehind
    <2>1. PaidUp + Interval <= AtLeast(due[w], now) + Cost(Behind(w))
      BY DEF ServeInv, OwedBehind
    <2>2. Behind(w) \in SUBSET Waiting
      BY DEF Behind
    <2>3. Cost(Behind(w)) \in Nat /\ due[w] \in Nat
      BY <1>1, <1>2, <2>2, CostArithmetic
    <2> QED
      BY <1>1, <1>2, <2>1, <2>3 DEF AtLeast
  <1> QED
    BY <1>3, <1>4, <1>5, <1>6 DEF ServeInv

\* Of some live requests, the one that has seen the fewest live ones reserved
\* first, and the one from which the fewest are out of sight reserved last.
LEMMA FirstAndLast ==
    ASSUME RateInv, OneWay, NEW D \in SUBSET Live, D # {}
    PROVE  \E q, r \in D : \A w \in D : q \in seen[w] /\ w \in seen[r]
  <1> DEFINE Sight(w) == seen[w] \cap Live
             Rest(w) == Live \ seen[w]
  <1>1. ASSUME NEW v \in Live, NEW w \in Live, v \in seen[w]
        PROVE  Sight(v) \subseteq Sight(w) /\ Rest(w) \subseteq Rest(v)
    BY <1>1 DEF RateInv, Chained
  <1>2. ASSUME NEW v \in Live, NEW w \in Live, v \in seen[w], v # w
        PROVE  /\ w \in Sight(w) /\ w \notin Sight(v)
               /\ w \in Rest(v) /\ w \notin Rest(w)
    BY <1>2 DEF RateInv, Ordered, OneWay
  <1>3. \A w \in D : /\ IsFiniteSet(Sight(w)) /\ IsFiniteSet(Rest(w))
                     /\ Cardinality(Sight(w)) \in Nat /\ Cardinality(Rest(w)) \in Nat
    BY FS_Subset, FS_CardinalityType DEF RateInv, Account
  <1>4. ASSUME NEW v \in D, NEW w \in D, v \in seen[w], v # w
        PROVE  /\ Cardinality(Sight(v)) < Cardinality(Sight(w))
               /\ Cardinality(Rest(w)) < Cardinality(Rest(v))
    <2>1. /\ Sight(v) \subseteq Sight(w) /\ Rest(w) \subseteq Rest(v)
          /\ Sight(v) # Sight(w) /\ Rest(w) # Rest(v)
      BY <1>1, <1>2, <1>4
    <2>2. Cardinality(Sight(v)) <= Cardinality(Sight(w)) /\ Cardinality(Sight(v)) # Cardinality(Sight(w))
      BY <1>3, <2>1, FS_Subset
    <2>3. Cardinality(Rest(w)) <= Cardinality(Rest(v)) /\ Cardinality(Rest(w)) # Cardinality(Rest(v))
      BY <1>3, <2>1, FS_Subset
    <2> QED
      BY <1>3, <2>2, <2>3
  <1>5. PICK q \in D : \A w \in D : Cardinality(Sight(q)) <= Cardinality(Sight(w))
    <2>1. {Cardinality(Sight(w)) : w \in D} \in SUBSET Nat
          /\ {Cardinality(Sight(w)) : w \in D} # {}
      BY <1>3
    <2>2. \E x \in {Cardinality(Sight(w)) : w \in D} : \A y \in {Cardinality(Sight(w)) : w \in D} : x <= y
      BY <2>1, LeastNumber
    <2> QED
      BY <2>2
  <1>6. PICK r \in D : \A w \in D : Cardinality(Rest(r)) <= Cardinality(Rest(w))
    <2>1. {Cardinality(Rest(w)) : w \in D} \in SUBSET Nat
          /\ {Cardinality(Rest(w)) : w \in D} # {}
      BY <1>3
    <2>2. \E x \in {Cardinality(Rest(w)) : w \in D} : \A y \in {Cardinality(Rest(w)) : w \in D} : x <= y
      BY <2>1, LeastNumber
    <2> QED
      BY <2>2
  <1>7. \A v, w \in D : w \in seen[w] /\ (v \in seen[w] \/ w \in seen[v])
    BY DEF RateInv, Ordered
  <1> HIDE DEF Sight, Rest
  <1>8. ASSUME NEW w \in D PROVE q \in seen[w]
    <2>1. CASE w = q
      BY <1>7, <2>1
    <2>2. CASE w # q
      <3>1. ASSUME w \in seen[q] PROVE FALSE
        <4>1. Cardinality(Sight(w)) < Cardinality(Sight(q))
          BY <1>4, <2>2, <3>1
        <4>2. Cardinality(Sight(q)) <= Cardinality(Sight(w))
          BY <1>5
        <4> QED
          BY <1>3, <4>1, <4>2
      <3> QED
        BY <1>7, <3>1
    <2> QED
      BY <2>1, <2>2
  <1>9. ASSUME NEW w \in D PROVE w \in seen[r]
    <2>1. CASE w = r
      BY <1>7, <2>1
    <2>2. CASE w # r
      <3>1. ASSUME r \in seen[w] PROVE FALSE
        <4>1. Cardinality(Rest(w)) < Cardinality(Rest(r))
          BY <1>4, <2>2, <3>1
        <4>2. Cardinality(Rest(r)) <= Cardinality(Rest(w))
          BY <1>6
        <4> QED
          BY <1>3, <4>1, <4>2
      <3> QED
        BY <1>7, <3>1
    <2> QED
      BY <2>1, <2>2
  <1> QED
    BY <1>8, <1>9

\* The requests due in a window lie between the first and the last of them.
LEMMA ServeInvServes == RateInv /\ ServeInv => WaitersServed
  <1> SUFFICES ASSUME RateInv, ServeInv PROVE WaitersServed
    OBVIOUS
  <1>1. SUFFICES ASSUME With("cancelled") = {}, NEW q \in Live, NEW r \in Live,
                        due[q] <= due[r]
                 PROVE  Interval * Cardinality(DueIn(due[q], due[r]))
                           <= Burst * Interval + (due[r] - due[q])
    BY DEF WaitersServed, ServeInv, PatientSlotsSpaced, SlotsSpaced
  <1> DEFINE D == DueIn(due[q], due[r])
  <1>2. /\ Burst * Interval \in Nat
        /\ \A w \in Live : due[w] \in Nat
    BY RateAssumption DEF RateInv, TypeOK, Live, Sent, Waiting, With
  <1>3. /\ D \in SUBSET Live /\ q \in D
        /\ \A w \in D : w \in Live /\ due[q] <= due[w] /\ due[w] <= due[r]
    BY <1>1, <1>2 DEF DueIn
  <1> HIDE DEF D
  <1>4. PICK f, l \in D : \A w \in D : f \in seen[w] /\ w \in seen[l]
    BY <1>3, FirstAndLast DEF ServeInv
  <1>5. D \in SUBSET Between(f, l) /\ f \in seen[l] /\ f \in Live /\ l \in Live
    BY <1>3, <1>4 DEF Between
  <1>6. due[f] + Cost(Between(f, l)) <= Burst * Interval + due[l]
    BY <1>1, <1>5 DEF ServeInv, Patient, Spaced
  <1>7. IsFiniteSet(Between(f, l))
    <2>1. IsFiniteSet(seen[l]) /\ Between(f, l) \subseteq seen[l]
      BY <1>5 DEF RateInv, Priced, Between
    <2> QED
      BY <2>1, FS_Subset
  <1>8. Cost(D) <= Cost(Between(f, l)) /\ Cost(D) \in Nat /\ Cost(Between(f, l)) \in Nat
    BY <1>5, <1>7, CostArithmetic
  <1>9. due[q] <= due[f] /\ due[l] <= due[r]
    BY <1>3, <1>4
  <1>10. Cost(D) <= Burst * Interval + (due[r] - due[q])
    BY <1>2, <1>5, <1>6, <1>8, <1>9
  <1> QED
    BY <1>10 DEF Cost, D

\* What a caller of Wait (ratelimit.go:75) can count on, for every rate and
\* burst: its wait is no longer than the tokens owed to the callers ahead take
\* to earn, and while nobody gives up the tokens are due in arrival order, no
\* more of them in any window of time than the rate and one burst.
THEOREM WaitersAlwaysServed == RateSpec => []WaitersServed
  <1>1. RateInit => ServeInv
    <2>1. RateInit => Live = {} /\ Waiting = {}
      BY DEF RateInit, Live, Sent, Waiting, With
    <2>2. Burst * Interval \in Nat /\ Interval * 0 = 0
      BY RateAssumption
    <2>3. RateInit => NoIdleWait
      <3> SUFFICES ASSUME RateInit PROVE NoIdleWait
        OBVIOUS
      <3>1. Cardinality(Waiting) = 0
        BY <2>1, FS_EmptySet
      <3>2. credit = Burst * Interval /\ now = 0 /\ last = 0
        BY DEF RateInit
      <3>3. -(credit + (now - last)) <= 0
        BY <2>2, <3>2
      <3> QED
        BY <2>2, <3>1, <3>3 DEF NoIdleWait
    <2> QED
      BY <2>1, <2>3 DEF ServeInv, OneWay, OwedBehind, ArrivalOrder, Patient,
                        DueKeepsUp, LagsABurst, Spaced
  <1>2. RateInv /\ TypeOK' /\ ServeInv /\ [RateNext]_rateVars => ServeInv'
    BY ReserveKeepsServing, SendKeepsServing, CancelKeepsServing, TimeKeepsServing
    DEF RateNext
  <1> QED
    BY <1>1, <1>2, RateTypes, RateInvariant, ServeInvServes, PTL DEF RateSpec

-----------------------------------------------------------------------------
(* Generate, the cache, the hooks, the fallback and the retries. *)

Names  == STRING \union {""}
Calls  == [kind : {"generate", "stream"}, key : Names]
Text   == {"", "good", "bad"}
Keys   == Names \X Seq(Text)
Resps  == [to : Keys \union {<<>>}, content : Text, age : Nat]
Entry  == [key : Keys, resp : Resps, age : Nat]
Event  == {"ev", "done", "error"}
Hooked == {"primary", "wait", "check", "secondary", "fail", "respond"}

Domains ==
    /\ DOMAIN plan = Callers /\ DOMAIN call = Callers /\ DOMAIN asked = Callers /\ DOMAIN resp = Callers
    /\ DOMAIN pc = Callers /\ DOMAIN attempt = Callers /\ DOMAIN since = Callers /\ DOMAIN err = Callers
    /\ DOMAIN delay = Callers /\ DOMAIN reported = Callers /\ DOMAIN outcome = Callers
    /\ DOMAIN feed = Callers /\ DOMAIN held = Callers /\ DOMAIN got = Callers

CallTypes(c) == plan[c] \in Seq(Calls) /\ call[c] \in Calls

RequestTypes(c) == CallTypes(c) /\ asked[c] \in Seq(Text) /\ resp[c] \in Resps

RetryTypes(c) ==
    attempt[c] \in Nat /\ since[c] \in Nat /\ err[c] \in [status : Int, after : Nat]

StreamTypes(c) ==
    /\ CallTypes(c)
    /\ feed[c] \in [left : Seq(Event), channel : Seq(Event)]
    /\ held[c] \in Seq(Event) /\ got[c] \in Seq(Event)

\* The response at hand answers the request that is being made.
AnswersRequest(c) ==
    pc[c] \in {"respond", "set", "decode"} =>
        /\ resp[c].to = Request(c) /\ resp[c].age <= TTL

\* The cache: a response under the key of the request that it answers.
KeyedOnce(q) ==
    /\ q \in Seq(Entry)
    /\ \A i \in 1..Len(q) : q[i].resp.to = q[i].key
    /\ \A i, j \in 1..Len(q) : q[i].key = q[j].key => i = j

Honest == KeyedOnce(cache) /\ Len(cache) <= MaxEntries

CacheInv == Domains /\ Honest /\ \A c \in Callers : RequestTypes(c) /\ AnswersRequest(c)

\* The wait that was asked for, and the reasons not to wait.
Spent(c) == attempt[c] = MaxRetries \/ ~Retryable(err[c]) \/ err[c].after > MaxDelay

Retries(c) ==
    /\ pc[c] = "wait" =>
          /\ Retryable(err[c]) /\ attempt[c] < MaxRetries /\ err[c].after <= MaxDelay
          /\ err[c].after > 0 => delay[c] \in Nat /\ delay[c] + since[c] >= err[c].after
    /\ pc[c] = "primary" =>
          /\ attempt[c] <= MaxRetries
          /\ attempt[c] > 0 => Retryable(err[c]) /\ since[c] >= err[c].after
    /\ pc[c] = "check" => Spent(c) \/ c \in cancelled
    /\ pc[c] = "secondary" => Spent(c)

RetryInv == Domains /\ \A c \in Callers : RetryTypes(c) /\ Retries(c)

\* A stream, or what an abandoned one leaves: only its last event ends it.
Whole(s)  == \A i \in 1..Len(s) - 1 : s[i] = "ev"
Ending(s) == s # <<>> /\ s[Len(s)] # "ev"

Coming(c) == feed[c].channel \o feed[c].left

Unbroken(c) ==
    /\ pc[c] \in {"forward", "offer"} =>
          /\ Whole(held[c] \o Coming(c))
          /\ c \in cancelled \/ Ending(held[c] \o Coming(c))
    /\ pc[c] = "forward" => got[c] = held[c]
    /\ pc[c] = "offer" => held[c] # <<>> /\ held[c] = Append(got[c], held[c][Len(held[c])])
    /\ pc[c] = "drain" => c \in cancelled
    /\ pc[c] \notin {"forward", "offer", "drain"} => held[c] = <<>> /\ Coming(c) = <<>>

\* What the hooks have been told, and of which kind of call.
Reports(c) ==
    /\ pc[c] \in {"idle", "get", "start", "set", "decode", "forward", "offer", "drain"} \union Hooked
    /\ pc[c] \in {"get", "start"} => reported[c] = <<>>
    /\ pc[c] \in Hooked \union {"forward", "offer", "drain"} => reported[c] = <<"request">>
    /\ pc[c] = "set" => Told(c, "response")
    /\ pc[c] = "decode" => reported[c] = <<>> \/ Told(c, "response")
    /\ pc[c] \in {"get", "respond", "set", "decode"} => call[c].kind = "generate"
    /\ pc[c] \in {"forward", "offer", "drain"} => call[c].kind = "stream"
    /\ pc[c] \notin {"idle", "forward", "offer", "drain"} => got[c] = <<>>

\* What is true of a call that is over.
Settled(c) ==
    /\ pc[c] = "idle" => reported[c] = <<>> \/ Told(c, "response") \/ Told(c, "error")
    /\ pc[c] = "idle" /\ call[c].kind = "stream" =>
          /\ Told(c, "response") => /\ outcome[c] = "ok" /\ ~Contains(got[c], "error")
                                    /\ c \in cancelled \/ Last(got[c]) = "done"
          /\ Told(c, "error") => /\ outcome[c] = "error"
                                 /\ got[c] = <<>> \/ c \in cancelled \/ Last(got[c]) = "error"
          /\ Told(c, "response") \/ Told(c, "error")
    /\ pc[c] = "idle" /\ call[c].kind = "generate" /\ outcome[c] # "" =>
          /\ outcome[c] = "ok" => reported[c] = <<>> \/ Told(c, "response")
          /\ Told(c, "error") => outcome[c] = "error"

HookInv == Domains /\ \A c \in Callers : StreamTypes(c) /\ Unbroken(c) /\ Reports(c) /\ Settled(c)

-----------------------------------------------------------------------------
(* Types, and what a step of one caller leaves alone. *)

ActsFor(c) == Begin(c) \/ Step(c) \/ Cancel(c) \/ StopReading(c)

\* The callers share nothing but the cache.
Only(c) == \A d \in Callers \ {c} :
    /\ plan'[d] = plan[d]
    /\ call'[d] = call[d] /\ asked'[d] = asked[d] /\ resp'[d] = resp[d]
    /\ pc'[d] = pc[d] /\ attempt'[d] = attempt[d] /\ err'[d] = err[d]
    /\ delay'[d] = delay[d] /\ since'[d] = since[d]
    /\ reported'[d] = reported[d] /\ outcome'[d] = outcome[d]
    /\ feed'[d] = feed[d] /\ held'[d] = held[d] /\ got'[d] = got[d]
    /\ d \in cancelled' <=> d \in cancelled

\* Every step but the passing of time is one caller's.
LEMMA ActsForOnly ==
    ASSUME Domains, NEW c \in Callers, ActsFor(c)
    PROVE  Only(c) /\ Domains'
  <1> USE DEF Domains, Goto, Forget, Report
  <1>1. CASE Begin(c)
    BY <1>1 DEF Begin, Only
  <1>2. CASE Hit(c)
    BY <1>2 DEF Hit, Only, streaming
  <1>3. ASSUME NEW failed \in BOOLEAN, Miss(c, failed) \/ Store(c, failed) PROVE Only(c) /\ Domains'
    BY <1>3 DEF Miss, Store, Only, streaming, request
  <1>4. CASE Decode(c)
    BY <1>4 DEF Decode, Only, streaming
  <1>5. CASE Start(c)
    BY <1>5 DEF Start, Only, streaming
  <1>6. ASSUME NEW content, NEW events, Answer(c, content, events) PROVE Only(c) /\ Domains'
    BY <1>6 DEF Answer, Only
  <1>7. ASSUME NEW e, PrimaryFails(c, e) \/ SecondaryFails(c, e) PROVE Only(c) /\ Domains'
    BY <1>7 DEF PrimaryFails, SecondaryFails, Only, streaming
  <1>8. CASE WaitEnds(c) \/ CheckContext(c)
    BY <1>8 DEF WaitEnds, CheckContext, Only, streaming
  <1>9. CASE Respond(c) \/ Fail(c)
    BY <1>9 DEF Respond, Fail, Only, streaming, request
  <1>10. CASE Produce(c) \/ Abandon(c)
    BY <1>10 DEF Produce, Abandon, Only, request
  <1>11. CASE Forward(c) \/ Deliver(c)
    BY <1>11 DEF Forward, Deliver, Only, request
  <1>12. CASE GiveUpOffer(c) \/ StreamOver(c)
    BY <1>12 DEF GiveUpOffer, StreamOver, Only, request, streaming
  <1>13. CASE Cancel(c) \/ StopReading(c)
    BY <1>13 DEF Cancel, StopReading, Only, request, streaming
  <1> QED
    BY <1>1, <1>2, <1>3, <1>4, <1>5, <1>6, <1>7, <1>8, <1>9, <1>10, <1>11, <1>12, <1>13 DEF ActsFor, Step

\* So have the calls that are planned.
LEMMA PlanTypes == \A some \in Plans : some \in [Callers -> Seq(Calls)]
  <1> DEFINE Planned == [kind : {"generate", "stream"}, key : STRING]
  <1>1. \A some \in Plans : some \in [Callers -> Seq(Planned)]
    BY StackAssumption
  <1>2. Planned \subseteq Calls
    BY DEF Calls, Names
  <1>3. Seq(Planned) \subseteq Seq(Calls)
    BY <1>2, SeqMonotonic
  <1> HIDE DEF Planned
  <1> QED
    BY <1>1, <1>3

\* Failures and streams that the providers give have their types.
LEMMA Given ==
    /\ \A e \in Errors : e \in [status : Int, after : Nat]
    /\ \A s \in Events : s \in Seq(Event) /\ Ending(s) /\ Whole(s)
    /\ MaxRetries \in Nat /\ MaxDelay \in Nat /\ TTL \in Nat /\ MaxEntries \in Nat \ {0}
  BY StackAssumption DEF Event, Ending, Whole

-----------------------------------------------------------------------------
(* CacheHonest. *)

\* Taking one element out of a sequence.
LEMMA RemoveAtElements ==
    ASSUME NEW S, NEW s \in Seq(S), NEW i \in 1..Len(s)
    PROVE  /\ RemoveAt(s, i) \in Seq(S) /\ Len(RemoveAt(s, i)) = Len(s) - 1
           /\ \A j \in 1..Len(s) - 1 : RemoveAt(s, i)[j] = IF j < i THEN s[j] ELSE s[j + 1]
  <1>1. Len(s) \in Nat /\ i \in Nat /\ i >= 1 /\ i <= Len(s)
    OBVIOUS
  <1>2. SubSeq(s, 1, i - 1) \in Seq(S) /\ Len(SubSeq(s, 1, i - 1)) = i - 1
        /\ \A j \in 1..i - 1 : SubSeq(s, 1, i - 1)[j] = s[j]
    BY <1>1, SubSeqProperties
  <1>3. SubSeq(s, i + 1, Len(s)) \in Seq(S) /\ Len(SubSeq(s, i + 1, Len(s))) = Len(s) - i
        /\ \A j \in 1..Len(s) - i : SubSeq(s, i + 1, Len(s))[j] = s[i + j]
    BY <1>1, SubSeqProperties
  <1> DEFINE a == SubSeq(s, 1, i - 1)
             b == SubSeq(s, i + 1, Len(s))
  <1>4. a \in Seq(S) /\ b \in Seq(S) /\ Len(a) = i - 1 /\ Len(b) = Len(s) - i
        /\ (\A j \in 1..i - 1 : a[j] = s[j]) /\ (\A j \in 1..Len(s) - i : b[j] = s[i + j])
    BY <1>2, <1>3
  <1>5. RemoveAt(s, i) = a \o b
    BY DEF RemoveAt
  <1> HIDE DEF a, b
  <1>6. a \o b \in Seq(S) /\ Len(a \o b) = Len(s) - 1
    <2>1. a \o b \in Seq(S) /\ Len(a \o b) = Len(a) + Len(b)
      BY <1>4, ConcatProperties
    <2> QED
      BY <1>1, <1>4, <2>1
  <1>7. ASSUME NEW j \in 1..Len(s) - 1 PROVE (a \o b)[j] = IF j < i THEN s[j] ELSE s[j + 1]
    <2>1. CASE j < i
      <3>1. (a \o b)[j] = a[j]
        BY <1>1, <1>4, <2>1
      <3> QED
        BY <1>1, <1>4, <2>1, <3>1
    <2>2. CASE ~(j < i)
      <3>1. (a \o b)[j] = b[j - (i - 1)]
        BY <1>1, <1>4, <2>2
      <3>2. j - (i - 1) \in 1..Len(s) - i /\ i + (j - (i - 1)) = j + 1
        BY <1>1, <2>2
      <3>3. b[j - (i - 1)] = s[j + 1]
        BY <1>4, <3>2
      <3> QED
        BY <2>2, <3>1, <3>3
    <2> QED
      BY <2>1, <2>2
  <1> QED
    BY <1>5, <1>6, <1>7

\* An entry that is taken out leaves none with its key (Get and Set, cache.go).
LEMMA RemoveKeepsKeys ==
    ASSUME NEW q, KeyedOnce(q), NEW i \in 1..Len(q)
    PROVE  /\ KeyedOnce(RemoveAt(q, i)) /\ Len(RemoveAt(q, i)) = Len(q) - 1
           /\ \A j \in 1..Len(RemoveAt(q, i)) : RemoveAt(q, i)[j].key # q[i].key
  <1>1. q \in Seq(Entry) /\ Len(q) \in Nat
    BY DEF KeyedOnce
  <1> DEFINE r == RemoveAt(q, i)
  <1>2. /\ r \in Seq(Entry) /\ Len(r) = Len(q) - 1
        /\ \A j \in 1..Len(q) - 1 : r[j] = IF j < i THEN q[j] ELSE q[j + 1]
    BY <1>1, RemoveAtElements
  <1> HIDE DEF r
  <1>3. \A j \in 1..Len(r) : \E k \in 1..Len(q) : r[j] = q[k] /\ k # i /\ k = IF j < i THEN j ELSE j + 1
    BY <1>1, <1>2
  <1>4. \A j \in 1..Len(r) : r[j].resp.to = r[j].key
    BY <1>3 DEF KeyedOnce
  <1>5. \A j, k \in 1..Len(r) : r[j].key = r[k].key => j = k
    <2> SUFFICES ASSUME NEW j \in 1..Len(r), NEW k \in 1..Len(r), r[j].key = r[k].key
                 PROVE  j = k
      OBVIOUS
    <2>1. PICK jj \in 1..Len(q) : r[j] = q[jj] /\ jj = IF j < i THEN j ELSE j + 1
      BY <1>3
    <2>2. PICK kk \in 1..Len(q) : r[k] = q[kk] /\ kk = IF k < i THEN k ELSE k + 1
      BY <1>3
    <2>3. jj = kk
      BY <2>1, <2>2 DEF KeyedOnce
    <2> QED
      BY <1>1, <1>2, <2>1, <2>2, <2>3
  <1>6. \A j \in 1..Len(r) : r[j].key # q[i].key
    BY <1>3 DEF KeyedOnce
  <1> QED
    BY <1>2, <1>4, <1>5, <1>6 DEF r, KeyedOnce

\* The last of the list, which the code takes for the oldest (Set).
LEMMA FrontKeepsKeys ==
    ASSUME NEW q, KeyedOnce(q), Len(q) > 0
    PROVE  /\ KeyedOnce(Front(q)) /\ Len(Front(q)) = Len(q) - 1
           /\ \A j \in 1..Len(Front(q)) : Front(q)[j] = q[j]
  <1>1. q \in Seq(Entry) /\ Len(q) \in Nat
    BY DEF KeyedOnce
  <1> DEFINE r == Front(q)
  <1>2. r \in Seq(Entry) /\ Len(r) = Len(q) - 1 /\ \A j \in 1..Len(q) - 1 : r[j] = q[j]
    <2>1. Len(q) - 1 \in Int /\ 1 <= Len(q) /\ (Len(q) - 1) - 1 + 1 = Len(q) - 1
          /\ \A j \in 1..Len(q) - 1 : q[j] \in Entry /\ 1 + j - 1 = j
      BY <1>1
    <2>2. /\ SubSeq(q, 1, Len(q) - 1) \in Seq(Entry)
          /\ \A j \in 1..(Len(q) - 1) - 1 + 1 : SubSeq(q, 1, Len(q) - 1)[j] = q[1 + j - 1]
      BY <2>1, SubSeqProperties
    <2>3. Len(SubSeq(q, 1, Len(q) - 1)) = Len(q) - 1
      BY <1>1, <2>1
    <2> QED
      BY <2>1, <2>2, <2>3 DEF Front
  <1> HIDE DEF r
  <1>3. \A j \in 1..Len(r) : j \in 1..Len(q) /\ r[j] = q[j]
    BY <1>1, <1>2
  <1>4. KeyedOnce(r)
    BY <1>2, <1>3 DEF KeyedOnce
  <1> QED
    BY <1>2, <1>3, <1>4 DEF r

\* An entry that is put in front (PushFront, MoveToFront).
LEMMA PushKeepsKeys ==
    ASSUME NEW q, KeyedOnce(q), NEW e \in Entry, e.resp.to = e.key,
           \A j \in 1..Len(q) : q[j].key # e.key
    PROVE  KeyedOnce(<<e>> \o q) /\ Len(<<e>> \o q) = Len(q) + 1
  <1>1. q \in Seq(Entry) /\ Len(q) \in Nat /\ <<e>> \in Seq(Entry) /\ Len(<<e>>) = 1 /\ <<e>>[1] = e
    BY DEF KeyedOnce
  <1> DEFINE r == <<e>> \o q
  <1>2. r \in Seq(Entry) /\ Len(r) = Len(q) + 1
    BY <1>1, ConcatProperties
  <1>3. r[1] = e
    BY <1>1, ConcatProperties
  <1>4. \A j \in 2..Len(r) : r[j] = q[j - 1] /\ j - 1 \in 1..Len(q)
    BY <1>1, <1>2, ConcatProperties
  <1> HIDE DEF r
  <1>5. \A j \in 1..Len(r) : j = 1 \/ j \in 2..Len(r)
    BY <1>1, <1>2
  <1>6. \A j \in 1..Len(r) : r[j].resp.to = r[j].key
    BY <1>3, <1>4, <1>5, SMTT(30) DEF KeyedOnce
  <1>7. \A j, k \in 1..Len(r) : r[j].key = r[k].key => j = k
    <2> SUFFICES ASSUME NEW j \in 1..Len(r), NEW k \in 1..Len(r), r[j].key = r[k].key
                 PROVE  j = k
      OBVIOUS
    <2>1. CASE j = 1 \/ k = 1
      BY <1>3, <1>4, <1>5, <2>1
    <2>2. CASE j \in 2..Len(r) /\ k \in 2..Len(r)
      <3>1. q[j - 1].key = q[k - 1].key /\ j - 1 \in 1..Len(q) /\ k - 1 \in 1..Len(q)
        BY <1>4, <2>2
      <3>2. j - 1 = k - 1
        BY <3>1 DEF KeyedOnce
      <3> QED
        BY <2>2, <3>2
    <2> QED
      BY <1>5, <2>1, <2>2
  <1> QED
    BY <1>2, <1>6, <1>7 DEF r, KeyedOnce

\* The steps that leave request, response and cache alone.
Elsewhere(c) ==
    /\ UNCHANGED <<plan, call, asked, resp, cache>>
    /\ pc'[c] \in {"respond", "set", "decode"} => pc[c] \in {"respond", "set", "decode"}

\* Which steps of a caller are not among them (cache.go, generate.go).
LEMMA MostElsewhere ==
    ASSUME Domains, NEW c \in Callers, ActsFor(c)
    PROVE  \/ Elsewhere(c) \/ Begin(c) \/ Hit(c) \/ Decode(c) \/ Store(c, FALSE)
           \/ \E content \in {"good", "bad"}, events \in Events \union {<<>>} : Answer(c, content, events)
  <1> USE DEF Domains, Goto, Elsewhere
  <1>1. ASSUME NEW failed \in BOOLEAN, Miss(c, failed) \/ Store(c, TRUE) PROVE Elsewhere(c)
    BY <1>1 DEF Miss, Store, request
  <1>2. CASE Start(c)
    BY <1>2 DEF Start
  <1>3. ASSUME NEW e \in Errors, PrimaryFails(c, e) \/ SecondaryFails(c, e) PROVE Elsewhere(c)
    BY <1>3 DEF PrimaryFails, SecondaryFails
  <1>4. CASE WaitEnds(c) \/ CheckContext(c)
    BY <1>4 DEF WaitEnds, CheckContext
  <1>5. CASE Respond(c) \/ Fail(c)
    BY <1>5 DEF Respond, Fail, request
  <1>6. CASE Produce(c) \/ Abandon(c) \/ Forward(c) \/ Deliver(c)
    BY <1>6 DEF Produce, Abandon, Forward, Deliver, request
  <1>7. CASE GiveUpOffer(c) \/ StreamOver(c) \/ Cancel(c) \/ StopReading(c)
    BY <1>7 DEF GiveUpOffer, StreamOver, Cancel, StopReading, request
  <1>8. ASSUME NEW failed \in BOOLEAN, Store(c, failed) PROVE Store(c, TRUE) \/ Store(c, FALSE)
    BY <1>8
  <1> QED
    BY <1>1, <1>2, <1>3, <1>4, <1>5, <1>6, <1>7, <1>8 DEF ActsFor, Step

\* Get (cache.go:127): what it finds answers the key, and is not too old.
LEMMA HitKeeps ==
    ASSUME CacheInv, NEW c \in Callers, Hit(c)
    PROVE  Honest' /\ RequestTypes(c)' /\ AnswersRequest(c)'
  <1>1. PICK i \in Found(CacheKey(c)) :
           /\ cache' = Touched(i)
           /\ IF cache[i].age > TTL THEN resp' = resp /\ Goto(c, "start")
              ELSE /\ resp' = [resp EXCEPT ![c] = [cache[i].resp EXCEPT !.age = cache[i].age]]
                   /\ Goto(c, "decode")
    BY DEF Hit
  <1>2. UNCHANGED <<plan, call, asked>>
    BY DEF Hit
  <1>3. /\ KeyedOnce(cache) /\ Len(cache) <= MaxEntries /\ cache \in Seq(Entry)
        /\ i \in 1..Len(cache) /\ cache[i].key = Request(c)
    BY DEF CacheInv, Honest, KeyedOnce, Found, CacheKey
  <1>4. cache[i] \in Entry /\ cache[i].resp.to = Request(c)
    BY <1>3 DEF KeyedOnce
  <1>5. /\ KeyedOnce(RemoveAt(cache, i)) /\ Len(RemoveAt(cache, i)) = Len(cache) - 1
        /\ \A j \in 1..Len(RemoveAt(cache, i)) : RemoveAt(cache, i)[j].key # cache[i].key
    BY <1>3, RemoveKeepsKeys
  <1>6. KeyedOnce(<<cache[i]>> \o RemoveAt(cache, i)) /\ Len(<<cache[i]>> \o RemoveAt(cache, i)) = Len(cache) - 1 + 1
    BY <1>3, <1>4, <1>5, PushKeepsKeys
  <1>7. Len(cache) \in Nat /\ MaxEntries \in Nat /\ TTL \in Nat
    BY <1>3, Given
  <1>8. Honest'
    BY <1>1, <1>3, <1>5, <1>6, <1>7 DEF Honest, Touched
  <1>9. Domains /\ RequestTypes(c)
    BY DEF CacheInv
  <1>10. CASE cache[i].age > TTL
    <2>1. resp' = resp /\ pc'[c] = "start"
      BY <1>1, <1>9, <1>10 DEF Goto, Domains
    <2> QED
      BY <1>2, <1>8, <1>9, <2>1 DEF RequestTypes, CallTypes, AnswersRequest
  <1>11. CASE ~(cache[i].age > TTL)
    <2>1. resp'[c] = [cache[i].resp EXCEPT !.age = cache[i].age]
      BY <1>1, <1>9, <1>11 DEF Domains
    <2>2. cache[i].resp \in Resps /\ cache[i].age \in Nat
      BY <1>4 DEF Entry
    <2>3. resp'[c] \in Resps /\ resp'[c].to = Request(c) /\ resp'[c].age = cache[i].age
      BY <1>4, <2>1, <2>2 DEF Resps
    <2>4. resp'[c].age <= TTL
      BY <1>7, <1>11, <2>2, <2>3
    <2> QED
      BY <1>2, <1>8, <1>9, <2>3, <2>4 DEF RequestTypes, CallTypes, AnswersRequest, Request
  <1> QED
    BY <1>10, <1>11

\* Set (cache.go:145): what is stored answers the key.
LEMMA StoreKeeps ==
    ASSUME CacheInv, NEW c \in Callers, Store(c, FALSE)
    PROVE  Honest' /\ RequestTypes(c)' /\ AnswersRequest(c)'
  <1>1. /\ pc[c] = "set" /\ cache' = Stored(Request(c), resp[c]) /\ UNCHANGED <<plan, call, asked, resp>>
    BY DEF Store, CacheKey, request
  <1>2. /\ KeyedOnce(cache) /\ Len(cache) <= MaxEntries /\ cache \in Seq(Entry) /\ Len(cache) \in Nat
        /\ MaxEntries \in Nat \ {0}
    BY Given DEF CacheInv, Honest, KeyedOnce
  <1>3. RequestTypes(c) /\ AnswersRequest(c)
    BY DEF CacheInv
  <1> DEFINE k == Request(c)
             e == [key |-> k, resp |-> resp[c], age |-> 0]
             kept == CASE Found(k) # {} -> RemoveAt(cache, CHOOSE i \in Found(k) : TRUE)
                       [] Found(k) = {} /\ Len(cache) >= MaxEntries -> Front(cache)
                       [] OTHER -> cache
  <1>4. k \in Keys
    BY <1>3 DEF RequestTypes, CallTypes, Calls, Request, Keys
  <1>5. e \in Entry /\ e.resp.to = k /\ e.key = k
    BY <1>1, <1>3, <1>4 DEF RequestTypes, AnswersRequest, Entry
  <1>6. cache' = <<e>> \o kept
    BY <1>1 DEF Stored
  <1>7. KeyedOnce(kept) /\ Len(kept) < MaxEntries /\ \A j \in 1..Len(kept) : kept[j].key # k
    <2>1. CASE Found(k) # {}
      <3>1. PICK i \in Found(k) : kept = RemoveAt(cache, i)
        BY <2>1
      <3>2. i \in 1..Len(cache) /\ cache[i].key = k
        BY <1>2, <3>1 DEF Found
      <3>3. /\ KeyedOnce(RemoveAt(cache, i)) /\ Len(RemoveAt(cache, i)) = Len(cache) - 1
            /\ \A j \in 1..Len(RemoveAt(cache, i)) : RemoveAt(cache, i)[j].key # cache[i].key
        BY <1>2, <3>2, RemoveKeepsKeys
      <3>4. Len(cache) - 1 < MaxEntries
        BY <1>2
      <3> HIDE DEF kept, k
      <3> QED
        BY <3>1, <3>2, <3>3, <3>4
    <2>2. CASE Found(k) = {} /\ Len(cache) >= MaxEntries
      <3>1. kept = Front(cache)
        BY <2>2
      <3>2. \A j \in 1..Len(cache) : cache[j].key # k
        BY <1>2, <2>2 DEF Found
      <3>3. Len(cache) > 0 /\ Len(cache) - 1 < MaxEntries /\ \A j \in 1..Len(cache) - 1 : j \in 1..Len(cache)
        BY <1>2, <2>2
      <3>4. /\ KeyedOnce(Front(cache)) /\ Len(Front(cache)) = Len(cache) - 1
            /\ \A j \in 1..Len(Front(cache)) : Front(cache)[j] = cache[j]
        BY <1>2, <3>3, FrontKeepsKeys
      <3> QED
        BY <3>1, <3>2, <3>3, <3>4
    <2>3. CASE Found(k) = {} /\ ~(Len(cache) >= MaxEntries)
      <3>1. kept = cache
        BY <2>3
      <3>2. \A j \in 1..Len(cache) : cache[j].key # k
        BY <1>2, <2>3 DEF Found
      <3>3. Len(cache) < MaxEntries
        BY <1>2, <2>3
      <3> QED
        BY <1>2, <3>1, <3>2, <3>3
    <2> QED
      BY <2>1, <2>2, <2>3
  <1> HIDE DEF e, kept
  <1>8. KeyedOnce(<<e>> \o kept) /\ Len(<<e>> \o kept) = Len(kept) + 1
    BY <1>5, <1>7, PushKeepsKeys
  <1>9. Len(kept) \in Nat
    BY <1>7 DEF KeyedOnce
  <1>10. Honest'
    BY <1>2, <1>6, <1>7, <1>8, <1>9 DEF Honest
  <1> QED
    BY <1>1, <1>3, <1>10 DEF RequestTypes, CallTypes, AnswersRequest, Request

\* Begin, the provider's answer and decoding (generate.go:90), which may ask
\* again with a longer transcript.
LEMMA RequestKeeps ==
    ASSUME CacheInv, NEW c \in Callers,
           \/ Begin(c) \/ Decode(c) \/ Elsewhere(c)
           \/ \E content \in {"good", "bad"}, events \in Events \union {<<>>} : Answer(c, content, events)
    PROVE  cache' = cache /\ RequestTypes(c)' /\ AnswersRequest(c)'
  <1>1. Domains /\ RequestTypes(c) /\ AnswersRequest(c)
    BY DEF CacheInv
  <1>2. CASE Elsewhere(c)
    BY <1>1, <1>2 DEF Elsewhere, RequestTypes, CallTypes, AnswersRequest, Request
  <1>3. CASE Begin(c)
    <2>1. /\ cache' = cache /\ resp' = resp /\ plan[c] # <<>>
          /\ plan'[c] = Tail(plan[c]) /\ call'[c] = Head(plan[c]) /\ asked'[c] = <<>>
          /\ pc'[c] \in {"get", "start"}
      BY <1>1, <1>3 DEF Begin, Goto, Domains
    <2>2. Tail(plan[c]) \in Seq(Calls) /\ Head(plan[c]) \in Calls
      BY <1>1, <2>1 DEF RequestTypes, CallTypes
    <2> QED
      BY <1>1, <2>1, <2>2 DEF RequestTypes, CallTypes, AnswersRequest
  <1>4. CASE Decode(c)
    <2>1. /\ cache' = cache /\ UNCHANGED <<plan, call>> /\ resp'[c] = NoResponse
          /\ asked'[c] \in {asked[c], Append(asked[c], resp[c].content)}
          /\ pc'[c] \in {"get", "idle"}
      BY <1>1, <1>4 DEF Decode, Goto, Domains
    <2>2. NoResponse \in Resps
      BY DEF NoResponse, Resps, Text
    <2>3. resp[c].content \in Text
      <3>1. resp[c] \in Resps
        BY <1>1 DEF RequestTypes
      <3> QED
        BY <3>1 DEF Resps
    <2>4. asked'[c] \in Seq(Text)
      <3>1. asked[c] \in Seq(Text) /\ asked'[c] \in {asked[c], Append(asked[c], resp[c].content)}
        BY <1>1, <2>1 DEF RequestTypes
      <3>2. \A s \in Seq(Text), x \in Text : Append(s, x) \in Seq(Text)
        OBVIOUS
      <3> QED
        BY <2>3, <3>1, <3>2, Zenon
    <2> QED
      BY <1>1, <2>1, <2>2, <2>4 DEF RequestTypes, CallTypes, AnswersRequest
  <1>5. ASSUME NEW content \in {"good", "bad"}, NEW events \in Events \union {<<>>}, Answer(c, content, events)
        PROVE  cache' = cache /\ RequestTypes(c)' /\ AnswersRequest(c)'
    <2> DEFINE r == [to |-> Request(c), content |-> content, age |-> 0]
    <2>1. /\ UNCHANGED <<cache, plan, call, asked>>
          /\ \/ resp'[c] = r /\ pc'[c] = "respond"
             \/ resp' = resp /\ pc'[c] = "forward"
      BY <1>1, <1>5 DEF Answer, Goto, Domains
    <2>2. Request(c) \in Keys
      BY <1>1 DEF RequestTypes, CallTypes, Calls, Request, Keys
    <2>3. r \in Resps /\ r.to = Request(c) /\ r.age = 0
      BY <2>2 DEF Resps, Text
    <2>4. 0 <= TTL
      BY Given
    <2> HIDE DEF r
    <2> QED
      BY <1>1, <2>1, <2>3, <2>4 DEF RequestTypes, CallTypes, AnswersRequest, Request
  <1> QED
    BY <1>2, <1>3, <1>4, <1>5

\* What is cached grows older.
LEMMA TickKeepsCache ==
    ASSUME CacheInv, Tick
    PROVE  CacheInv'
  <1>1. /\ cache' = [i \in DOMAIN cache |-> [cache[i] EXCEPT !.age = Older(cache[i].age, TTL + 1)]]
        /\ UNCHANGED <<plan, call, asked, resp, pc>>
    BY DEF Tick
  <1>2. Domains'
    BY DEF Tick, CacheInv, Domains, streaming
  <1>3. KeyedOnce(cache) /\ cache \in Seq(Entry) /\ Len(cache) \in Nat /\ Len(cache) <= MaxEntries
    BY DEF CacheInv, Honest, KeyedOnce
  <1>4. \A i \in 1..Len(cache) : /\ [cache[i] EXCEPT !.age = Older(cache[i].age, TTL + 1)] \in Entry
                                 /\ [cache[i] EXCEPT !.age = Older(cache[i].age, TTL + 1)].key = cache[i].key
                                 /\ [cache[i] EXCEPT !.age = Older(cache[i].age, TTL + 1)].resp = cache[i].resp
    <2> TAKE i \in 1..Len(cache)
    <2>1. cache[i] \in Entry /\ cache[i].age \in Nat
      <3>1. cache[i] \in Entry
        BY <1>3
      <3> QED
        BY <3>1 DEF Entry
    <2>2. Older(cache[i].age, TTL + 1) \in Nat
      BY <2>1, Given DEF Older
    <2> QED
      BY <2>1, <2>2 DEF Entry
  <1>5. cache' = [i \in 1..Len(cache) |-> [cache[i] EXCEPT !.age = Older(cache[i].age, TTL + 1)]]
    BY <1>1, <1>3
  <1>6. cache' \in Seq(Entry) /\ Len(cache') = Len(cache)
    BY <1>3, <1>4, <1>5, IsASeq
  <1>7. \A i \in 1..Len(cache) : cache'[i].key = cache[i].key /\ cache'[i].resp = cache[i].resp
    BY <1>4, <1>5
  <1>8. Honest'
    BY <1>3, <1>6, <1>7 DEF KeyedOnce, Honest
  <1> QED
    BY <1>1, <1>2, <1>8 DEF CacheInv, RequestTypes, CallTypes, AnswersRequest, Request

\* A stuttering step, for all three invariants.
LEMMA StutterKeeps ==
    ASSUME UNCHANGED vars
    PROVE  /\ CacheInv => CacheInv'
           /\ RetryInv => RetryInv'
           /\ HookInv => HookInv'
  <1> USE DEF vars, request, streaming
  <1>1. CacheInv => CacheInv'
    BY DEF CacheInv, Domains, Honest, RequestTypes, CallTypes, AnswersRequest, Request
  <1>2. RetryInv => RetryInv'
    BY DEF RetryInv, Domains, RetryTypes, Retries, Spent
  <1>3. HookInv => HookInv'
    <2> SUFFICES ASSUME HookInv, NEW c \in Callers
                 PROVE  StreamTypes(c)' /\ Unbroken(c)' /\ Reports(c)' /\ Settled(c)' /\ Domains'
      BY DEF HookInv, Domains
    <2>1. Domains'
      BY DEF HookInv, Domains
    <2>2. StreamTypes(c)' /\ Unbroken(c)'
      BY DEF HookInv, StreamTypes, CallTypes, Unbroken, Coming
    <2>3. Reports(c)'
      BY DEF HookInv, Reports, Told
    <2>4. Settled(c)'
      BY DEF HookInv, Settled, Told
    <2> QED
      BY <2>1, <2>2, <2>3, <2>4
  <1> QED
    BY <1>1, <1>2, <1>3

(***************************************************************************)
(* Generate decodes an answer to the very request it sent (generate.go:90),*)
(* and MemoryCache (cache.go) gives none that is too old, keeps its size   *)
(* and one entry a key, however many callers share it.                     *)
(***************************************************************************)
THEOREM CacheAlwaysHonest == Spec => []CacheHonest
  <1>1. Init => CacheInv
    <2> SUFFICES ASSUME Init PROVE CacheInv
      OBVIOUS
    <2>1. plan \in [Callers -> Seq(Calls)]
      BY PlanTypes DEF Init
    <2>2. Domains
      BY <2>1 DEF Init, Domains
    <2>3. Honest
      <3>1. cache = <<>> /\ cache \in Seq(Entry) /\ Len(cache) = 0
        <4>1. cache = <<>>
          BY DEF Init
        <4> QED
          BY <4>1
      <3>2. 0 <= MaxEntries
        BY Given
      <3> QED
        BY <3>1, <3>2 DEF Honest, KeyedOnce
    <2>4. ASSUME NEW c \in Callers PROVE RequestTypes(c) /\ AnswersRequest(c)
      <3>1. /\ call[c] = [kind |-> "generate", key |-> ""] /\ asked[c] = <<>> /\ resp[c] = NoResponse
            /\ pc[c] = "idle"
        <4>1. /\ call = [d \in Callers |-> [kind |-> "generate", key |-> ""]]
              /\ asked = [d \in Callers |-> <<>>] /\ resp = [d \in Callers |-> NoResponse]
              /\ pc = [d \in Callers |-> "idle"]
          BY DEF Init
        <4> QED
          BY <4>1
      <3>2. call[c] \in Calls
        <4>1. [kind |-> "generate", key |-> ""] \in Calls
          BY DEF Calls, Names
        <4> QED
          BY <3>1, <4>1
      <3>3. resp[c] \in Resps
        <4>1. NoResponse \in Resps
          BY DEF NoResponse, Resps, Text
        <4> QED
          BY <3>1, <4>1
      <3>4. asked[c] \in Seq(Text)
        <4>1. asked[c] = <<>>
          BY <3>1
        <4> QED
          BY <4>1
      <3> QED
        BY <2>1, <3>1, <3>2, <3>3, <3>4 DEF RequestTypes, CallTypes, AnswersRequest
    <2> QED
      BY <2>2, <2>3, <2>4 DEF CacheInv
  <1>2. CacheInv /\ [Next]_vars => CacheInv'
    <2> SUFFICES ASSUME CacheInv, [Next]_vars PROVE CacheInv'
      OBVIOUS
    <2>1. ASSUME NEW c \in Callers, ActsFor(c) PROVE CacheInv'
      <3>1. Domains /\ Honest /\ Only(c) /\ Domains'
        BY <2>1, ActsForOnly DEF CacheInv
      <3>2. Honest' /\ RequestTypes(c)' /\ AnswersRequest(c)'
        <4>1. cache' = cache => Honest'
          BY <3>1 DEF Honest
        <4> QED
          BY <2>1, <3>1, <4>1, MostElsewhere, HitKeeps, StoreKeeps, RequestKeeps
      <3>3. ASSUME NEW d \in Callers \ {c} PROVE RequestTypes(d)' /\ AnswersRequest(d)'
        BY <3>1 DEF CacheInv, Only, RequestTypes, CallTypes, AnswersRequest, Request
      <3> QED
        BY <3>1, <3>2, <3>3 DEF CacheInv
    <2> QED
      BY <2>1, TickKeepsCache, StutterKeeps DEF Next, ActsFor
  <1>3. CacheInv => CacheHonest
    BY DEF CacheInv, Honest, KeyedOnce, AnswersRequest, CacheHonest
  <1> QED
    BY <1>1, <1>2, <1>3, PTL DEF Spec

-----------------------------------------------------------------------------
(* FallbackLast. *)

\* A step that is none of the retry loop's: it may forget what is waited for.
Unhurried(c) ==
    /\ \/ UNCHANGED <<attempt, since>> /\ err'[c] \in {err[c]} \union Errors
       \/ attempt'[c] = 0 /\ err'[c] = NoError /\ since'[c] = 0
    /\ pc'[c] \notin {"primary", "wait", "check", "secondary"}

\* Which steps are the retry loop's (retry.go, fallback.go).
LEMMA MostUnhurried ==
    ASSUME Domains, NEW c \in Callers, ActsFor(c)
    PROVE  \/ Unhurried(c) \/ Start(c) \/ WaitEnds(c) \/ CheckContext(c) \/ Cancel(c)
           \/ UNCHANGED <<pc, attempt, err, since, delay, cancelled>>
           \/ \E e \in Errors : PrimaryFails(c, e)
  <1> USE DEF Domains, Goto, Forget, Unhurried
  <1>1. CASE Begin(c)
    BY <1>1 DEF Begin
  <1>2. CASE Hit(c)
    BY <1>2 DEF Hit
  <1>3. ASSUME NEW failed \in BOOLEAN, Miss(c, failed) \/ Store(c, failed) PROVE Unhurried(c)
    BY <1>3 DEF Miss, Store, request
  <1>4. CASE Decode(c)
    BY <1>4 DEF Decode
  <1>5. ASSUME NEW content, NEW events, Answer(c, content, events) PROVE Unhurried(c)
    BY <1>5 DEF Answer
  <1>6. ASSUME NEW e \in Errors, SecondaryFails(c, e)
        PROVE  Unhurried(c)
    BY <1>6 DEF SecondaryFails
  <1>7. CASE Respond(c) \/ Fail(c)
    BY <1>7 DEF Respond, Fail, request
  <1>8. CASE Produce(c) \/ Abandon(c) \/ StopReading(c)
    BY <1>8 DEF Produce, Abandon, StopReading, request
  <1>9. CASE Forward(c) \/ Deliver(c) \/ GiveUpOffer(c) \/ StreamOver(c)
    BY <1>9 DEF Forward, Deliver, GiveUpOffer, StreamOver, request
  <1> QED
    BY <1>1, <1>2, <1>3, <1>4, <1>5, <1>6, <1>7, <1>8, <1>9 DEF ActsFor, Step

\* The primary fails (retry.go:106): the loop waits, or is at its end.
LEMMA PrimaryFailsKeeps ==
    ASSUME RetryInv, NEW c \in Callers, NEW e \in Errors, PrimaryFails(c, e)
    PROVE  RetryTypes(c)' /\ Retries(c)'
  <1>1. Domains /\ RetryTypes(c) /\ Retries(c)
    BY DEF RetryInv
  <1>2. e \in [status : Int, after : Nat] /\ MaxRetries \in Nat /\ MaxDelay \in Nat
    BY Given
  <1>3. /\ pc[c] = "primary" /\ err'[c] = e /\ since'[c] = 0 /\ attempt' = attempt
        /\ pc'[c] = IF RetryWaits(e, attempt[c]) THEN "wait" ELSE "check"
        /\ RetryWaits(e, attempt[c]) /\ e.after > 0 => delay'[c] = e.after
    BY <1>1 DEF PrimaryFails, Goto, Domains
  <1>4. attempt[c] \in Nat /\ attempt[c] <= MaxRetries
    BY <1>1, <1>3 DEF RetryTypes, Retries
  <1>5. RetryTypes(c)'
    BY <1>2, <1>3, <1>4 DEF RetryTypes
  <1>6. e.after \in Nat
    BY <1>2
  <1>7. CASE RetryWaits(e, attempt[c])
    <2>1. pc'[c] = "wait" /\ Retryable(err'[c]) /\ attempt'[c] < MaxRetries /\ err'[c].after <= MaxDelay
      BY <1>3, <1>7 DEF RetryWaits
    <2>2. err'[c].after > 0 => delay'[c] \in Nat /\ delay'[c] + since'[c] >= err'[c].after
      BY <1>3, <1>6, <1>7
    <2> QED
      BY <1>5, <2>1, <2>2 DEF Retries, Retryable, IsRetryable
  <1>8. CASE ~RetryWaits(e, attempt[c])
    <2>1. pc'[c] = "check" /\ (attempt'[c] = MaxRetries \/ ~Retryable(err'[c]) \/ err'[c].after > MaxDelay)
      BY <1>2, <1>3, <1>4, <1>6, <1>8 DEF RetryWaits
    <2> QED
      BY <1>5, <2>1 DEF Retries, Spent, Retryable, IsRetryable
  <1> QED
    BY <1>7, <1>8

\* The other steps of the loop and of the fallback (retry.go:162, fallback.go).
LEMMA LoopKeeps ==
    ASSUME RetryInv, NEW c \in Callers, Start(c) \/ WaitEnds(c) \/ CheckContext(c) \/ Cancel(c)
    PROVE  RetryTypes(c)' /\ Retries(c)'
  <1>1. Domains /\ RetryTypes(c) /\ Retries(c) /\ MaxRetries \in Nat
    BY Given DEF RetryInv
  <1>2. CASE Start(c)
    <2>1. pc'[c] = "primary" /\ attempt'[c] = 0 /\ err'[c] = NoError /\ since' = since
      BY <1>1, <1>2 DEF Start, Goto, Domains
    <2>2. NoError \in [status : Int, after : Nat]
      BY DEF NoError
    <2>3. RetryTypes(c)'
      BY <1>1, <2>1, <2>2 DEF RetryTypes
    <2>4. attempt'[c] <= MaxRetries /\ ~(attempt'[c] > 0)
      BY <1>1, <2>1
    <2> QED
      BY <2>1, <2>3, <2>4 DEF Retries
  <1>3. CASE WaitEnds(c)
    <2>1. pc[c] = "wait" /\ UNCHANGED <<err, delay, since, cancelled>>
      BY <1>3 DEF WaitEnds
    <2>2. /\ Retryable(err[c]) /\ attempt[c] < MaxRetries /\ attempt[c] \in Nat
          /\ since[c] \in Nat /\ err[c].after \in Nat
          /\ err[c].after > 0 => delay[c] \in Nat /\ delay[c] + since[c] >= err[c].after
      BY <1>1, <2>1 DEF Retries, RetryTypes
    <2>3. CASE delay[c] = 0 /\ attempt' = [attempt EXCEPT ![c] = attempt[c] + 1] /\ Goto(c, "primary")
      <3>1. pc'[c] = "primary" /\ attempt'[c] = attempt[c] + 1
        BY <1>1, <2>3 DEF Goto, Domains
      <3>2. attempt'[c] \in Nat /\ attempt'[c] <= MaxRetries /\ since[c] >= err[c].after
        BY <1>1, <2>2, <2>3, <3>1
      <3> QED
        BY <1>1, <2>1, <2>2, <3>1, <3>2 DEF RetryTypes, Retries, Retryable, IsRetryable
    <2>4. CASE c \in cancelled /\ Goto(c, "check") /\ UNCHANGED attempt
      <3>1. pc'[c] = "check"
        BY <1>1, <2>4 DEF Goto, Domains
      <3> QED
        BY <1>1, <2>1, <2>4, <3>1 DEF RetryTypes, Retries
    <2> QED
      BY <1>3, <2>3, <2>4 DEF WaitEnds
  <1>4. CASE CheckContext(c)
    <2>1. /\ pc[c] = "check" /\ UNCHANGED <<attempt, since>>
          /\ IF c \in cancelled THEN pc'[c] = "fail" /\ err'[c] = Cancelled
             ELSE pc'[c] = "secondary" /\ err' = err
      BY <1>1, <1>4 DEF CheckContext, Goto, Domains
    <2>2. Cancelled \in [status : Int, after : Nat]
      BY DEF Cancelled
    <2>3. RetryTypes(c)'
      BY <1>1, <2>1, <2>2 DEF RetryTypes
    <2>4. pc'[c] = "secondary" => Spent(c) /\ err' = err
      BY <1>1, <2>1 DEF Retries
    <2>5. pc'[c] \in {"fail", "secondary"}
      BY <2>1
    <2> QED
      BY <2>1, <2>3, <2>4, <2>5 DEF Retries, Spent
  <1>5. CASE Cancel(c)
    <2>1. UNCHANGED <<pc, attempt, err, delay, since>> /\ cancelled \subseteq cancelled'
      BY <1>5 DEF Cancel, request
    <2> QED
      BY <1>1, <2>1 DEF RetryTypes, Retries, Spent
  <1> QED
    BY <1>2, <1>3, <1>4, <1>5

\* Time (retry.go:162): what is left of a wait goes over to what was waited.
LEMMA TickKeepsRetries ==
    ASSUME RetryInv, Tick, NEW c \in Callers
    PROVE  RetryTypes(c)' /\ Retries(c)'
  <1>1. Domains /\ RetryTypes(c) /\ Retries(c) /\ MaxDelay \in Nat
    BY Given DEF RetryInv
  <1>2. /\ delay'[c] = Sooner(delay[c])
        /\ since'[c] = IF pc[c] = "wait" THEN Older(since[c], MaxDelay) ELSE since[c]
        /\ UNCHANGED <<attempt, err, pc, cancelled>>
    BY DEF Tick
  <1>3. since[c] \in Nat /\ err[c].after \in Nat
    BY <1>1 DEF RetryTypes
  <1>4. Older(since[c], MaxDelay) \in Nat
    BY <1>1, <1>3 DEF Older
  <1>5. RetryTypes(c)'
    BY <1>1, <1>2, <1>4 DEF RetryTypes
  <1>6. CASE pc[c] = "wait"
    <2>1. /\ Retryable(err[c]) /\ attempt[c] < MaxRetries /\ err[c].after <= MaxDelay
          /\ err[c].after > 0 => delay[c] \in Nat /\ delay[c] + since[c] >= err[c].after
      BY <1>1, <1>6 DEF Retries
    <2>2. delay'[c] = Sooner(delay[c]) /\ since'[c] = Older(since[c], MaxDelay)
      BY <1>2, <1>6
    <2>3. err[c].after > 0 => delay'[c] \in Nat /\ delay'[c] + since'[c] >= err[c].after
      BY <1>1, <1>3, <2>1, <2>2 DEF Sooner, Older
    <2> QED
      BY <1>2, <1>5, <1>6, <2>1, <2>3 DEF Retries
  <1>7. CASE pc[c] # "wait"
    <2>1. since'[c] = since[c]
      BY <1>2, <1>7
    <2> QED
      BY <1>1, <1>2, <1>5, <1>7, <2>1 DEF Retries, Spent
  <1> QED
    BY <1>6, <1>7

(***************************************************************************)
(* The secondary comes last (fallback.go), and the primary is asked again  *)
(* only after an error that may clear, within MaxRetries and not before    *)
(* the time that it asked for (retry.go:106, retry.go:162).                *)
(***************************************************************************)
THEOREM FallbackAlwaysLast == Spec => []FallbackLast
  <1>1. Init => RetryInv
    <2> SUFFICES ASSUME Init PROVE RetryInv
      OBVIOUS
    <2>1. plan \in [Callers -> Seq(Calls)]
      BY PlanTypes DEF Init
    <2>2. Domains
      BY <2>1 DEF Init, Domains
    <2>3. ASSUME NEW c \in Callers PROVE RetryTypes(c) /\ Retries(c)
      <3>1. pc[c] = "idle"
        BY DEF Init
      <3>2. RetryTypes(c)
        <4>1. attempt[c] = 0 /\ since[c] = 0 /\ err[c] = NoError
          BY DEF Init
        <4>2. NoError \in [status : Int, after : Nat]
          BY DEF NoError
        <4> QED
          BY <4>1, <4>2 DEF RetryTypes
      <3> QED
        BY <3>1, <3>2 DEF Retries
    <2> QED
      BY <2>2, <2>3 DEF RetryInv
  <1>2. RetryInv /\ [Next]_vars => RetryInv'
    <2> SUFFICES ASSUME RetryInv, [Next]_vars PROVE RetryInv'
      OBVIOUS
    <2>1. ASSUME NEW c \in Callers, ActsFor(c) PROVE RetryInv'
      <3>1. Domains /\ Only(c) /\ Domains' /\ RetryTypes(c) /\ Retries(c)
        BY <2>1, ActsForOnly DEF RetryInv
      <3>2. ASSUME Unhurried(c) PROVE RetryTypes(c)' /\ Retries(c)'
        <4>1. NoError \in [status : Int, after : Nat]
          BY DEF NoError
        <4>2. RetryTypes(c)'
          BY <3>1, <3>2, <4>1, Given DEF Unhurried, RetryTypes
        <4>3. Retries(c)'
          BY <3>2 DEF Unhurried, Retries
        <4> QED
          BY <4>2, <4>3
      <3>3. ASSUME UNCHANGED <<pc, attempt, err, since, delay, cancelled>> PROVE RetryTypes(c)' /\ Retries(c)'
        BY <3>1, <3>3 DEF RetryTypes, Retries, Spent
      <3>4. RetryTypes(c)' /\ Retries(c)'
        BY <2>1, <3>1, <3>2, <3>3, MostUnhurried, PrimaryFailsKeeps, LoopKeeps
      <3>5. ASSUME NEW d \in Callers \ {c} PROVE RetryTypes(d)' /\ Retries(d)'
        BY <3>1 DEF RetryInv, Only, RetryTypes, Retries, Spent
      <3> QED
        BY <3>1, <3>4, <3>5 DEF RetryInv
    <2>2. ASSUME Tick PROVE RetryInv'
      <3>1. Domains'
        BY <2>2 DEF Tick, RetryInv, Domains, streaming
      <3> QED
        BY <2>2, <3>1, TickKeepsRetries DEF RetryInv
    <2> QED
      BY <2>1, <2>2, StutterKeeps DEF Next, ActsFor
  <1>3. RetryInv => FallbackLast
    BY DEF RetryInv, Retries, Spent, FallbackLast
  <1> QED
    BY <1>1, <1>2, <1>3, PTL DEF Spec

-----------------------------------------------------------------------------
(* OutcomeReported. *)

Hooks(c) == StreamTypes(c) /\ Unbroken(c) /\ Reports(c) /\ Settled(c)

\* The steps of a request that touch no stream.
Requests(c) ==
    /\ UNCHANGED <<plan, call, feed, held, got, cancelled>>
    /\ pc[c] \notin {"idle", "forward", "offer", "drain"}
    /\ \/ /\ reported' = reported /\ UNCHANGED outcome
          /\ \/ pc[c] = "get" /\ pc'[c] \in {"start", "decode"}
             \/ pc[c] = "set" /\ pc'[c] = "decode"
             \/ pc[c] \in Hooked /\ pc'[c] \in Hooked \ {"respond"}
       \/ pc[c] = "start" /\ reported'[c] = Append(reported[c], "request") /\ pc'[c] = "primary" /\ UNCHANGED outcome
       \/ pc[c] = "respond" /\ reported'[c] = Append(reported[c], "response") /\ pc'[c] = "set" /\ UNCHANGED outcome
       \/ pc[c] = "fail" /\ reported'[c] = Append(reported[c], "error") /\ pc'[c] = "idle" /\ outcome'[c] = "error"
       \/ pc[c] = "decode" /\ reported'[c] = <<>> /\ pc'[c] = "get" /\ UNCHANGED outcome
       \/ pc[c] = "decode" /\ reported' = reported /\ pc'[c] = "idle" /\ outcome'[c] \in {"ok", "error"}

\* Which steps these are (generate.go, cache.go, hooks.go, retry.go, fallback.go).
LEMMA MostRequests ==
    ASSUME Domains, NEW c \in Callers, ActsFor(c)
    PROVE  \/ Requests(c) \/ Begin(c)
           \/ \E content \in {"good", "bad"}, events \in Events \union {<<>>} : Answer(c, content, events)
           \/ Produce(c) \/ Abandon(c) \/ Forward(c) \/ Deliver(c) \/ GiveUpOffer(c) \/ StreamOver(c)
           \/ Cancel(c) \/ StopReading(c)
  <1> USE DEF Domains, Goto, Requests, Hooked, streaming
  <1>1. CASE Hit(c)
    BY <1>1 DEF Hit
  <1>2. ASSUME NEW failed \in BOOLEAN, Miss(c, failed) \/ Store(c, failed) PROVE Requests(c)
    BY <1>2 DEF Miss, Store, request
  <1>3. CASE Decode(c)
    <2>1. CASE resp[c].content = "bad" /\ Len(asked[c]) < ParseRetries
      BY <1>3, <2>1 DEF Decode
    <2>2. CASE ~(resp[c].content = "bad" /\ Len(asked[c]) < ParseRetries)
      <3>1. /\ pc[c] = "decode" /\ reported' = reported /\ pc'[c] = "idle"
            /\ outcome'[c] = IF resp[c].content = "bad" THEN "error" ELSE "ok"
            /\ UNCHANGED <<plan, call, feed, held, got, cancelled>>
        BY <1>3, <2>2 DEF Decode
      <3> QED
        BY <3>1
    <2> QED
      BY <2>1, <2>2
  <1>4. CASE Start(c)
    BY <1>4 DEF Start
  <1>5. ASSUME NEW e \in Errors, PrimaryFails(c, e) \/ SecondaryFails(c, e) PROVE Requests(c)
    BY <1>5 DEF PrimaryFails, SecondaryFails
  <1>6. CASE WaitEnds(c) \/ CheckContext(c)
    BY <1>6 DEF WaitEnds, CheckContext
  <1>7. CASE Respond(c) \/ Fail(c)
    BY <1>7 DEF Respond, Fail, Report, request
  <1> QED
    BY <1>1, <1>2, <1>3, <1>4, <1>5, <1>6, <1>7 DEF ActsFor, Step

\* What the hooks are told, one after the other (hooks.go:76).
LEMMA ToldOneByOne ==
    /\ Append(<<>>, "request") = <<"request">>
    /\ \A hook : Append(<<"request">>, hook) = <<"request", hook>>
    /\ <<"request", "response">> # <<"request", "error">>
    /\ <<"request", "response">> # <<>> /\ <<"request", "error">> # <<>>
  <1>1. ASSUME NEW hook PROVE Append(<<"request">>, hook) = <<"request", hook>>
    <2> DEFINE S == {"request", hook}
    <2>1. <<"request">> \in Seq(S) /\ hook \in S /\ <<"request", hook>> \in Seq(S)
      OBVIOUS
    <2>2. /\ Append(<<"request">>, hook) \in Seq(S) /\ Len(Append(<<"request">>, hook)) = 2
          /\ Append(<<"request">>, hook)[1] = "request" /\ Append(<<"request">>, hook)[2] = hook
      BY <2>1, AppendProperties
    <2>3. /\ Len(<<"request", hook>>) = 2 /\ <<"request", hook>>[1] = "request"
          /\ <<"request", hook>>[2] = hook
      OBVIOUS
    <2> HIDE DEF S
    <2>4. \A i \in 1..2 : i = 1 \/ i = 2
      OBVIOUS
    <2> QED
      BY <2>1, <2>2, <2>3, <2>4, SeqEqual
  <1>2. Append(<<>>, "request") = <<"request">>
    OBVIOUS
  <1>3. <<"request", "response">> # <<"request", "error">>
    OBVIOUS
  <1>4. <<"request", "response">> # <<>> /\ <<"request", "error">> # <<>>
    OBVIOUS
  <1> QED
    BY <1>1, <1>2, <1>3, <1>4

\* They tell the hooks of a request and of one outcome (hooks.go:76).
LEMMA RequestsKeep ==
    ASSUME Domains, NEW c \in Callers, Hooks(c), Requests(c)
    PROVE  Hooks(c)'
  <1>1. UNCHANGED <<plan, call, feed, held, got, cancelled>> /\ pc[c] \notin {"idle", "forward", "offer", "drain"}
    BY DEF Requests
  <1>2. pc'[c] \in {"start", "decode", "primary", "set", "idle", "get"} \union Hooked
    BY DEF Requests
  <1>3. StreamTypes(c)'
    BY <1>1 DEF Hooks, StreamTypes, CallTypes
  <1>4. Unbroken(c)'
    BY <1>1, <1>2 DEF Hooks, Unbroken, Coming, Hooked
  <1>5. Reports(c)'
    <2>1. reported'[c] \in {reported[c], <<>>, Append(reported[c], "request"), Append(reported[c], "response"),
                            Append(reported[c], "error")}
      BY DEF Requests
    <2>2. pc'[c] \in {"get", "start"} => reported'[c] = <<>>
      BY DEF Hooks, Requests, Reports, Hooked
    <2>3. pc'[c] \in Hooked \union {"forward", "offer", "drain"} => reported'[c] = <<"request">>
      BY ToldOneByOne DEF Hooks, Requests, Reports, Hooked
    <2>4. pc'[c] = "set" => reported'[c] = <<"request", "response">>
      BY ToldOneByOne DEF Hooks, Requests, Reports, Hooked
    <2>5. pc'[c] = "decode" => reported'[c] = <<>> \/ reported'[c] = <<"request", "response">>
      BY DEF Hooks, Requests, Reports, Hooked, Told
    <2>6. /\ pc'[c] \in {"get", "respond", "set", "decode"} => call[c].kind = "generate"
          /\ pc'[c] \notin {"forward", "offer", "drain"}
          /\ pc'[c] \notin {"idle", "forward", "offer", "drain"} => got[c] = <<>>
      BY DEF Hooks, Requests, Reports, Hooked
    <2> QED
      BY <1>1, <1>2, <2>2, <2>3, <2>4, <2>5, <2>6 DEF Reports, Told, Hooked
  <1>6. Settled(c)'
    <2>1. CASE pc[c] = "decode" /\ reported' = reported /\ pc'[c] = "idle" /\ outcome'[c] \in {"ok", "error"}
      <3>1. call'[c].kind = "generate" /\ (reported'[c] = <<>> \/ reported'[c] = <<"request", "response">>)
        BY <1>1, <2>1 DEF Hooks, Reports, Told
      <3> QED
        BY <2>1, <3>1, ToldOneByOne DEF Settled, Told
    <2>2. CASE pc[c] = "fail" /\ reported'[c] = Append(reported[c], "error") /\ pc'[c] = "idle" /\ outcome'[c] = "error"
      <3>1. reported[c] = <<"request">> /\ got'[c] = <<>>
        BY <1>1, <2>2 DEF Hooks, Reports, Hooked
      <3>2. reported'[c] = <<"request", "error">>
        BY <2>2, <3>1, ToldOneByOne
      <3> QED
        BY <2>2, <3>1, <3>2, ToldOneByOne DEF Settled, Told
    <2>3. CASE pc'[c] # "idle"
      BY <2>3 DEF Settled
    <2> QED
      BY <2>1, <2>2, <2>3 DEF Requests, Hooked
  <1> QED
    BY <1>3, <1>4, <1>5, <1>6 DEF Hooks

\* An event that goes from the head of what comes to the end of what came.
LEMMA HandOver ==
    ASSUME NEW S, NEW a \in Seq(S), NEW b \in Seq(S), b # <<>>
    PROVE  Append(a, Head(b)) \o Tail(b) = a \o b
  <1>1. Head(b) \in S /\ Tail(b) \in Seq(S) /\ Len(Tail(b)) = Len(b) - 1 /\ Len(b) \in Nat /\ Len(b) # 0
    OBVIOUS
  <1>2. Append(a, Head(b)) \in Seq(S) /\ Len(Append(a, Head(b))) = Len(a) + 1
    BY <1>1
  <1> DEFINE l == Append(a, Head(b)) \o Tail(b)
             r == a \o b
  <1>3. l \in Seq(S) /\ r \in Seq(S) /\ Len(l) = Len(a) + Len(b) /\ Len(r) = Len(a) + Len(b)
    <2>1. l \in Seq(S) /\ Len(l) = Len(Append(a, Head(b))) + Len(Tail(b))
      BY <1>1, <1>2, ConcatProperties
    <2>2. r \in Seq(S) /\ Len(r) = Len(a) + Len(b)
      BY ConcatProperties
    <2> QED
      BY <1>1, <1>2, <2>1, <2>2
  <1>4. ASSUME NEW i \in 1..Len(a) + Len(b) PROVE l[i] = r[i]
    <2>1. CASE i <= Len(a)
      BY <1>1, <1>2, <2>1
    <2>2. CASE i = Len(a) + 1
      BY <1>1, <1>2, <2>2
    <2>3. CASE i > Len(a) + 1
      <3>1. r[i] = b[i - Len(a)]
        BY <1>1, <2>3
      <3>2. l[i] = Tail(b)[i - (Len(a) + 1)]
        BY <1>1, <1>2, <2>3
      <3>3. Tail(b)[i - (Len(a) + 1)] = b[i - (Len(a) + 1) + 1]
        BY <1>1, <2>3
      <3>4. i - (Len(a) + 1) + 1 = i - Len(a)
        BY <1>1
      <3> QED
        BY <3>1, <3>2, <3>3, <3>4
    <2> QED
      BY <1>1, <2>1, <2>2, <2>3
  <1> HIDE DEF l, r
  <1>5. l = r
    BY <1>3, <1>4, SeqEqual
  <1> QED
    BY <1>5 DEF l, r

\* The same of the events of a stream.
LEMMA EventPasses ==
    ASSUME NEW a \in Seq(Event), NEW b \in Seq(Event), b # <<>>
    PROVE  Append(a, Head(b)) \o Tail(b) = a \o b
  BY HandOver

\* The pieces of a stream are put together in any order.
LEMMA EventsAssociate ==
    \A a, b, d \in Seq(Event) : (a \o b) \o d = a \o (b \o d)
  BY ConcatAssociative

\* An event passes from the front of a stream that goes on behind it.
LEMMA EventPassesOn ==
    ASSUME NEW a \in Seq(Event), NEW b \in Seq(Event), NEW d \in Seq(Event), b # <<>>
    PROVE  Append(a, Head(b)) \o (Tail(b) \o d) = a \o (b \o d)
  <1>1. Tail(b) \in Seq(Event) /\ Head(b) \in Event
    OBVIOUS
  <1>2. Append(a, Head(b)) \in Seq(Event)
    BY <1>1
  <1>3. Tail(b) \in Seq(Event)
    BY <1>1
  <1>4. (Append(a, Head(b)) \o Tail(b)) \o d = Append(a, Head(b)) \o (Tail(b) \o d)
    BY <1>2, <1>3, EventsAssociate, Zenon
  <1>5. Append(a, Head(b)) \o Tail(b) = a \o b
    BY HandOver
  <1>6. (a \o b) \o d = a \o (b \o d)
    BY EventsAssociate, Zenon
  <1> QED
    BY <1>4, <1>5, <1>6, Zenon

\* A stream that is cut off has no end, but nothing before it is one.
LEMMA CutOff ==
    ASSUME NEW a \in Seq(Event), NEW b \in Seq(Event), Whole(a \o b)
    PROVE  Whole(a)
  <1>1. ASSUME NEW i \in 1..Len(a) - 1 PROVE a[i] = "ev"
    <2>1. Len(a \o b) = Len(a) + Len(b) /\ Len(a) \in Nat /\ Len(b) \in Nat
      BY ConcatProperties
    <2>2. i \in 1..Len(a \o b) - 1 /\ i <= Len(a) /\ i \in 1..Len(a) + Len(b)
      BY <2>1
    <2>3. (a \o b)[i] = a[i]
      BY <2>2, ConcatProperties
    <2> QED
      BY <2>2, <2>3 DEF Whole
  <1> QED
    BY <1>1 DEF Whole

\* Begin, and the provider's answer (hooks.go:91).
LEMMA AnswerKeeps ==
    ASSUME Domains, NEW c \in Callers, Hooks(c),
           \/ Begin(c)
           \/ \E content \in {"good", "bad"}, events \in Events \union {<<>>} : Answer(c, content, events)
    PROVE  Hooks(c)'
  <1>1. CASE Begin(c)
    <2>1. /\ pc[c] = "idle" /\ plan[c] # <<>> /\ plan'[c] = Tail(plan[c]) /\ call'[c] = Head(plan[c])
          /\ reported'[c] = <<>> /\ got'[c] = <<>> /\ UNCHANGED <<feed, held>>
          /\ pc'[c] = IF Head(plan[c]).kind = "generate" THEN "get" ELSE "start"
      BY <1>1 DEF Begin, Domains, Goto
    <2>2. Tail(plan[c]) \in Seq(Calls) /\ Head(plan[c]) \in Calls
      BY <2>1 DEF Hooks, StreamTypes, CallTypes
    <2>3. StreamTypes(c)'
      BY <2>1, <2>2 DEF Hooks, StreamTypes, CallTypes
    <2>4. Unbroken(c)'
      BY <2>1 DEF Hooks, Unbroken, Coming
    <2>5. Reports(c)' /\ Settled(c)'
      BY <2>1 DEF Reports, Settled, Hooked
    <2> QED
      BY <2>3, <2>4, <2>5 DEF Hooks
  <1>2. ASSUME NEW content \in {"good", "bad"}, NEW events \in Events \union {<<>>}, Answer(c, content, events)
        PROVE  Hooks(c)'
    <2>1. /\ pc[c] \in {"primary", "secondary"}
          /\ IF call[c].kind = "generate" THEN events = <<>> ELSE events # <<>>
          /\ feed'[c] = [left |-> events, channel |-> <<>>]
          /\ pc'[c] = IF events = <<>> THEN "respond" ELSE "forward"
          /\ UNCHANGED <<plan, call, reported, held, got, cancelled>>
      BY <1>2 DEF Answer, Domains, Goto
    <2>2. /\ held[c] = <<>> /\ got[c] = <<>> /\ reported[c] = <<"request">>
          /\ call[c].kind \in {"generate", "stream"}
      BY <2>1 DEF Hooks, Unbroken, Reports, Hooked, StreamTypes, CallTypes, Calls
    <2>3. events \in Seq(Event)
      <3>1. events = <<>> => events \in Seq(Event)
        OBVIOUS
      <3>2. events \in Events => events \in Seq(Event)
        BY Given
      <3> QED
        BY <3>1, <3>2
    <2>4. StreamTypes(c)'
      BY <2>1, <2>3 DEF Hooks, StreamTypes, CallTypes
    <2>5. Coming(c)' = events /\ held'[c] \o Coming(c)' = events
      BY <2>1, <2>2, <2>3, ConcatEmptySeq DEF Coming
    <2>6. events # <<>> => Whole(events) /\ Ending(events)
      BY Given
    <2>7. Unbroken(c)'
      BY <2>1, <2>2, <2>5, <2>6 DEF Unbroken
    <2>8. Reports(c)' /\ Settled(c)'
      BY <2>1, <2>2 DEF Reports, Settled, Hooked
    <2> QED
      BY <2>4, <2>7, <2>8 DEF Hooks
  <1> QED
    BY <1>1, <1>2

\* The provider's goroutine sends, or stops (hooks.go:91).
LEMMA ProviderKeeps ==
    ASSUME Domains, NEW c \in Callers, Hooks(c), Produce(c) \/ Abandon(c)
    PROVE  Hooks(c)'
  <1> DEFINE ch == feed[c].channel
             left == feed[c].left
  <1>1. /\ UNCHANGED <<plan, call, pc, reported, outcome, held, got, cancelled>>
        /\ left # <<>>
        /\ ch \in Seq(Event) /\ left \in Seq(Event) /\ held[c] \in Seq(Event)
    BY DEF Produce, Abandon, request, Hooks, StreamTypes
  <1>2. Reports(c)' /\ Settled(c)'
    BY <1>1 DEF Hooks, Reports, Settled, Told
  <1>3. Coming(c) # <<>>
    <2>1. Coming(c) = ch \o left
      BY DEF Coming
    <2> QED
      BY <1>1, <2>1, ConcatSimplifications
  <1>4. pc[c] \in {"forward", "offer", "drain"}
    BY <1>3 DEF Hooks, Unbroken
  <1>5. CASE Produce(c)
    <2>1. feed'[c] = [left |-> Tail(left), channel |-> Append(ch, Head(left))]
      BY <1>5 DEF Produce, Domains
    <2>2. Coming(c)' = Coming(c)
      <3>1. Append(ch, Head(left)) \o Tail(left) = ch \o left
        <4>1. ch \in Seq(Event) /\ left \in Seq(Event) /\ left # <<>>
          BY <1>1
        <4> HIDE DEF ch, left
        <4> QED
          BY <4>1, EventPasses
      <3>2. feed'[c].channel = Append(ch, Head(left)) /\ feed'[c].left = Tail(left)
        BY <2>1
      <3> QED
        BY <3>1, <3>2, Zenon DEF Coming
    <2>3. Tail(left) \in Seq(Event) /\ Append(ch, Head(left)) \in Seq(Event)
      BY <1>1
    <2>4. StreamTypes(c)'
      BY <1>1, <2>1, <2>3 DEF Hooks, StreamTypes, CallTypes
    <2>5. Unbroken(c)'
      BY <1>1, <1>4, <2>2 DEF Hooks, Unbroken
    <2> QED
      BY <1>2, <2>4, <2>5 DEF Hooks
  <1>6. CASE Abandon(c)
    <2>1. feed' = [feed EXCEPT ![c].left = <<>>] /\ c \in cancelled
      BY <1>6 DEF Abandon
    <2>2. feed[c] \in [left : Seq(Event), channel : Seq(Event)]
      BY DEF Hooks, StreamTypes
    <2>3. feed'[c] = [left |-> <<>>, channel |-> ch]
      BY <2>1, <2>2 DEF Domains
    <2>4. StreamTypes(c)'
      BY <1>1, <2>3 DEF Hooks, StreamTypes, CallTypes
    <2>5. Coming(c)' = ch
      BY <1>1, <2>3, ConcatEmptySeq DEF Coming
    <2>6. held[c] \o Coming(c) = (held[c] \o ch) \o left /\ held[c] \o ch \in Seq(Event)
      <3> DEFINE h == held[c]
      <3>1. h \in Seq(Event) /\ ch \in Seq(Event) /\ left \in Seq(Event)
        BY <1>1
      <3> HIDE DEF h, ch, left
      <3>2. (h \o ch) \o left = h \o (ch \o left)
        BY <3>1, EventsAssociate, Zenon
      <3>3. h \o ch \in Seq(Event)
        BY <3>1, ConcatProperties
      <3> USE DEF h, ch, left
      <3> QED
        BY <3>2, <3>3 DEF Coming
    <2>7. Whole(held[c] \o Coming(c)) => Whole(held[c] \o Coming(c)')
      BY <1>1, <2>5, <2>6, CutOff
    <2>8. Unbroken(c)'
      BY <1>1, <1>4, <2>1, <2>7 DEF Hooks, Unbroken
    <2> QED
      BY <1>2, <2>4, <2>8 DEF Hooks
  <1> QED
    BY <1>5, <1>6

\* The forwarding goroutine takes an event, and the caller gets it (hooks.go:91).
LEMMA ForwardKeeps ==
    ASSUME Domains, NEW c \in Callers, Hooks(c), Forward(c) \/ Deliver(c) \/ GiveUpOffer(c)
    PROVE  Hooks(c)'
  <1> DEFINE ch == feed[c].channel
             left == feed[c].left
  <1>1. UNCHANGED <<plan, call, reported, outcome, cancelled>>
    BY DEF Forward, Deliver, GiveUpOffer, request, streaming
  <1>2. /\ pc[c] \in {"forward", "offer", "drain"} /\ pc'[c] \in {"forward", "offer", "drain"}
    BY DEF Forward, Deliver, GiveUpOffer, Goto, Domains
  <1>3. Reports(c)' /\ Settled(c)'
    BY <1>1, <1>2 DEF Hooks, Reports, Settled, Hooked
  <1>4. ch \in Seq(Event) /\ left \in Seq(Event) /\ held[c] \in Seq(Event) /\ got[c] \in Seq(Event)
    BY DEF Hooks, StreamTypes
  <1>5. CASE Forward(c)
    <2>1. /\ ch # <<>> /\ feed' = [feed EXCEPT ![c].channel = Tail(ch)] /\ got' = got
          /\ \/ pc[c] = "drain" /\ pc' = pc /\ held' = held
             \/ pc[c] = "forward" /\ pc'[c] = "offer" /\ held'[c] = Append(held[c], Head(ch))
      BY <1>5 DEF Forward, Domains
    <2>2. feed[c] \in [left : Seq(Event), channel : Seq(Event)]
      BY DEF Hooks, StreamTypes
    <2>3. feed'[c].left = left /\ feed'[c].channel = Tail(ch) /\ feed'[c] = [left |-> left, channel |-> Tail(ch)]
      BY <2>1, <2>2 DEF Domains
    <2>4. Tail(ch) \in Seq(Event) /\ Head(ch) \in Event
      BY <1>4, <2>1
    <2>5. Append(held[c], Head(ch)) \in Seq(Event)
      BY <1>4, <2>4
    <2>6. StreamTypes(c)'
      BY <1>1, <1>4, <2>1, <2>3, <2>4, <2>5 DEF Hooks, StreamTypes, CallTypes
    <2>7. CASE pc[c] = "drain" /\ pc' = pc /\ held' = held
      <3>1. Unbroken(c)'
        BY <1>1, <2>7 DEF Hooks, Unbroken
      <3> QED
        BY <1>3, <2>6, <3>1 DEF Hooks
    <2>8. CASE pc[c] = "forward" /\ pc'[c] = "offer" /\ held'[c] = Append(held[c], Head(ch))
      <3>1. held'[c] \o Coming(c)' = held[c] \o Coming(c)
        <4> DEFINE h == held[c]
        <4>1. h \in Seq(Event) /\ ch \in Seq(Event) /\ left \in Seq(Event) /\ ch # <<>>
          BY <1>4, <2>1
        <4> HIDE DEF h, ch, left
        <4>2. Append(h, Head(ch)) \o (Tail(ch) \o left) = h \o (ch \o left)
          BY <4>1, EventPassesOn
        <4> USE DEF h, ch, left
        <4> QED
          BY <2>3, <2>8, <4>2 DEF Coming
      <3>2. held'[c] # <<>> /\ held'[c] = Append(got'[c], held'[c][Len(held'[c])])
        <4>1. got[c] = held[c]
          BY <2>8 DEF Hooks, Unbroken
        <4>2. Append(held[c], Head(ch))[Len(held[c]) + 1] = Head(ch) /\ Append(held[c], Head(ch)) # <<>>
              /\ Len(Append(held[c], Head(ch))) = Len(held[c]) + 1
          BY <1>4, <2>4, AppendProperties
        <4> QED
          BY <2>1, <2>8, <4>1, <4>2
      <3>3. Unbroken(c)'
        BY <1>1, <2>8, <3>1, <3>2 DEF Hooks, Unbroken
      <3> QED
        BY <1>3, <2>6, <3>3 DEF Hooks
    <2> QED
      BY <2>1, <2>7, <2>8
  <1>6. CASE Deliver(c)
    <2>1. /\ pc[c] = "offer" /\ pc'[c] = "forward" /\ UNCHANGED <<feed, held>>
          /\ got'[c] = Append(got[c], Last(held[c]))
      BY <1>6 DEF Deliver, Goto, Domains
    <2>2. got'[c] = held[c]
      BY <2>1 DEF Hooks, Unbroken, Last
    <2>3. StreamTypes(c)'
      BY <1>1, <1>4, <2>1, <2>2 DEF Hooks, StreamTypes, CallTypes
    <2>4. Unbroken(c)'
      BY <1>1, <2>1, <2>2 DEF Hooks, Unbroken, Coming
    <2> QED
      BY <1>3, <2>3, <2>4 DEF Hooks
  <1>7. CASE GiveUpOffer(c)
    <2>1. c \in cancelled /\ pc'[c] = "drain" /\ UNCHANGED <<feed, held, got>>
      BY <1>7 DEF GiveUpOffer, Goto, Domains, streaming
    <2>2. StreamTypes(c)'
      BY <1>1, <2>1 DEF Hooks, StreamTypes, CallTypes
    <2>3. Unbroken(c)'
      BY <1>1, <2>1 DEF Unbroken
    <2> QED
      BY <1>3, <2>2, <2>3 DEF Hooks
  <1> QED
    BY <1>5, <1>6, <1>7

\* The end of a stream, and what the hooks are told of it (hooks.go:104).
LEMMA StreamEnds ==
    ASSUME Domains, NEW c \in Callers, Hooks(c), StreamOver(c)
    PROVE  Hooks(c)'
  <1>1. /\ pc[c] \in {"forward", "drain"} /\ pc'[c] = "idle"
        /\ feed[c] = [left |-> <<>>, channel |-> <<>>]
        /\ reported'[c] = Append(reported[c], IF StreamFailed(c) THEN "error" ELSE "response")
        /\ outcome'[c] = IF StreamFailed(c) THEN "error" ELSE "ok"
        /\ held'[c] = <<>>
        /\ UNCHANGED <<plan, call, cancelled, feed, got>>
    BY DEF StreamOver, Report, Goto, Domains, request
  <1>2. reported[c] = <<"request">> /\ call[c].kind = "stream"
    BY <1>1 DEF Hooks, Reports
  <1>3. feed[c].left = <<>> /\ feed[c].channel = <<>>
    BY <1>1
  <1>4. Coming(c) = <<>> /\ Coming(c)' = <<>>
    BY <1>1, <1>3, ConcatEmptySeq DEF Coming
  <1>5. got[c] \in Seq(Event) /\ held[c] \in Seq(Event)
    BY DEF Hooks, StreamTypes
  <1>6. StreamTypes(c)'
    <2>1. held'[c] = <<>> /\ UNCHANGED <<plan, call, feed, got>>
      BY <1>1
    <2>2. held'[c] \in Seq(Event)
      BY <2>1
    <2> QED
      BY <2>1, <2>2 DEF Hooks, StreamTypes, CallTypes
  <1>7. Unbroken(c)'
    BY <1>1, <1>4 DEF Unbroken
  <1>8. reported'[c] = IF StreamFailed(c) THEN <<"request", "error">> ELSE <<"request", "response">>
    BY <1>1, <1>2, ToldOneByOne
  <1>9. Reports(c)'
    BY <1>1 DEF Reports, Hooked
  <1>10. CASE pc[c] = "drain"
    <2>1. c \in cancelled /\ StreamFailed(c)
      BY <1>10 DEF Hooks, Unbroken, StreamFailed
    <2> QED
      BY <1>1, <1>2, <1>6, <1>7, <1>8, <1>9, <2>1, ToldOneByOne DEF Hooks, Settled, Told
  <1>11. CASE pc[c] = "forward"
    <2>1. got[c] = held[c]
      BY <1>11 DEF Hooks, Unbroken
    <2>2. held[c] \o Coming(c) = held[c]
      BY <1>4, <1>5, ConcatEmptySeq
    <2>3. Whole(held[c]) /\ (c \in cancelled \/ Ending(held[c]))
      BY <1>11, <2>2 DEF Hooks, Unbroken
    <2>4. StreamFailed(c) <=> Contains(held[c], "error")
      BY <1>11 DEF StreamFailed
    <2>5. ASSUME Contains(held[c], "error") PROVE Last(held[c]) = "error"
      <3>1. PICK i \in 1..Len(held[c]) : held[c][i] = "error"
        BY <2>5 DEF Contains
      <3>2. ~(i \in 1..Len(held[c]) - 1)
        BY <2>3, <3>1 DEF Whole
      <3>3. i = Len(held[c])
        BY <1>5, <3>2
      <3> QED
        BY <3>1, <3>3 DEF Last
    <2>6. ASSUME ~Contains(held[c], "error"), Ending(held[c]) PROVE Last(held[c]) = "done"
      <3>1. held[c] # <<>> /\ held[c][Len(held[c])] # "ev"
        BY <2>6 DEF Ending
      <3>2. Len(held[c]) \in 1..Len(held[c]) /\ held[c][Len(held[c])] \in Event
        BY <1>5, <3>1
      <3>3. held[c][Len(held[c])] # "error"
        BY <2>6, <3>2 DEF Contains
      <3> QED
        BY <3>1, <3>2, <3>3 DEF Last, Event
    <2>7. CASE StreamFailed(c)
      <3>1. reported'[c] = <<"request", "error">> /\ outcome'[c] = "error" /\ Last(got[c]) = "error"
        BY <1>1, <1>8, <2>1, <2>4, <2>5, <2>7
      <3> QED
        BY <1>1, <1>2, <1>6, <1>7, <1>9, <3>1, ToldOneByOne DEF Hooks, Settled, Told
    <2>8. CASE ~StreamFailed(c)
      <3>1. /\ reported'[c] = <<"request", "response">> /\ outcome'[c] = "ok" /\ ~Contains(got[c], "error")
            /\ c \in cancelled \/ Last(got[c]) = "done"
        BY <1>1, <1>8, <2>1, <2>3, <2>4, <2>6, <2>8
      <3> QED
        BY <1>1, <1>2, <1>6, <1>7, <1>9, <3>1, ToldOneByOne DEF Hooks, Settled, Told
    <2> QED
      BY <2>7, <2>8
  <1> QED
    BY <1>1, <1>10, <1>11

\* The caller's context is done, or it stops reading (hooks.go:112).
LEMMA CallerKeeps ==
    ASSUME Domains, NEW c \in Callers, Hooks(c), Cancel(c) \/ StopReading(c)
    PROVE  Hooks(c)'
  <1>1. /\ UNCHANGED <<plan, call, pc, reported, outcome, feed, held, got>>
        /\ pc[c] # "idle"
        /\ c \in cancelled => c \in cancelled'
    BY DEF Cancel, StopReading, request, streaming
  <1>2. StreamTypes(c)'
    BY <1>1 DEF Hooks, StreamTypes, CallTypes
  <1>3. Unbroken(c)'
    BY <1>1 DEF Hooks, Unbroken, Coming
  <1>4. Reports(c)' /\ Settled(c)'
    BY <1>1 DEF Hooks, Reports, Settled, Told
  <1> QED
    BY <1>2, <1>3, <1>4 DEF Hooks

\* A step of one caller keeps what is known of its own call.
LEMMA ActsForKeeps ==
    ASSUME Domains, NEW c \in Callers, Hooks(c), ActsFor(c)
    PROVE  Hooks(c)'
  <1>1. CASE Requests(c)
    BY <1>1, RequestsKeep
  <1>2. CASE Begin(c) \/ \E content \in {"good", "bad"}, events \in Events \union {<<>>} : Answer(c, content, events)
    BY <1>2, AnswerKeeps
  <1>3. CASE Produce(c) \/ Abandon(c)
    BY <1>3, ProviderKeeps
  <1>4. CASE Forward(c) \/ Deliver(c) \/ GiveUpOffer(c)
    BY <1>4, ForwardKeeps
  <1>5. CASE StreamOver(c)
    BY <1>5, StreamEnds
  <1>6. CASE Cancel(c) \/ StopReading(c)
    BY <1>6, CallerKeeps
  <1> QED
    BY <1>1, <1>2, <1>3, <1>4, <1>5, <1>6, MostRequests

(***************************************************************************)
(* The hooks (hooks.go:76) are told one outcome of each request, and the   *)
(* one the caller meets: of a stream, whatever events the provider sends,  *)
(* however they wait in the channel and whenever the caller cancels.       *)
(***************************************************************************)
THEOREM OutcomeAlwaysReported == Spec => []OutcomeReported
  <1>1. Init => HookInv
    <2> SUFFICES ASSUME Init PROVE HookInv
      OBVIOUS
    <2>1. plan \in [Callers -> Seq(Calls)]
      BY PlanTypes DEF Init
    <2>2. Domains
      BY <2>1 DEF Init, Domains
    <2>3. ASSUME NEW c \in Callers PROVE StreamTypes(c) /\ Unbroken(c) /\ Reports(c) /\ Settled(c)
      <3>1. /\ call[c] = [kind |-> "generate", key |-> ""] /\ pc[c] = "idle"
            /\ reported[c] = <<>> /\ outcome[c] = ""
            /\ feed[c] = [left |-> <<>>, channel |-> <<>>] /\ held[c] = <<>> /\ got[c] = <<>>
        <4>1. /\ call = [d \in Callers |-> [kind |-> "generate", key |-> ""]] /\ pc = [d \in Callers |-> "idle"]
              /\ reported = [d \in Callers |-> <<>>] /\ outcome = [d \in Callers |-> ""]
              /\ feed = [d \in Callers |-> [left |-> <<>>, channel |-> <<>>]]
              /\ held = [d \in Callers |-> <<>>] /\ got = [d \in Callers |-> <<>>]
          BY DEF Init
        <4> QED
          BY <4>1
      <3>2. call[c] \in Calls /\ call[c].kind = "generate"
        <4>1. call[c] = [kind |-> "generate", key |-> ""]
          BY <3>1
        <4>2. [kind |-> "generate", key |-> ""] \in Calls
          BY DEF Calls, Names
        <4>3. call[c] \in Calls
          BY <4>1, <4>2
        <4>4. \A k : [kind |-> "generate", key |-> k].kind = "generate"
          OBVIOUS
        <4>5. call[c].kind = "generate"
          BY <4>1, <4>4, Zenon
        <4> QED
          BY <4>3, <4>5
      <3>3. /\ feed[c] = [left |-> <<>>, channel |-> <<>>] /\ feed[c].left = <<>> /\ feed[c].channel = <<>>
            /\ feed[c] \in [left : Seq(Event), channel : Seq(Event)]
            /\ held[c] \in Seq(Event) /\ got[c] \in Seq(Event)
        <4>1. feed[c] = [left |-> <<>>, channel |-> <<>>]
          BY <3>1
        <4>2. feed[c].left = <<>> /\ feed[c].channel = <<>> /\ feed[c] \in [left : Seq(Event), channel : Seq(Event)]
          BY <4>1
        <4>3. held[c] = <<>> /\ got[c] = <<>>
          BY <3>1
        <4> QED
          BY <4>1, <4>2, <4>3
      <3>4. StreamTypes(c)
        BY <2>1, <3>2, <3>3 DEF StreamTypes, CallTypes
      <3>5. Coming(c) = <<>>
        BY <3>3, ConcatEmptySeq DEF Coming
      <3>6. Unbroken(c)
        BY <3>1, <3>5 DEF Unbroken
      <3>7. Reports(c)
        BY <3>1 DEF Reports, Hooked
      <3>8. Settled(c)
        BY <3>1, <3>2 DEF Settled
      <3> QED
        BY <3>4, <3>6, <3>7, <3>8
    <2> QED
      BY <2>2, <2>3 DEF HookInv
  <1>2. HookInv /\ [Next]_vars => HookInv'
    <2> SUFFICES ASSUME HookInv, [Next]_vars PROVE HookInv'
      OBVIOUS
    <2>1. ASSUME NEW c \in Callers, ActsFor(c) PROVE HookInv'
      <3>1. Only(c) /\ Domains'
        BY <2>1, ActsForOnly DEF HookInv
      <3>2. Hooks(c)'
        BY <2>1, ActsForKeeps DEF HookInv, Hooks
      <3>3. ASSUME NEW d \in Callers \ {c} PROVE StreamTypes(d)' /\ Unbroken(d)' /\ Reports(d)' /\ Settled(d)'
        <4>1. StreamTypes(d) /\ Unbroken(d) /\ Reports(d) /\ Settled(d)
          BY DEF HookInv
        <4>2. StreamTypes(d)'
          BY <3>1, <4>1 DEF Only, StreamTypes, CallTypes
        <4>3. Unbroken(d)'
          BY <3>1, <4>1 DEF Only, Unbroken, Coming
        <4>4. Reports(d)'
          BY <3>1, <4>1 DEF Only, Reports, Told
        <4>5. Settled(d)'
          BY <3>1, <4>1 DEF Only, Settled, Told
        <4> QED
          BY <4>2, <4>3, <4>4, <4>5
      <3> QED
        BY <3>1, <3>2, <3>3 DEF HookInv, Hooks
    <2>2. ASSUME Tick PROVE HookInv'
      <3>1. Domains'
        BY <2>2 DEF Tick, HookInv, Domains, streaming
      <3>2. UNCHANGED <<plan, call, pc, reported, outcome, cancelled, feed, held, got>>
        BY <2>2 DEF Tick, streaming
      <3>3. ASSUME NEW c \in Callers PROVE StreamTypes(c)' /\ Unbroken(c)' /\ Reports(c)' /\ Settled(c)'
        <4>1. StreamTypes(c)' /\ Unbroken(c)'
          BY <3>2 DEF HookInv, StreamTypes, CallTypes, Unbroken, Coming
        <4>2. Reports(c)'
          BY <3>2 DEF HookInv, Reports, Told
        <4>3. Settled(c)'
          BY <3>2 DEF HookInv, Settled, Told
        <4> QED
          BY <4>1, <4>2, <4>3
      <3> QED
        BY <3>1, <3>3 DEF HookInv
    <2> QED
      BY <2>1, <2>2, StutterKeeps DEF Next, ActsFor
  <1>3. HookInv => OutcomeReported
    <2> SUFFICES ASSUME HookInv, NEW c \in Callers
                 PROVE  /\ Len(reported[c]) <= 2
                        /\ pc[c] \notin {"idle", "get", "start", "set", "decode"} => reported[c] = <<"request">>
      BY DEF HookInv, OutcomeReported, Settled
    <2>1. Reports(c) /\ Settled(c)
      BY DEF HookInv
    <2>2. reported[c] \in {<<>>, <<"request">>, <<"request", "response">>, <<"request", "error">>}
      BY <2>1 DEF Reports, Settled, Told, Hooked
    <2>3. Len(<<>>) = 0 /\ Len(<<"request">>) = 1 /\ Len(<<"request", "response">>) = 2 /\ Len(<<"request", "error">>) = 2
      OBVIOUS
    <2>4. Len(reported[c]) \in {0, 1, 2}
      BY <2>2, <2>3
    <2>5. Len(reported[c]) <= 2
      <3> DEFINE n == Len(reported[c])
      <3>1. n \in {0, 1, 2}
        BY <2>4
      <3> HIDE DEF n
      <3>2. n <= 2
        BY <3>1
      <3> QED
        BY <3>2 DEF n
    <2> QED
      BY <2>1, <2>5 DEF Reports
  <1> QED
    BY <1>1, <1>2, <1>3, PTL DEF Spec
============================================================================
