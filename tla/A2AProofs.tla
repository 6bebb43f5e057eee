------------------------------ MODULE A2AProofs ------------------------------
(***************************************************************************)
(* Proofs about A2A, for any bounds.                                       *)
(*                                                                         *)
(* AnswersArrive speaks of what a caller has received.  Its invariant says *)
(* where the rest is (Accounted): what the task handler told is what       *)
(* readStream has read, what is in the body or was lost with it, and what  *)
(* is in the handler's channel; and what was handed on is, at every step,  *)
(* what is due of the part that was read.  Before that come lemmas about   *)
(* what is due, which grows with every event until an error ends it        *)
(* (DueGrows), and about the bytes between: a body carries the events that *)
(* were written to it, and the next one read is the first of them          *)
(* (NextIsFirst); of a body that a broken connection cut off, it is the    *)
(* first of them or the half of it (NextOfCutOff).                         *)
(***************************************************************************)
EXTENDS A2A, SequenceLemmas

-----------------------------------------------------------------------------
(* What is due to a reader. *)

\* An event as the reader sees it.
ShownEvent == [type : {"status", "artifact", "task", "error"}, code : {"", Internal, "parse"}]

ShownOf(t) == [i \in DOMAIN t |-> Shown(t[i])]

AllShown(t) == FlattenSeq(ShownOf(t))

ErrorsIn(s) == {i \in DOMAIN s : s[i].type = "error"}

\* Due, of any sequence of the task handler's events.
DueOf(t) == IF ErrorsIn(AllShown(t)) = {} THEN AllShown(t)
            ELSE SubSeq(AllShown(t), 1, Min(ErrorsIn(AllShown(t))))

HasError(t) == ErrorsIn(AllShown(t)) # {}

LEMMA DueIsDueOf == Due = DueOf(told)
  BY DEF Due, DueOf, ErrorsIn, AllShown, ShownOf

\* Each payload has one reading (client.go:275).
LEMMA Classified ==
    /\ Classify({"status"}) = "status" /\ Classify({"artifact"}) = "artifact"
    /\ Classify({"status", "messages"}) = "task" /\ Classify({}) = "none"
  <1>1. Classify({"artifact"}) = "artifact"
    BY DEF Classify
  <1>2. Classify({"status"}) = "status"
    <2>1. ~({"status", "messages"} \subseteq {"status"})
      OBVIOUS
    <2> QED
      BY <2>1 DEF Classify
  <1>3. Classify({"status", "messages"}) = "task"
    BY DEF Classify
  <1>4. Classify({}) = "none"
    <2>1. ~({"status", "messages"} \subseteq {})
      OBVIOUS
    <2> QED
      BY <2>1 DEF Classify
  <1> QED
    BY <1>1, <1>2, <1>3, <1>4

\* A payload that can be read is shown as it is read, one that cannot is not.
LEMMA ResultShows ==
    ASSUME NEW probe, NEW kind \in {"status", "artifact", "task", "none"}, Classify(probe) = kind
    PROVE  /\ Read(Result(probe)).out = IF kind = "none" THEN <<>> ELSE <<[type |-> kind, code |-> ""]>>
           /\ ~Read(Result(probe)).over
  BY DEF Read, Result

\* What readStream (client.go:226) makes of an event is what is to be shown.
LEMMA ReadShows ==
    ASSUME NEW e \in StreamEvents
    PROVE  /\ Read(Encoded(e)).out = Shown(e)
           /\ Read(Encoded(e)).over <=> e.type = "error"
           /\ Shown(e) \in Seq(ShownEvent)
           /\ IF e.type = "error" THEN Len(Shown(e)) = 1 /\ Shown(e)[1].type = "error"
              ELSE \A i \in 1..Len(Shown(e)) : Shown(e)[i].type # "error"
  <1>1. ASSUME NEW kind \in {"status", "artifact", "task"}, NEW s, s = <<[type |-> kind, code |-> ""]>>
        PROVE  s \in Seq(ShownEvent) /\ \A i \in 1..Len(s) : s[i].type # "error"
    <2> DEFINE x == [type |-> kind, code |-> ""]
    <2>1. x \in ShownEvent /\ x.type # "error"
      BY DEF ShownEvent
    <2> HIDE DEF x
    <2>2. s = <<x>>
      BY <1>1 DEF x
    <2>3. s \in Seq(ShownEvent) /\ Len(s) = 1 /\ s[1] = x
      BY <2>1, <2>2
    <2>4. \A i \in 1..Len(s) : i = 1
      BY <2>3
    <2> QED
      BY <2>1, <2>3, <2>4
  <1>2. <<>> \in Seq(ShownEvent) /\ \A i \in 1..Len(<<>>) : <<>>[i].type # "error"
    OBVIOUS
  <1>3. LET s == <<[type |-> "error", code |-> Internal]>>
        IN  s \in Seq(ShownEvent) /\ Len(s) = 1 /\ s[1].type = "error"
    BY DEF ShownEvent
  <1>4. CASE e = [type |-> "status", probe |-> {"status"}]
    <2>1. Encoded(e) = Result({"status"}) /\ Shown(e) = <<[type |-> "status", code |-> ""]>>
      BY <1>4 DEF Encoded, Shown
    <2>2. Read(Encoded(e)).out = <<[type |-> "status", code |-> ""]>> /\ ~Read(Encoded(e)).over
      BY <2>1, Classified, ResultShows
    <2>3. e.type # "error"
      BY <1>4
    <2> QED
      BY <1>1, <2>1, <2>2, <2>3
  <1>5. CASE e = [type |-> "artifact", probe |-> {"artifact"}]
    <2>1. Encoded(e) = Result({"artifact"}) /\ Shown(e) = <<[type |-> "artifact", code |-> ""]>>
      BY <1>5 DEF Encoded, Shown
    <2>2. Read(Encoded(e)).out = <<[type |-> "artifact", code |-> ""]>> /\ ~Read(Encoded(e)).over
      BY <2>1, Classified, ResultShows
    <2>3. e.type # "error"
      BY <1>5
    <2> QED
      BY <1>1, <2>1, <2>2, <2>3
  <1>6. CASE e = [type |-> "task", probe |-> {"status", "messages"}]
    <2>1. Encoded(e) = Result({"status", "messages"}) /\ Shown(e) = <<[type |-> "task", code |-> ""]>>
      BY <1>6 DEF Encoded, Shown
    <2>2. Read(Encoded(e)).out = <<[type |-> "task", code |-> ""]>> /\ ~Read(Encoded(e)).over
      BY <2>1, Classified, ResultShows
    <2>3. e.type # "error"
      BY <1>6
    <2> QED
      BY <1>1, <2>1, <2>2, <2>3
  <1>7. CASE e = [type |-> "task", probe |-> {"status"}]
    <2>1. Encoded(e) = Result({"status"}) /\ Shown(e) = <<[type |-> "status", code |-> ""]>>
      BY <1>7 DEF Encoded, Shown
    <2>2. Read(Encoded(e)).out = <<[type |-> "status", code |-> ""]>> /\ ~Read(Encoded(e)).over
      BY <2>1, Classified, ResultShows
    <2>3. e.type # "error"
      BY <1>7
    <2> QED
      BY <1>1, <2>1, <2>2, <2>3
  <1>8. CASE e = [type |-> "message", probe |-> {}]
    <2>1. Encoded(e) = Result({}) /\ Shown(e) = <<>>
      BY <1>8 DEF Encoded, Shown
    <2>2. Read(Encoded(e)).out = <<>> /\ ~Read(Encoded(e)).over
      BY <2>1, Classified, ResultShows
    <2>3. e.type # "error"
      BY <1>8
    <2> QED
      BY <1>2, <2>1, <2>2, <2>3
  <1>9. CASE e = [type |-> "error", probe |-> {}]
    <2>1. Encoded(e) = RPCError(Internal) /\ Shown(e) = <<[type |-> "error", code |-> Internal]>>
      BY <1>9 DEF Encoded, Shown
    <2>2. /\ Read(RPCError(Internal)).out = <<[type |-> "error", code |-> Internal]>>
          /\ Read(RPCError(Internal)).over
      BY DEF Read, RPCError
    <2> QED
      BY <1>3, <1>9, <2>1, <2>2
  <1> QED
    BY <1>4, <1>5, <1>6, <1>7, <1>8, <1>9 DEF StreamEvents

LEMMA AllShownOneMore ==
    ASSUME NEW t \in Seq(StreamEvents), NEW e \in StreamEvents
    PROVE  /\ AllShown(t) \in Seq(ShownEvent)
           /\ AllShown(Append(t, e)) = AllShown(t) \o Shown(e)
  <1>1. ShownOf(t) \in Seq(Seq(ShownEvent))
    <2>1. Len(t) \in Nat /\ DOMAIN t = 1..Len(t)
      OBVIOUS
    <2>2. ASSUME NEW i \in 1..Len(t) PROVE Shown(t[i]) \in Seq(ShownEvent)
      <3>1. t[i] \in StreamEvents
        OBVIOUS
      <3> QED
        BY <3>1, ReadShows
    <2> QED
      BY <2>1, <2>2, IsASeq DEF ShownOf
  <1>2. Shown(e) \in Seq(ShownEvent)
    BY ReadShows
  <1>3. ShownOf(Append(t, e)) = Append(ShownOf(t), Shown(e))
    <2> DEFINE u == Append(t, e)
               v == Append(ShownOf(t), Shown(e))
    <2>1. Len(t) \in Nat /\ DOMAIN t = 1..Len(t) /\ DOMAIN u = 1..(Len(t) + 1)
      OBVIOUS
    <2>2. Len(ShownOf(t)) = Len(t)
      BY <1>1, <2>1 DEF ShownOf
    <2>3. DOMAIN v = 1..(Len(t) + 1) /\ v = [i \in 1..(Len(t) + 1) |-> v[i]]
      <3>1. v \in Seq(Seq(ShownEvent)) /\ Len(v) = Len(t) + 1
        BY <1>1, <1>2, <2>2, AppendProperties
      <3> HIDE DEF v
      <3> QED
        BY <3>1
    <2>4. ASSUME NEW i \in 1..(Len(t) + 1) PROVE v[i] = Shown(u[i])
      <3>1. CASE i <= Len(t)
        BY <1>1, <1>2, <2>1, <2>2, <3>1, AppendProperties DEF ShownOf
      <3>2. CASE i = Len(t) + 1
        <4>1. u[i] = e
          BY <2>1, <3>2, AppendProperties
        <4>2. v[i] = Shown(e)
          BY <1>1, <1>2, <2>2, <3>2, AppendProperties
        <4> QED
          BY <4>1, <4>2
      <3> HIDE DEF u, v
      <3>3. Len(t) \in Nat
        OBVIOUS
      <3> QED
        BY <3>1, <3>2, <3>3
    <2> HIDE DEF u, v
    <2>5. ShownOf(u) = v
      BY <2>1, <2>3, <2>4 DEF ShownOf
    <2> QED
      BY <2>5 DEF u, v
  <1> QED
    BY <1>1, <1>2, <1>3, FlattenTyped, FlattenOneMore DEF AllShown

LEMMA LeastOfNumbers ==
    ASSUME NEW T \in SUBSET Nat, T # {}
    PROVE  Min(T) \in T /\ \A y \in T : Min(T) <= y
  <1>1. \E x \in T : \A y \in T : x <= y
    BY LeastNumber
  <1> QED
    BY <1>1 DEF Min

\* The first error stays the last thing that is due; until there is one, an
\* event adds what is shown of it.
LEMMA DueOneMore ==
    ASSUME NEW t \in Seq(StreamEvents), NEW e \in StreamEvents
    PROVE  /\ DueOf(t) \in Seq(ShownEvent)
           /\ HasError(t) => HasError(Append(t, e)) /\ DueOf(Append(t, e)) = DueOf(t)
           /\ ~HasError(t) => /\ DueOf(Append(t, e)) = DueOf(t) \o Shown(e)
                              /\ HasError(Append(t, e)) <=> e.type = "error"
  <1> DEFINE a == AllShown(t)
             x == Shown(e)
             b == AllShown(Append(t, e))
  <1>1. a \in Seq(ShownEvent) /\ x \in Seq(ShownEvent) /\ b = a \o x
    BY AllShownOneMore, ReadShows
  <1>2. IF e.type = "error" THEN Len(x) = 1 /\ x[1].type = "error"
        ELSE \A i \in 1..Len(x) : x[i].type # "error"
    BY ReadShows
  <1>d. /\ DueOf(t) = IF ErrorsIn(a) = {} THEN a ELSE SubSeq(a, 1, Min(ErrorsIn(a)))
        /\ DueOf(Append(t, e)) = IF ErrorsIn(b) = {} THEN b ELSE SubSeq(b, 1, Min(ErrorsIn(b)))
        /\ HasError(t) <=> ErrorsIn(a) # {}
        /\ HasError(Append(t, e)) <=> ErrorsIn(b) # {}
    BY DEF DueOf, HasError
  <1> HIDE DEF a, x, b
  <1>3. /\ b \in Seq(ShownEvent) /\ Len(b) = Len(a) + Len(x)
        /\ \A i \in 1..Len(b) : b[i] = IF i <= Len(a) THEN a[i] ELSE x[i - Len(a)]
    BY <1>1, ConcatProperties
  <1>4. Len(a) \in Nat /\ Len(x) \in Nat /\ Len(b) \in Nat
    BY <1>1, <1>3
  <1>5. /\ ErrorsIn(a) = {i \in 1..Len(a) : a[i].type = "error"}
        /\ ErrorsIn(b) = {i \in 1..Len(b) : b[i].type = "error"}
    BY <1>1, <1>3 DEF ErrorsIn
  <1>6. CASE ErrorsIn(a) # {}
    <2> DEFINE m == Min(ErrorsIn(a))
               n == Min(ErrorsIn(b))
    <2>1. ErrorsIn(a) \subseteq ErrorsIn(b)
      BY <1>3, <1>4, <1>5
    <2>2. ErrorsIn(a) \in SUBSET Nat /\ ErrorsIn(b) \in SUBSET Nat
      BY <1>4, <1>5
    <2>3. m \in ErrorsIn(a) /\ \A y \in ErrorsIn(a) : m <= y
      BY <1>6, <2>2, LeastOfNumbers
    <2>4. n \in ErrorsIn(b) /\ \A y \in ErrorsIn(b) : n <= y
      BY <1>6, <2>1, <2>2, LeastOfNumbers
    <2> HIDE DEF m, n
    <2>5. m = n /\ m \in 1..Len(a)
      <3>1. m \in 1..Len(a) /\ n <= m /\ n \in 1..Len(b)
        BY <1>5, <2>1, <2>3, <2>4
      <3>2. n \in 1..Len(a)
        BY <1>4, <3>1
      <3>3. n \in ErrorsIn(a)
        BY <1>3, <1>4, <1>5, <2>4, <3>2
      <3> QED
        BY <1>4, <2>3, <3>1, <3>2, <3>3
    <2>6. SubSeq(b, 1, m) = SubSeq(a, 1, m) /\ SubSeq(a, 1, m) \in Seq(ShownEvent)
      <3>1. \A i \in 1..m : a[i] \in ShownEvent /\ b[i] = a[i] /\ b[i] \in ShownEvent
        BY <1>1, <1>3, <1>4, <2>5
      <3>2. m \in Int /\ 1 \in Int /\ 1 <= m /\ m - 1 + 1 = m
        BY <2>5
      <3>3. /\ SubSeq(a, 1, m) \in Seq(ShownEvent) /\ Len(SubSeq(a, 1, m)) = m
            /\ \A i \in 1..m : SubSeq(a, 1, m)[i] = a[1 + i - 1]
        BY <3>1, <3>2, SubSeqProperties
      <3>4. /\ SubSeq(b, 1, m) \in Seq(ShownEvent) /\ Len(SubSeq(b, 1, m)) = m
            /\ \A i \in 1..m : SubSeq(b, 1, m)[i] = b[1 + i - 1]
        BY <3>1, <3>2, SubSeqProperties
      <3>5. \A i \in 1..m : SubSeq(a, 1, m)[i] = SubSeq(b, 1, m)[i]
        BY <3>1, <3>2, <3>3, <3>4
      <3> QED
        BY <3>3, <3>4, <3>5, SeqEqual
    <2> QED
      BY <1>6, <1>d, <2>1, <2>5, <2>6 DEF m, n
  <1>7. CASE ErrorsIn(a) = {}
    <2>1. DueOf(t) = a /\ ~HasError(t)
      BY <1>7, <1>d
    <2>2. CASE e.type # "error"
      <3>1. ErrorsIn(b) = {}
        <4> SUFFICES ASSUME NEW i \in 1..Len(b), b[i].type = "error" PROVE FALSE
          BY <1>5
        <4>1. i > Len(a)
          BY <1>3, <1>4, <1>5, <1>7
        <4>2. i - Len(a) \in 1..Len(x) /\ b[i] = x[i - Len(a)]
          BY <1>3, <1>4, <4>1
        <4> QED
          BY <1>2, <2>2, <4>2
      <3> QED
        BY <1>1, <1>d, <2>1, <2>2, <3>1 DEF x
    <2>3. CASE e.type = "error"
      <3>1. Len(b) \in 1..Len(b) /\ b[Len(b)] = x[1] /\ Len(b) = Len(a) + 1
        <4>1. Len(x) = 1 /\ Len(b) = Len(a) + 1
          BY <1>2, <1>3, <2>3
        <4>2. Len(b) \in 1..Len(b) /\ ~(Len(b) <= Len(a)) /\ Len(b) - Len(a) = 1
          BY <1>4, <4>1
        <4>3. b[Len(b)] = x[Len(b) - Len(a)]
          BY <1>3, <4>2
        <4> QED
          BY <4>1, <4>2, <4>3
      <3>2. ErrorsIn(b) = {Len(b)}
        <4>1. Len(b) \in ErrorsIn(b)
          BY <1>2, <1>5, <2>3, <3>1
        <4>2. ASSUME NEW i \in ErrorsIn(b) PROVE i = Len(b)
          <5>1. i \in 1..Len(b) /\ b[i].type = "error"
            BY <1>5
          <5>2. ~(i <= Len(a))
            BY <1>3, <1>4, <1>5, <1>7, <5>1
          <5> QED
            BY <1>4, <3>1, <5>1, <5>2
        <4> QED
          BY <4>1, <4>2
      <3>3. Min(ErrorsIn(b)) = Len(b)
        <4>1. ErrorsIn(b) \in SUBSET Nat /\ ErrorsIn(b) # {}
          BY <1>4, <3>2
        <4>2. Min(ErrorsIn(b)) \in ErrorsIn(b)
          BY <4>1, LeastOfNumbers
        <4> QED
          BY <3>2, <4>2
      <3>4. SubSeq(b, 1, Len(b)) = b
        BY <1>3, SubSeqFull
      <3> QED
        BY <1>1, <1>d, <2>1, <2>3, <3>2, <3>3, <3>4 DEF x
    <2> QED
      BY <1>1, <2>1, <2>2, <2>3
  <1> QED
    BY <1>6, <1>7

LEMMA NothingDue == DueOf(<<>>) = <<>> /\ ~HasError(<<>>)
  <1>1. ShownOf(<<>>) = <<>>
    BY DEF ShownOf
  <1>2. AllShown(<<>>) = <<>>
    BY <1>1, FlattenOfNothing DEF AllShown
  <1>3. ErrorsIn(<<>>) = {}
    BY DEF ErrorsIn
  <1> QED
    BY <1>2, <1>3 DEF DueOf, HasError

LEMMA PrefixOfLonger ==
    ASSUME NEW S, NEW s \in Seq(S), NEW t \in Seq(S), NEW x \in Seq(S), IsPrefix(s, t)
    PROVE  IsPrefix(s, t \o x)
  <1>1. /\ t \o x \in Seq(S) /\ Len(t \o x) = Len(t) + Len(x)
        /\ \A i \in 1..Len(t) + Len(x) : (t \o x)[i] = IF i <= Len(t) THEN t[i] ELSE x[i - Len(t)]
    BY ConcatProperties
  <1>2. Len(s) \in Nat /\ Len(t) \in Nat /\ Len(x) \in Nat /\ Len(s) <= Len(t)
    BY DEF IsPrefix
  <1>3. SubSeq(t \o x, 1, Len(s)) = SubSeq(t, 1, Len(s))
    <2> DEFINE u == t \o x
               n == Len(s)
    <2> HIDE DEF u
    <2>1. \A i \in 1..n : u[i] \in S /\ t[i] \in S /\ u[i] = t[i]
      BY <1>1, <1>2 DEF u
    <2> HIDE DEF n
    <2>2. n \in Nat /\ n \in Int /\ 1 \in Int
      BY <1>2 DEF n
    <2>3. /\ SubSeq(t, 1, n) \in Seq(S) /\ Len(SubSeq(t, 1, n)) = (IF 1 <= n THEN n - 1 + 1 ELSE 0)
          /\ \A i \in 1..(n - 1 + 1) : SubSeq(t, 1, n)[i] = t[1 + i - 1]
      BY <2>1, <2>2, SubSeqProperties
    <2>4. /\ SubSeq(u, 1, n) \in Seq(S) /\ Len(SubSeq(u, 1, n)) = (IF 1 <= n THEN n - 1 + 1 ELSE 0)
          /\ \A i \in 1..(n - 1 + 1) : SubSeq(u, 1, n)[i] = u[1 + i - 1]
      BY <2>1, <2>2, SubSeqProperties
    <2>5. \A i \in 1..Len(SubSeq(u, 1, n)) : SubSeq(u, 1, n)[i] = SubSeq(t, 1, n)[i]
      BY <2>1, <2>2, <2>3, <2>4
    <2>6. Len(SubSeq(u, 1, n)) = Len(SubSeq(t, 1, n))
      BY <2>3, <2>4
    <2>7. SubSeq(u, 1, n) = SubSeq(t, 1, n)
      BY <2>3, <2>4, <2>5, <2>6, SeqEqual
    <2> QED
      BY <2>7 DEF u, n
  <1> QED
    BY <1>1, <1>2, <1>3 DEF IsPrefix

\* What is due only grows while the task handler goes on, and not at all once
\* it has sent an error.
LEMMA DueGrows ==
    ASSUME NEW t \in Seq(StreamEvents), NEW u \in Seq(StreamEvents)
    PROVE  /\ IsPrefix(DueOf(t), DueOf(t \o u))
           /\ HasError(t) => DueOf(t \o u) = DueOf(t)
  <1> DEFINE upto(n) == t \o SubSeq(u, 1, n)
             Fine(n) == /\ IsPrefix(DueOf(t), DueOf(upto(n)))
                        /\ HasError(t) => HasError(upto(n)) /\ DueOf(upto(n)) = DueOf(t)
             Wrong == {n \in 0..Len(u) : ~Fine(n)}
  <1>1. ASSUME NEW n \in 0..Len(u) PROVE upto(n) \in Seq(StreamEvents)
    <2>1. SubSeq(u, 1, n) \in Seq(StreamEvents)
      BY SubSeqProperties
    <2> QED
      BY <2>1, ConcatProperties
  <1>2. ASSUME NEW s \in Seq(StreamEvents) PROVE DueOf(s) \in Seq(ShownEvent)
    <2>1. [type |-> "message", probe |-> {}] \in StreamEvents
      BY DEF StreamEvents
    <2> QED
      BY <2>1, DueOneMore
  <1>3. Fine(0)
    <2>1. SubSeq(u, 1, 0) = <<>>
      BY SubSeqEmpty
    <2>2. upto(0) = t
      BY <2>1, ConcatEmptySeq
    <2>3. IsPrefix(DueOf(t), DueOf(t))
      BY <1>2 DEF IsPrefix
    <2> QED
      BY <2>2, <2>3
  <1>4. ASSUME NEW n \in 0..Len(u), n + 1 \in 0..Len(u), Fine(n) PROVE Fine(n + 1)
    <2>1. upto(n + 1) = Append(upto(n), u[n + 1]) /\ u[n + 1] \in StreamEvents
      <3> DEFINE v == SubSeq(u, 1, n)
      <3>1. n + 1 \in 1..Len(u) /\ 1 \in 1..Len(u) /\ n + 1 \in 1..Len(u) /\ (n + 1) - 1 = n
        BY <1>4
      <3>2. SubSeq(u, 1, n + 1) = v \o <<u[n + 1]>>
        BY <3>1, SubSeqRecursiveSecond
      <3>3. u[n + 1] \in StreamEvents /\ v \in Seq(StreamEvents)
        BY <3>1, SubSeqProperties
      <3> HIDE DEF v
      <3>4. <<u[n + 1]>> \in Seq(StreamEvents)
        BY <3>3
      <3>5. t \o (v \o <<u[n + 1]>>) = (t \o v) \o <<u[n + 1]>>
        BY <3>3, <3>4, ConcatAssociative
      <3>6. t \o v \in Seq(StreamEvents)
        BY <3>3, ConcatProperties
      <3>7. Append(t \o v, u[n + 1]) = (t \o v) \o <<u[n + 1]>>
        BY <3>3, <3>6, AppendIsConcat
      <3> QED
        BY <3>2, <3>3, <3>5, <3>7 DEF v
    <2> DEFINE x == Shown(u[n + 1])
    <2>2. upto(n) \in Seq(StreamEvents) /\ x \in Seq(ShownEvent)
      BY <1>1, <2>1, ReadShows
    <2>3. /\ HasError(upto(n)) => HasError(upto(n + 1)) /\ DueOf(upto(n + 1)) = DueOf(upto(n))
          /\ ~HasError(upto(n)) => DueOf(upto(n + 1)) = DueOf(upto(n)) \o x
      <3> HIDE DEF upto
      <3> QED
        BY <2>1, <2>2, DueOneMore
    <2>4. IsPrefix(DueOf(t), DueOf(upto(n + 1)))
      <3>1. /\ DueOf(t) \in Seq(ShownEvent) /\ DueOf(upto(n)) \in Seq(ShownEvent)
            /\ IsPrefix(DueOf(t), DueOf(upto(n)))
        BY <1>2, <1>4, <2>2
      <3> HIDE DEF upto, x
      <3>2. IsPrefix(DueOf(t), DueOf(upto(n)) \o x)
        BY <2>2, <3>1, PrefixOfLonger
      <3> QED
        BY <2>3, <3>1, <3>2
    <2> HIDE DEF upto
    <2> QED
      BY <1>4, <2>3, <2>4
  <1>5. Wrong = {}
    <2> SUFFICES ASSUME Wrong # {} PROVE FALSE
      OBVIOUS
    <2> HIDE DEF Fine
    <2>1. PICK n \in Wrong : \A k \in Wrong : n <= k
      <3>1. Wrong \in SUBSET Nat
        OBVIOUS
      <3> QED
        BY <3>1, LeastNumber
    <2>2. n # 0
      BY <1>3, <2>1
    <2>3. n - 1 \in 0..Len(u) /\ n - 1 \notin Wrong /\ (n - 1) + 1 = n
      BY <2>1, <2>2
    <2>4. Fine((n - 1) + 1)
      BY <1>4, <2>3
    <2> QED
      BY <2>3, <2>4
  <1>6. Fine(Len(u)) /\ upto(Len(u)) = t \o u
    <2>1. Len(u) \in 0..Len(u)
      OBVIOUS
    <2>2. SubSeq(u, 1, Len(u)) = u
      BY SubSeqFull
    <2> QED
      BY <1>5, <2>1, <2>2
  <1> QED
    BY <1>6

-----------------------------------------------------------------------------
(* The body of a stream. *)

LastData == [type |-> "[DONE]"]

Data == {Encoded(e) : e \in StreamEvents} \cup {LastData}

DataLine(d) == Line("data", d)

Blank == Line("", "")

Refusal == Line("json", RPCError("refused"))

\* What a stream or a refusal writes.
Wire == {DataLine(d) : d \in Data} \cup {Blank, Refusal}

\* The body holds these events, each with its data line and its empty line.
Carries(b, ds) ==
    /\ b \in Seq(Wire)
    /\ Len(b) = 2 * Len(ds)
    /\ \A i \in 1..Len(ds) : b[2 * i - 1] = DataLine(ds[i]) /\ b[2 * i] = Blank

\* Writing an event (server.go:163) adds it.
LEMMA CarriesOneMore ==
    ASSUME NEW b, NEW ds \in Seq(Data), NEW d \in Data, Carries(b, ds)
    PROVE  Carries(b \o EventLines(d), Append(ds, d))
  <1> DEFINE l == EventLines(d)
             c == b \o l
             ex == Append(ds, d)
  <1>1. l \in Seq(Wire) /\ Len(l) = 2 /\ l[1] = DataLine(d) /\ l[2] = Blank
    <2>1. DataLine(d) \in Wire /\ Blank \in Wire
      BY DEF Wire
    <2>2. l = <<DataLine(d), Blank>>
      BY DEF EventLines, DataLine, Blank
    <2> QED
      BY <2>1, <2>2
  <1>2. b \in Seq(Wire) /\ Len(b) = 2 * Len(ds) /\ Len(ds) \in Nat
    BY DEF Carries
  <1> HIDE DEF l
  <1>3. /\ c \in Seq(Wire) /\ Len(c) = Len(b) + 2
        /\ \A i \in 1..(Len(b) + 2) : c[i] = IF i <= Len(b) THEN b[i] ELSE l[i - Len(b)]
    <2>1. b \in Seq(Wire) /\ l \in Seq(Wire) /\ Len(l) = 2
      BY <1>1, <1>2
    <2>2. /\ b \o l \in Seq(Wire) /\ Len(b \o l) = Len(b) + Len(l)
          /\ \A i \in 1..Len(b) + Len(l) : (b \o l)[i] = IF i <= Len(b) THEN b[i] ELSE l[i - Len(b)]
      BY <2>1, ConcatProperties
    <2> QED
      BY <2>1, <2>2
  <1>4. Len(ex) = Len(ds) + 1 /\ ex[Len(ds) + 1] = d /\ \A i \in 1..Len(ds) : ex[i] = ds[i]
    BY AppendProperties
  <1> HIDE DEF c, ex
  <1>5. ASSUME NEW i \in 1..Len(ex)
        PROVE  c[2 * i - 1] = DataLine(ex[i]) /\ c[2 * i] = Blank
    <2>1. CASE i <= Len(ds)
      <3>1. /\ 2 * i - 1 \in 1..(Len(b) + 2) /\ 2 * i \in 1..(Len(b) + 2)
            /\ 2 * i - 1 <= Len(b) /\ 2 * i <= Len(b) /\ i \in 1..Len(ds)
        BY <1>2, <2>1
      <3>2. c[2 * i - 1] = b[2 * i - 1] /\ c[2 * i] = b[2 * i]
        BY <1>3, <3>1
      <3> QED
        BY <1>4, <3>1, <3>2 DEF Carries
    <2>2. CASE i = Len(ds) + 1
      <3>1. /\ 2 * i - 1 = Len(b) + 1 /\ 2 * i = Len(b) + 2
            /\ Len(b) + 1 \in 1..(Len(b) + 2) /\ Len(b) + 2 \in 1..(Len(b) + 2)
            /\ ~(Len(b) + 1 <= Len(b)) /\ ~(Len(b) + 2 <= Len(b))
            /\ (Len(b) + 1) - Len(b) = 1 /\ (Len(b) + 2) - Len(b) = 2
        BY <1>2, <2>2
      <3>2. c[Len(b) + 1] = l[1] /\ c[Len(b) + 2] = l[2]
        BY <1>3, <3>1
      <3> QED
        BY <1>1, <1>4, <2>2, <3>1, <3>2
    <2> QED
      BY <1>2, <1>4, <2>1, <2>2
  <1>6. Len(c) = 2 * Len(ex)
    BY <1>2, <1>3, <1>4
  <1> QED
    BY <1>3, <1>5, <1>6 DEF Carries, c, ex, l

(***************************************************************************)
(* What a broken connection leaves of such a body: it ends early, perhaps  *)
(* with half a data line.                                                  *)
(***************************************************************************)
CutOff(b, ds) ==
    /\ b \in Seq(Wire \cup {DataLine(Junk)})
    /\ Len(b) <= 2 * Len(ds)
    /\ \A i \in 1..Len(ds) :
          /\ 2 * i - 1 <= Len(b) =>
               b[2 * i - 1] = DataLine(ds[i]) \/ (2 * i - 1 = Len(b) /\ b[2 * i - 1] = DataLine(Junk))
          /\ 2 * i <= Len(b) => b[2 * i] = Blank

LEMMA FieldsOfLines ==
    /\ \A d : DataLine(d).field = "data" /\ DataLine(d).value = d
    /\ Blank.field = ""
  <1>1. ASSUME NEW d PROVE DataLine(d).field = "data" /\ DataLine(d).value = d
    BY DEF DataLine, Line
  <1>2. Blank.field = ""
    BY DEF Blank, Line
  <1> QED
    BY <1>1, <1>2

\* Reader.Next takes the first event and leaves the others (reader.go:52).
LEMMA NextIsFirst ==
    ASSUME NEW b, NEW ds \in Seq(Data), Carries(b, ds), ds # <<>>
    PROVE  /\ HasEvent(b)
           /\ NextEvent(b).data = Head(ds)
           /\ Carries(NextEvent(b).rest, Tail(ds))
  <1>1. /\ b \in Seq(Wire) /\ Len(b) = 2 * Len(ds) /\ Len(ds) \in Nat /\ Len(ds) >= 1
        /\ DOMAIN b = 1..Len(b) /\ b[1] = DataLine(ds[1]) /\ b[2] = Blank
    <2>1. b \in Seq(Wire) /\ Len(b) = 2 * Len(ds) /\ Len(ds) \in Nat /\ Len(ds) >= 1
      BY DEF Carries
    <2>2. b[2 * 1 - 1] = DataLine(ds[1]) /\ b[2 * 1] = Blank
      <3>1. 1 \in 1..Len(ds)
        BY <2>1
      <3> QED
        BY <3>1 DEF Carries
    <2>3. 2 * 1 - 1 = 1 /\ 2 * 1 = 2
      OBVIOUS
    <2> QED
      BY <2>1, <2>2, <2>3
  <1>2. 1 \in DataLines(b) /\ 2 \notin DataLines(b) /\ DataLines(b) \in SUBSET Nat
        /\ \A y \in DataLines(b) : y >= 1
    <2>1. b[1].field = "data" /\ b[2].field # "data"
      BY <1>1, FieldsOfLines
    <2>2. DataLines(b) = {i \in 1..Len(b) : b[i].field = "data"}
      BY <1>1 DEF DataLines
    <2> QED
      BY <1>1, <2>1, <2>2
  <1>3. 2 \in Ends(b) /\ 1 \notin Ends(b) /\ Ends(b) \in SUBSET Nat
        /\ \A y \in Ends(b) : y >= 2
    <2>1. 2 \in Ends(b)
      <3>1. b[2].field = "" /\ 2 \in 1..Len(b) /\ \E d \in DataLines(b) : d < 2
        <4>1. b[2].field = ""
          BY <1>1, FieldsOfLines
        <4>2. 2 \in 1..Len(b) /\ 1 < 2
          BY <1>1
        <4> QED
          BY <1>2, <4>1, <4>2
      <3> QED
        BY <1>1, <3>1 DEF Ends
    <2>2. ASSUME NEW y \in Ends(b) PROVE y \in Nat /\ y >= 2
      <3>1. y \in 1..Len(b) /\ \E d \in DataLines(b) : d < y
        BY <1>1, <2>2 DEF Ends
      <3> QED
        BY <1>1, <1>2, <3>1
    <2> QED
      BY <2>1, <2>2
  <1>4. Min(DataLines(b)) = 1
    <2>1. Min(DataLines(b)) \in DataLines(b) /\ \A y \in DataLines(b) : Min(DataLines(b)) <= y
      BY <1>2, LeastOfNumbers
    <2> QED
      BY <1>2, <2>1
  <1>5. Min(Ends(b) \union {Len(b) + 1}) = 2
    <2> DEFINE T == Ends(b) \union {Len(b) + 1}
    <2>1. T \in SUBSET Nat /\ 2 \in T /\ \A y \in T : y >= 2
      BY <1>1, <1>3
    <2> HIDE DEF T
    <2>2. Min(T) \in T /\ \A y \in T : Min(T) <= y
      BY <2>1, LeastOfNumbers
    <2>3. Min(T) >= 2 /\ Min(T) <= 2 /\ Min(T) \in Nat
      BY <2>1, <2>2
    <2>4. Min(T) = 2
      BY <2>3
    <2> QED
      BY <2>4 DEF T
  <1> DEFINE rest == SubSeq(b, 3, Len(b))
             ends == Tail(ds)
  <1>6. NextEvent(b).data = b[1].value /\ NextEvent(b).rest = rest
    <2>1. DataLines(b) # {} /\ 2 + 1 = 3
      BY <1>2
    <2> QED
      BY <1>4, <1>5, <2>1 DEF NextEvent
  <1>7. /\ rest \in Seq(Wire) /\ Len(rest) = Len(b) - 2
        /\ \A i \in 1..(Len(b) - 2) : rest[i] = b[i + 2]
    <2>1. \A i \in 3..Len(b) : b[i] \in Wire
      BY <1>1
    <2>2. 3 \in Int /\ Len(b) \in Int /\ Len(b) - 3 + 1 = Len(b) - 2 /\ (~(3 <= Len(b)) => Len(b) - 2 = 0)
      BY <1>1
    <2>3. /\ rest \in Seq(Wire) /\ Len(rest) = IF 3 <= Len(b) THEN Len(b) - 3 + 1 ELSE 0
          /\ \A i \in 1..(Len(b) - 3 + 1) : rest[i] = b[3 + i - 1]
      BY <2>1, <2>2, SubSeqProperties
    <2> HIDE DEF rest
    <2>4. \A i \in 1..(Len(b) - 2) : 3 + i - 1 = i + 2
      BY <1>1
    <2> QED
      BY <2>2, <2>3, <2>4
  <1>8. Len(ends) = Len(ds) - 1 /\ \A i \in 1..Len(ends) : ends[i] = ds[i + 1]
    BY HeadTailProperties
  <1>9. HasEvent(b)
    BY <1>3 DEF HasEvent
  <1>10. Head(ds) = ds[1]
    BY <1>1
  <1> HIDE DEF rest, ends
  <1>11. ASSUME NEW i \in 1..Len(ends)
         PROVE  rest[2 * i - 1] = DataLine(ends[i]) /\ rest[2 * i] = Blank
    <2>1. /\ 2 * i - 1 \in 1..(Len(b) - 2) /\ 2 * i \in 1..(Len(b) - 2) /\ i + 1 \in 1..Len(ds)
          /\ (2 * i - 1) + 2 = 2 * (i + 1) - 1 /\ 2 * i + 2 = 2 * (i + 1)
      BY <1>1, <1>8
    <2>2. rest[2 * i - 1] = b[2 * (i + 1) - 1] /\ rest[2 * i] = b[2 * (i + 1)]
      BY <1>7, <2>1
    <2> QED
      BY <1>8, <2>1, <2>2 DEF Carries
  <1>12. Len(rest) = 2 * Len(ends)
    BY <1>1, <1>7, <1>8
  <1>13. Carries(rest, ends)
    BY <1>7, <1>11, <1>12 DEF Carries
  <1>14. b[1].value = ds[1]
    BY <1>1, FieldsOfLines
  <1> QED
    BY <1>6, <1>9, <1>10, <1>13, <1>14 DEF ends

LEMMA DataOfCutOff ==
    ASSUME NEW b, NEW ds \in Seq(Data), CutOff(b, ds), b # <<>>
    PROVE  /\ Len(b) \in Nat /\ Len(b) >= 1 /\ Len(ds) \in Nat /\ Len(ds) >= 1 /\ DOMAIN b = 1..Len(b)
           /\ b[1] = DataLine(ds[1]) \/ (Len(b) = 1 /\ b[1] = DataLine(Junk))
           /\ Len(b) >= 2 => b[2] = Blank
           /\ b[1].field = "data" /\ b[1].value \in {ds[1], Junk}
  <1>1. Len(b) \in Nat /\ Len(b) >= 1 /\ Len(ds) \in Nat /\ Len(b) <= 2 * Len(ds) /\ DOMAIN b = 1..Len(b)
    BY DEF CutOff
  <1>2. Len(ds) >= 1 /\ 1 \in 1..Len(ds)
    BY <1>1
  <1>3. 2 * 1 - 1 = 1 /\ 2 * 1 = 2
    OBVIOUS
  <1>4. b[1] = DataLine(ds[1]) \/ (1 = Len(b) /\ b[1] = DataLine(Junk))
    BY <1>1, <1>2, <1>3 DEF CutOff
  <1>5. Len(b) >= 2 => b[2] = Blank
    BY <1>1, <1>2, <1>3 DEF CutOff
  <1>6. b[1].field = "data" /\ b[1].value \in {ds[1], Junk}
    BY <1>4, FieldsOfLines
  <1> QED
    BY <1>1, <1>2, <1>4, <1>5, <1>6

\* Of a body that ends early the reader takes the first event, or the half of
\* it (reader.go:64), and leaves the others.
LEMMA NextOfCutOff ==
    ASSUME NEW b, NEW ds \in Seq(Data), CutOff(b, ds), DataLines(b) # {}
    PROVE  /\ ds # <<>>
           /\ NextEvent(b).data \in {Head(ds), Junk}
           /\ CutOff(NextEvent(b).rest, Tail(ds))
  <1>0. b # <<>>
    BY DEF DataLines
  <1>1. /\ Len(b) \in Nat /\ Len(b) >= 1 /\ Len(ds) \in Nat /\ Len(ds) >= 1 /\ DOMAIN b = 1..Len(b)
        /\ Len(b) >= 2 => b[2] = Blank
        /\ b[1].field = "data" /\ b[1].value \in {ds[1], Junk}
    BY <1>0, DataOfCutOff
  <1>a. Len(b) \in Nat /\ Len(b) >= 1 /\ Len(ds) \in Nat /\ Len(ds) >= 1
    BY <1>1
  <1>2. 1 \in DataLines(b) /\ 2 \notin DataLines(b) /\ DataLines(b) \in SUBSET Nat
        /\ \A y \in DataLines(b) : y >= 1
    <2>1. Len(b) >= 2 => b[2].field # "data"
      BY <1>1, FieldsOfLines
    <2>2. DataLines(b) = {i \in 1..Len(b) : b[i].field = "data"}
      BY <1>1 DEF DataLines
    <2> QED
      BY <1>1, <2>1, <2>2
  <1>3. (Len(b) >= 2 => 2 \in Ends(b)) /\ Ends(b) \in SUBSET Nat /\ \A y \in Ends(b) : y >= 2
    <2>1. ASSUME Len(b) >= 2 PROVE 2 \in Ends(b)
      <3>1. b[2] = Blank /\ 2 \in 1..Len(b) /\ 1 < 2
        BY <1>1, <2>1
      <3>2. b[2].field = ""
        BY <3>1, FieldsOfLines
      <3> QED
        BY <1>1, <1>2, <3>1, <3>2 DEF Ends
    <2>2. ASSUME NEW y \in Ends(b) PROVE y \in Nat /\ y >= 2
      <3>1. y \in 1..Len(b) /\ \E d \in DataLines(b) : d < y
        BY <1>1, <2>2 DEF Ends
      <3> QED
        BY <1>1, <1>2, <3>1
    <2> QED
      BY <2>1, <2>2
  <1>4. Min(DataLines(b)) = 1
    <2>1. Min(DataLines(b)) \in DataLines(b) /\ \A y \in DataLines(b) : Min(DataLines(b)) <= y
      BY <1>2, LeastOfNumbers
    <2> QED
      BY <1>2, <2>1
  <1>5. Min(Ends(b) \union {Len(b) + 1}) = 2
    <2> DEFINE T == Ends(b) \union {Len(b) + 1}
    <2>1. T \in SUBSET Nat /\ 2 \in T /\ \A y \in T : y >= 2
      <3>1. CASE Len(b) >= 2
        BY <1>1, <1>3, <3>1
      <3>2. CASE Len(b) = 1
        BY <1>3, <3>2
      <3> QED
        BY <1>1, <3>1, <3>2
    <2> HIDE DEF T
    <2>2. Min(T) \in T /\ \A y \in T : Min(T) <= y
      BY <2>1, LeastOfNumbers
    <2>3. Min(T) >= 2 /\ Min(T) <= 2 /\ Min(T) \in Nat
      BY <2>1, <2>2
    <2>4. Min(T) = 2
      BY <2>3
    <2> QED
      BY <2>4 DEF T
  <1> DEFINE rest == SubSeq(b, 3, Len(b))
             ends == Tail(ds)
  <1>6. NextEvent(b).data = b[1].value /\ NextEvent(b).rest = rest
    <2>1. 2 + 1 = 3
      OBVIOUS
    <2> QED
      BY <1>4, <1>5, <2>1 DEF NextEvent
  <1>7. /\ rest \in Seq(Wire \cup {DataLine(Junk)}) /\ Len(rest) = (IF Len(b) >= 2 THEN Len(b) - 2 ELSE 0)
        /\ \A i \in 1..(Len(b) - 2) : rest[i] = b[i + 2]
    <2> DEFINE W == Wire \cup {DataLine(Junk)}
    <2>1. \A i \in 3..Len(b) : b[i] \in W
      BY <1>1 DEF CutOff
    <2> HIDE DEF W
    <2>2. 3 \in Int /\ Len(b) \in Int /\ Len(b) - 3 + 1 = Len(b) - 2
      BY <1>1
    <2>3. /\ rest \in Seq(W) /\ Len(rest) = IF 3 <= Len(b) THEN Len(b) - 3 + 1 ELSE 0
          /\ \A i \in 1..(Len(b) - 3 + 1) : rest[i] = b[3 + i - 1]
      BY <2>1, <2>2, SubSeqProperties
    <2> HIDE DEF rest
    <2>4. \A i \in 1..(Len(b) - 2) : 3 + i - 1 = i + 2
      BY <1>1
    <2>5. Len(rest) = (IF Len(b) >= 2 THEN Len(b) - 2 ELSE 0)
      BY <1>a, <2>3
    <2>6. \A i \in 1..(Len(b) - 2) : rest[i] = b[i + 2]
      BY <2>2, <2>3, <2>4
    <2> QED
      BY <2>3, <2>5, <2>6 DEF W
  <1>8. Len(ends) = Len(ds) - 1 /\ \A i \in 1..Len(ends) : ends[i] = ds[i + 1]
    BY <1>1, HeadTailProperties
  <1>l. Len(rest) = (IF Len(b) >= 2 THEN Len(b) - 2 ELSE 0)
    BY <1>7
  <1>9. Head(ds) = ds[1] /\ ds # <<>>
    BY <1>1
  <1> HIDE DEF rest, ends
  <1>10. ASSUME NEW i \in 1..Len(ends)
         PROVE  /\ 2 * i - 1 <= Len(rest) =>
                      \/ rest[2 * i - 1] = DataLine(ends[i])
                      \/ 2 * i - 1 = Len(rest) /\ rest[2 * i - 1] = DataLine(Junk)
                /\ 2 * i <= Len(rest) => rest[2 * i] = Blank
    <2>1. /\ i + 1 \in 1..Len(ds) /\ i \in Nat /\ i >= 1
          /\ (2 * i - 1) + 2 = 2 * (i + 1) - 1 /\ 2 * i + 2 = 2 * (i + 1)
      BY <1>1, <1>8
    <2>2. /\ 2 * (i + 1) - 1 <= Len(b) =>
               \/ b[2 * (i + 1) - 1] = DataLine(ds[i + 1])
               \/ 2 * (i + 1) - 1 = Len(b) /\ b[2 * (i + 1) - 1] = DataLine(Junk)
          /\ 2 * (i + 1) <= Len(b) => b[2 * (i + 1)] = Blank
      BY <2>1 DEF CutOff
    <2>3. ASSUME 2 * i - 1 <= Len(rest)
          PROVE  \/ rest[2 * i - 1] = DataLine(ends[i])
                 \/ 2 * i - 1 = Len(rest) /\ rest[2 * i - 1] = DataLine(Junk)
      <3>1. 2 * i - 1 \in 1..(Len(b) - 2) /\ 2 * (i + 1) - 1 <= Len(b)
            /\ (2 * (i + 1) - 1 = Len(b) => 2 * i - 1 = Len(rest))
        BY <1>a, <1>l, <2>1, <2>3
      <3>2. rest[2 * i - 1] = b[2 * (i + 1) - 1]
        BY <1>7, <2>1, <3>1
      <3> QED
        BY <1>8, <2>2, <3>1, <3>2
    <2>4. ASSUME 2 * i <= Len(rest) PROVE rest[2 * i] = Blank
      <3>1. 2 * i \in 1..(Len(b) - 2) /\ 2 * (i + 1) <= Len(b)
        BY <1>a, <1>l, <2>1, <2>4
      <3>2. rest[2 * i] = b[2 * (i + 1)]
        BY <1>7, <2>1, <3>1
      <3> QED
        BY <2>2, <3>1, <3>2
    <2> QED
      BY <2>3, <2>4
  <1>11. Len(rest) <= 2 * Len(ends)
    <2>1. Len(b) <= 2 * Len(ds)
      BY DEF CutOff
    <2> QED
      BY <1>a, <1>l, <1>8, <2>1
  <1>12. CutOff(rest, ends)
    BY <1>7, <1>10, <1>11 DEF CutOff
  <1> QED
    BY <1>1, <1>6, <1>9, <1>12 DEF ends

\* Whatever a broken connection leaves of a body is such a body.
LEMMA RemainsCutOff ==
    ASSUME NEW b, NEW ds \in Seq(Data), Carries(b, ds), NEW left \in Remains(b)
    PROVE  CutOff(left, ds)
  <1> DEFINE W == Wire \cup {DataLine(Junk)}
  <1>1. /\ b \in Seq(Wire) /\ Len(b) = 2 * Len(ds) /\ Len(ds) \in Nat /\ DOMAIN b = 1..Len(b)
        /\ \A i \in 1..Len(ds) : b[2 * i - 1] = DataLine(ds[i]) /\ b[2 * i] = Blank
    BY DEF Carries
  <1>2. ASSUME NEW n \in 0..Len(b)
        PROVE  /\ SubSeq(b, 1, n) \in Seq(W) /\ Len(SubSeq(b, 1, n)) = n
               /\ \A i \in 1..n : SubSeq(b, 1, n)[i] = b[i]
    <2>1. \A i \in 1..n : b[i] \in W
      BY <1>1
    <2>2. n \in Int /\ 1 \in Int /\ n - 1 + 1 = n
      BY <1>1
    <2> HIDE DEF W
    <2>3. /\ SubSeq(b, 1, n) \in Seq(W) /\ Len(SubSeq(b, 1, n)) = (IF 1 <= n THEN n - 1 + 1 ELSE 0)
          /\ \A i \in 1..(n - 1 + 1) : SubSeq(b, 1, n)[i] = b[1 + i - 1]
      BY <2>1, <2>2, SubSeqProperties
    <2>4. \A i \in 1..n : SubSeq(b, 1, n)[i] = b[i]
      BY <2>2, <2>3
    <2>5. Len(SubSeq(b, 1, n)) = n
      BY <1>1, <2>2, <2>3
    <2> QED
      BY <2>3, <2>4, <2>5
  <1>3. CASE \E n \in 0..Len(b) : left = SubSeq(b, 1, n)
    <2>1. PICK n \in 0..Len(b) : left = SubSeq(b, 1, n)
      BY <1>3
    <2>2. left \in Seq(W) /\ Len(left) = n /\ \A i \in 1..n : left[i] = b[i]
      BY <1>2, <2>1
    <2>3. ASSUME NEW i \in 1..Len(ds)
          PROVE  /\ 2 * i - 1 <= Len(left) => left[2 * i - 1] = DataLine(ds[i])
                 /\ 2 * i <= Len(left) => left[2 * i] = Blank
      <3>1. /\ 2 * i - 1 <= Len(left) => 2 * i - 1 \in 1..n
            /\ 2 * i <= Len(left) => 2 * i \in 1..n
        BY <1>1, <2>2
      <3> QED
        BY <1>1, <2>2, <3>1
    <2> QED
      BY <1>1, <2>2, <2>3 DEF CutOff
  <1>4. CASE \E j \in DataLines(b) : left = Append(SubSeq(b, 1, j - 1), DataLine(Junk))
    <2>1. PICK j \in DataLines(b) : left = Append(SubSeq(b, 1, j - 1), DataLine(Junk))
      BY <1>4
    <2>2. j \in 1..Len(b) /\ b[j].field = "data" /\ j - 1 \in 0..Len(b)
      BY <1>1 DEF DataLines
    <2> DEFINE front == SubSeq(b, 1, j - 1)
    <2>3. front \in Seq(W) /\ Len(front) = j - 1 /\ \A i \in 1..(j - 1) : front[i] = b[i]
      BY <1>2, <2>2
    <2> HIDE DEF front
    <2>4. DataLine(Junk) \in W /\ left = Append(front, DataLine(Junk))
      BY <2>1 DEF front
    <2> HIDE DEF W
    <2>5. /\ left \in Seq(W) /\ Len(left) = j /\ left[j] = DataLine(Junk)
          /\ \A i \in 1..(j - 1) : left[i] = b[i]
      <3>1. /\ left \in Seq(W) /\ Len(left) = Len(front) + 1 /\ left[Len(front) + 1] = DataLine(Junk)
            /\ \A i \in 1..Len(front) : left[i] = front[i]
        BY <2>3, <2>4, AppendProperties
      <3>2. (j - 1) + 1 = j
        BY <2>2
      <3> QED
        BY <2>3, <3>1, <3>2
    <2>6. ASSUME NEW i \in 1..Len(ds)
          PROVE  /\ 2 * i - 1 <= Len(left) =>
                       left[2 * i - 1] = DataLine(ds[i]) \/ (2 * i - 1 = Len(left) /\ left[2 * i - 1] = DataLine(Junk))
                 /\ 2 * i <= Len(left) => left[2 * i] = Blank
      <3>1. 2 * i # j
        BY <1>1, <2>2, FieldsOfLines
      <3>2. /\ 2 * i - 1 <= Len(left) => 2 * i - 1 \in 1..(j - 1) \/ 2 * i - 1 = j
            /\ 2 * i <= Len(left) => 2 * i \in 1..(j - 1)
        BY <1>1, <2>2, <2>5, <3>1
      <3> QED
        BY <1>1, <2>5, <3>2
    <2>7. Len(left) <= 2 * Len(ds)
      BY <1>1, <2>2, <2>5
    <2> QED
      BY <2>5, <2>6, <2>7 DEF CutOff, W
  <1> QED
    BY <1>3, <1>4 DEF Remains, DataLine

\* An event more on the side of the writer leaves it such a body.
LEMMA CutOffOfMore ==
    ASSUME NEW b, NEW ds \in Seq(Data), NEW d \in Data, CutOff(b, ds)
    PROVE  CutOff(b, Append(ds, d))
  <1> DEFINE ex == Append(ds, d)
  <1>1. Len(ex) = Len(ds) + 1 /\ \A i \in 1..Len(ds) : ex[i] = ds[i]
    BY AppendProperties
  <1> HIDE DEF ex
  <1>2. Len(b) \in Nat /\ Len(ds) \in Nat /\ Len(b) <= 2 * Len(ds) /\ Len(b) <= 2 * Len(ex)
    BY <1>1 DEF CutOff
  <1>3. ASSUME NEW i \in 1..Len(ex)
        PROVE  /\ 2 * i - 1 <= Len(b) =>
                     b[2 * i - 1] = DataLine(ex[i]) \/ (2 * i - 1 = Len(b) /\ b[2 * i - 1] = DataLine(Junk))
               /\ 2 * i <= Len(b) => b[2 * i] = Blank
    <2>1. CASE i \in 1..Len(ds)
      BY <1>1, <2>1 DEF CutOff
    <2>2. CASE i = Len(ds) + 1
      <3>1. ~(2 * i - 1 <= Len(b)) /\ ~(2 * i <= Len(b))
        BY <1>2, <2>2
      <3> QED
        BY <3>1
    <2> QED
      BY <1>1, <1>2, <2>1, <2>2
  <1>4. CutOff(b, ex)
    BY <1>2, <1>3 DEF CutOff
  <1> QED
    BY <1>4 DEF ex

\* A body without data lines has no event.
LEMMA NoEventWithoutData ==
    ASSUME NEW b, DataLines(b) = {}
    PROVE  ~HasEvent(b)
  BY DEF HasEvent, Ends

-----------------------------------------------------------------------------
(* Sequences that hand on their elements. *)

LEMMA HandOn ==
    ASSUME NEW S, NEW s \in Seq(S), NEW t \in Seq(S), t # <<>>
    PROVE  /\ Head(t) \in S /\ Tail(t) \in Seq(S)
           /\ Append(s, Head(t)) \o Tail(t) = s \o t
  <1>1. /\ Head(t) \in S /\ Tail(t) \in Seq(S)
        /\ Len(Tail(t)) = Len(t) - 1 /\ \A i \in 1..Len(Tail(t)) : Tail(t)[i] = t[i + 1]
    BY HeadTailProperties
  <1> DEFINE h == Head(t)
             r == Tail(t)
             a == Append(s, h)
  <1>2. Head(t) = t[1] /\ Len(t) >= 1 /\ Len(t) \in Nat /\ Len(s) \in Nat
    OBVIOUS
  <1>3. /\ a \in Seq(S) /\ Len(a) = Len(s) + 1
        /\ \A i \in 1..Len(s) : a[i] = s[i]
        /\ a[Len(s) + 1] = h
    BY <1>1, AppendProperties
  <1>4. h = t[1] /\ r \in Seq(S) /\ Len(r) = Len(t) - 1 /\ \A i \in 1..Len(r) : r[i] = t[i + 1]
    BY <1>1, <1>2
  <1> HIDE DEF h, r, a
  <1>5. /\ a \o r \in Seq(S) /\ Len(a \o r) = Len(a) + Len(r)
        /\ \A i \in 1..Len(a) + Len(r) : (a \o r)[i] = IF i <= Len(a) THEN a[i] ELSE r[i - Len(a)]
    BY <1>3, <1>4, ConcatProperties
  <1>6. /\ s \o t \in Seq(S) /\ Len(s \o t) = Len(s) + Len(t)
        /\ \A i \in 1..Len(s) + Len(t) : (s \o t)[i] = IF i <= Len(s) THEN s[i] ELSE t[i - Len(s)]
    BY ConcatProperties
  <1>7. Len(a \o r) = Len(s \o t) /\ Len(a) + Len(r) = Len(s) + Len(t)
    BY <1>2, <1>3, <1>4, <1>5, <1>6
  <1>8. ASSUME NEW i \in 1..Len(a \o r) PROVE (a \o r)[i] = (s \o t)[i]
    <2>0. i \in 1..(Len(s) + Len(t)) /\ i \in 1..(Len(a) + Len(r))
      BY <1>5, <1>7
    <2>1. CASE i <= Len(s)
      <3>1. (a \o r)[i] = a[i] /\ (s \o t)[i] = s[i]
        BY <1>2, <1>3, <1>5, <1>6, <2>0, <2>1
      <3> QED
        BY <1>2, <1>3, <2>0, <2>1, <3>1
    <2>2. CASE i = Len(s) + 1
      <3>1. (a \o r)[i] = a[i] /\ (s \o t)[i] = t[i - Len(s)] /\ i - Len(s) = 1
        BY <1>2, <1>3, <1>5, <1>6, <2>0, <2>2
      <3> QED
        BY <1>3, <1>4, <2>2, <3>1
    <2>3. CASE i > Len(s) + 1
      <3>1. /\ ~(i <= Len(a)) /\ ~(i <= Len(s)) /\ i - Len(a) \in 1..Len(r)
            /\ (i - Len(a)) + 1 = i - Len(s)
        BY <1>2, <1>3, <1>4, <1>7, <2>0, <2>3
      <3>2. (a \o r)[i] = r[i - Len(a)] /\ (s \o t)[i] = t[i - Len(s)]
        BY <1>5, <1>6, <2>0, <3>1
      <3> QED
        BY <1>4, <3>1, <3>2
    <2> QED
      BY <1>2, <2>0, <2>1, <2>2, <2>3
  <1>9. a \o r = s \o t
    BY <1>5, <1>6, <1>7, <1>8, SeqEqual
  <1> QED
    BY <1>1, <1>9 DEF a, h, r

LEMMA AddBehind ==
    ASSUME NEW S, NEW s \in Seq(S), NEW t \in Seq(S), NEW e \in S
    PROVE  s \o Append(t, e) = Append(s \o t, e)
  <1>1. <<e>> \in Seq(S)
    OBVIOUS
  <1>2. s \o t \in Seq(S)
    BY ConcatProperties
  <1>3. Append(t, e) = t \o <<e>> /\ Append(s \o t, e) = (s \o t) \o <<e>>
    BY <1>2, AppendIsConcat
  <1>4. (s \o t) \o <<e>> = s \o (t \o <<e>>)
    BY <1>1, ConcatAssociative
  <1> QED
    BY <1>3, <1>4

-----------------------------------------------------------------------------
(* The invariant of a stream. *)

Failure == <<[type |-> "failed", code |-> ""]>>

Encodings(t) == [i \in DOMAIN t |-> Encoded(t[i])]

Ended == server = "returned"

InBody(unread) == IF Ended THEN Append(Encodings(unread), LastData) ELSE Encodings(unread)

\* The request was answered with an error before its stream began.
Refused == Ended /\ task = "idle"

BodyHas(unread) == IF Refused THEN unread = <<>> /\ body = <<Refusal>>
                   ELSE Carries(body, InBody(unread))

\* What is left of it behind a break.
BodyLeft(unread) == IF Refused THEN DataLines(body) = {} ELSE CutOff(body, InBody(unread))

(***************************************************************************)
(* Of what the task handler said, readStream has read the first part, the  *)
(* next is in the body, or lost with the connection, and the rest is in    *)
(* the handler's channel; what the caller got is what is due of the first. *)
(* Behind a break the body holds what is left of it, unless nothing is     *)
(* missing.                                                                *)
(***************************************************************************)
Accounted(read, unread) ==
    /\ read \in Seq(StreamEvents) /\ unread \in Seq(StreamEvents)
    /\ told = (read \o unread) \o events
    /\ (seen \o channel) \o out = DueOf(read)
    /\ client # "closed" => IF linked \/ whole THEN BodyHas(unread) ELSE BodyLeft(unread)
    /\ client = "waiting" => read = <<>>
    /\ client = "next" => ~HasError(read)
    /\ client = "send" => (over <=> HasError(read))
    /\ client = "closed" /\ whole => HasError(read) \/ (Ended /\ unread = <<>>)

ServerOK ==
    /\ events \in Seq(StreamEvents) /\ told \in Seq(StreamEvents)
    /\ server \in {"dispatch", "range", "returned"} /\ task \in {"idle", "running", "done"}
    /\ server = "dispatch" => task = "idle"
    /\ server = "range" => task # "idle"
    /\ Ended => events = <<>> /\ task # "running"
    /\ task = "idle" => told = <<>> /\ events = <<>>

ClientOK ==
    /\ client \in {"waiting", "next", "send", "closed"}
    /\ linked \in BOOLEAN /\ whole \in BOOLEAN /\ over \in BOOLEAN
    /\ client # "send" => out = <<>>
    /\ client = "waiting" => seen = <<>> /\ channel = <<>>
    /\ client = "closed" => ~linked
    /\ client = "closed" => body = <<>>
    /\ ~linked /\ whole => client = "closed" \/ Ended

Received == seen \in Seq(ShownEvent) /\ channel \in Seq(ShownEvent) /\ out \in Seq(ShownEvent)

Failed == seen = Failure /\ channel = <<>> /\ client = "closed"

\* The connection broke inside an event (client.go:260): behind what is due of
\* the events read comes an error of the reader's own.
GotAndError(read, rest) ==
    /\ read \in Seq(StreamEvents) /\ rest \in Seq(StreamEvents)
    /\ told = read \o rest
    /\ (seen \o channel) \o out = Append(DueOf(read), ParseError)

Torn ==
    /\ Received
    /\ ~linked /\ ~whole /\ client \in {"send", "closed"} /\ (client = "send" => over)
    /\ \E read, rest : GotAndError(read, rest)

StreamInv ==
    /\ method = "message/stream"
    /\ ServerOK /\ ClientOK
    /\ Failed \/ Torn \/ (Received /\ \E read, unread : Accounted(read, unread))

LEMMA EncodingsTyped ==
    ASSUME NEW t \in Seq(StreamEvents)
    PROVE  /\ Encodings(t) \in Seq(Data) /\ Len(Encodings(t)) = Len(t)
           /\ \A i \in 1..Len(t) : Encodings(t)[i] = Encoded(t[i])
  <1>1. Len(t) \in Nat /\ DOMAIN t = 1..Len(t)
    OBVIOUS
  <1>2. ASSUME NEW i \in 1..Len(t) PROVE Encoded(t[i]) \in Data
    <2>1. t[i] \in StreamEvents
      OBVIOUS
    <2> QED
      BY <2>1 DEF Data
  <1>3. Encodings(t) = [i \in 1..Len(t) |-> Encoded(t[i])]
    BY <1>1 DEF Encodings
  <1>4. Encodings(t) \in Seq(Data)
    BY <1>1, <1>2, <1>3, IsASeq
  <1> QED
    BY <1>1, <1>3, <1>4

LEMMA EncodingsOneMore ==
    ASSUME NEW t \in Seq(StreamEvents), NEW e \in StreamEvents
    PROVE  Encodings(Append(t, e)) = Append(Encodings(t), Encoded(e)) /\ Encoded(e) \in Data
  <1> DEFINE a == Append(t, e)
             x == Encodings(t)
             y == Append(x, Encoded(e))
             z == Encodings(a)
  <1>1. /\ a \in Seq(StreamEvents) /\ Len(a) = Len(t) + 1 /\ a[Len(t) + 1] = e
        /\ \A i \in 1..Len(t) : a[i] = t[i]
    BY AppendProperties
  <1>2. x \in Seq(Data) /\ Len(x) = Len(t) /\ Encoded(e) \in Data
    BY EncodingsTyped DEF Data
  <1>3. \A i \in 1..Len(t) : x[i] = Encoded(t[i])
    BY DEF Encodings
  <1> HIDE DEF a, x
  <1>4. z \in Seq(Data) /\ Len(z) = Len(a)
    BY <1>1, EncodingsTyped
  <1>5. \A i \in 1..Len(a) : z[i] = Encoded(a[i])
    BY <1>1 DEF Encodings
  <1>6. /\ y \in Seq(Data) /\ Len(y) = Len(x) + 1 /\ y[Len(x) + 1] = Encoded(e)
        /\ \A i \in 1..Len(x) : y[i] = x[i]
    BY <1>2, AppendProperties
  <1> HIDE DEF y, z
  <1>7. ASSUME NEW i \in 1..Len(z) PROVE z[i] = y[i]
    <2>1. Len(t) \in Nat /\ i \in 1..(Len(t) + 1) /\ i \in 1..Len(a)
      BY <1>1, <1>4
    <2>2. CASE i <= Len(t)
      <3>1. i \in 1..Len(t)
        BY <2>1, <2>2
      <3> QED
        BY <1>1, <1>2, <1>3, <1>5, <1>6, <2>1, <3>1
    <2>3. CASE i = Len(t) + 1
      BY <1>1, <1>2, <1>5, <1>6, <2>1, <2>3
    <2> QED
      BY <2>1, <2>2, <2>3
  <1>8. z = y
    BY <1>1, <1>2, <1>4, <1>6, <1>7, SeqEqual
  <1> QED
    BY <1>2, <1>8 DEF a, x, y, z

LEMMA TailOfAppend ==
    ASSUME NEW S, NEW s \in Seq(S), s # <<>>, NEW e \in S
    PROVE  Tail(Append(s, e)) = Append(Tail(s), e) /\ Head(Append(s, e)) = Head(s)
  <1> DEFINE a == Append(s, e)
             l == Tail(a)
             t == Tail(s)
             r == Append(t, e)
  <1>1. /\ a \in Seq(S) /\ Len(a) = Len(s) + 1 /\ a[Len(s) + 1] = e /\ a # <<>>
        /\ \A i \in 1..Len(s) : a[i] = s[i]
    BY AppendProperties
  <1>2. Len(s) \in Nat /\ Len(s) >= 1
    OBVIOUS
  <1>3. t \in Seq(S) /\ Len(t) = Len(s) - 1 /\ \A i \in 1..Len(t) : t[i] = s[i + 1]
    BY HeadTailProperties
  <1>h. Head(s) = s[1] /\ Head(a) = a[1]
    BY <1>1, <1>2
  <1> HIDE DEF a, t
  <1>4. l \in Seq(S) /\ Len(l) = Len(a) - 1 /\ \A i \in 1..Len(l) : l[i] = a[i + 1]
    BY <1>1, HeadTailProperties
  <1>5. /\ r \in Seq(S) /\ Len(r) = Len(t) + 1 /\ r[Len(t) + 1] = e
        /\ \A i \in 1..Len(t) : r[i] = t[i]
    BY <1>3, AppendProperties
  <1> HIDE DEF l, r
  <1>6. ASSUME NEW i \in 1..Len(l) PROVE l[i] = r[i]
    <2>1. i \in 1..Len(s) /\ l[i] = a[i + 1]
      BY <1>1, <1>2, <1>4
    <2>2. CASE i < Len(s)
      <3>1. i \in 1..Len(t) /\ i + 1 \in 1..Len(s)
        BY <1>2, <1>3, <2>1, <2>2
      <3> QED
        BY <1>1, <1>3, <1>5, <2>1, <3>1
    <2>3. CASE i = Len(s)
      <3>1. i = Len(t) + 1
        BY <1>2, <1>3, <2>3
      <3> QED
        BY <1>1, <1>5, <2>1, <2>3, <3>1
    <2> QED
      BY <1>2, <2>1, <2>2, <2>3
  <1>7. Len(l) = Len(r)
    BY <1>1, <1>2, <1>3, <1>4, <1>5
  <1>8. l = r
    BY <1>4, <1>5, <1>6, <1>7, SeqEqual
  <1>9. 1 \in 1..Len(s)
    BY <1>2
  <1> QED
    BY <1>1, <1>8, <1>9, <1>h DEF a, l, t, r

LEMMA EncodingsOfTail ==
    ASSUME NEW t \in Seq(StreamEvents), t # <<>>
    PROVE  /\ Encodings(t) # <<>>
           /\ Head(Encodings(t)) = Encoded(Head(t))
           /\ Tail(Encodings(t)) = Encodings(Tail(t))
  <1> DEFINE x == Encodings(t)
             l == Tail(x)
             r == Encodings(Tail(t))
  <1>1. Len(t) \in Nat /\ Len(t) >= 1 /\ 1 \in 1..Len(t)
    OBVIOUS
  <1>2. x \in Seq(Data) /\ Len(x) = Len(t) /\ \A i \in 1..Len(t) : x[i] = Encoded(t[i])
    BY EncodingsTyped DEF Encodings
  <1>3. Tail(t) \in Seq(StreamEvents) /\ Len(Tail(t)) = Len(t) - 1 /\ \A i \in 1..Len(Tail(t)) : Tail(t)[i] = t[i + 1]
    BY HeadTailProperties
  <1>4. r \in Seq(Data) /\ Len(r) = Len(Tail(t)) /\ \A i \in 1..Len(Tail(t)) : r[i] = Encoded(Tail(t)[i])
    BY <1>3, EncodingsTyped
  <1> HIDE DEF x, r
  <1>5. x # <<>>
    BY <1>1, <1>2
  <1>6. l \in Seq(Data) /\ Len(l) = Len(x) - 1 /\ \A i \in 1..Len(l) : l[i] = x[i + 1]
    BY <1>2, <1>5, HeadTailProperties
  <1>7. Head(x) = x[1] /\ Head(t) = t[1]
    BY <1>1, <1>2, <1>5
  <1> HIDE DEF l
  <1>8. ASSUME NEW i \in 1..Len(l) PROVE l[i] = r[i]
    <2>1. i + 1 \in 1..Len(t) /\ i \in 1..Len(Tail(t))
      BY <1>1, <1>2, <1>3, <1>6
    <2>2. l[i] = Encoded(t[i + 1])
      BY <1>2, <1>6, <2>1
    <2>3. r[i] = Encoded(t[i + 1])
      BY <1>3, <1>4, <2>1
    <2> QED
      BY <2>2, <2>3
  <1>9. Len(l) = Len(r)
    BY <1>2, <1>3, <1>4, <1>6
  <1>10. l = r
    BY <1>4, <1>6, <1>8, <1>9, SeqEqual
  <1>11. x[1] = Encoded(t[1])
    BY <1>1, <1>2
  <1> QED
    BY <1>5, <1>7, <1>10, <1>11 DEF x, l, r

\* The first event in the body is the first one unread; after the last comes
\* the end, once it is written (server.go:167).
LEMMA FirstInBody ==
    ASSUME NEW unread \in Seq(StreamEvents)
    PROVE  /\ InBody(unread) \in Seq(Data)
           /\ unread # <<>> => /\ InBody(unread) # <<>>
                               /\ Head(InBody(unread)) = Encoded(Head(unread))
                               /\ Tail(InBody(unread)) = InBody(Tail(unread))
           /\ unread = <<>> => IF Ended THEN InBody(unread) # <<>> /\ Head(InBody(unread)) = LastData
                               ELSE InBody(unread) = <<>>
  <1>1. LastData \in Data
    BY DEF Data
  <1>2. Encodings(unread) \in Seq(Data) /\ Len(Encodings(unread)) = Len(unread)
    BY EncodingsTyped
  <1>3. InBody(unread) \in Seq(Data)
    BY <1>1, <1>2, AppendProperties DEF InBody
  <1>4. ASSUME unread # <<>>
        PROVE  /\ InBody(unread) # <<>>
               /\ Head(InBody(unread)) = Encoded(Head(unread))
               /\ Tail(InBody(unread)) = InBody(Tail(unread))
    <2>1. /\ Encodings(unread) # <<>>
          /\ Head(Encodings(unread)) = Encoded(Head(unread))
          /\ Tail(Encodings(unread)) = Encodings(Tail(unread))
      BY <1>4, EncodingsOfTail
    <2>2. CASE Ended
      <3>1. /\ Tail(Append(Encodings(unread), LastData)) = Append(Tail(Encodings(unread)), LastData)
            /\ Head(Append(Encodings(unread), LastData)) = Head(Encodings(unread))
        BY <1>1, <1>2, <2>1, TailOfAppend
      <3>2. Append(Encodings(unread), LastData) # <<>>
        BY <1>1, <1>2, AppendProperties
      <3> QED
        BY <2>1, <2>2, <3>1, <3>2 DEF InBody
    <2>3. CASE ~Ended
      BY <2>1, <2>3 DEF InBody
    <2> QED
      BY <2>2, <2>3
  <1>5. ASSUME unread = <<>>
        PROVE  IF Ended THEN InBody(unread) # <<>> /\ Head(InBody(unread)) = LastData
               ELSE InBody(unread) = <<>>
    <2>1. Encodings(unread) = <<>>
      BY <1>2, <1>5
    <2>2. Append(<<>>, LastData) = <<LastData>> /\ <<LastData>> # <<>> /\ Head(<<LastData>>) = LastData
      OBVIOUS
    <2> QED
      BY <2>1, <2>2 DEF InBody
  <1> QED
    BY <1>3, <1>4, <1>5

-----------------------------------------------------------------------------
(* Steps of the server. *)

LEMMA NothingSaid ==
    ASSUME NEW read, NEW unread, Accounted(read, unread), ServerOK, told = <<>>
    PROVE  read = <<>> /\ unread = <<>> /\ events = <<>>
  <1>1. read \in Seq(StreamEvents) /\ unread \in Seq(StreamEvents) /\ events \in Seq(StreamEvents)
    BY DEF Accounted, ServerOK
  <1>2. read \o unread \in Seq(StreamEvents)
    BY <1>1, ConcatProperties
  <1>3. (read \o unread) \o events = <<>>
    BY DEF Accounted
  <1>4. read \o unread = <<>> /\ events = <<>>
    BY <1>1, <1>2, <1>3, ConcatEqualIffEmpty
  <1> QED
    BY <1>1, <1>4, ConcatEqualIffEmpty

LEMMA EmptyBody ==
    /\ Carries(<<>>, <<>>)
    /\ \A b : Carries(b, <<>>) => b = <<>>
    /\ DataLines(<<>>) = {}
    /\ DataLines(<<Refusal>>) = {}
    /\ \A b : CutOff(b, <<>>) => DataLines(b) = {}
  <1>1. Carries(<<>>, <<>>)
    BY DEF Carries
  <1>2. ASSUME NEW b, Carries(b, <<>>) PROVE b = <<>>
    <2>1. b \in Seq(Wire) /\ Len(b) = 2 * Len(<<>>)
      BY <1>2 DEF Carries
    <2> QED
      BY <2>1
  <1>3. DataLines(<<>>) = {}
    BY DEF DataLines
  <1>4. DataLines(<<Refusal>>) = {}
    <2>1. Refusal.field # "data"
      BY DEF Refusal, Line
    <2>2. DOMAIN <<Refusal>> = {1} /\ <<Refusal>>[1] = Refusal
      OBVIOUS
    <2> QED
      BY <2>1, <2>2 DEF DataLines
  <1>5. ASSUME NEW b, CutOff(b, <<>>) PROVE DataLines(b) = {}
    <2>1. b \in Seq(Wire \cup {DataLine(Junk)}) /\ Len(b) <= 2 * 0 /\ Len(b) \in Nat
      BY <1>5 DEF CutOff
    <2>2. b = <<>>
      BY <2>1
    <2> QED
      BY <1>3, <2>2
  <1> QED
    BY <1>1, <1>2, <1>3, <1>4, <1>5

\* A request refused has no stream (server.go:72).
LEMMA RefuseKeeps ==
    ASSUME StreamInv, Refuse
    PROVE  StreamInv'
  <1>1. /\ server = "dispatch" /\ server' = "returned" /\ UNCHANGED <<task, told>>
        /\ body' = IF linked THEN body \o <<Refusal>> ELSE body
        /\ UNCHANGED <<method, events, whole, linked, local, reading>>
    BY DEF Refuse, Respond, Write, Refusal
  <1>2. UNCHANGED <<client, out, over, channel, seen>>
    BY <1>1 DEF local
  <1>3. task = "idle" /\ told = <<>>
    BY <1>1 DEF StreamInv, ServerOK
  <1>4. ASSUME NEW read, NEW unread, Accounted(read, unread)
        PROVE  read = <<>> /\ unread = <<>> /\ events = <<>> /\ Accounted(read, unread)'
    <2>1. read = <<>> /\ unread = <<>> /\ events = <<>>
      BY <1>3, <1>4, NothingSaid DEF StreamInv
    <2>a. ~Ended /\ ~Refused /\ InBody(unread) = <<>>
      <3>1. ~Ended /\ ~Refused
        BY <1>1 DEF Ended, Refused
      <3> QED
        BY <1>4, <2>1, <3>1, FirstInBody DEF Accounted
    <2>b. ~linked /\ whole => client = "closed"
      BY <2>a DEF StreamInv, ClientOK
    <2>2. linked /\ client # "closed" => body = <<>>
      <3>1. linked /\ client # "closed" => Carries(body, InBody(unread))
        BY <1>4, <2>a DEF Accounted, BodyHas
      <3> QED
        BY <2>a, <3>1, EmptyBody
    <2>3. linked /\ client # "closed" => body' = <<Refusal>>
      <3>1. <<>> \o <<Refusal>> = <<Refusal>>
        OBVIOUS
      <3> QED
        BY <1>1, <2>2, <3>1
    <2>c. ~linked /\ client # "closed" => DataLines(body') = {}
      <3>1. ~linked /\ client # "closed" => CutOff(body, InBody(unread)) /\ body' = body
        BY <1>1, <1>4, <2>a, <2>b DEF Accounted, BodyLeft
      <3> QED
        BY <2>a, <3>1, EmptyBody
    <2>d. Refused'
      BY <1>1, <1>3 DEF Refused, Ended
    <2>4. client' # "closed" => IF linked' \/ whole' THEN BodyHas(unread)' ELSE BodyLeft(unread)'
      <3>1. client # "closed" /\ (linked \/ whole) => BodyHas(unread)'
        BY <2>1, <2>3, <2>b, <2>d DEF BodyHas
      <3>2. client # "closed" /\ ~linked => BodyLeft(unread)'
        BY <2>c, <2>d DEF BodyLeft
      <3> QED
        BY <1>1, <1>2, <3>1, <3>2
    <2> QED
      BY <1>1, <1>2, <1>4, <2>1, <2>4 DEF Accounted, Ended
  <1>5. CASE Failed
    <2>1. Failed'
      BY <1>2, <1>5 DEF Failed
    <2> QED
      BY <1>1, <1>2, <1>3, <1>5, <2>1 DEF StreamInv, ServerOK, ClientOK, Ended, Failed
  <1>7. CASE Torn
    <2>1. told = told' /\ Torn'
      BY <1>1, <1>2, <1>7 DEF Torn, Received, GotAndError
    <2>2. ServerOK' /\ ClientOK'
      BY <1>1, <1>2, <1>3, <1>7 DEF StreamInv, ServerOK, ClientOK, Ended, Torn
    <2> QED
      BY <1>1, <2>1, <2>2 DEF StreamInv
  <1>6. CASE Received /\ \E read, unread : Accounted(read, unread)
    <2>1. PICK read, unread : Accounted(read, unread)
      BY <1>6
    <2>2. events = <<>> /\ Accounted(read, unread)'
      BY <1>4, <2>1
    <2>3. Received'
      BY <1>2, <1>6 DEF Received
    <2>4. ServerOK' /\ ClientOK'
      BY <1>1, <1>2, <1>3, <2>2 DEF StreamInv, ServerOK, ClientOK, Ended
    <2> QED
      BY <1>1, <2>2, <2>3, <2>4 DEF StreamInv
  <1> QED
    BY <1>5, <1>6, <1>7 DEF StreamInv

\* A step of the server that leaves the client alone keeps what the client is
\* owed, if it accounts for what the task handler said.
LEMMA ServerStepKeeps ==
    ASSUME StreamInv, ServerOK', UNCHANGED <<method, whole, linked, client, out, over, channel, seen>>,
           ~linked => body' = body, Ended => Ended',
           told' = told \/ \E e \in StreamEvents : told' = Append(told, e),
           \A read, unread : Received /\ Accounted(read, unread) => \E r, u : Accounted(r, u)'
    PROVE  StreamInv'
  <1>1. ClientOK'
    BY DEF StreamInv, ClientOK
  <1>4. CASE Torn
    <2>1. PICK read, rest : GotAndError(read, rest)
      BY <1>4 DEF Torn
    <2>2. \E r : GotAndError(read, r)'
      <3>1. CASE told' = told
        BY <2>1, <3>1 DEF GotAndError
      <3>2. CASE \E e \in StreamEvents : told' = Append(told, e)
        <4>1. PICK e \in StreamEvents : told' = Append(told, e)
          BY <3>2
        <4>2. read \o Append(rest, e) = Append(told, e) /\ Append(rest, e) \in Seq(StreamEvents)
          BY <2>1, AddBehind, AppendProperties DEF GotAndError
        <4>3. GotAndError(read, Append(rest, e))'
          BY <2>1, <4>1, <4>2 DEF GotAndError
        <4> QED
          BY <4>3
      <3> QED
        BY <3>1, <3>2
    <2>3. Torn'
      BY <1>4, <2>2 DEF Torn, Received
    <2> QED
      BY <1>1, <2>3 DEF StreamInv
  <1>2. CASE Failed
    BY <1>1, <1>2 DEF StreamInv, Failed
  <1>3. CASE Received /\ \E read, unread : Accounted(read, unread)
    <2>1. Received'
      BY <1>3 DEF Received
    <2>2. (\E r, u : Accounted(r, u))'
      BY <1>3
    <2> QED
      BY <1>1, <2>1, <2>2 DEF StreamInv
  <1> QED
    BY <1>2, <1>3, <1>4 DEF StreamInv

LEMMA StartStreamKeeps ==
    ASSUME StreamInv, StartStream
    PROVE  StreamInv'
  <1>1. /\ server = "dispatch" /\ server' = "range" /\ task' = "running"
        /\ UNCHANGED <<method, told, events, body, whole, linked, reading, client, out, over, channel, seen>>
    BY DEF StartStream, local
  <1>2. ServerOK'
    BY <1>1 DEF StreamInv, ServerOK, Ended
  <1>3. ASSUME NEW read, NEW unread, Accounted(read, unread)
        PROVE  Accounted(read, unread)'
    <2>1. told = <<>>
      BY <1>1 DEF StreamInv, ServerOK
    <2>2. ~HasError(read)
      BY <1>3, <2>1, NothingSaid, NothingDue DEF StreamInv
    <2>3. (BodyHas(unread) => BodyHas(unread)') /\ (BodyLeft(unread) => BodyLeft(unread)')
      BY <1>1 DEF BodyHas, BodyLeft, Refused, Ended, InBody
    <2> QED
      BY <1>1, <1>3, <2>2, <2>3 DEF Accounted, Ended
  <1>4. Ended => Ended'
    BY <1>1 DEF Ended
  <1> QED
    BY <1>1, <1>2, <1>3, <1>4, ServerStepKeeps

LEMMA HandlerSendsKeeps ==
    ASSUME StreamInv, NEW e \in StreamEvents, HandlerSends(e)
    PROVE  StreamInv'
  <1>1. /\ task = "running" /\ told' = Append(told, e) /\ events' = Append(events, e)
        /\ UNCHANGED <<method, server, task, body, whole, linked, reading, client, out, over, channel, seen>>
    BY DEF HandlerSends, local
  <1>2. events \in Seq(StreamEvents) /\ told \in Seq(StreamEvents)
    BY DEF StreamInv, ServerOK
  <1>3. told' \in Seq(StreamEvents) /\ events' \in Seq(StreamEvents)
    BY <1>1, <1>2, AppendProperties
  <1>4. ServerOK'
    BY <1>1, <1>3 DEF StreamInv, ServerOK, Ended
  <1>5. ASSUME NEW read, NEW unread, Accounted(read, unread)
        PROVE  Accounted(read, unread)'
    <2>1. read \o unread \in Seq(StreamEvents)
      BY <1>5, ConcatProperties DEF Accounted
    <2>2. told' = (read \o unread) \o events'
      <3>1. told = (read \o unread) \o events
        BY <1>5 DEF Accounted
      <3>2. (read \o unread) \o Append(events, e) = Append((read \o unread) \o events, e)
        BY <1>2, <2>1, AddBehind
      <3> QED
        BY <1>1, <3>1, <3>2
    <2>3. (BodyHas(unread) => BodyHas(unread)') /\ (BodyLeft(unread) => BodyLeft(unread)')
      BY <1>1 DEF BodyHas, BodyLeft, Refused, Ended, InBody
    <2> QED
      BY <1>1, <1>5, <2>2, <2>3 DEF Accounted, Ended
  <1>6. Ended => Ended'
    BY <1>1 DEF Ended
  <1> QED
    BY <1>1, <1>4, <1>5, <1>6, ServerStepKeeps

LEMMA HandlerEndsKeeps ==
    ASSUME StreamInv, HandlerEnds
    PROVE  StreamInv'
  <1>1. /\ task = "running" /\ task' = "done"
        /\ UNCHANGED <<method, server, told, events, body, whole, linked, reading, client, out, over, channel, seen>>
    BY DEF HandlerEnds, local
  <1>2. ServerOK'
    BY <1>1 DEF StreamInv, ServerOK, Ended
  <1>3. ASSUME NEW read, NEW unread, Accounted(read, unread)
        PROVE  Accounted(read, unread)'
    <2>1. (BodyHas(unread) => BodyHas(unread)') /\ (BodyLeft(unread) => BodyLeft(unread)')
      BY <1>1 DEF BodyHas, BodyLeft, Refused, Ended, InBody
    <2> QED
      BY <1>1, <1>3, <2>1 DEF Accounted, Ended
  <1>4. Ended => Ended'
    BY <1>1 DEF Ended
  <1> QED
    BY <1>1, <1>2, <1>3, <1>4, ServerStepKeeps

\* An event is passed on to the body, or to nowhere (server.go:141).
LEMMA ForwardKeeps ==
    ASSUME StreamInv, Forward
    PROVE  StreamInv'
  <1> DEFINE e == Head(events)
             lines == EventLines(Encoded(e))
  <1>1. /\ server = "range" /\ events # <<>> /\ events' = Tail(events)
        /\ body' = IF linked THEN body \o lines ELSE body
        /\ UNCHANGED <<method, server, task, told, whole, linked, reading, client, out, over, channel, seen>>
    BY DEF Forward, Write, local
  <1>2. events \in Seq(StreamEvents) /\ e \in StreamEvents /\ Tail(events) \in Seq(StreamEvents)
    BY <1>1, HeadTailProperties DEF StreamInv, ServerOK
  <1> HIDE DEF lines
  <1>3. ServerOK' /\ ~Ended /\ ~Ended'
    BY <1>1, <1>2 DEF StreamInv, ServerOK, Ended
  <1>4. ASSUME NEW read, NEW unread, Accounted(read, unread), NEW u, u = Append(unread, e)
        PROVE  Accounted(read, u)'
    <2>1. read \in Seq(StreamEvents) /\ unread \in Seq(StreamEvents) /\ u \in Seq(StreamEvents)
      BY <1>2, <1>4, AppendProperties DEF Accounted
    <2>2. read \o unread \in Seq(StreamEvents)
      BY <2>1, ConcatProperties
    <2>3. told' = (read \o u) \o events'
      <3>1. read \o u = Append(read \o unread, e)
        BY <1>2, <1>4, <2>1, AddBehind
      <3>2. Append(read \o unread, e) \o Tail(events) = (read \o unread) \o events
        BY <1>1, <1>2, <2>2, HandOn
      <3> QED
        BY <1>1, <1>4, <3>1, <3>2 DEF Accounted
    <2>a. ~linked /\ whole => client = "closed"
      BY <1>3 DEF StreamInv, ClientOK
    <2>b. ~linked /\ client # "closed" => BodyLeft(u)'
      <3> SUFFICES ASSUME ~linked, client # "closed" PROVE BodyLeft(u)'
        OBVIOUS
      <3>1. CutOff(body, Encodings(unread))
        BY <1>3, <1>4, <2>a DEF Accounted, BodyLeft, Refused, InBody
      <3>2. /\ Encodings(unread) \in Seq(Data) /\ Encoded(e) \in Data
            /\ Encodings(u) = Append(Encodings(unread), Encoded(e))
        BY <1>2, <1>4, <2>1, EncodingsTyped, EncodingsOneMore
      <3>3. CutOff(body', Encodings(u))
        BY <1>1, <3>1, <3>2, CutOffOfMore
      <3> QED
        BY <1>3, <3>3 DEF BodyLeft, Refused, InBody
    <2>4. linked /\ client # "closed" => BodyHas(u)'
      <3> SUFFICES ASSUME linked, client # "closed" PROVE BodyHas(u)'
        OBVIOUS
      <3>1. Carries(body, Encodings(unread))
        BY <1>3, <1>4 DEF Accounted, BodyHas, Refused, InBody
      <3>2. /\ Encodings(unread) \in Seq(Data) /\ Encoded(e) \in Data
            /\ Encodings(u) = Append(Encodings(unread), Encoded(e))
        BY <1>2, <1>4, <2>1, EncodingsTyped, EncodingsOneMore
      <3>3. Carries(body', Encodings(u))
        BY <1>1, <3>1, <3>2, CarriesOneMore DEF lines
      <3> QED
        BY <1>3, <3>3 DEF BodyHas, Refused, InBody
    <2>5. client' # "closed" => IF linked' \/ whole' THEN BodyHas(u)' ELSE BodyLeft(u)'
      BY <1>1, <2>4, <2>a, <2>b
    <2> QED
      BY <1>1, <1>3, <1>4, <2>1, <2>3, <2>5 DEF Accounted
  <1>5. ~linked => body' = body
    BY <1>1
  <1>6. UNCHANGED <<method, whole, linked, client, out, over, channel, seen>>
    BY <1>1
  <1>7. \A read, unread : Received /\ Accounted(read, unread) => \E r, u : Accounted(r, u)'
    <2> HIDE DEF e
    <2> QED
      BY <1>4
  <1> QED
    BY <1>1, <1>3, <1>5, <1>6, <1>7, ServerStepKeeps

\* The end is written behind the last event (server.go:167).
LEMMA WriteDoneKeeps ==
    ASSUME StreamInv, WriteDone
    PROVE  StreamInv'
  <1> DEFINE lines == EventLines(LastData)
  <1>1. /\ server = "range" /\ task = "done" /\ events = <<>> /\ server' = "returned"
        /\ body' = IF linked THEN body \o lines ELSE body
        /\ UNCHANGED <<method, task, told, events, whole, linked, reading, client, out, over, channel, seen>>
    BY DEF WriteDone, Write, local, LastData
  <1> HIDE DEF lines
  <1>2. ServerOK' /\ ~Ended /\ Ended'
    BY <1>1 DEF StreamInv, ServerOK, Ended
  <1>3. ASSUME NEW read, NEW unread, Accounted(read, unread)
        PROVE  Accounted(read, unread)'
    <2>1. unread \in Seq(StreamEvents)
      BY <1>3 DEF Accounted
    <2>a. ~linked /\ whole => client = "closed"
      BY <1>2 DEF StreamInv, ClientOK
    <2>b. ~linked /\ client # "closed" => BodyLeft(unread)'
      <3> SUFFICES ASSUME ~linked, client # "closed" PROVE BodyLeft(unread)'
        OBVIOUS
      <3>1. CutOff(body, Encodings(unread))
        BY <1>2, <1>3, <2>a DEF Accounted, BodyLeft, Refused, InBody
      <3>2. Encodings(unread) \in Seq(Data) /\ LastData \in Data
        BY <2>1, EncodingsTyped DEF Data
      <3>3. CutOff(body', Append(Encodings(unread), LastData))
        BY <1>1, <3>1, <3>2, CutOffOfMore
      <3>4. ~Refused'
        BY <1>1 DEF Refused
      <3> QED
        BY <1>2, <3>3, <3>4 DEF BodyLeft, InBody
    <2>2. linked /\ client # "closed" => BodyHas(unread)'
      <3> SUFFICES ASSUME linked, client # "closed" PROVE BodyHas(unread)'
        OBVIOUS
      <3>1. Carries(body, Encodings(unread))
        BY <1>2, <1>3 DEF Accounted, BodyHas, Refused, InBody
      <3>2. Encodings(unread) \in Seq(Data) /\ LastData \in Data
        BY <2>1, EncodingsTyped DEF Data
      <3>3. Carries(body', Append(Encodings(unread), LastData))
        BY <1>1, <3>1, <3>2, CarriesOneMore DEF lines
      <3>4. ~Refused'
        BY <1>1 DEF Refused
      <3> QED
        BY <1>2, <3>3, <3>4 DEF BodyHas, InBody
    <2>3. client' # "closed" => IF linked' \/ whole' THEN BodyHas(unread)' ELSE BodyLeft(unread)'
      BY <1>1, <2>2, <2>a, <2>b
    <2> QED
      BY <1>1, <1>2, <1>3, <2>3 DEF Accounted
  <1>4. ~linked => body' = body
    BY <1>1
  <1>5. UNCHANGED <<method, whole, linked, client, out, over, channel, seen>>
    BY <1>1
  <1> QED
    BY <1>1, <1>2, <1>3, <1>4, <1>5, ServerStepKeeps

-----------------------------------------------------------------------------
(* Steps of the client, and of the network. *)

LEMMA ServerStays ==
    ASSUME ServerOK, UNCHANGED <<server, task, told, events>>
    PROVE  ServerOK' /\ (Ended' <=> Ended) /\ (Refused' <=> Refused) /\ \A u : InBody(u)' = InBody(u)
  BY DEF ServerOK, Ended, Refused, InBody

\* While nothing is missing, the end of a stream, or the refusal, is in the body.
LEMMA EndInBody ==
    ASSUME NEW read, NEW unread, Accounted(read, unread), linked \/ whole, client # "closed", Ended
    PROVE  body # <<>> /\ (~HasEvent(body) => unread = <<>>)
  <1>1. CASE Refused
    <2>1. body = <<Refusal>> /\ unread = <<>>
      BY <1>1 DEF Accounted, BodyHas
    <2> QED
      BY <2>1
  <1>2. CASE ~Refused
    <2>1. Carries(body, InBody(unread))
      BY <1>2 DEF Accounted, BodyHas
    <2>2. InBody(unread) \in Seq(Data) /\ InBody(unread) # <<>>
      BY FirstInBody DEF Accounted
    <2>3. HasEvent(body)
      BY <2>1, <2>2, NextIsFirst
    <2>4. DataLines(<<>>) = {}
      BY EmptyBody
    <2> QED
      BY <2>3, <2>4, NoEventWithoutData
  <1> QED
    BY <1>1, <1>2

LEMMA FirstOfOne == \A x : SubSeq(<<x>>, 1, 1) = <<x>>
  <1> SUFFICES ASSUME NEW x PROVE SubSeq(<<x>>, 1, 1) = <<x>>
    OBVIOUS
  <1>1. <<x>> \in Seq({x}) /\ Len(<<x>>) = 1
    OBVIOUS
  <1> QED
    BY <1>1, SubSeqFull

LEMMA RemainsOfRefusal ==
    ASSUME NEW left \in Remains(<<Refusal>>)
    PROVE  DataLines(left) = {}
  <1>1. DataLines(<<Refusal>>) = {} /\ DataLines(<<>>) = {}
    BY EmptyBody
  <1>2. PICK n \in 0..Len(<<Refusal>>) : left = SubSeq(<<Refusal>>, 1, n)
    BY <1>1 DEF Remains
  <1>3. CASE n = 0
    <2>1. left = <<>>
      BY <1>2, <1>3, SubSeqEmpty
    <2> QED
      BY <1>1, <2>1
  <1>4. CASE n = 1
    <2>1. left = <<Refusal>>
      BY <1>2, <1>4, FirstOfOne
    <2> QED
      BY <1>1, <2>1
  <1> QED
    BY <1>2, <1>3, <1>4

\* The connection breaks, and leaves what it leaves of the body.
LEMMA DisconnectKeeps ==
    ASSUME StreamInv, Disconnect
    PROVE  StreamInv'
  <1>1. PICK left \in Remains(body) :
           /\ linked /\ linked' = FALSE /\ body' = left
           /\ whole' = (whole /\ server = "returned" /\ left = body)
           /\ UNCHANGED <<method, server, task, told, events, client, out, over, channel, seen, reading>>
    BY DEF Disconnect, remote, local
  <1>2. ServerOK' /\ (Ended' <=> Ended) /\ (Refused' <=> Refused) /\ \A u : InBody(u)' = InBody(u)
    BY <1>1, ServerStays DEF StreamInv
  <1>3. ~Failed /\ ~Torn /\ client # "closed"
    BY <1>1 DEF StreamInv, ClientOK, Failed, Torn
  <1>4. PICK read, unread : Accounted(read, unread)
    BY <1>3 DEF StreamInv
  <1>5. whole' => BodyHas(unread)'
    <2>1. whole' => body' = body
      BY <1>1
    <2> QED
      BY <1>1, <1>2, <1>3, <1>4, <2>1 DEF Accounted, BodyHas
  <1>6. BodyLeft(unread)'
    <2>1. CASE Refused
      <3>1. body = <<Refusal>>
        BY <1>1, <1>3, <1>4, <2>1 DEF Accounted, BodyHas
      <3>2. DataLines(left) = {}
        BY <3>1, RemainsOfRefusal
      <3> QED
        BY <1>1, <1>2, <2>1, <3>2 DEF BodyLeft
    <2>2. CASE ~Refused
      <3>1. Carries(body, InBody(unread)) /\ InBody(unread) \in Seq(Data)
        BY <1>1, <1>3, <1>4, <2>2, FirstInBody DEF Accounted, BodyHas
      <3>2. CutOff(left, InBody(unread))
        BY <3>1, RemainsCutOff
      <3> QED
        BY <1>1, <1>2, <2>2, <3>2 DEF BodyLeft
    <2> QED
      BY <2>1, <2>2
  <1>7. Accounted(read, unread)'
    BY <1>1, <1>2, <1>3, <1>4, <1>5, <1>6 DEF Accounted
  <1>8. Received'
    BY <1>1, <1>3 DEF StreamInv, Received
  <1>9. ClientOK'
    BY <1>1, <1>2, <1>3 DEF StreamInv, ClientOK, Ended
  <1> QED
    BY <1>1, <1>2, <1>7, <1>8, <1>9 DEF StreamInv

\* The stream's response is there, or there is none (client.go:206).
LEMMA StreamMessageKeeps ==
    ASSUME StreamInv, StreamMessage
    PROVE  StreamInv'
  <1>1. client = "waiting" /\ UNCHANGED <<method, server, task, told, events, whole, reading, out, over, channel>>
    BY DEF StreamMessage, Go, Hangup, remote
  <1>2. ServerOK'
    BY <1>1, ServerStays DEF StreamInv
  <1>3. CASE client' = "next" /\ UNCHANGED <<linked, body, seen>> /\ body # <<>>
    <2>1. PICK read, unread : Accounted(read, unread)
      BY <1>1 DEF StreamInv, Failed, Torn
    <2>2. ~HasError(read)
      BY <1>1, <2>1, NothingDue DEF Accounted
    <2>3. (BodyHas(unread) => BodyHas(unread)') /\ (BodyLeft(unread) => BodyLeft(unread)')
      BY <1>1, <1>3 DEF BodyHas, BodyLeft, Refused, Ended, InBody
    <2>4. Accounted(read, unread)'
      BY <1>1, <1>3, <2>1, <2>2, <2>3 DEF Accounted
    <2>5. Received'
      BY <1>1, <1>3 DEF StreamInv, Received, Failed, Torn
    <2>6. ClientOK'
      BY <1>1, <1>3 DEF StreamInv, ClientOK, Ended
    <2> QED
      BY <1>1, <1>2, <2>4, <2>5, <2>6 DEF StreamInv
  <1>4. CASE client' = "closed" /\ linked' = FALSE /\ body' = <<>> /\ seen' = Failure
    <2>1. Failed'
      BY <1>1, <1>4 DEF StreamInv, ClientOK, Failed
    <2>2. ClientOK'
      BY <1>1, <1>4 DEF StreamInv, ClientOK
    <2> QED
      BY <1>1, <1>2, <2>1, <2>2 DEF StreamInv
  <1> QED
    BY <1>3, <1>4 DEF StreamMessage, Go, Hangup, Failure

\* readStream takes the next event from the body (client.go:226).
LEMMA ReadEventKeeps ==
    ASSUME StreamInv, ReadEvent
    PROVE  StreamInv'
  <1>w. DataLines(body) # {}
    <2>1. HasEvent(body) => DataLines(body) # {}
      BY NoEventWithoutData
    <2>2. NextEvent(body).ok => DataLines(body) # {}
      BY DEF NextEvent
    <2> QED
      BY <2>1, <2>2 DEF ReadEvent, Readable
  <1> DEFINE r == Read(NextEvent(body).data)
             rest == NextEvent(body).rest
  <1>1. /\ client = "next" /\ out' = r.out /\ over' = r.over
        /\ UNCHANGED <<method, server, task, told, events, whole, reading, channel, seen>>
    BY DEF ReadEvent, Go, Hangup, remote
  <1>2. IF r.out = <<>> /\ r.over THEN client' = "closed" /\ linked' = FALSE /\ body' = <<>>
        ELSE client' = (IF r.out = <<>> THEN "next" ELSE "send") /\ linked' = linked /\ body' = rest
    BY DEF ReadEvent, Go, Hangup
  <1> HIDE DEF r, rest
  <1>3. ServerOK' /\ (Ended' <=> Ended) /\ (Refused' <=> Refused) /\ \A u : InBody(u)' = InBody(u)
    BY <1>1, ServerStays DEF StreamInv
  <1>4. PICK read, unread : Accounted(read, unread)
    BY <1>1 DEF StreamInv, Failed, Torn
  <1>5. Received /\ out = <<>>
    BY <1>1 DEF StreamInv, Failed, Torn, ClientOK
  <1>6. IF linked \/ whole THEN BodyHas(unread) ELSE BodyLeft(unread)
    BY <1>1, <1>4 DEF Accounted
  <1>7. ~Refused
    BY <1>w, <1>6, EmptyBody DEF BodyHas, BodyLeft
  <1>8. /\ read \in Seq(StreamEvents) /\ unread \in Seq(StreamEvents) /\ ~HasError(read)
        /\ IF linked \/ whole THEN Carries(body, InBody(unread)) ELSE CutOff(body, InBody(unread))
    BY <1>1, <1>4, <1>6, <1>7 DEF Accounted, BodyHas, BodyLeft
  <1>9. InBody(unread) \in Seq(Data) /\ InBody(unread) # <<>>
    BY <1>w, <1>8, FirstInBody, EmptyBody
  <1>10. /\ NextEvent(body).data \in {Head(InBody(unread)), Junk}
         /\ linked \/ whole => NextEvent(body).data = Head(InBody(unread)) /\ Carries(rest, Tail(InBody(unread)))
         /\ ~(linked \/ whole) => CutOff(rest, Tail(InBody(unread)))
    <2>1. CASE linked \/ whole
      <3>1. NextEvent(body).data = Head(InBody(unread)) /\ Carries(NextEvent(body).rest, Tail(InBody(unread)))
        BY <1>8, <1>9, <2>1, NextIsFirst
      <3> QED
        BY <2>1, <3>1 DEF rest
    <2>2. CASE ~(linked \/ whole)
      <3>1. /\ NextEvent(body).data \in {Head(InBody(unread)), Junk}
            /\ CutOff(NextEvent(body).rest, Tail(InBody(unread)))
        BY <1>w, <1>8, <1>9, <2>2, NextOfCutOff
      <3> QED
        BY <2>2, <3>1 DEF rest
    <2> QED
      BY <2>1, <2>2
  <1>11. seen \o channel \in Seq(ShownEvent) /\ seen \o channel = DueOf(read)
    <2>1. seen \o channel \in Seq(ShownEvent)
      BY <1>5, ConcatProperties DEF Received
    <2>2. (seen \o channel) \o out = seen \o channel
      BY <1>5, <2>1, ConcatEmptySeq
    <2> QED
      BY <1>4, <2>1, <2>2 DEF Accounted
  <1>j. CASE NextEvent(body).data = Junk /\ ~(linked \/ whole)
    <2>1. r.out = <<ParseError>> /\ r.over = TRUE
      BY <1>j DEF r, Read, Junk
    <2>2. client' = "send" /\ linked' = linked /\ out' = <<ParseError>> /\ over' = TRUE
      BY <1>1, <1>2, <2>1
    <2>3. ParseError \in ShownEvent /\ <<ParseError>> \in Seq(ShownEvent)
      BY DEF ParseError, ShownEvent
    <2>4. (seen' \o channel') \o out' = Append(DueOf(read), ParseError)
      <3>1. (seen \o channel) \o <<ParseError>> = Append(seen \o channel, ParseError)
        BY <1>11, <2>3, AppendIsConcat
      <3> QED
        BY <1>1, <1>11, <2>2, <3>1
    <2>5. GotAndError(read, unread \o events)'
      <3>1. events \in Seq(StreamEvents) /\ told = (read \o unread) \o events
        BY <1>4 DEF StreamInv, ServerOK, Accounted
      <3>2. told = read \o (unread \o events) /\ unread \o events \in Seq(StreamEvents)
        BY <1>8, <3>1, ConcatAssociative, ConcatProperties
      <3> HIDE DEF r
      <3> QED
        BY <1>1, <1>8, <2>4, <3>2 DEF GotAndError
    <2>6. Received'
      BY <1>1, <1>5, <2>2, <2>3 DEF Received
    <2>7. Torn'
      <3>1. \E x, y : GotAndError(x, y)'
        BY <2>5
      <3> QED
        BY <1>1, <1>j, <2>2, <2>6, <3>1 DEF Torn
    <2>8. ClientOK'
      BY <1>1, <1>j, <2>2 DEF StreamInv, ClientOK
    <2> QED
      BY <1>1, <1>3, <2>7, <2>8 DEF StreamInv
  <1>k. CASE ~(NextEvent(body).data = Junk /\ ~(linked \/ whole)) /\ unread = <<>>
    <2>1. Ended /\ NextEvent(body).data = LastData
      BY <1>8, <1>9, <1>10, <1>k, FirstInBody
    <2>2. r.out = <<>> /\ r.over = TRUE
      BY <2>1 DEF r, Read, LastData
    <2>3. client' = "closed" /\ linked' = FALSE /\ body' = <<>> /\ out' = <<>> /\ over' = TRUE
      BY <1>1, <1>2, <2>2
    <2>4. Accounted(read, unread)'
      BY <1>1, <1>3, <1>4, <1>5, <1>k, <2>1, <2>3 DEF Accounted
    <2>5. Received' /\ ClientOK'
      BY <1>1, <1>5, <2>3 DEF StreamInv, ClientOK, Received
    <2> QED
      BY <1>1, <1>3, <2>4, <2>5 DEF StreamInv
  <1>13. CASE ~(NextEvent(body).data = Junk /\ ~(linked \/ whole)) /\ unread # <<>>
    <2>1. PICK e \in StreamEvents : e = Head(unread)
      BY <1>8, <1>13, HandOn
    <2>2. PICK left \in Seq(StreamEvents) : left = Tail(unread)
      BY <1>8, <1>13, HandOn
    <2>3. PICK now \in Seq(StreamEvents) : now = Append(read, e)
      BY <1>8, <2>1, AppendProperties
    <2>4. /\ NextEvent(body).data = Encoded(e)
          /\ IF linked \/ whole THEN Carries(rest, InBody(left)) ELSE CutOff(rest, InBody(left))
      BY <1>8, <1>10, <1>13, <2>1, <2>2, FirstInBody
    <2>5. /\ r.out = Shown(e) /\ (r.over <=> e.type = "error") /\ r.out \in Seq(ShownEvent)
          /\ r.over => r.out # <<>>
      <3>1. /\ r.out = Shown(e) /\ (r.over <=> e.type = "error") /\ Shown(e) \in Seq(ShownEvent)
            /\ e.type = "error" => Len(Shown(e)) = 1
        BY <2>4, ReadShows DEF r
      <3>2. \A s : Len(s) # 0 => s # <<>>
        OBVIOUS
      <3>3. Len(Shown(e)) = 1 => Len(Shown(e)) # 0
        OBVIOUS
      <3> QED
        BY <3>1, <3>2, <3>3, Zenon
    <2>6. r.over \in BOOLEAN
      <3>1. \A d : Read(d).over \in BOOLEAN
        <4> SUFFICES ASSUME NEW d PROVE Read(d).over \in BOOLEAN
          OBVIOUS
        <4>1. CASE d.type = "[DONE]"
          BY <4>1 DEF Read
        <4>2. CASE d.type = "error"
          BY <4>2 DEF Read
        <4>3. CASE d.type = "junk"
          BY <4>3 DEF Read
        <4>4. CASE d.type # "[DONE]" /\ d.type # "error" /\ d.type # "junk"
          BY <4>4 DEF Read
        <4> QED
          BY <4>1, <4>2, <4>3, <4>4
      <3> QED
        BY <3>1 DEF r
    <2>7. /\ client' = (IF r.out = <<>> THEN "next" ELSE "send") /\ linked' = linked /\ body' = rest
      BY <1>2, <2>5
    <2>8. DueOf(now) = DueOf(read) \o Shown(e) /\ (HasError(now) <=> e.type = "error")
      BY <1>8, <2>1, <2>3, DueOneMore
    <2>9. now \o left = read \o unread
      BY <1>8, <1>13, <2>1, <2>2, <2>3, HandOn
    <2>10. IF linked' \/ whole' THEN BodyHas(left)' ELSE BodyLeft(left)'
      <3>1. linked \/ whole => BodyHas(left)'
        BY <1>3, <1>7, <2>4, <2>7 DEF BodyHas
      <3>2. ~(linked \/ whole) => BodyLeft(left)'
        BY <1>3, <1>7, <2>4, <2>7 DEF BodyLeft
      <3> QED
        BY <1>1, <2>7, <3>1, <3>2
    <2>11. (seen' \o channel') \o out' = DueOf(now)
      BY <1>1, <1>11, <2>5, <2>8
    <2>12. /\ client' \in {"next", "send"}
           /\ client' = "next" => ~HasError(now)
           /\ client' = "send" => (over' <=> HasError(now))
      BY <1>1, <2>5, <2>7, <2>8
    <2>13. Accounted(now, left)'
      <3>1. told' = (now \o left) \o events'
        BY <1>1, <1>4, <2>9 DEF Accounted
      <3> QED
        BY <2>2, <2>3, <2>10, <2>11, <2>12, <3>1 DEF Accounted
    <2>14. Received'
      BY <1>1, <1>5, <2>5 DEF Received
    <2>15. ClientOK'
      <3>1. client' # "send" => out' = <<>>
        BY <1>1, <2>7
      <3>2. over' \in BOOLEAN
        BY <1>1, <2>6
      <3> QED
        BY <1>1, <1>3, <2>7, <2>12, <3>1, <3>2 DEF StreamInv, ClientOK
    <2> QED
      BY <1>1, <1>3, <2>13, <2>14, <2>15 DEF StreamInv
  <1> QED
    BY <1>j, <1>k, <1>13

\* The body is over (client.go:236).
LEMMA EndOfBodyKeeps ==
    ASSUME StreamInv, EndOfBody
    PROVE  StreamInv'
  <1>1. /\ client = "next" /\ ~HasEvent(body) /\ (Ended \/ ~linked)
        /\ client' = "closed" /\ linked' = FALSE /\ body' = <<>>
        /\ UNCHANGED <<method, server, task, told, events, whole, reading, out, over, channel, seen>>
    BY DEF EndOfBody, Hangup, remote, Ended, NoMore, Readable
  <1>2. ServerOK' /\ (Ended' <=> Ended)
    BY <1>1, ServerStays DEF StreamInv
  <1>3. PICK read, unread : Accounted(read, unread)
    BY <1>1 DEF StreamInv, Failed, Torn
  <1>4. whole => Ended /\ unread = <<>>
    <2>1. whole => Ended
      BY <1>1 DEF StreamInv, ClientOK
    <2> QED
      BY <1>1, <1>3, <2>1, EndInBody
  <1>5. Accounted(read, unread)'
    BY <1>1, <1>2, <1>3, <1>4 DEF Accounted
  <1>6. Received' /\ ClientOK'
    BY <1>1 DEF StreamInv, Failed, Torn, Received, ClientOK
  <1> QED
    BY <1>1, <1>2, <1>5, <1>6 DEF StreamInv

\* The event read goes to the reader's channel, and an error ends the reading.
LEMMA SendKeeps ==
    ASSUME StreamInv, Send
    PROVE  StreamInv'
  <1>1. /\ client = "send" /\ channel' = channel \o out /\ out' = <<>>
        /\ IF over THEN client' = "closed" /\ linked' = FALSE /\ body' = <<>>
           ELSE client' = "next" /\ linked' = linked /\ body' = body
        /\ UNCHANGED <<method, server, task, told, events, whole, reading, over, seen>>
    BY DEF Send, Go, Hangup, remote
  <1>2. ServerOK' /\ (Ended' <=> Ended) /\ (Refused' <=> Refused) /\ \A u : InBody(u)' = InBody(u)
    BY <1>1, ServerStays DEF StreamInv
  <1>4. seen \in Seq(ShownEvent) /\ channel \in Seq(ShownEvent) /\ out \in Seq(ShownEvent)
    BY <1>1 DEF StreamInv, Failed, Torn, Received
  <1>5. channel' \in Seq(ShownEvent) /\ out' \in Seq(ShownEvent)
    BY <1>1, <1>4, ConcatProperties
  <1>6. (seen' \o channel') \o out' = (seen \o channel) \o out
    <2>1. seen \o (channel \o out) = (seen \o channel) \o out
      BY <1>4, ConcatAssociative
    <2>2. seen \o channel' \in Seq(ShownEvent)
      BY <1>4, <1>5, ConcatProperties
    <2>3. (seen \o channel') \o <<>> = seen \o channel'
      BY <2>2, ConcatEmptySeq
    <2>4. seen' = seen /\ out' = <<>>
      BY <1>1
    <2>5. seen \o channel' = (seen \o channel) \o out
      BY <1>1, <2>1
    <2> QED
      BY <2>3, <2>4, <2>5
  <1>7. Received' /\ ClientOK'
    <2>1. client' \in {"next", "closed"} /\ (client' = "closed" => linked' = FALSE /\ body' = <<>>)
          /\ (client' = "next" => linked' = linked)
      BY <1>1
    <2>2. Received'
      BY <1>1, <1>4, <1>5 DEF Received
    <2>3. whole' = whole /\ over' = over /\ out' = <<>> /\ (Ended' <=> Ended)
      BY <1>1, <1>2
    <2>4. (linked \in BOOLEAN /\ whole \in BOOLEAN /\ over \in BOOLEAN)
          /\ (~linked /\ whole => client = "closed" \/ Ended) /\ (client = "closed" => ~linked /\ body = <<>>)
      BY DEF StreamInv, ClientOK
    <2>5. CASE client' = "closed"
      <3>1. linked' = FALSE /\ body' = <<>>
        BY <2>1, <2>5
      <3>2. ClientOK'
        BY <2>3, <2>4, <2>5, <3>1 DEF ClientOK
      <3> QED
        BY <2>2, <3>2
    <2>6. CASE client' = "next"
      <3>1. linked' = linked
        BY <2>1, <2>6
      <3>2. ClientOK'
        BY <1>1, <2>3, <2>4, <2>6, <3>1 DEF ClientOK
      <3> QED
        BY <2>2, <3>2
    <2> QED
      BY <2>1, <2>5, <2>6
  <1>8. CASE \E read, unread : Accounted(read, unread)
    <2>1. PICK read, unread : Accounted(read, unread)
      BY <1>8
    <2>2. over <=> HasError(read)
      BY <1>1, <2>1 DEF Accounted
    <2>3. client' # "closed" => IF linked' \/ whole' THEN BodyHas(unread)' ELSE BodyLeft(unread)'
      BY <1>1, <1>2, <2>1 DEF Accounted, BodyHas, BodyLeft
    <2>4. client' \in {"next", "closed"} /\ (client' = "next" => ~HasError(read)) /\ (client' = "closed" => HasError(read))
      BY <1>1, <2>2
    <2>5. (seen' \o channel') \o out' = DueOf(read)
      BY <1>6, <2>1 DEF Accounted
    <2>6. Accounted(read, unread)'
      BY <1>1, <2>1, <2>3, <2>4, <2>5 DEF Accounted
    <2> QED
      BY <1>1, <1>2, <1>7, <2>6 DEF StreamInv
  <1>9. CASE Torn
    <2>1. PICK read, rest : GotAndError(read, rest)
      BY <1>9 DEF Torn
    <2>2. GotAndError(read, rest)'
      BY <1>1, <1>6, <2>1 DEF GotAndError
    <2>3. \E x, y : GotAndError(x, y)'
      BY <2>2
    <2>4. client' = "closed" /\ ~linked' /\ ~whole'
      BY <1>1, <1>9 DEF Torn
    <2>5. Torn'
      BY <1>7, <2>3, <2>4 DEF Torn
    <2> QED
      BY <1>1, <1>2, <1>7, <2>5 DEF StreamInv
  <1> QED
    BY <1>1, <1>8, <1>9 DEF StreamInv, Failed

LEMMA ReceiveKeeps ==
    ASSUME StreamInv, Receive
    PROVE  StreamInv'
  <1>1. /\ channel # <<>> /\ seen' = Append(seen, Head(channel)) /\ channel' = Tail(channel)
        /\ UNCHANGED <<method, server, task, told, events, body, whole, linked, client, out, over, reading>>
    BY DEF Receive, remote
  <1>2. ServerOK' /\ (Ended' <=> Ended) /\ (Refused' <=> Refused) /\ \A u : InBody(u)' = InBody(u)
    BY <1>1, ServerStays DEF StreamInv
  <1>3. seen \in Seq(ShownEvent) /\ channel \in Seq(ShownEvent) /\ out \in Seq(ShownEvent)
    BY <1>1 DEF StreamInv, Failed, Torn, Received
  <1>4. seen' \in Seq(ShownEvent) /\ channel' \in Seq(ShownEvent) /\ seen' \o channel' = seen \o channel
    BY <1>1, <1>3, HandOn, AppendProperties
  <1>5. (seen' \o channel') \o out' = (seen \o channel) \o out
    BY <1>1, <1>4
  <1>6. Received'
    BY <1>1, <1>3, <1>4 DEF Received
  <1>7. ClientOK'
    BY <1>1, <1>2 DEF StreamInv, ClientOK
  <1>8. CASE \E read, unread : Accounted(read, unread)
    <2>1. PICK read, unread : Accounted(read, unread)
      BY <1>8
    <2>2. client' # "closed" => IF linked' \/ whole' THEN BodyHas(unread)' ELSE BodyLeft(unread)'
      BY <1>1, <1>2, <2>1 DEF Accounted, BodyHas, BodyLeft
    <2>3. (seen' \o channel') \o out' = DueOf(read)
      BY <1>5, <2>1 DEF Accounted
    <2>4. Accounted(read, unread)'
      BY <1>1, <1>2, <2>1, <2>2, <2>3 DEF Accounted
    <2> QED
      BY <1>1, <1>2, <1>6, <1>7, <2>4 DEF StreamInv
  <1>9. CASE Torn
    <2>1. PICK read, rest : GotAndError(read, rest)
      BY <1>9 DEF Torn
    <2>2. GotAndError(read, rest)'
      BY <1>1, <1>5, <2>1 DEF GotAndError
    <2>3. \E x, y : GotAndError(x, y)'
      BY <2>2
    <2>4. Torn'
      BY <1>1, <1>6, <1>9, <2>3 DEF Torn
    <2> QED
      BY <1>1, <1>2, <1>6, <1>7, <2>4 DEF StreamInv
  <1> QED
    BY <1>1, <1>8, <1>9 DEF StreamInv, Failed

-----------------------------------------------------------------------------
(* The invariant of a call. *)

Response(a) == IF a.type = "error" THEN WriteError(a) ELSE Result({"status"})

Got(response) == <<[type |-> response.type, code |-> response.code]>>

\* The one answer to a call, as it is said and as it is written.
Answered(response) ==
    \/ told = <<>> /\ response = RPCError("refused")
    \/ \E a \in Answers : told = <<a>> /\ response = Response(a)

CallInv ==
    /\ method # "message/stream"
    /\ client \in {"waiting", "closed"} /\ channel = <<>>
    /\ server \in {"dispatch", "returned"} /\ task # "running"
    /\ server = "dispatch" => told = <<>> /\ body = <<>>
    /\ server = "returned" => \E response : Answered(response) /\ body \in {<<>>, <<Line("json", response)>>}
    /\ client = "closed" =>
         seen = Failure \/ (server = "returned" /\ \E response : Answered(response) /\ seen = Got(response))

\* The server answers a call once (server.go:72, server.go:171).
LEMMA AnswerKeeps ==
    ASSUME CallInv, NEW response, server = "dispatch", Respond(response), Answered(response)',
           task' # "running"
    PROVE  CallInv'
  <1>1. /\ server' = "returned" /\ UNCHANGED <<method, client, channel, seen>>
        /\ body' = IF linked THEN body \o <<Line("json", response)>> ELSE body
    BY DEF Respond, Write, local
  <1>2. body = <<>> /\ (client = "closed" => seen = Failure)
    BY DEF CallInv
  <1>3. <<>> \o <<Line("json", response)>> = <<Line("json", response)>>
    OBVIOUS
  <1>4. body' \in {<<>>, <<Line("json", response)>>}
    BY <1>1, <1>2, <1>3
  <1> QED
    BY <1>1, <1>2, <1>4 DEF CallInv

\* The client takes the answer, or reports that there is none (client.go:171).
LEMMA CallEndsKeeps ==
    ASSUME CallInv, CallEnds
    PROVE  CallInv'
  <1>1. /\ client = "waiting" /\ client' = "closed" /\ body' = <<>>
        /\ UNCHANGED <<method, server, task, told, channel>>
        /\ \/ body # <<>> /\ seen' = <<[type |-> body[1].value.type, code |-> body[1].value.code]>>
           \/ seen' = Failure
    BY DEF CallEnds, Hangup, remote, Failure
  <1>2. \A response : Answered(response)' <=> Answered(response)
    BY <1>1 DEF Answered
  <1>3. server = "returned" => \E response : Answered(response) /\ body \in {<<>>, <<Line("json", response)>>}
    BY DEF CallInv
  <1>4. ASSUME seen' # Failure
        PROVE  server = "returned" /\ \E response : Answered(response) /\ seen' = Got(response)
    <2>1. body # <<>> /\ server = "returned"
      BY <1>1, <1>4 DEF CallInv
    <2>2. PICK response : Answered(response) /\ body = <<Line("json", response)>>
      BY <1>3, <2>1
    <2>3. body[1].value = response
      BY <2>2 DEF Line
    <2>4. seen' = Got(response)
      BY <1>1, <1>4, <2>3 DEF Got
    <2> QED
      BY <2>1, <2>2, <2>4
  <1>5. server' = "returned" => \E response : Answered(response)' /\ body' \in {<<>>, <<Line("json", response)>>}
    BY <1>1, <1>2, <1>3
  <1>6. seen' = Failure \/ (server' = "returned" /\ \E response : Answered(response)' /\ seen' = Got(response))
    BY <1>1, <1>2, <1>4
  <1>7. server' = "dispatch" => told' = <<>> /\ body' = <<>>
    BY <1>1 DEF CallInv
  <1> QED
    BY <1>1, <1>5, <1>6, <1>7 DEF CallInv

\* Of one answer all is left, or nothing.
LEMMA RemainsOfLittle ==
    /\ \A left \in Remains(<<>>) : left = <<>>
    /\ \A v : \A left \in Remains(<<Line("json", v)>>) : left \in {<<>>, <<Line("json", v)>>}
  <1>1. ASSUME NEW left \in Remains(<<>>) PROVE left = <<>>
    <2>1. DataLines(<<>>) = {}
      BY DEF DataLines
    <2>2. PICK n \in 0..Len(<<>>) : left = SubSeq(<<>>, 1, n)
      BY <2>1 DEF Remains
    <2>3. n = 0
      BY <2>2
    <2> QED
      BY <2>2, <2>3, SubSeqEmpty
  <1>2. ASSUME NEW v, NEW left \in Remains(<<Line("json", v)>>) PROVE left \in {<<>>, <<Line("json", v)>>}
    <2> DEFINE x == Line("json", v)
    <2>1. x.field # "data"
      BY DEF Line
    <2>a. <<Line("json", v)>> = <<x>>
      OBVIOUS
    <2> HIDE DEF x
    <2>2. DOMAIN <<x>> = {1} /\ <<x>>[1] = x /\ Len(<<x>>) = 1
      OBVIOUS
    <2>3. DataLines(<<x>>) = {}
      BY <2>1, <2>2 DEF DataLines
    <2>4. PICK n \in 0..Len(<<x>>) : left = SubSeq(<<x>>, 1, n)
      BY <2>3, <2>a DEF Remains
    <2>5. CASE n = 0
      BY <2>4, <2>5, SubSeqEmpty
    <2>6. CASE n = 1
      <3>1. left = <<x>>
        BY <2>4, <2>6, FirstOfOne
      <3> QED
        BY <3>1, <2>a
    <2> QED
      BY <2>2, <2>4, <2>5, <2>6
  <1> QED
    BY <1>1, <1>2

LEMMA CallStepKeeps ==
    ASSUME CallInv, Next
    PROVE  CallInv'
  <1>1. CASE Refuse
    <2>1. told = <<>> /\ told' = told /\ task' = task /\ server = "dispatch" /\ Respond(RPCError("refused"))
      BY <1>1 DEF Refuse, CallInv
    <2>2. Answered(RPCError("refused"))'
      BY <2>1 DEF Answered
    <2> QED
      BY <2>1, <2>2, AnswerKeeps DEF CallInv
  <1>2. ASSUME NEW a \in Answers, HandleCall(a) PROVE CallInv'
    <2>1. server = "dispatch" /\ task' = "done" /\ told' = <<a>> /\ Respond(Response(a))
      BY <1>2 DEF HandleCall, Response
    <2>2. Answered(Response(a))'
      BY <2>1 DEF Answered
    <2> QED
      BY <2>1, <2>2, AnswerKeeps
  <1>3. ~StartStream /\ ~Forward /\ ~WriteDone /\ ~Handle /\ ~StreamMessage
    BY DEF CallInv, StartStream, Forward, WriteDone, Handle, HandlerEnds, HandlerSends, StreamMessage
  <1>4. ~ReadEvent /\ ~EndOfBody /\ ~Send /\ ~Receive /\ ~StopReading
    BY DEF CallInv, ReadEvent, EndOfBody, Send, Receive, StopReading
  <1>5. CASE Disconnect
    <2>1. body' \in Remains(body) /\ UNCHANGED <<method, server, task, told, client, channel, seen>>
      BY <1>5 DEF Disconnect, remote, local
    <2>2. body = <<>> => body' = <<>>
      BY <2>1, RemainsOfLittle
    <2>3. \A response : body = <<Line("json", response)>> => body' \in {<<>>, <<Line("json", response)>>}
      BY <2>1, RemainsOfLittle
    <2>4. \A response : Answered(response)' <=> Answered(response)
      BY <2>1 DEF Answered
    <2>5. server' = "returned" => \E response : Answered(response)' /\ body' \in {<<>>, <<Line("json", response)>>}
      <3> SUFFICES ASSUME server = "returned"
                   PROVE  \E response : Answered(response)' /\ body' \in {<<>>, <<Line("json", response)>>}
        BY <2>1
      <3>1. PICK response : Answered(response) /\ body \in {<<>>, <<Line("json", response)>>}
        BY DEF CallInv
      <3> QED
        BY <2>2, <2>3, <2>4, <3>1
    <2>6. client' = "closed" =>
            seen' = Failure \/ (server' = "returned" /\ \E response : Answered(response)' /\ seen' = Got(response))
      BY <2>1, <2>4 DEF CallInv
    <2> QED
      BY <2>1, <2>2, <2>5, <2>6 DEF CallInv
  <1>6. CASE CallEnds
    BY <1>6, CallEndsKeeps
  <1> QED
    BY <1>1, <1>2, <1>3, <1>4, <1>5, <1>6 DEF Next, Serve, ReadOn

\* A step that none of this sees.
LEMMA UnseenStepKeeps ==
    ASSUME StreamInv,
           UNCHANGED <<method, server, task, told, events, body, whole, linked, client, out, over, channel, seen>>
    PROVE  StreamInv'
  <1>1. ServerOK'
    BY ServerStays DEF StreamInv
  <1>2. ASSUME NEW read, NEW unread, Accounted(read, unread) PROVE Accounted(read, unread)'
    BY <1>2 DEF Accounted, BodyHas, BodyLeft, Refused, Ended, InBody
  <1>3. (~linked => body' = body) /\ (Ended => Ended')
    BY DEF Ended
  <1> QED
    BY <1>1, <1>2, <1>3, ServerStepKeeps

LEMMA StreamStepKeeps ==
    ASSUME StreamInv, Next
    PROVE  StreamInv'
  <1>1. \A a \in Answers : ~HandleCall(a)
    BY DEF StreamInv, HandleCall
  <1>2. ~CallEnds
    BY DEF StreamInv, CallEnds
  <1>3. CASE Serve
    BY <1>1, <1>3, RefuseKeeps, StartStreamKeeps, ForwardKeeps, WriteDoneKeeps DEF Serve
  <1>4. CASE Handle
    BY <1>4, HandlerEndsKeeps, HandlerSendsKeeps DEF Handle
  <1>5. CASE Disconnect
    BY <1>5, DisconnectKeeps
  <1>6. CASE ReadOn
    BY <1>2, <1>6, StreamMessageKeeps, ReadEventKeeps, EndOfBodyKeeps, SendKeeps DEF ReadOn
  <1>7. CASE Receive
    BY <1>7, ReceiveKeeps
  <1>8. CASE StopReading
    <2>1. UNCHANGED <<method, server, task, told, events, body, whole, linked, client, out, over, channel, seen>>
      BY <1>8 DEF StopReading, remote, local
    <2> QED
      BY <2>1, UnseenStepKeeps
  <1> QED
    BY <1>3, <1>4, <1>5, <1>6, <1>7, <1>8 DEF Next

-----------------------------------------------------------------------------
Inv == StreamInv \/ CallInv

\* Front and Last take apart what Append put together.
LEMMA FrontOfAppend ==
    ASSUME NEW S, NEW s \in Seq(S), NEW e \in S
    PROVE  Append(s, e) # <<>> /\ Last(Append(s, e)) = e /\ Front(Append(s, e)) = s
  <1> DEFINE a == Append(s, e)
  <1>1. /\ a \in Seq(S) /\ Len(a) = Len(s) + 1 /\ a[Len(s) + 1] = e /\ a # <<>>
        /\ \A i \in 1..Len(s) : a[i] = s[i]
    BY AppendProperties
  <1>2. Len(s) \in Nat /\ Len(a) - 1 = Len(s)
    BY <1>1
  <1> HIDE DEF a
  <1>3. Last(a) = e
    BY <1>1 DEF Last
  <1>4. Front(a) = SubSeq(a, 1, Len(s))
    BY <1>2 DEF Front
  <1> DEFINE n == Len(s)
             f == SubSeq(a, 1, n)
  <1>5. n \in Nat /\ n \in Int /\ 1 \in Int /\ \A i \in 1..n : a[i] \in S
    BY <1>1, <1>2
  <1> HIDE DEF n
  <1>6. /\ f \in Seq(S) /\ Len(f) = (IF 1 <= n THEN n - 1 + 1 ELSE 0)
        /\ \A i \in 1..(n - 1 + 1) : f[i] = a[1 + i - 1]
    BY <1>5, SubSeqProperties
  <1> HIDE DEF f
  <1>7. Len(f) = n /\ \A i \in 1..n : f[i] = a[i]
    BY <1>5, <1>6
  <1>8. f = s
    BY <1>1, <1>6, <1>7, SeqEqual DEF n
  <1> QED
    BY <1>1, <1>3, <1>4, <1>8 DEF a, f, n

\* The invariant, through a call or a stream, over a connection that may break
\* (client.go:171, server.go:120).
THEOREM RequestInvariant == Spec => []Inv
  <1>1. Init => Inv
    <2> SUFFICES ASSUME Init PROVE Inv
      OBVIOUS
    <2>1. CASE method # "message/stream"
      BY <2>1 DEF Init, Inv, CallInv
    <2>2. CASE method = "message/stream"
      <3>1. ServerOK
        BY DEF Init, ServerOK, Ended
      <3>2. ClientOK
        BY DEF Init, ClientOK
      <3>3. Received
        BY DEF Init, Received
      <3>4. Accounted(<<>>, <<>>)
        <4>1. <<>> \in Seq(StreamEvents) /\ <<>> \o <<>> = <<>>
          OBVIOUS
        <4>2. ~Ended /\ ~Refused
          BY DEF Init, Ended, Refused
        <4>3. InBody(<<>>) = <<>>
          BY <4>1, <4>2, FirstInBody
        <4>4. BodyHas(<<>>)
          BY <4>2, <4>3, EmptyBody DEF Init, BodyHas
        <4> QED
          BY <4>1, <4>4, NothingDue DEF Init, Accounted
      <3> QED
        BY <2>2, <3>1, <3>2, <3>3, <3>4 DEF Inv, StreamInv
    <2> QED
      BY <2>1, <2>2
  <1>2. Inv /\ [Next]_vars => Inv'
    <2> SUFFICES ASSUME Inv, [Next]_vars PROVE Inv'
      OBVIOUS
    <2>1. CASE Next
      BY <2>1, StreamStepKeeps, CallStepKeeps DEF Inv
    <2>2. CASE UNCHANGED vars
      <3>1. /\ UNCHANGED <<method, server, task, told, events, body, whole, linked>>
            /\ UNCHANGED <<client, out, over, channel, seen, reading>>
        BY <2>2 DEF vars, remote, local
      <3>2. StreamInv => StreamInv'
        BY <3>1, UnseenStepKeeps
      <3>3. CallInv => CallInv'
        BY <3>1 DEF CallInv, Answered
      <3> QED
        BY <3>2, <3>3 DEF Inv
    <2> QED
      BY <2>1, <2>2
  <1> QED
    BY <1>1, <1>2, PTL DEF Spec

\* Of a stream the caller receives a prefix of what is due, in order, and all
\* of it over a connection that held; behind it nothing but, where the
\* connection broke inside an event, an error of the reader's own; of a call its one answer, with the code
\* it had (client.go:171, client.go:243), however long the stream and however
\* small the channels.
THEOREM AnswersAlwaysArrive == Spec => []AnswersArrive
  <1>1. StreamInv => AnswersArrive
    <2> SUFFICES ASSUME StreamInv, seen # Failure
                 PROVE  LET got == seen \o channel \o out IN
                          /\ IsPrefix(got, Due) \/ (~whole /\ TornOff(got))
                          /\ client = "closed" /\ whole /\ task = "done" => got = Due
      BY DEF AnswersArrive, StreamInv, Failure
    <2>t. CASE Torn
      <3> DEFINE got == (seen \o channel) \o out
      <3>1. PICK read, rest : GotAndError(read, rest)
        BY <2>t DEF Torn
      <3>2. /\ got = Append(DueOf(read), ParseError) /\ read \in Seq(StreamEvents) /\ rest \in Seq(StreamEvents)
            /\ IsPrefix(DueOf(read), Due)
        BY <3>1, DueGrows, DueIsDueOf DEF GotAndError
      <3>3. DueOf(read) \in Seq(ShownEvent) /\ ParseError \in ShownEvent
        <4>1. [type |-> "message", probe |-> {}] \in StreamEvents
          BY DEF StreamEvents
        <4>2. ParseError \in ShownEvent
          BY DEF ParseError, ShownEvent
        <4> QED
          BY <3>2, <4>1, <4>2, DueOneMore
      <3> HIDE DEF got
      <3>4. got # <<>> /\ Last(got) = ParseError /\ Front(got) = DueOf(read)
        BY <3>2, <3>3, FrontOfAppend
      <3>5. TornOff(got)
        BY <3>2, <3>4 DEF TornOff
      <3> QED
        BY <2>t, <3>5 DEF Torn, got
    <2> SUFFICES ASSUME ~Torn
                 PROVE  LET got == seen \o channel \o out IN
                          /\ IsPrefix(got, Due) \/ (~whole /\ TornOff(got))
                          /\ client = "closed" /\ whole /\ task = "done" => got = Due
      BY <2>t
    <2>1. PICK read, unread : Accounted(read, unread)
      BY DEF StreamInv, Failed
    <2> DEFINE rest == unread \o events
    <2>2. /\ read \in Seq(StreamEvents) /\ unread \in Seq(StreamEvents) /\ events \in Seq(StreamEvents)
          /\ (seen \o channel) \o out = DueOf(read) /\ told = (read \o unread) \o events
      BY <2>1 DEF StreamInv, ServerOK, Accounted
    <2>3. told = read \o rest /\ rest \in Seq(StreamEvents)
      BY <2>2, ConcatAssociative, ConcatProperties
    <2> HIDE DEF rest
    <2>4. IsPrefix(DueOf(read), DueOf(told)) /\ (HasError(read) => DueOf(told) = DueOf(read))
      BY <2>2, <2>3, DueGrows
    <2>5. ASSUME client = "closed", whole PROVE DueOf(read) = DueOf(told)
      <3>1. CASE HasError(read)
        BY <2>4, <3>1
      <3>2. CASE Ended /\ unread = <<>>
        <4>1. events = <<>>
          BY <3>2 DEF StreamInv, ServerOK
        <4>2. read \o <<>> = read
          BY <2>2, ConcatEmptySeq
        <4> QED
          BY <2>2, <3>2, <4>1, <4>2
      <3> QED
        BY <2>1, <2>5, <3>1, <3>2 DEF Accounted
    <2> QED
      BY <2>2, <2>4, <2>5, DueIsDueOf
  <1>2. CallInv => AnswersArrive
    <2> SUFFICES ASSUME CallInv, client = "closed"
                 PROVE  \/ seen[1].type = "result" /\ told # <<>> /\ told[1].type = "task"
                        \/ seen[1].type = "error" /\ told # <<>> /\ told[1].type = "error"
                           /\ seen[1].code = (IF told[1].code = "" THEN Internal ELSE told[1].code)
                        \/ seen[1] = [type |-> "error", code |-> "refused"] /\ told = <<>>
                        \/ seen[1].type = "failed"
      BY DEF CallInv, AnswersArrive
    <2>1. CASE seen = Failure
      BY <2>1 DEF Failure
    <2>2. ASSUME NEW response, told = <<>>, response = RPCError("refused"), seen = Got(response)
          PROVE  seen[1] = [type |-> "error", code |-> "refused"] /\ told = <<>>
      BY <2>2 DEF Got, RPCError
    <2>3. ASSUME NEW response, NEW a \in Answers, told = <<a>>, response = Response(a), seen = Got(response)
          PROVE  \/ seen[1].type = "result" /\ told # <<>> /\ told[1].type = "task"
                 \/ seen[1].type = "error" /\ told # <<>> /\ told[1].type = "error"
                    /\ seen[1].code = (IF told[1].code = "" THEN Internal ELSE told[1].code)
      <3>1. told # <<>> /\ told[1] = a /\ seen[1] = [type |-> response.type, code |-> response.code]
        BY <2>3 DEF Got
      <3>s. seen[1].type = response.type /\ seen[1].code = response.code
        BY <3>1
      <3>2. CASE a = [type |-> "task", code |-> ""]
        <4>1. a.type = "task" /\ response = Result({"status"})
          BY <2>3, <3>2 DEF Response
        <4>2. response.type = "result"
          BY <4>1 DEF Result
        <4>3. seen[1].type = "result" /\ told[1].type = "task"
          BY <3>1, <4>1, <4>2
        <4> QED
          BY <3>1, <4>3
      <3>3. CASE a = [type |-> "error", code |-> "not found"]
        <4>1. response = RPCError("not found")
          BY <2>3, <3>3 DEF Response, WriteError
        <4>2. response.type = "error" /\ response.code = "not found"
          BY <4>1 DEF RPCError
        <4>3. seen[1].type = "error" /\ seen[1].code = "not found"
          BY <3>s, <4>2, Zenon
        <4>4. a.type = "error" /\ a.code = "not found"
          BY <3>3
        <4>5. (IF a.code = "" THEN Internal ELSE a.code) = "not found"
          BY <4>4
        <4> QED
          BY <3>1, <4>3, <4>4, <4>5
      <3>4. CASE a = [type |-> "error", code |-> ""]
        <4>1. response = RPCError(Internal)
          BY <2>3, <3>4 DEF Response, WriteError
        <4>2. response.type = "error" /\ response.code = Internal
          BY <4>1 DEF RPCError
        <4>3. seen[1].type = "error" /\ seen[1].code = Internal
          BY <3>1, <4>2
        <4>4. a.type = "error" /\ a.code = ""
          BY <3>4
        <4>5. (IF a.code = "" THEN Internal ELSE a.code) = Internal
          BY <4>4
        <4> QED
          BY <3>1, <4>3, <4>4, <4>5
      <3> QED
        BY <3>2, <3>3, <3>4 DEF Answers
    <2> QED
      BY <2>1, <2>2, <2>3 DEF CallInv, Answered
  <1>3. Inv => AnswersArrive
    BY <1>1, <1>2 DEF Inv
  <1> QED
    BY <1>3, RequestInvariant, PTL
=============================================================================
