------------------------------ MODULE LLMProofs ------------------------------
(***************************************************************************)
(* Proofs about the providers: their stream readers, LLMStream, for any    *)
(* replies and any capacity of the channel, and the requests they build,   *)
(* LLMRequest, for any options.                                            *)
(***************************************************************************)
EXTENDS LLMStream, LLMRequest, SequenceLemmas, FiniteSetTheorems

-----------------------------------------------------------------------------
(* Sequences of whatever. *)

Sequence(s) == \E X : s \in Seq(X)

LEMMA SequenceFacts ==
    ASSUME NEW s, Sequence(s)
    PROVE  /\ Len(s) \in Nat /\ DOMAIN s = 1..Len(s)
           /\ s = [i \in 1..Len(s) |-> s[i]]
           /\ s = <<>> <=> Len(s) = 0
  <1>1. PICK X : s \in Seq(X)
    BY DEF Sequence
  <1> QED
    BY <1>1

LEMMA SequenceOf ==
    ASSUME NEW n \in Nat, NEW s, s = [i \in 1..n |-> s[i]]
    PROVE  Sequence(s) /\ Len(s) = n
  <1> DEFINE X == {s[i] : i \in 1..n}
  <1>1. \A i \in 1..n : s[i] \in X
    OBVIOUS
  <1> HIDE DEF X
  <1>2. s \in Seq(X) /\ Len(s) = n
    BY <1>1
  <1> QED
    BY <1>2 DEF Sequence

\* A function of the positions of a sequence is one.
LEMMA SequenceOver ==
    ASSUME NEW s, Sequence(s), NEW g, g = [i \in DOMAIN s |-> g[i]]
    PROVE  Sequence(g) /\ Len(g) = Len(s)
  <1>1. Len(s) \in Nat /\ DOMAIN s = 1..Len(s)
    BY SequenceFacts
  <1>2. g = [i \in 1..Len(s) |-> g[i]]
    BY <1>1
  <1> HIDE DEF Sequence
  <1> QED
    BY <1>1, <1>2, SequenceOf

LEMMA SequenceAppend ==
    ASSUME NEW s, Sequence(s), NEW x
    PROVE  /\ Sequence(Append(s, x)) /\ Len(Append(s, x)) = Len(s) + 1
           /\ Append(s, x)[Len(s) + 1] = x
           /\ \A i \in 1..Len(s) : Append(s, x)[i] = s[i]
  <1>1. PICK X : s \in Seq(X)
    BY DEF Sequence
  <1>2. s \in Seq(X \cup {x})
    BY <1>1
  <1>3. Append(s, x) \in Seq(X \cup {x})
    BY <1>2
  <1> QED
    BY <1>2, <1>3, AppendProperties DEF Sequence

LEMMA SequenceJoin ==
    ASSUME NEW s, NEW t, Sequence(s), Sequence(t)
    PROVE  /\ Sequence(s \o t) /\ Len(s \o t) = Len(s) + Len(t)
           /\ \A i \in 1..Len(s) : (s \o t)[i] = s[i]
           /\ \A i \in 1..Len(t) : (s \o t)[Len(s) + i] = t[i]
           /\ \A i \in 1..(Len(s) + Len(t)) :
                i \in 1..Len(s) \/ (i - Len(s) \in 1..Len(t) /\ (s \o t)[i] = t[i - Len(s)])
  <1>1. PICK X : s \in Seq(X)
    BY DEF Sequence
  <1>2. PICK Y : t \in Seq(Y)
    BY DEF Sequence
  <1>3. s \in Seq(X \cup Y) /\ t \in Seq(X \cup Y)
    BY <1>1, <1>2
  <1>4. s \o t \in Seq(X \cup Y) /\ Len(s \o t) = Len(s) + Len(t)
    BY <1>3
  <1>5. Len(s) \in Nat /\ Len(t) \in Nat
    BY <1>3
  <1>6. \A i \in 1..(Len(s) + Len(t)) : (s \o t)[i] = IF i <= Len(s) THEN s[i] ELSE t[i - Len(s)]
    BY <1>3
  <1>7. Sequence(s \o t)
    BY <1>4 DEF Sequence
  <1> QED
    BY <1>4, <1>5, <1>6, <1>7

LEMMA SequenceTail ==
    ASSUME NEW s, Sequence(s), s # <<>>
    PROVE  /\ Sequence(Tail(s)) /\ Len(Tail(s)) = Len(s) - 1
           /\ \A i \in 1..Len(Tail(s)) : Tail(s)[i] = s[i + 1]
           /\ Head(s) = s[1] /\ Len(s) \in Nat /\ Len(s) >= 1
  <1>1. PICK X : s \in Seq(X)
    BY DEF Sequence
  <1>2. Tail(s) \in Seq(X) /\ Len(Tail(s)) = Len(s) - 1
    BY <1>1
  <1>3. \A i \in 1..Len(Tail(s)) : Tail(s)[i] = s[i + 1]
    BY <1>1
  <1>4. Head(s) = s[1] /\ Len(s) \in Nat /\ Len(s) >= 1
    BY <1>1
  <1> QED
    BY <1>2, <1>3, <1>4 DEF Sequence

LEMMA SequenceOne ==
    ASSUME NEW x
    PROVE  Sequence(<<x>>) /\ Len(<<x>>) = 1 /\ <<x>>[1] = x /\ Sequence(<<>>) /\ Len(<<>>) = 0
  <1>1. <<x>> \in Seq({x}) /\ <<>> \in Seq({x})
    OBVIOUS
  <1> QED
    BY <1>1 DEF Sequence

-----------------------------------------------------------------------------
(* What a step of a reader hands on. *)

Silent(q) == Sequence(q) /\ \A i \in 1..Len(q) : ~Final(q[i])

\* The final event is the last of the last.
TellsEnd(q, last) ==
    /\ Sequence(q)
    /\ \A i \in 1..Len(q) : Final(q[i]) <=> (last /\ i = Len(q))
    /\ last => q # <<>>

SaysDone(q) == \E i \in 1..Len(q) : q[i].type = "done"

LEMMA SilentSteps ==
    ASSUME NEW q, Silent(q)
    PROVE  TellsEnd(q, FALSE) /\ ~SaysDone(q)
  BY DEF Silent, TellsEnd, SaysDone, Final

LEMMA EmptyIsSilent == Silent(<<>>)
  <1>1. Sequence(<<>>) /\ Len(<<>>) = 0
    BY SequenceOne
  <1> QED
    BY <1>1 DEF Silent

LEMMA OneIsSilent ==
    ASSUME NEW e, ~Final(e)
    PROVE  Silent(<<e>>)
  <1>1. Sequence(<<e>>) /\ Len(<<e>>) = 1 /\ <<e>>[1] = e
    BY SequenceOne
  <1>2. \A i \in 1..1 : i = 1
    OBVIOUS
  <1> HIDE DEF Sequence
  <1> QED
    BY <1>1, <1>2 DEF Silent

LEMMA JoinIsSilent ==
    ASSUME NEW p, NEW q, Silent(p), Silent(q)
    PROVE  Silent(p \o q)
  <1>1. Sequence(p) /\ Sequence(q) /\ Len(p) \in Nat /\ Len(q) \in Nat
    BY SequenceFacts DEF Silent
  <1>2. /\ Sequence(p \o q) /\ Len(p \o q) = Len(p) + Len(q)
        /\ \A i \in 1..Len(p) : (p \o q)[i] = p[i]
        /\ \A i \in 1..(Len(p) + Len(q)) :
             i \in 1..Len(p) \/ (i - Len(p) \in 1..Len(q) /\ (p \o q)[i] = q[i - Len(p)])
    BY <1>1, SequenceJoin
  <1>3. ASSUME NEW i \in 1..Len(p \o q) PROVE ~Final((p \o q)[i])
    BY <1>1, <1>2, <1>3 DEF Silent
  <1> QED
    BY <1>2, <1>3 DEF Silent

LEMMA WordsAreSilent ==
    /\ \A x : Silent(Content(x)) /\ Silent(Reasoning(x)) /\ Silent(Usage(x))
    /\ \A a, b, c, d : Silent(Delta(a, b, c, d))
  <1>1. \A x : Silent(Content(x))
    <2>1. \A x : ~Final(StreamEvent("content", x))
      BY DEF Final, StreamEvent
    <2> QED
      BY <2>1, EmptyIsSilent, OneIsSilent, Zenon DEF Content
  <1>2. \A x : Silent(Reasoning(x))
    <2>1. \A x : ~Final(StreamEvent("reasoning", x))
      BY DEF Final, StreamEvent
    <2> QED
      BY <2>1, EmptyIsSilent, OneIsSilent, Zenon DEF Reasoning
  <1>3. \A x : Silent(Usage(x))
    <2>1. ~Final(StreamEvent("", "usage"))
      BY DEF Final, StreamEvent
    <2> QED
      BY <2>1, EmptyIsSilent, OneIsSilent, Zenon DEF Usage
  <1>4. \A a, b, c, d : Silent(Delta(a, b, c, d))
    <2>1. \A v : ~Final(StreamEvent("tool_call_delta", v))
      BY DEF Final, StreamEvent
    <2> QED
      BY <2>1, OneIsSilent, Zenon DEF Delta
  <1> QED
    BY <1>1, <1>2, <1>3, <1>4

LEMMA CallsAreSilent ==
    ASSUME NEW calls, Sequence(calls)
    PROVE  Silent(Calls(calls))
  <1> DEFINE q == Calls(calls)
  <1>1. q = [i \in DOMAIN calls |-> StreamEvent("tool_call", calls[i])]
    BY DEF Calls
  <1>2. q = [i \in DOMAIN calls |-> q[i]]
    BY <1>1
  <1> HIDE DEF q
  <1>3. Sequence(q) /\ Len(q) = Len(calls) /\ DOMAIN calls = 1..Len(calls)
    BY <1>2, SequenceOver, SequenceFacts
  <1>4. \A i \in 1..Len(q) : q[i].type = "tool_call"
    BY <1>1, <1>3 DEF StreamEvent
  <1>5. \A i \in 1..Len(q) : ~Final(q[i])
    BY <1>4 DEF Final
  <1>6. Silent(q)
    BY <1>3, <1>5 DEF Silent
  <1> QED
    BY <1>6 DEF q

\* A silent sequence and a final event.
LEMMA EndsWith ==
    ASSUME NEW q, Silent(q), NEW e, Final(e)
    PROVE  /\ TellsEnd(q \o <<e>>, TRUE)
           /\ e.type # "done" => ~SaysDone(q \o <<e>>)
  <1> DEFINE s == q \o <<e>>
  <1>1. /\ Sequence(q) /\ Len(q) \in Nat /\ Sequence(<<e>>) /\ Len(<<e>>) = 1 /\ <<e>>[1] = e
    BY SequenceFacts, SequenceOne DEF Silent
  <1>2. /\ Sequence(s) /\ Len(s) = Len(q) + 1
        /\ \A i \in 1..Len(q) : s[i] = q[i]
        /\ \A i \in 1..1 : s[Len(q) + i] = <<e>>[i]
    BY <1>1, SequenceJoin
  <1>3. s[Len(q) + 1] = e
    <2>1. 1 \in 1..1
      OBVIOUS
    <2> QED
      BY <1>1, <1>2, <2>1
  <1> HIDE DEF s
  <1>4. ASSUME NEW i \in 1..Len(s)
        PROVE  i = Len(s) \/ (i \in 1..Len(q) /\ i # Len(s))
    BY <1>1, <1>2, <1>4
  <1>5. \A i \in 1..Len(s) : Final(s[i]) <=> i = Len(s)
    BY <1>2, <1>3, <1>4 DEF Silent
  <1>6. s # <<>>
    BY <1>1, <1>2, SequenceFacts
  <1>7. TellsEnd(s, TRUE)
    BY <1>2, <1>5, <1>6 DEF TellsEnd
  <1>8. ASSUME e.type # "done" PROVE ~SaysDone(s)
    <2>1. ASSUME NEW i \in 1..Len(s) PROVE s[i].type # "done"
      <3>1. CASE i = Len(s)
        BY <1>2, <1>3, <1>8, <3>1
      <3>2. CASE i # Len(s)
        BY <1>2, <1>4, <3>2 DEF Silent, Final
      <3> QED
        BY <3>1, <3>2
    <2> QED
      BY <2>1 DEF SaysDone
  <1> QED
    BY <1>7, <1>8 DEF s

LEMMA EndingsTell ==
    /\ TellsEnd(Done, TRUE) /\ TellsEnd(Error, TRUE) /\ ~SaysDone(Error)
    /\ \A c : Sequence(c) => TellsEnd(Calls(c) \o Done, TRUE)
  <1> DEFINE d == StreamEvent("done", "")
             x == StreamEvent("error", "")
  <1>1. Final(d) /\ Final(x) /\ x.type # "done" /\ Done = <<d>> /\ Error = <<x>>
    BY DEF Final, StreamEvent, Done, Error
  <1> HIDE DEF d, x
  <1>2. <<>> \o <<d>> = <<d>> /\ <<>> \o <<x>> = <<x>>
    <2>1. <<d>> \in Seq({d}) /\ <<x>> \in Seq({x})
      OBVIOUS
    <2> QED
      BY <2>1, ConcatEmptySeq
  <1>3. TellsEnd(<<>> \o <<d>>, TRUE) /\ TellsEnd(<<>> \o <<x>>, TRUE) /\ ~SaysDone(<<>> \o <<x>>)
    BY <1>1, EmptyIsSilent, EndsWith
  <1>4. \A c : Sequence(c) => TellsEnd(Calls(c) \o Done, TRUE)
    BY <1>1, CallsAreSilent, EndsWith
  <1> QED
    BY <1>1, <1>2, <1>3, <1>4

-----------------------------------------------------------------------------
(* The Compat reader. *)

LEMMA CompatWords ==
    /\ CompatD!Done = Done /\ CompatD!Error = Error
    /\ \A x : /\ CompatD!Content(x) = Content(x) /\ CompatD!Reasoning(x) = Reasoning(x)
              /\ CompatD!Usage(x) = Usage(x) /\ CompatD!Calls(x) = Calls(x)
    /\ \A a, b, c, d : CompatD!Delta(a, b, c, d) = Delta(a, b, c, d)
  BY DEF CompatD!Done, Done, CompatD!Error, Error, CompatD!Content, Content, CompatD!Reasoning, Reasoning,
         CompatD!Usage, Usage, CompatD!Calls, Calls, CompatD!Delta, Delta, CompatD!StreamEvent, StreamEvent

LEMMA MergedIsSequence ==
    ASSUME NEW pending, Sequence(pending), NEW p, p.index \in Nat
    PROVE  Sequence(CompatD!Merged(pending, p))
  <1> DEFINE n == IF p.index < Len(pending) THEN Len(pending) ELSE p.index + 1
             m == CompatD!Merged(pending, p)
  <1>1. n \in Nat
    BY SequenceFacts
  <1>2. m = [i \in 1..n |-> m[i]]
    BY DEF CompatD!Merged, CompatD!Grown
  <1> HIDE DEF n, m, Sequence
  <1>3. Sequence(m)
    BY <1>1, <1>2, SequenceOf
  <1> QED
    BY <1>3 DEF m

\* A chunk of a server holds a fragment of one call, or none.
LEMMA MergedAllIsSequence ==
    ASSUME NEW pending, Sequence(pending), NEW parts,
           parts = <<>> \/ \E p : parts = <<p>> /\ p.index \in Nat
    PROVE  Sequence(CompatD!MergedAll(pending, parts))
  <1> DEFINE Loop(f) == f = [n \in 0..Len(parts) |-> IF n = 0 THEN pending ELSE CompatD!Merged(f[n - 1], parts[n])]
             after   == CHOOSE f : Loop(f)
  <1>1. CompatD!MergedAll(pending, parts) = after[Len(parts)]
    BY DEF CompatD!MergedAll
  <1>2. Len(parts) \in {0, 1}
    OBVIOUS
  <1>3. Loop(after)
    <2> DEFINE g == [n \in 0..Len(parts) |-> IF n = 0 THEN pending ELSE CompatD!Merged(pending, parts[1])]
    <2>1. Loop(g)
      BY <1>2
    <2> HIDE DEF g, Loop
    <2> QED
      BY <2>1
  <1> HIDE DEF after
  <1>4. after[0] = pending
    BY <1>2, <1>3
  <1>5. Len(parts) = 1 => after[1] = CompatD!Merged(pending, parts[1])
    BY <1>2, <1>3, <1>4
  <1>6. Len(parts) = 1 => parts[1].index \in Nat
    OBVIOUS
  <1> HIDE DEF Loop, Sequence
  <1> QED
    BY <1>1, <1>2, <1>4, <1>5, <1>6, MergedIsSequence

LEMMA DeltasAreSilent ==
    ASSUME NEW parts, parts = <<>> \/ \E p : parts = <<p>>
    PROVE  Silent(CompatD!Deltas(parts))
  <1>1. \A s : CompatD!FlattenSeq(s) = FlattenSeq(s)
    BY Zenon DEF CompatD!FlattenSeq, FlattenSeq
  <1>2. CASE parts = <<>>
    <2>1. CompatD!Deltas(parts) = FlattenSeq(<<>>)
      BY <1>1, <1>2 DEF CompatD!Deltas
    <2> QED
      BY <2>1, FlattenOfNothing, EmptyIsSilent
  <1>3. ASSUME NEW p, parts = <<p>> PROVE Silent(CompatD!Deltas(parts))
    <2> DEFINE d == Delta(p.index, p.id, p.name, p.arguments)
    <2>1. CompatD!Deltas(parts) = CompatD!FlattenSeq([i \in DOMAIN parts |->
              Delta(parts[i].index, parts[i].id, parts[i].name, parts[i].arguments)])
      BY CompatWords DEF CompatD!Deltas
    <2>2. [i \in DOMAIN parts |-> Delta(parts[i].index, parts[i].id, parts[i].name, parts[i].arguments)] = <<d>>
      BY <1>3
    <2>3. CompatD!Deltas(parts) = d
      BY <1>1, <2>1, <2>2, FlattenOfOne
    <2> QED
      BY <2>3, WordsAreSilent
  <1> QED
    BY <1>2, <1>3

\* What a server of this dialect can have sent.
CompatSent(e) ==
    \/ e.type \in {"[DONE]", "junk"}
    \/ /\ e.type = "chunk" /\ e.choices \in BOOLEAN
       /\ e.calls = <<>> \/ \E p : e.calls = <<p>> /\ p.index \in Nat

\* What every reader makes of an event: the end is told with the last one.
Reads(r) == r.over \in BOOLEAN /\ TellsEnd(r.events, r.over)

LEMMA StepsRead ==
    ASSUME NEW state, NEW q
    PROVE  /\ Silent(q) => Reads(CompatD!Go(state, q)) /\ Reads(AnthropicD!Go(state, q))
                           /\ Reads(BedrockD!Go(state, q)) /\ Reads(GeminiD!Go(state, q))
                           /\ Reads(ResponsesD!Go(state, q))
           /\ TellsEnd(q, TRUE) => Reads(CompatD!Return(state, q)) /\ Reads(AnthropicD!Return(state, q))
                           /\ Reads(BedrockD!Return(state, q)) /\ Reads(GeminiD!Return(state, q))
                           /\ Reads(ResponsesD!Return(state, q))
  <1>1. Silent(q) => TellsEnd(q, FALSE)
    BY SilentSteps
  <1> QED
    BY <1>1 DEF Reads, CompatD!Go, AnthropicD!Go, BedrockD!Go, GeminiD!Go, ResponsesD!Go,
                CompatD!Return, AnthropicD!Return, BedrockD!Return, GeminiD!Return, ResponsesD!Return

LEMMA CompatReads ==
    ASSUME NEW s, Sequence(s), NEW e, CompatSent(e)
    PROVE  LET r == CompatD!ReadStream(s, e) IN Sequence(r.state) /\ Reads(r)
  <1> DEFINE r == CompatD!ReadStream(s, e)
  <1>1. CASE e.type = "[DONE]"
    <2>1. r = CompatD!Return(s, Calls(s) \o Done)
      BY <1>1, CompatWords DEF CompatD!ReadStream
    <2>2. TellsEnd(Calls(s) \o Done, TRUE)
      BY EndingsTell
    <2>3. r.state = s
      BY <2>1 DEF CompatD!Return
    <2> HIDE DEF r
    <2> QED
      BY <2>1, <2>2, <2>3, StepsRead DEF r
  <1>2. CASE e.type = "junk"
    <2>1. r = CompatD!Return(s, Error)
      BY <1>2, CompatWords DEF CompatD!ReadStream
    <2>2. r.state = s
      BY <2>1 DEF CompatD!Return
    <2> HIDE DEF r
    <2> QED
      BY <2>1, <2>2, EndingsTell, StepsRead DEF r
  <1>3. CASE e.type = "chunk" /\ e.choices = FALSE
    <2>1. r = CompatD!Go(s, <<>>)
      BY <1>3 DEF CompatD!ReadStream
    <2>2. r.state = s
      BY <2>1 DEF CompatD!Go
    <2> HIDE DEF r
    <2> QED
      BY <2>1, <2>2, EmptyIsSilent, StepsRead DEF r
  <1>4. CASE e.type = "chunk" /\ e.choices = TRUE /\ (e.calls = <<>> \/ \E p : e.calls = <<p>> /\ p.index \in Nat)
    <2> DEFINE u == e.usage /\ e.finish \in {"stop", "tool_calls"}
               t == CompatD!MergedAll(s, e.calls)
               q == Reasoning(e.reasoning) \o Content(e.content) \o CompatD!Deltas(e.calls) \o Usage(u)
    <2>1. r = CompatD!Go(t, q)
      BY <1>4, CompatWords DEF CompatD!ReadStream
    <2>2. Silent(CompatD!Deltas(e.calls))
      BY <1>4, DeltasAreSilent
    <2>3. Silent(Reasoning(e.reasoning)) /\ Silent(Content(e.content)) /\ Silent(Usage(u))
      BY WordsAreSilent
    <2>4. Silent(q)
      <3>1. Silent(Reasoning(e.reasoning) \o Content(e.content))
        BY <2>3, JoinIsSilent
      <3>2. Silent((Reasoning(e.reasoning) \o Content(e.content)) \o CompatD!Deltas(e.calls))
        BY <3>1, <2>2, JoinIsSilent
      <3> QED
        BY <3>2, <2>3, JoinIsSilent
    <2>5. Sequence(t)
      BY <1>4, MergedAllIsSequence
    <2> HIDE DEF q, r, t
    <2>6. r.state = t
      BY <2>1 DEF CompatD!Go
    <2> QED
      BY <2>1, <2>4, <2>5, <2>6, StepsRead DEF r
  <1> QED
    BY <1>1, <1>2, <1>3, <1>4 DEF CompatSent

-----------------------------------------------------------------------------
(* The Anthropic reader. *)

LEMMA AnthropicWords ==
    /\ AnthropicD!Done = Done /\ AnthropicD!Error = Error
    /\ \A x : /\ AnthropicD!Content(x) = Content(x) /\ AnthropicD!Reasoning(x) = Reasoning(x)
              /\ AnthropicD!Usage(x) = Usage(x) /\ AnthropicD!Calls(x) = Calls(x)
    /\ \A a, b, c, d : AnthropicD!Delta(a, b, c, d) = Delta(a, b, c, d)
  BY DEF AnthropicD!Done, Done, AnthropicD!Error, Error, AnthropicD!Content, Content, AnthropicD!Reasoning,
         Reasoning, AnthropicD!Usage, Usage, AnthropicD!Calls, Calls, AnthropicD!Delta, Delta,
         AnthropicD!StreamEvent, StreamEvent

AnthropicSent(e) ==
    e.type = "content_block_delta" => e.delta \in {"thinking_delta", "text_delta", "input_json_delta"}

LEMMA AnthropicBlockReads ==
    ASSUME NEW s, Sequence(s)
    PROVE  /\ \A b : LET r == AnthropicD!BlockStarts(s, b) IN Sequence(r.state) /\ Reads(r)
           /\ \A x : \A d \in {"thinking_delta", "text_delta", "input_json_delta"} :
                LET r == AnthropicD!BlockGrows(s, d, x) IN Sequence(r.state) /\ Reads(r)
  <1>1. ASSUME NEW t, NEW q, Sequence(t), Silent(q)
        PROVE  LET r == AnthropicD!Go(t, q) IN Sequence(r.state) /\ Reads(r)
    <2>1. AnthropicD!Go(t, q).state = t
      BY DEF AnthropicD!Go
    <2> QED
      BY <1>1, <2>1, StepsRead
  <1>2. ASSUME NEW b
        PROVE  LET r == AnthropicD!BlockStarts(s, b) IN Sequence(r.state) /\ Reads(r)
    <2>1. CASE b.kind = "call"
      <3> DEFINE t == Append(s, AnthropicD!ToolCall(b.id, b.name, <<>>, AnthropicD!NoMetadata))
                 q == Delta(Len(s), b.id, b.name, <<>>)
      <3>1. Sequence(t) /\ Silent(q)
        BY SequenceAppend, WordsAreSilent
      <3>2. AnthropicD!BlockStarts(s, b) = AnthropicD!Go(t, q)
        BY <2>1, AnthropicWords DEF AnthropicD!BlockStarts
      <3> HIDE DEF t, q
      <3> QED
        BY <3>1, <3>2, <1>1
    <2>2. CASE b.kind # "call"
      <3>1. AnthropicD!BlockStarts(s, b) = AnthropicD!Go(s, <<>>)
        BY <2>2 DEF AnthropicD!BlockStarts
      <3> QED
        BY <3>1, <1>1, EmptyIsSilent
    <2> QED
      BY <2>1, <2>2
  <1>3. ASSUME NEW x
        PROVE  LET r == AnthropicD!BlockGrows(s, "thinking_delta", x) IN Sequence(r.state) /\ Reads(r)
    <2>1. AnthropicD!BlockGrows(s, "thinking_delta", x) = AnthropicD!Go(s, Reasoning(x))
      BY AnthropicWords DEF AnthropicD!BlockGrows
    <2> QED
      BY <2>1, <1>1, WordsAreSilent
  <1>4. ASSUME NEW x
        PROVE  LET r == AnthropicD!BlockGrows(s, "text_delta", x) IN Sequence(r.state) /\ Reads(r)
    <2>1. AnthropicD!BlockGrows(s, "text_delta", x) = AnthropicD!Go(s, Content(x))
      BY AnthropicWords DEF AnthropicD!BlockGrows
    <2> QED
      BY <2>1, <1>1, WordsAreSilent
  <1>5. ASSUME NEW x
        PROVE  LET r == AnthropicD!BlockGrows(s, "input_json_delta", x) IN Sequence(r.state) /\ Reads(r)
    <2>1. CASE s = <<>>
      <3>1. AnthropicD!BlockGrows(s, "input_json_delta", x) = AnthropicD!Go(s, <<>>)
        BY <2>1 DEF AnthropicD!BlockGrows
      <3> QED
        BY <3>1, <1>1, EmptyIsSilent
    <2>2. CASE s # <<>>
      <3> DEFINE t == [s EXCEPT ![Len(s)].arguments = @ \o x]
                 q == IF x = <<>> THEN <<>> ELSE Delta(Len(s) - 1, "", "", x)
      <3>1. AnthropicD!BlockGrows(s, "input_json_delta", x) = AnthropicD!Go(t, q)
        BY <2>2, AnthropicWords DEF AnthropicD!BlockGrows
      <3>2. Silent(q)
        BY EmptyIsSilent, WordsAreSilent, Zenon
      <3>3. t = [i \in DOMAIN s |-> t[i]]
        OBVIOUS
      <3> HIDE DEF t, q
      <3>4. Sequence(t)
        BY <3>3, SequenceOver
      <3> QED
        BY <3>1, <3>2, <3>4, <1>1
    <2> QED
      BY <2>1, <2>2
  <1> QED
    BY <1>2, <1>3, <1>4, <1>5

LEMMA AnthropicReads ==
    ASSUME NEW s, Sequence(s), NEW e, AnthropicSent(e)
    PROVE  LET r == AnthropicD!ReadStream(s, e) IN Sequence(r.state) /\ Reads(r)
  <1> DEFINE r == AnthropicD!ReadStream(s, e)
  <1>1. ASSUME NEW q, Silent(q), r = AnthropicD!Go(s, q)
        PROVE  Sequence(r.state) /\ Reads(r)
    <2> HIDE DEF r
    <2>1. r.state = s
      BY <1>1 DEF AnthropicD!Go
    <2> QED
      BY <1>1, <2>1, StepsRead
  <1>2. CASE e.type = "content_block_start"
    <2>1. r = AnthropicD!BlockStarts(s, e.block)
      BY <1>2 DEF AnthropicD!ReadStream
    <2> HIDE DEF r
    <2> QED
      BY <2>1, AnthropicBlockReads DEF r
  <1>3. CASE e.type = "content_block_delta"
    <2>1. r = AnthropicD!BlockGrows(s, e.delta, e.text)
      BY <1>3 DEF AnthropicD!ReadStream
    <2> HIDE DEF r
    <2> QED
      BY <1>3, <2>1, AnthropicBlockReads DEF r, AnthropicSent
  <1>4. CASE e.type = "message_delta"
    <2>1. r = AnthropicD!Go(s, Usage(e.usage))
      BY <1>4, AnthropicWords DEF AnthropicD!ReadStream
    <2> HIDE DEF r
    <2> QED
      BY <1>1, <2>1, WordsAreSilent DEF r
  <1>5. CASE e.type = "message_stop"
    <2>1. r = AnthropicD!Return(s, Calls(s) \o Done)
      BY <1>5, AnthropicWords DEF AnthropicD!ReadStream
    <2>2. TellsEnd(Calls(s) \o Done, TRUE)
      BY EndingsTell
    <2>3. r.state = s
      BY <2>1 DEF AnthropicD!Return
    <2> HIDE DEF r
    <2> QED
      BY <2>1, <2>2, <2>3, StepsRead DEF r
  <1>6. CASE e.type \notin {"content_block_start", "content_block_delta", "message_delta", "message_stop"}
    <2>1. r = AnthropicD!Go(s, <<>>)
      BY <1>6 DEF AnthropicD!ReadStream
    <2> HIDE DEF r
    <2> QED
      BY <1>1, <2>1, EmptyIsSilent DEF r
  <1> QED
    BY <1>2, <1>3, <1>4, <1>5, <1>6

-----------------------------------------------------------------------------
(* The Gemini reader, which keeps nothing. *)

LEMMA GeminiWords ==
    /\ GeminiD!Done = Done /\ GeminiD!Error = Error
    /\ \A x : /\ GeminiD!Content(x) = Content(x) /\ GeminiD!Reasoning(x) = Reasoning(x)
              /\ GeminiD!Usage(x) = Usage(x) /\ GeminiD!Calls(x) = Calls(x)
  BY DEF GeminiD!Done, Done, GeminiD!Error, Error, GeminiD!Content, Content, GeminiD!Reasoning,
         Reasoning, GeminiD!Usage, Usage, GeminiD!Calls, Calls, GeminiD!StreamEvent, StreamEvent

GeminiSent(e) ==
    \/ e.type = "junk"
    \/ /\ e.type = "chunk" /\ e.candidates \in BOOLEAN
       /\ e.parts = <<>> \/ \E b : e.parts = <<b>>

LEMMA PartsAreSilent ==
    ASSUME NEW parts, parts = <<>> \/ \E b : parts = <<b>>
    PROVE  Silent(GeminiD!FlattenSeq([i \in DOMAIN parts |-> GeminiD!PartEvents(parts[i])]))
  <1>1. \A q : GeminiD!FlattenSeq(q) = FlattenSeq(q)
    BY Zenon DEF GeminiD!FlattenSeq, FlattenSeq
  <1>2. CASE parts = <<>>
    <2>1. [i \in DOMAIN parts |-> GeminiD!PartEvents(parts[i])] = <<>>
      BY <1>2
    <2> QED
      BY <1>1, <2>1, FlattenOfNothing, EmptyIsSilent
  <1>3. ASSUME NEW b, parts = <<b>>
        PROVE  Silent(GeminiD!FlattenSeq([i \in DOMAIN parts |-> GeminiD!PartEvents(parts[i])]))
    <2>1. [i \in DOMAIN parts |-> GeminiD!PartEvents(parts[i])] = <<GeminiD!PartEvents(b)>>
      BY <1>3
    <2>2. GeminiD!FlattenSeq(<<GeminiD!PartEvents(b)>>) = GeminiD!PartEvents(b)
      BY <1>1, FlattenOfOne
    <2>3. CASE b.kind = "thinking"
      <3>1. GeminiD!PartEvents(b) = Reasoning(GeminiD!FlattenSeq(b.pieces))
        BY <2>3, GeminiWords DEF GeminiD!PartEvents
      <3> QED
        BY <2>1, <2>2, <3>1, WordsAreSilent
    <2>4. CASE b.kind = "text"
      <3>1. GeminiD!PartEvents(b) = Content(GeminiD!FlattenSeq(b.pieces))
        BY <2>4, GeminiWords DEF GeminiD!PartEvents
      <3> QED
        BY <2>1, <2>2, <3>1, WordsAreSilent
    <2>5. CASE b.kind \notin {"thinking", "text"}
      <3>1. GeminiD!PartEvents(b) = Calls(<<GeminiD!Call(b)>>)
        BY <2>5, GeminiWords DEF GeminiD!PartEvents
      <3>2. Sequence(<<GeminiD!Call(b)>>)
        BY SequenceOne
      <3> QED
        BY <2>1, <2>2, <3>1, <3>2, CallsAreSilent
    <2> QED
      BY <2>3, <2>4, <2>5
  <1> QED
    BY <1>2, <1>3

LEMMA GeminiReads ==
    ASSUME NEW s, NEW e, GeminiSent(e)
    PROVE  Reads(GeminiD!ReadStream(s, e))
  <1>1. CASE e.type = "junk"
    <2>1. GeminiD!ReadStream(s, e) = GeminiD!Return(s, Error)
      BY <1>1, GeminiWords DEF GeminiD!ReadStream, GeminiD!Unparsable
    <2> QED
      BY <2>1, EndingsTell, StepsRead
  <1>2. CASE e.type = "chunk" /\ e.candidates = FALSE
    <2>1. GeminiD!ReadStream(s, e) = GeminiD!Go(s, <<>>)
      BY <1>2 DEF GeminiD!ReadStream
    <2> QED
      BY <2>1, EmptyIsSilent, StepsRead
  <1>3. CASE e.type = "chunk" /\ e.candidates = TRUE /\ (e.parts = <<>> \/ \E b : e.parts = <<b>>)
    <2> DEFINE u == e.finish = "STOP" /\ e.usage
               p == GeminiD!FlattenSeq([i \in DOMAIN e.parts |-> GeminiD!PartEvents(e.parts[i])])
    <2>1. GeminiD!ReadStream(s, e) = GeminiD!Go(s, p \o Usage(u))
      BY <1>3, GeminiWords DEF GeminiD!ReadStream
    <2>2. Silent(p) /\ Silent(Usage(u))
      BY <1>3, PartsAreSilent, WordsAreSilent
    <2> HIDE DEF p, u
    <2> QED
      BY <2>1, <2>2, JoinIsSilent, StepsRead
  <1> QED
    BY <1>1, <1>2, <1>3 DEF GeminiSent

-----------------------------------------------------------------------------
(* The Bedrock reader. *)

LEMMA BedrockWords ==
    /\ BedrockD!Done = Done /\ BedrockD!Error = Error
    /\ \A x : /\ BedrockD!Content(x) = Content(x) /\ BedrockD!Reasoning(x) = Reasoning(x)
              /\ BedrockD!Usage(x) = Usage(x) /\ BedrockD!Calls(x) = Calls(x)
    /\ \A a, b, c, d : BedrockD!Delta(a, b, c, d) = Delta(a, b, c, d)
  BY DEF BedrockD!Done, Done, BedrockD!Error, Error, BedrockD!Content, Content, BedrockD!Reasoning,
         Reasoning, BedrockD!Usage, Usage, BedrockD!Calls, Calls, BedrockD!Delta, Delta,
         BedrockD!StreamEvent, StreamEvent

BedrockState(s) == \E p, o : s = [pending |-> p, order |-> o] /\ Sequence(o)

TornFrame == [BedrockD!Frame("event", "", "") EXCEPT !.whole = FALSE]

BedrockSent(f) ==
    \/ f = TornFrame
    \/ f = BedrockD!Frame("exception", "", "")
    \/ \E event, payload : f = BedrockD!Frame("event", event, payload)

Says(m, message, event, payload) ==
    m.ok = TRUE /\ m.message = message /\ m.event = event /\ m.payload = payload

\* The headers of a frame say what it was made of.
LEMMA FrameDecodes ==
    ASSUME NEW message, NEW event, NEW payload
    PROVE  Says(BedrockD!Decode(BedrockD!Frame(message, event, payload)), message, event, payload)
  <1> DEFINE d == BedrockD!Header(":date", 8, "")
             t == BedrockD!Header(":message-type", 7, message)
             v == BedrockD!Header(":event-type", 7, event)
             h == <<d, t, v>>
  <1>0. /\ d.name = ":date" /\ d.type = 8
        /\ t.name = ":message-type" /\ t.type = 7 /\ t.value = message
        /\ v.name = ":event-type" /\ v.type = 7 /\ v.value = event
    BY Zenon DEF BedrockD!Header
  <1> HIDE DEF d, t, v
  <1>1. /\ DOMAIN h = 1..3
        /\ h[1].name = ":date" /\ h[1].type = 8
        /\ h[2].name = ":message-type" /\ h[2].type = 7 /\ h[2].value = message
        /\ h[3].name = ":event-type" /\ h[3].type = 7 /\ h[3].value = event
    BY <1>0
  <1>2. /\ BedrockD!Frame(message, event, payload).length = "ok"
        /\ BedrockD!Frame(message, event, payload).whole = TRUE
        /\ BedrockD!Frame(message, event, payload).payload = payload
        /\ BedrockD!Frame(message, event, payload).headers = h
    BY Zenon DEF BedrockD!Frame, BedrockD!StringType, d, t, v
  <1> HIDE DEF h
  <1>3. \A i \in 1..3 : i = 1 \/ i = 2 \/ i = 3
    OBVIOUS
  <1>4. BedrockD!HeadersParse(h)
    BY <1>1, <1>3 DEF BedrockD!HeadersParse, BedrockD!StringType, BedrockD!SkippedTypes
  <1>5. BedrockD!HeaderOf(h, ":message-type") = message
    <2> DEFINE at == {i \in DOMAIN h : h[i].name = ":message-type" /\ h[i].type = BedrockD!StringType}
    <2>1. at = {2}
      BY <1>1, <1>3 DEF BedrockD!StringType
    <2>2. BedrockD!HeaderOf(h, ":message-type")
            = IF at = {} THEN "" ELSE h[CHOOSE i \in at : \A j \in at : j <= i].value
      BY DEF BedrockD!HeaderOf
    <2>3. at # {} /\ (CHOOSE i \in at : \A j \in at : j <= i) = 2
      BY <2>1
    <2> HIDE DEF at
    <2> QED
      BY <1>1, <2>2, <2>3
  <1>6. BedrockD!HeaderOf(h, ":event-type") = event
    <2> DEFINE at == {i \in DOMAIN h : h[i].name = ":event-type" /\ h[i].type = BedrockD!StringType}
    <2>1. at = {3}
      BY <1>1, <1>3 DEF BedrockD!StringType
    <2>2. BedrockD!HeaderOf(h, ":event-type")
            = IF at = {} THEN "" ELSE h[CHOOSE i \in at : \A j \in at : j <= i].value
      BY DEF BedrockD!HeaderOf
    <2>3. at # {} /\ (CHOOSE i \in at : \A j \in at : j <= i) = 3
      BY <2>1
    <2> HIDE DEF at
    <2> QED
      BY <1>1, <2>2, <2>3
  <1> QED
    BY <1>2, <1>4, <1>5, <1>6 DEF BedrockD!Decode, Says

LEMMA BedrockBlockReads ==
    ASSUME NEW s, BedrockState(s), NEW p
    PROVE  /\ LET r == BedrockD!BlockStarts(s, p) IN BedrockState(r.state) /\ Reads(r)
           /\ LET r == BedrockD!BlockGrows(s, p) IN BedrockState(r.state) /\ Reads(r)
  <1>1. ASSUME NEW t, NEW q, BedrockState(t), Silent(q)
        PROVE  LET r == BedrockD!Go(t, q) IN BedrockState(r.state) /\ Reads(r)
    <2>1. BedrockD!Go(t, q).state = t
      BY DEF BedrockD!Go
    <2> QED
      BY <1>1, <2>1, StepsRead
  <1>2. PICK w, o : s = [pending |-> w, order |-> o] /\ Sequence(o)
    BY DEF BedrockState
  <1>3. LET r == BedrockD!BlockStarts(s, p) IN BedrockState(r.state) /\ Reads(r)
    <2>1. CASE p.call
      <3> DEFINE new == [call |-> BedrockD!ToolCall(p.id, p.name, <<>>, BedrockD!NoMetadata), position |-> Len(s.order)]
                 v   == BedrockD!@@(BedrockD!:>(p.index, new), s.pending)
                 t   == [pending |-> v, order |-> Append(o, p.index)]
                 q   == Delta(Len(s.order), p.id, p.name, <<>>)
      <3>1. BedrockD!BlockStarts(s, p) = BedrockD!Go(t, q)
        BY <1>2, <2>1, BedrockWords DEF BedrockD!BlockStarts
      <3>2. Silent(q)
        BY WordsAreSilent
      <3>3. Sequence(Append(o, p.index))
        BY <1>2, SequenceAppend
      <3> HIDE DEF v, q
      <3>4. BedrockState(t)
        BY <3>3 DEF BedrockState
      <3> HIDE DEF t
      <3> QED
        BY <3>1, <3>2, <3>4, <1>1
    <2>2. CASE ~p.call
      <3>1. BedrockD!BlockStarts(s, p) = BedrockD!Go(s, <<>>)
        BY <2>2 DEF BedrockD!BlockStarts
      <3> QED
        BY <3>1, <1>1, EmptyIsSilent
    <2> QED
      BY <2>1, <2>2
  <1>4. LET r == BedrockD!BlockGrows(s, p) IN BedrockState(r.state) /\ Reads(r)
    <2>1. CASE p.kind = "thinking"
      <3>1. BedrockD!BlockGrows(s, p) = BedrockD!Go(s, Reasoning(p.text))
        BY <2>1, BedrockWords DEF BedrockD!BlockGrows
      <3> QED
        BY <3>1, <1>1, WordsAreSilent
    <2>2. CASE p.kind = "text"
      <3>1. BedrockD!BlockGrows(s, p) = BedrockD!Go(s, Content(p.text))
        BY <2>2, BedrockWords DEF BedrockD!BlockGrows
      <3> QED
        BY <3>1, <1>1, WordsAreSilent
    <2>3. CASE p.kind \notin {"thinking", "text"} /\ ~(p.kind = "call" /\ p.index \in DOMAIN s.pending)
      <3>1. BedrockD!BlockGrows(s, p) = BedrockD!Go(s, <<>>)
        BY <2>3 DEF BedrockD!BlockGrows
      <3> QED
        BY <3>1, <1>1, EmptyIsSilent
    <2>4. CASE p.kind = "call" /\ p.index \in DOMAIN s.pending
      <3> DEFINE v == [s.pending EXCEPT ![p.index].call.arguments = @ \o p.text]
                 t == [s EXCEPT !.pending[p.index].call.arguments = @ \o p.text]
                 q == IF p.text = <<>> THEN <<>> ELSE Delta(s.pending[p.index].position, "", "", p.text)
      <3>1. BedrockD!BlockGrows(s, p) = BedrockD!Go(t, q)
        BY <2>4, BedrockWords DEF BedrockD!BlockGrows
      <3>2. Silent(q)
        BY EmptyIsSilent, WordsAreSilent, Zenon
      <3>3. t = [pending |-> v, order |-> o]
        BY <1>2
      <3> HIDE DEF v, q, t
      <3>4. BedrockState(t)
        BY <1>2, <3>3 DEF BedrockState
      <3> QED
        BY <3>1, <3>2, <3>4, <1>1
    <2> QED
      BY <2>1, <2>2, <2>3, <2>4
  <1> QED
    BY <1>3, <1>4

LEMMA BedrockReads ==
    ASSUME NEW s, BedrockState(s), NEW f, BedrockSent(f)
    PROVE  LET r == BedrockD!ReadStream(s, f) IN BedrockState(r.state) /\ Reads(r)
  <1> DEFINE r == BedrockD!ReadStream(s, f)
             m == BedrockD!Decode(f)
  <1>1. ASSUME NEW q, Silent(q), r = BedrockD!Go(s, q)
        PROVE  BedrockState(r.state) /\ Reads(r)
    <2> HIDE DEF r
    <2>1. r.state = s
      BY <1>1 DEF BedrockD!Go
    <2> QED
      BY <1>1, <2>1, StepsRead
  <1>2. ASSUME r = BedrockD!Return(s, Error)
        PROVE  BedrockState(r.state) /\ Reads(r)
    <2> HIDE DEF r
    <2>1. r.state = s
      BY <1>2 DEF BedrockD!Return
    <2> QED
      BY <1>2, <2>1, EndingsTell, StepsRead
  <1>3. CASE f = TornFrame
    <2>1. f.whole = FALSE
      BY <1>3 DEF TornFrame, BedrockD!Frame
    <2>2. m.ok = FALSE
      BY <2>1 DEF BedrockD!Decode
    <2>3. r = BedrockD!Return(s, Error)
      BY <2>2, BedrockWords DEF BedrockD!ReadStream
    <2> QED
      BY <1>2, <2>3
  <1>4. CASE f = BedrockD!Frame("exception", "", "")
    <2>0. Says(m, "exception", "", "")
      BY <1>4, FrameDecodes, Zenon
    <2>1. m.ok = TRUE /\ m.message = "exception" /\ m.event = ""
      BY <2>0, Zenon DEF Says
    <2> HIDE DEF m
    <2>2. r = BedrockD!ReadMessage(s, m)
      BY <2>1 DEF BedrockD!ReadStream, m
    <2>3. BedrockD!ReadMessage(s, m) = BedrockD!Return(s, Error)
      BY <2>1, BedrockWords DEF BedrockD!ReadMessage
    <2> QED
      BY <1>2, <2>2, <2>3
  <1>5. ASSUME NEW event, NEW payload, f = BedrockD!Frame("event", event, payload)
        PROVE  BedrockState(r.state) /\ Reads(r)
    <2>0. Says(m, "event", event, payload)
      BY <1>5, FrameDecodes, Zenon
    <2>1. m.ok = TRUE /\ m.message = "event" /\ m.event = event /\ m.payload = payload
      BY <2>0, Zenon DEF Says
    <2> HIDE DEF m
    <2>2. r = BedrockD!ReadMessage(s, m)
      BY <2>1 DEF BedrockD!ReadStream, m
    <2>3. CASE event = "contentBlockStart"
      <3>1. BedrockD!ReadMessage(s, m) = BedrockD!BlockStarts(s, payload)
        BY <2>1, <2>3 DEF BedrockD!ReadMessage
      <3> HIDE DEF r
      <3> QED
        BY <2>2, <3>1, BedrockBlockReads
    <2>4. CASE event = "contentBlockDelta"
      <3>1. BedrockD!ReadMessage(s, m) = BedrockD!BlockGrows(s, payload)
        BY <2>1, <2>4 DEF BedrockD!ReadMessage
      <3> HIDE DEF r
      <3> QED
        BY <2>2, <3>1, BedrockBlockReads
    <2>5. CASE event = "messageStop"
      <3> DEFINE t == [s EXCEPT !.order = <<>>]
                 q == Calls(BedrockD!Finished(s))
                 c == BedrockD!Finished(s)
      <3>1. BedrockD!ReadMessage(s, m) = BedrockD!Go(t, q)
        BY <2>1, <2>5, BedrockWords DEF BedrockD!ReadMessage
      <3>2. PICK p, o : s = [pending |-> p, order |-> o] /\ Sequence(o)
        BY DEF BedrockState
      <3>3. s.order = o
        BY <3>2
      <3>4. c = [i \in DOMAIN o |-> c[i]]
        BY <3>3 DEF BedrockD!Finished
      <3> HIDE DEF c
      <3>5. Sequence(c)
        BY <3>2, <3>4, SequenceOver
      <3>6. Silent(q)
        BY <3>5, CallsAreSilent DEF c
      <3>7. t = [pending |-> p, order |-> <<>>] /\ Sequence(<<>>)
        BY <3>2, EmptyIsSilent DEF Silent
      <3>8. BedrockState(t)
        BY <3>7 DEF BedrockState
      <3> HIDE DEF q, r, t
      <3>9. r.state = t
        BY <2>2, <3>1 DEF BedrockD!Go
      <3> QED
        BY <2>2, <3>1, <3>6, <3>8, <3>9, StepsRead
    <2>6. CASE event = "metadata"
      <3>1. BedrockD!ReadMessage(s, m) = BedrockD!Go(s, Usage(TRUE))
        BY <2>1, <2>6, BedrockWords DEF BedrockD!ReadMessage
      <3> QED
        BY <1>1, <2>2, <3>1, WordsAreSilent
    <2>7. CASE event \notin {"contentBlockStart", "contentBlockDelta", "messageStop", "metadata"}
      <3>1. BedrockD!ReadMessage(s, m) = BedrockD!Go(s, <<>>)
        BY <2>1, <2>7 DEF BedrockD!ReadMessage
      <3> QED
        BY <1>1, <2>2, <3>1, EmptyIsSilent
    <2> QED
      BY <2>3, <2>4, <2>5, <2>6, <2>7
  <1> QED
    BY <1>3, <1>4, <1>5 DEF BedrockSent

-----------------------------------------------------------------------------
(* The Responses reader, which says done only of a reply that is complete. *)

LEMMA ResponsesWords ==
    /\ ResponsesD!Error = Error
    /\ \A x, y : ResponsesD!StreamEvent(x, y) = StreamEvent(x, y)
    /\ \A x : /\ ResponsesD!Content(x) = Content(x) /\ ResponsesD!Reasoning(x) = Reasoning(x)
              /\ ResponsesD!Calls(x) = Calls(x)
    /\ \A a, b, c, d : ResponsesD!Delta(a, b, c, d) = Delta(a, b, c, d)
  BY DEF ResponsesD!Error, Error, ResponsesD!Content, Content, ResponsesD!Reasoning,
         Reasoning, ResponsesD!Calls, Calls, ResponsesD!Delta, Delta, ResponsesD!StreamEvent, StreamEvent

Completed(e) == e.type \in {"response.completed", "response.incomplete"}

ResponsesState(s) == \E w, c, x : s = [callIndex |-> w, calls |-> c, reasoning |-> x] /\ Sequence(c)

LEMMA ResponsesGoes ==
    ASSUME NEW t, NEW q, ResponsesState(t), Silent(q), NEW r, r = ResponsesD!Go(t, q)
    PROVE  ResponsesState(r.state) /\ Reads(r) /\ ~SaysDone(r.events)
  <1>1. r.state = t /\ r.events = q
    BY DEF ResponsesD!Go
  <1> QED
    BY <1>1, StepsRead, SilentSteps

LEMMA ResponsesItemReads ==
    ASSUME NEW s, ResponsesState(s)
    PROVE  /\ \A n, b : LET r == ResponsesD!ItemAdded(s, n, b)
                        IN ResponsesState(r.state) /\ Reads(r) /\ ~SaysDone(r.events)
           /\ \A n, x : LET r == ResponsesD!ArgumentsGrow(s, n, x)
                        IN ResponsesState(r.state) /\ Reads(r) /\ ~SaysDone(r.events)
           /\ \A b : LET r == ResponsesD!ItemDone(s, b)
                     IN ResponsesState(r.state) /\ Reads(r) /\ ~SaysDone(r.events)
  <1>1. PICK w, c, x : s = [callIndex |-> w, calls |-> c, reasoning |-> x] /\ Sequence(c)
    BY DEF ResponsesState
  <1>2. ASSUME NEW n, NEW b
        PROVE  LET r == ResponsesD!ItemAdded(s, n, b)
               IN ResponsesState(r.state) /\ Reads(r) /\ ~SaysDone(r.events)
    <2>1. CASE b.kind = "call"
      <3> DEFINE v == ResponsesD!@@(ResponsesD!:>(n, ResponsesD!Cardinality(DOMAIN s.callIndex)), s.callIndex)
                 t == [s EXCEPT !.callIndex = v]
                 q == Delta(ResponsesD!Cardinality(DOMAIN s.callIndex), b.id, b.name, <<>>)
      <3>1. ResponsesD!ItemAdded(s, n, b) = ResponsesD!Go(t, q)
        BY <1>1, <2>1, ResponsesWords DEF ResponsesD!ItemAdded
      <3>2. Silent(q)
        BY WordsAreSilent
      <3>3. t = [callIndex |-> v, calls |-> c, reasoning |-> x]
        BY <1>1
      <3> HIDE DEF v, q, t
      <3>4. ResponsesState(t)
        BY <1>1, <3>3 DEF ResponsesState
      <3> QED
        BY <3>1, <3>2, <3>4, ResponsesGoes
    <2>2. CASE b.kind # "call"
      <3>1. ResponsesD!ItemAdded(s, n, b) = ResponsesD!Go(s, <<>>)
        BY <2>2 DEF ResponsesD!ItemAdded
      <3> QED
        BY <3>1, EmptyIsSilent, ResponsesGoes
    <2> QED
      BY <2>1, <2>2
  <1>3. ASSUME NEW n, NEW y
        PROVE  LET r == ResponsesD!ArgumentsGrow(s, n, y)
               IN ResponsesState(r.state) /\ Reads(r) /\ ~SaysDone(r.events)
    <2> DEFINE q == IF n \in DOMAIN s.callIndex /\ y # <<>> THEN Delta(s.callIndex[n], "", "", y) ELSE <<>>
    <2>1. ResponsesD!ArgumentsGrow(s, n, y) = ResponsesD!Go(s, q)
      BY ResponsesWords DEF ResponsesD!ArgumentsGrow
    <2>2. Silent(q)
      BY EmptyIsSilent, WordsAreSilent, Zenon
    <2> HIDE DEF q
    <2> QED
      BY <2>1, <2>2, ResponsesGoes
  <1>4. ASSUME NEW b
        PROVE  LET r == ResponsesD!ItemDone(s, b)
               IN ResponsesState(r.state) /\ Reads(r) /\ ~SaysDone(r.events)
    <2>1. CASE b.kind = "call"
      <3> DEFINE d == Append(c, ResponsesD!FunctionCall(b))
                 t == [s EXCEPT !.calls = d]
      <3>1. ResponsesD!ItemDone(s, b) = ResponsesD!Go(t, <<>>)
        BY <1>1, <2>1 DEF ResponsesD!ItemDone
      <3>2. Sequence(d)
        BY <1>1, SequenceAppend
      <3>3. t = [callIndex |-> w, calls |-> d, reasoning |-> x]
        BY <1>1
      <3> HIDE DEF d, t
      <3>4. ResponsesState(t)
        BY <3>2, <3>3 DEF ResponsesState
      <3> QED
        BY <3>1, <3>4, EmptyIsSilent, ResponsesGoes
    <2>2. CASE b.kind = "thinking"
      <3> DEFINE d == Append(x, b.id)
                 t == [s EXCEPT !.reasoning = d]
      <3>1. ResponsesD!ItemDone(s, b) = ResponsesD!Go(t, <<>>)
        BY <1>1, <2>2 DEF ResponsesD!ItemDone
      <3>3. t = [callIndex |-> w, calls |-> c, reasoning |-> d]
        BY <1>1
      <3> HIDE DEF d, t
      <3>4. ResponsesState(t)
        BY <1>1, <3>3 DEF ResponsesState
      <3> QED
        BY <3>1, <3>4, EmptyIsSilent, ResponsesGoes
    <2>3. CASE b.kind \notin {"call", "thinking"}
      <3>1. ResponsesD!ItemDone(s, b) = ResponsesD!Go(s, <<>>)
        BY <2>3 DEF ResponsesD!ItemDone
      <3> QED
        BY <3>1, EmptyIsSilent, ResponsesGoes
    <2> QED
      BY <2>1, <2>2, <2>3
  <1> QED
    BY <1>2, <1>3, <1>4

LEMMA ResponsesReads ==
    ASSUME NEW s, ResponsesState(s), NEW e
    PROVE  LET r == ResponsesD!ReadStream(s, e)
           IN ResponsesState(r.state) /\ Reads(r) /\ (~Completed(e) => ~SaysDone(r.events))
  <1> DEFINE r == ResponsesD!ReadStream(s, e)
  <1>1. CASE e.type = "response.output_text.delta"
    <2>1. r = ResponsesD!Go(s, Content(e.delta))
      BY <1>1, ResponsesWords DEF ResponsesD!ReadStream
    <2> HIDE DEF r
    <2> QED
      BY <2>1, WordsAreSilent, ResponsesGoes DEF r
  <1>2. CASE e.type = "response.reasoning_summary_text.delta"
    <2>1. r = ResponsesD!Go(s, Reasoning(e.delta))
      BY <1>2, ResponsesWords DEF ResponsesD!ReadStream
    <2> HIDE DEF r
    <2> QED
      BY <2>1, WordsAreSilent, ResponsesGoes DEF r
  <1>3. CASE e.type = "response.output_item.added"
    <2>1. r = ResponsesD!ItemAdded(s, e.index, e.item)
      BY <1>3 DEF ResponsesD!ReadStream
    <2> HIDE DEF r
    <2> QED
      BY <2>1, ResponsesItemReads DEF r
  <1>4. CASE e.type = "response.function_call_arguments.delta"
    <2>1. r = ResponsesD!ArgumentsGrow(s, e.index, e.delta)
      BY <1>4 DEF ResponsesD!ReadStream
    <2> HIDE DEF r
    <2> QED
      BY <2>1, ResponsesItemReads DEF r
  <1>5. CASE e.type = "response.output_item.done"
    <2>1. r = ResponsesD!ItemDone(s, e.item)
      BY <1>5 DEF ResponsesD!ReadStream
    <2> HIDE DEF r
    <2> QED
      BY <2>1, ResponsesItemReads DEF r
  <1>6. CASE Completed(e)
    <2> DEFINE d == StreamEvent("done", IF e.usage THEN "usage" ELSE "")
               c == ResponsesD!AttachReasoning(s.calls, s.reasoning)
    <2>1. r = ResponsesD!Return(s, Calls(c) \o <<d>>)
      BY <1>6, ResponsesWords DEF ResponsesD!ReadStream, Completed
    <2>2. Final(d)
      BY DEF Final, StreamEvent
    <2>3. Sequence(s.calls)
      BY DEF ResponsesState
    <2>4. Sequence(c)
      <3>1. CASE s.calls = <<>>
        BY <2>3, <3>1 DEF ResponsesD!AttachReasoning
      <3>2. CASE s.calls # <<>>
        <4>1. c = [i \in DOMAIN s.calls |-> c[i]]
          BY <3>2 DEF ResponsesD!AttachReasoning
        <4> HIDE DEF c
        <4> QED
          BY <2>3, <4>1, SequenceOver
      <3> QED
        BY <3>1, <3>2
    <2> HIDE DEF c, d
    <2>5. TellsEnd(Calls(c) \o <<d>>, TRUE)
      BY <2>2, <2>4, CallsAreSilent, EndsWith
    <2>6. r.state = s
      BY <2>1 DEF ResponsesD!Return
    <2> HIDE DEF r
    <2> QED
      BY <1>6, <2>1, <2>5, <2>6, StepsRead DEF r
  <1>7. CASE e.type \in {"response.failed", "error"}
    <2>1. r = ResponsesD!Return(s, Error)
      BY <1>7, ResponsesWords DEF ResponsesD!ReadStream
    <2>2. r.state = s /\ r.events = Error
      BY <2>1 DEF ResponsesD!Return
    <2> HIDE DEF r
    <2> QED
      BY <2>1, <2>2, EndingsTell, StepsRead DEF r
  <1>8. CASE /\ e.type \notin {"response.output_text.delta", "response.reasoning_summary_text.delta",
                               "response.output_item.added", "response.function_call_arguments.delta",
                               "response.output_item.done", "response.failed", "error"}
             /\ ~Completed(e)
    <2>1. r = ResponsesD!Go(s, <<>>)
      BY <1>8 DEF ResponsesD!ReadStream, Completed
    <2> HIDE DEF r
    <2> QED
      BY <2>1, EmptyIsSilent, ResponsesGoes DEF r
  <1> QED
    BY <1>1, <1>2, <1>3, <1>4, <1>5, <1>6, <1>7, <1>8

-----------------------------------------------------------------------------
(* What a body holds. *)

\* An event of provider d, whose server stands at f.
EventSent(d, f, e) ==
    /\ d = "compat" => CompatSent(e)
    /\ d = "anthropic" => AnthropicSent(e)
    /\ d = "bedrock" => BedrockSent(e)
    /\ d = "gemini" => GeminiSent(e)
    /\ d = "responses" /\ Completed(e) => f = "finished"

EventsSent(d, f, q) == Sequence(q) /\ \A i \in 1..Len(q) : EventSent(d, f, q[i])

LinesSent(d, f, lines) ==
    Sequence(lines) /\ \A i \in 1..Len(lines) : lines[i].field = "data" => EventSent(d, f, lines[i].value)

BodySent(d, f, b) == IF d = "bedrock" THEN EventsSent(d, f, b) ELSE LinesSent(d, f, b)

CarriesOnly(lines, e) == \A i \in 1..4 : lines[i].field = "data" => lines[i].value = e

LEMMA WrittenLines ==
    ASSUME NEW e
    PROVE  /\ DOMAIN Written(e) = 1..4 /\ Written(e) \in Seq({Written(e)[i] : i \in 1..4})
           /\ CarriesOnly(Written(e), e)
  <1> DEFINE a == Line(":", "")
             b == Line("event", "")
             c == Line("data", e)
             d == Line("", "")
  <1>1. a.field = ":" /\ b.field = "event" /\ c.value = e /\ d.field = ""
    BY Zenon DEF Line
  <1>2. Written(e) = <<a, b, c, d>>
    BY Zenon DEF Written
  <1> HIDE DEF a, b, c, d
  <1>3. \A i \in 1..4 : i = 1 \/ i = 2 \/ i = 3 \/ i = 4
    OBVIOUS
  <1>4. <<a, b, c, d>>[1] = a /\ <<a, b, c, d>>[2] = b /\ <<a, b, c, d>>[3] = c /\ <<a, b, c, d>>[4] = d
    OBVIOUS
  <1>5. DOMAIN Written(e) = 1..4
    BY <1>2
  <1>6. Written(e) \in Seq({Written(e)[i] : i \in 1..4})
    <2>1. {a, b, c, d} \subseteq {Written(e)[i] : i \in 1..4}
      BY <1>2, <1>4
    <2>2. <<a, b, c, d>> \in Seq({a, b, c, d})
      OBVIOUS
    <2> QED
      BY <1>2, <2>1, <2>2
  <1>7. ASSUME NEW i \in 1..4, Written(e)[i].field = "data"
        PROVE  Written(e)[i].value = e
    BY <1>1, <1>2, <1>3, <1>4, <1>7
  <1> QED
    BY <1>5, <1>6, <1>7, Zenon DEF CarriesOnly

LEMMA WrittenIsSent ==
    ASSUME NEW d, NEW f, NEW q, EventsSent(d, f, q)
    PROVE  LinesSent(d, f, FlattenSeq([i \in DOMAIN q |-> Written(q[i])]))
  <1> DEFINE w == [i \in DOMAIN q |-> Written(q[i])]
             X == {Written(q[i])[j] : i \in 1..Len(q), j \in 1..4}
             b == FlattenSeq(w)
  <1>0. \A e : CarriesOnly(Written(e), e)
    BY WrittenLines, Zenon
  <1>1. Len(q) \in Nat /\ DOMAIN q = 1..Len(q)
    BY SequenceFacts DEF EventsSent
  <1>2. ASSUME NEW i \in 1..Len(q) PROVE Written(q[i]) \in Seq(X)
    <2>1. {Written(q[i])[j] : j \in 1..4} \subseteq X
      OBVIOUS
    <2>2. Written(q[i]) \in Seq({Written(q[i])[j] : j \in 1..4})
      BY WrittenLines
    <2> HIDE DEF X
    <2> QED
      BY <2>1, <2>2
  <1>3. \A x \in X : x.field = "data" => EventSent(d, f, x.value)
    <2> SUFFICES ASSUME NEW x \in X, x.field = "data" PROVE EventSent(d, f, x.value)
      OBVIOUS
    <2>1. PICK i \in 1..Len(q), j \in 1..4 : x = Written(q[i])[j]
      OBVIOUS
    <2>2. CarriesOnly(Written(q[i]), q[i])
      BY <1>0
    <2>3. x.value = q[i]
      BY <2>1, <2>2 DEF CarriesOnly
    <2> QED
      BY <2>3 DEF EventsSent
  <1> HIDE DEF X
  <1>4. w \in Seq(Seq(X))
    <2>1. w = [i \in 1..Len(q) |-> w[i]] /\ \A i \in 1..Len(q) : w[i] \in Seq(X)
      BY <1>1, <1>2
    <2> HIDE DEF w
    <2> QED
      BY <1>1, <2>1
  <1> HIDE DEF w
  <1>5. b \in Seq(X)
    BY <1>4, FlattenTyped
  <1> HIDE DEF b
  <1>6. Sequence(b) /\ \A i \in 1..Len(b) : b[i] \in X
    BY <1>5 DEF Sequence
  <1>7. LinesSent(d, f, b)
    BY <1>3, <1>6 DEF LinesSent
  <1> QED
    BY <1>7 DEF b, w

\* The event that is read was sent, and so was what is left.
LEMMA NextIsSent ==
    ASSUME NEW d, NEW f, NEW lines, LinesSent(d, f, lines), DataLines(lines) # {}
    PROVE  EventSent(d, f, NextEvent(lines).data) /\ LinesSent(d, f, NextEvent(lines).rest)
  <1> DEFINE n   == Len(lines)
             E   == Ends(lines) \union {n + 1}
             ds  == DataLines(lines)
             end == Min(E)
             v   == Min(ds)
  <1>1. n \in Nat /\ DOMAIN lines = 1..n
    BY SequenceFacts DEF LinesSent
  <1>2. NextEvent(lines).data = lines[v].value /\ NextEvent(lines).rest = SubSeq(lines, end + 1, n)
    BY Zenon DEF NextEvent
  <1>3. v \in ds
    <2>1. ds \in SUBSET Nat /\ ds # {}
      BY <1>1 DEF DataLines
    <2> HIDE DEF ds
    <2>2. PICK x \in ds : \A y \in ds : x <= y
      BY <2>1, LeastNumber
    <2> QED
      BY <2>2 DEF Min
  <1>4. end \in 1..(n + 1)
    <2>0. Ends(lines) \subseteq DOMAIN lines
      BY DEF Ends
    <2>1. E \subseteq 1..(n + 1) /\ E # {}
      BY <1>1, <2>0
    <2> HIDE DEF E, n
    <2>2. E \in SUBSET Nat
      BY <1>1, <2>1
    <2>3. PICK x \in E : \A y \in E : x <= y
      BY <2>1, <2>2, LeastNumber
    <2>4. end \in E
      BY <2>3 DEF Min
    <2> QED
      BY <2>1, <2>4
  <1> HIDE DEF v, end, E
  <1>5. EventSent(d, f, NextEvent(lines).data)
    <2>1. v \in 1..n /\ lines[v].field = "data"
      BY <1>1, <1>3 DEF DataLines
    <2> QED
      BY <1>2, <2>1 DEF LinesSent
  <1>6. LinesSent(d, f, NextEvent(lines).rest)
    <2> DEFINE r == SubSeq(lines, end + 1, n)
               X == {lines[i] : i \in 1..n}
    <2>1. \A i \in (end + 1)..n : lines[i] \in X
      BY <1>1, <1>4
    <2> HIDE DEF X
    <2>2. /\ r \in Seq(X) /\ Len(r) = IF end + 1 <= n THEN n - (end + 1) + 1 ELSE 0
          /\ \A i \in 1..(n - (end + 1) + 1) : r[i] = lines[(end + 1) + i - 1]
      <3>1. end + 1 \in Int /\ n \in Int
        BY <1>1, <1>4
      <3> HIDE DEF n
      <3> QED
        BY <2>1, <3>1, SubSeqProperties
    <2> HIDE DEF r, n
    <2>3. ASSUME NEW i \in 1..Len(r) PROVE r[i] = lines[end + i] /\ end + i \in 1..n
      BY <1>1, <1>4, <2>2, <2>3
    <2>4. Sequence(r)
      BY <2>2 DEF Sequence
    <2>5. \A i \in 1..Len(r) : r[i].field = "data" => EventSent(d, f, r[i].value)
      BY <2>3 DEF LinesSent, n
    <2> QED
      BY <1>2, <2>4, <2>5 DEF LinesSent, r
  <1> QED
    BY <1>5, <1>6

LEMMA DataIsThere ==
    ASSUME NEW lines, HasEvent(lines)
    PROVE  DataLines(lines) # {}
  BY DEF HasEvent, Ends

LEMMA SentFacts ==
    ASSUME NEW d, NEW f
    PROVE  /\ EventsSent(d, f, <<>>)
           /\ \A a : EventSent(d, f, a) => EventsSent(d, f, <<a>>)
           /\ \A a, b : EventSent(d, f, a) /\ EventSent(d, f, b) => EventsSent(d, f, <<a, b>>)
           /\ \A a, b, c : EventSent(d, f, a) /\ EventSent(d, f, b) /\ EventSent(d, f, c)
                             => EventsSent(d, f, <<a, b, c>>)
  <1>1. /\ Sequence(<<>>) /\ \A a : Sequence(<<a>>)
        /\ \A a, b : Sequence(<<a, b>>)
        /\ \A a, b, c : Sequence(<<a, b, c>>)
    <2>1. \A a : <<a>> \in Seq({a}) /\ <<>> \in Seq({a})
      OBVIOUS
    <2>2. \A a, b : <<a, b>> \in Seq({a, b})
      OBVIOUS
    <2>3. \A a, b, c : <<a, b, c>> \in Seq({a, b, c})
      OBVIOUS
    <2>4. Sequence(<<>>)
      BY EmptyIsSilent DEF Silent
    <2> QED
      BY <2>1, <2>2, <2>3, <2>4 DEF Sequence
  <1> HIDE DEF Sequence
  <1>2. (\A i \in 1..1 : i = 1) /\ (\A i \in 1..2 : i = 1 \/ i = 2) /\ (\A i \in 1..3 : i = 1 \/ i = 2 \/ i = 3)
    OBVIOUS
  <1>3. EventsSent(d, f, <<>>)
    BY <1>1 DEF EventsSent
  <1>4. ASSUME NEW a, EventSent(d, f, a) PROVE EventsSent(d, f, <<a>>)
    <2>1. Len(<<a>>) = 1 /\ <<a>>[1] = a
      OBVIOUS
    <2> QED
      BY <1>1, <1>2, <1>4, <2>1 DEF EventsSent
  <1>5. ASSUME NEW a, NEW b, EventSent(d, f, a), EventSent(d, f, b) PROVE EventsSent(d, f, <<a, b>>)
    <2>1. Len(<<a, b>>) = 2 /\ <<a, b>>[1] = a /\ <<a, b>>[2] = b
      OBVIOUS
    <2> QED
      BY <1>1, <1>2, <1>5, <2>1 DEF EventsSent
  <1>6. ASSUME NEW a, NEW b, NEW c, EventSent(d, f, a), EventSent(d, f, b), EventSent(d, f, c)
        PROVE  EventsSent(d, f, <<a, b, c>>)
    <2>1. Len(<<a, b, c>>) = 3 /\ <<a, b, c>>[1] = a /\ <<a, b, c>>[2] = b /\ <<a, b, c>>[3] = c
      OBVIOUS
    <2> QED
      BY <1>1, <1>2, <1>6, <2>1 DEF EventsSent
  <1> QED
    BY <1>3, <1>4, <1>5, <1>6

-----------------------------------------------------------------------------
(* What the server writes. *)

LEMMA CallIndexIsNat ==
    ASSUME NEW b, NEW i \in Nat
    PROVE  CompatD!CallIndex(b, i) \in Nat
  <1> DEFINE S == {j \in 1..(i - 1) : b[j].kind = "call"}
  <1>1. CompatD!CallIndex(b, i) = Cardinality(S)
    BY Zenon DEF CompatD!CallIndex, CompatD!Cardinality, Cardinality
  <1>2. IsFiniteSet(1..(i - 1))
    BY FS_Interval
  <1>3. IsFiniteSet(S)
    <2>1. S \subseteq 1..(i - 1)
      OBVIOUS
    <2> QED
      BY <1>2, <2>1, FS_Subset
  <1> QED
    BY <1>1, <1>3, FS_CardinalityType

LEMMA CompatWrites ==
    ASSUME NEW b, NEW f, NEW i \in Nat, NEW text, NEW finish
    PROVE  /\ EventsSent("compat", f, CompatD!Opening(b, i))
           /\ EventsSent("compat", f, CompatD!Piece(b, i, text))
           /\ EventsSent("compat", f, CompatD!Closing(b, i))
           /\ EventsSent("compat", f, CompatD!Ending(b, finish))
  <1>1. ASSUME NEW e, CompatSent(e) PROVE EventSent("compat", f, e)
    BY <1>1 DEF EventSent
  <1>2. \A id, name, x, s : EventsSent("compat", f,
           <<[CompatD!Chunk EXCEPT !.calls = CompatD!CallPart(CompatD!CallIndex(b, i), id, name, x, s)]>>)
    <2> TAKE id, name, x, s
    <2> DEFINE n == CompatD!CallIndex(b, i)
               p == [index |-> n, id |-> id, name |-> name, arguments |-> x, signature |-> s]
               e == [CompatD!Chunk EXCEPT !.calls = <<p>>]
    <2>1. p.index \in Nat
      BY CallIndexIsNat
    <2> HIDE DEF p
    <2>2. e.type = "chunk" /\ e.choices = TRUE /\ e.calls = <<p>>
      BY DEF CompatD!Chunk
    <2> HIDE DEF e
    <2>3. EventsSent("compat", f, <<e>>)
      BY <1>1, <2>1, <2>2, SentFacts DEF CompatSent
    <2> QED
      BY <2>3 DEF e, p, CompatD!CallPart
  <1>3. EventsSent("compat", f, CompatD!Opening(b, i))
    BY <1>2, SentFacts DEF CompatD!Opening
  <1>4. EventsSent("compat", f, CompatD!Piece(b, i, text))
    <2> DEFINE r == [CompatD!Chunk EXCEPT !.reasoning = text]
               c == [CompatD!Chunk EXCEPT !.content = text]
    <2>1. r.type = "chunk" /\ r.choices = TRUE /\ r.calls = <<>> /\ c.type = "chunk" /\ c.choices = TRUE /\ c.calls = <<>>
      BY DEF CompatD!Chunk
    <2> HIDE DEF r, c
    <2>2. EventsSent("compat", f, <<r>>) /\ EventsSent("compat", f, <<c>>)
      BY <1>1, <2>1, SentFacts DEF CompatSent
    <2>3. CASE b[i].kind = "thinking"
      BY <2>2, <2>3 DEF CompatD!Piece, r
    <2>4. CASE b[i].kind = "text"
      BY <2>2, <2>4 DEF CompatD!Piece, c
    <2>5. CASE b[i].kind \notin {"thinking", "text"}
      BY <1>2, <2>5 DEF CompatD!Piece
    <2> QED
      BY <2>3, <2>4, <2>5
  <1>5. EventsSent("compat", f, CompatD!Closing(b, i))
    BY SentFacts DEF CompatD!Closing
  <1>6. EventsSent("compat", f, CompatD!Ending(b, finish))
    <2> DEFINE x == [CompatD!Chunk EXCEPT !.finish = finish, !.usage = TRUE]
               y == [CompatD!Chunk EXCEPT !.choices = FALSE]
               z == [type |-> "[DONE]"]
    <2>1. /\ x.type = "chunk" /\ x.choices = TRUE /\ x.calls = <<>>
          /\ y.type = "chunk" /\ y.choices = FALSE /\ y.calls = <<>> /\ z.type = "[DONE]"
      BY DEF CompatD!Chunk
    <2>2. CompatD!Ending(b, finish) = <<x, y, z>>
      BY DEF CompatD!Ending
    <2> HIDE DEF x, y, z
    <2>3. EventSent("compat", f, x) /\ EventSent("compat", f, y) /\ EventSent("compat", f, z)
      BY <1>1, <2>1 DEF CompatSent
    <2> QED
      BY <2>2, <2>3, SentFacts
  <1> QED
    BY <1>3, <1>4, <1>5, <1>6

LEMMA AnthropicWrites ==
    ASSUME NEW b, NEW f, NEW i, NEW text, NEW finish
    PROVE  /\ EventsSent("anthropic", f, AnthropicD!Opening(b, i))
           /\ EventsSent("anthropic", f, AnthropicD!Piece(b, i, text))
           /\ EventsSent("anthropic", f, AnthropicD!Closing(b, i))
           /\ EventsSent("anthropic", f, AnthropicD!Ending(b, finish))
  <1>1. ASSUME NEW e, AnthropicSent(e) PROVE EventSent("anthropic", f, e)
    BY <1>1 DEF EventSent
  <1>2. EventsSent("anthropic", f, AnthropicD!Opening(b, i))
    <2> DEFINE e == [type |-> IF b[i].kind = "result" THEN "junk" ELSE "content_block_start", block |-> b[i]]
    <2>1. AnthropicSent(e)
      BY DEF AnthropicSent
    <2> HIDE DEF e
    <2>2. EventsSent("anthropic", f, <<e>>)
      BY <1>1, <2>1, SentFacts
    <2> QED
      BY <2>2 DEF e, AnthropicD!Opening
  <1>3. EventsSent("anthropic", f, AnthropicD!Piece(b, i, text))
    <2> DEFINE e == [type |-> "content_block_delta", delta |-> AnthropicD!DeltaType(b[i].kind), text |-> text]
    <2>1. AnthropicD!DeltaType(b[i].kind) \in {"thinking_delta", "text_delta", "input_json_delta"}
      BY DEF AnthropicD!DeltaType
    <2>2. e.delta = AnthropicD!DeltaType(b[i].kind)
      OBVIOUS
    <2> HIDE DEF e
    <2>3. AnthropicSent(e)
      BY <2>1, <2>2 DEF AnthropicSent
    <2>4. EventsSent("anthropic", f, <<e>>)
      BY <1>1, <2>3, SentFacts
    <2> QED
      BY <2>4 DEF e, AnthropicD!Piece
  <1>4. EventsSent("anthropic", f, AnthropicD!Closing(b, i))
    <2> DEFINE e == [type |-> "content_block_stop"]
    <2>1. AnthropicSent(e)
      BY DEF AnthropicSent
    <2> HIDE DEF e
    <2>2. EventsSent("anthropic", f, <<e>>)
      BY <1>1, <2>1, SentFacts
    <2> QED
      BY <2>2 DEF e, AnthropicD!Closing
  <1>5. EventsSent("anthropic", f, AnthropicD!Ending(b, finish))
    <2> DEFINE x == [type |-> "message_delta", usage |-> TRUE]
               y == [type |-> "message_stop"]
    <2>1. AnthropicSent(x) /\ AnthropicSent(y)
      BY DEF AnthropicSent
    <2> HIDE DEF x, y
    <2>2. EventsSent("anthropic", f, <<x, y>>)
      BY <1>1, <2>1, SentFacts
    <2> QED
      BY <2>2 DEF x, y, AnthropicD!Ending
  <1> QED
    BY <1>2, <1>3, <1>4, <1>5

LEMMA BedrockWrites ==
    ASSUME NEW b, NEW f, NEW i, NEW text, NEW finish
    PROVE  /\ EventsSent("bedrock", f, BedrockD!Opening(b, i))
           /\ EventsSent("bedrock", f, BedrockD!Piece(b, i, text))
           /\ EventsSent("bedrock", f, BedrockD!Closing(b, i))
           /\ EventsSent("bedrock", f, BedrockD!Ending(b, finish))
  <1>1. ASSUME NEW event, NEW payload
        PROVE  EventSent("bedrock", f, BedrockD!Frame("event", event, payload))
    <2>1. BedrockSent(BedrockD!Frame("event", event, payload))
      BY Zenon DEF BedrockSent
    <2> QED
      BY <2>1, Zenon DEF EventSent
  <1>2. \A event, payload : EventsSent("bedrock", f, <<BedrockD!Frame("event", event, payload)>>)
    BY <1>1, SentFacts, Zenon
  <1>3. EventsSent("bedrock", f, BedrockD!Opening(b, i))
    BY <1>2, Zenon DEF BedrockD!Opening
  <1>4. EventsSent("bedrock", f, BedrockD!Piece(b, i, text))
    BY <1>2, Zenon DEF BedrockD!Piece
  <1>5. EventsSent("bedrock", f, BedrockD!Closing(b, i))
    BY <1>2, Zenon DEF BedrockD!Closing
  <1>6. EventsSent("bedrock", f, BedrockD!Ending(b, finish))
    BY <1>1, SentFacts, Zenon DEF BedrockD!Ending
  <1> QED
    BY <1>3, <1>4, <1>5, <1>6

LEMMA GeminiWrites ==
    ASSUME NEW b, NEW f, NEW i, NEW text, NEW finish
    PROVE  /\ EventsSent("gemini", f, GeminiD!Opening(b, i))
           /\ EventsSent("gemini", f, GeminiD!Piece(b, i, text))
           /\ EventsSent("gemini", f, GeminiD!Closing(b, i))
           /\ EventsSent("gemini", f, GeminiD!Ending(b, finish))
  <1>1. ASSUME NEW e, e.type = "chunk", e.candidates \in BOOLEAN, e.parts = <<>> \/ \E p : e.parts = <<p>>
        PROVE  EventSent("gemini", f, e)
    BY <1>1 DEF EventSent, GeminiSent
  <1>2. ASSUME NEW p PROVE EventsSent("gemini", f, <<GeminiD!Chunk(<<p>>, "")>>)
    <2> DEFINE e == GeminiD!Chunk(<<p>>, "")
    <2>1. e.type = "chunk" /\ e.candidates = TRUE /\ e.parts = <<p>>
      BY DEF GeminiD!Chunk
    <2> HIDE DEF e
    <2>2. EventsSent("gemini", f, <<e>>)
      BY <1>1, <2>1, SentFacts
    <2> QED
      BY <2>2 DEF e
  <1>3. EventsSent("gemini", f, GeminiD!Opening(b, i))
    BY <1>2, SentFacts, Zenon DEF GeminiD!Opening
  <1>4. EventsSent("gemini", f, GeminiD!Piece(b, i, text))
    BY <1>2, SentFacts, Zenon DEF GeminiD!Piece
  <1>5. EventsSent("gemini", f, GeminiD!Closing(b, i))
    BY SentFacts DEF GeminiD!Closing
  <1>6. EventsSent("gemini", f, GeminiD!Ending(b, finish))
    <2> DEFINE x == [GeminiD!Chunk(<<>>, "") EXCEPT !.candidates = FALSE]
               y == GeminiD!Chunk(<<>>, IF finish = "length" THEN "MAX_TOKENS" ELSE "STOP")
    <2>1. /\ x.type = "chunk" /\ x.candidates = FALSE /\ x.parts = <<>>
          /\ y.type = "chunk" /\ y.candidates = TRUE /\ y.parts = <<>>
      BY DEF GeminiD!Chunk
    <2> HIDE DEF x, y
    <2>2. EventsSent("gemini", f, <<x, y>>)
      BY <1>1, <2>1, SentFacts
    <2> QED
      BY <2>2, Zenon DEF x, y, GeminiD!Ending
  <1> QED
    BY <1>3, <1>4, <1>5, <1>6

LEMMA ResponsesWrites ==
    ASSUME NEW b, NEW f, NEW i, NEW text, NEW finish
    PROVE  /\ EventsSent("responses", f, ResponsesD!Opening(b, i))
           /\ EventsSent("responses", f, ResponsesD!Piece(b, i, text))
           /\ EventsSent("responses", f, ResponsesD!Closing(b, i))
           /\ EventsSent("responses", "finished", ResponsesD!Ending(b, finish))
  <1>1. ASSUME NEW e, ~Completed(e) PROVE EventsSent("responses", f, <<e>>)
    BY <1>1, SentFacts DEF EventSent
  <1>2. EventsSent("responses", f, ResponsesD!Opening(b, i))
    <2> DEFINE e == [type |-> "response.output_item.added", index |-> i, item |-> b[i]]
    <2>1. ~Completed(e)
      BY DEF Completed
    <2> HIDE DEF e
    <2>2. EventsSent("responses", f, <<e>>)
      BY <1>1, <2>1
    <2> QED
      BY <2>2 DEF e, ResponsesD!Opening
  <1>3. EventsSent("responses", f, ResponsesD!Piece(b, i, text))
    <2> DEFINE e == [type |-> ResponsesD!DeltaType(b[i].kind), index |-> i, delta |-> text]
    <2>1. ResponsesD!DeltaType(b[i].kind) \notin {"response.completed", "response.incomplete"}
      BY DEF ResponsesD!DeltaType
    <2>2. e.type = ResponsesD!DeltaType(b[i].kind)
      OBVIOUS
    <2> HIDE DEF e
    <2>3. EventsSent("responses", f, <<e>>)
      BY <1>1, <2>1, <2>2 DEF Completed
    <2> QED
      BY <2>3 DEF e, ResponsesD!Piece
  <1>4. EventsSent("responses", f, ResponsesD!Closing(b, i))
    <2> DEFINE e == [type |-> "response.output_item.done", item |-> b[i]]
    <2>1. ~Completed(e)
      BY DEF Completed
    <2> HIDE DEF e
    <2>2. EventsSent("responses", f, <<e>>)
      BY <1>1, <2>1
    <2> QED
      BY <2>2 DEF e, ResponsesD!Closing
  <1>5. EventsSent("responses", "finished", ResponsesD!Ending(b, finish))
    <2>1. \A e : EventSent("responses", "finished", e)
      BY DEF EventSent
    <2> QED
      BY <2>1, SentFacts, Zenon DEF ResponsesD!Ending
  <1> QED
    BY <1>2, <1>3, <1>4, <1>5

Providers == {"compat", "anthropic", "bedrock", "gemini", "responses"}

LEMMA BlocksAreNumbered ==
    ASSUME reply \in Replies
    PROVE  \A i \in Blocks : i \in Nat
  <1>1. Sequence(reply.blocks)
    BY StreamAssumption DEF Sequence
  <1>2. DOMAIN reply.blocks = 1..Len(reply.blocks)
    BY <1>1, SequenceFacts
  <1> QED
    BY <1>2 DEF Blocks

LEMMA BlocksAreSent ==
    ASSUME dialect \in Providers, reply \in Replies, NEW f, NEW i \in Blocks, NEW text
    PROVE  /\ EventsSent(dialect, f, Opening(i)) /\ EventsSent(dialect, f, Piece(i, text))
           /\ EventsSent(dialect, f, Closing(i))
  <1>1. i \in Nat
    BY BlocksAreNumbered
  <1>2. CASE dialect = "compat"
    BY <1>1, <1>2, CompatWrites DEF Opening, Piece, Closing
  <1>3. CASE dialect = "anthropic"
    BY <1>1, <1>3, AnthropicWrites DEF Opening, Piece, Closing
  <1>4. CASE dialect = "bedrock"
    BY <1>1, <1>4, BedrockWrites DEF Opening, Piece, Closing
  <1>5. CASE dialect = "gemini"
    BY <1>1, <1>5, GeminiWrites DEF Opening, Piece, Closing
  <1>6. CASE dialect = "responses"
    BY <1>1, <1>6, ResponsesWrites DEF Opening, Piece, Closing
  <1> QED
    BY <1>2, <1>3, <1>4, <1>5, <1>6 DEF Providers

LEMMA EndingIsSent ==
    ASSUME dialect \in Providers
    PROVE  EventsSent(dialect, "finished", Ending)
  <1> DEFINE b == reply.blocks
             t == reply.finish
  <1>1. \E i : i \in Nat
    <2>1. 0 \in Nat
      OBVIOUS
    <2> QED
      BY <2>1
  <1>2. CASE dialect = "compat"
    <2>1. EventsSent("compat", "finished", CompatD!Ending(b, t))
      BY <1>1, CompatWrites
    <2> QED
      BY <1>2, <2>1 DEF Ending
  <1>3. CASE dialect = "anthropic"
    <2>1. EventsSent("anthropic", "finished", AnthropicD!Ending(b, t))
      BY <1>1, AnthropicWrites
    <2> QED
      BY <1>3, <2>1 DEF Ending
  <1>4. CASE dialect = "bedrock"
    <2>1. EventsSent("bedrock", "finished", BedrockD!Ending(b, t))
      BY <1>1, BedrockWrites
    <2> QED
      BY <1>4, <2>1 DEF Ending
  <1>5. CASE dialect = "gemini"
    <2>1. EventsSent("gemini", "finished", GeminiD!Ending(b, t))
      BY <1>1, GeminiWrites
    <2> QED
      BY <1>5, <2>1 DEF Ending
  <1>6. CASE dialect = "responses"
    <2>1. EventsSent("responses", "finished", ResponsesD!Ending(b, t))
      BY <1>1, ResponsesWrites
    <2> QED
      BY <1>6, <2>1 DEF Ending
  <1> QED
    BY <1>2, <1>3, <1>4, <1>5, <1>6 DEF Providers

LEMMA RefusalIsSent ==
    ASSUME dialect \in Providers, NEW f
    PROVE  EventsSent(dialect, f, <<Refusal>>)
  <1>1. CASE dialect = "compat"
    <2>1. Refusal.type = "chunk" /\ Refusal.choices = FALSE /\ Refusal.calls = <<>>
      BY <1>1 DEF Refusal, CompatD!Chunk
    <2>2. EventSent(dialect, f, Refusal)
      BY <1>1, <2>1 DEF EventSent, CompatSent
    <2> QED
      BY <2>2, SentFacts
  <1>2. CASE dialect = "bedrock"
    <2>1. Refusal = BedrockD!Frame("exception", "", "")
      BY <1>2 DEF Refusal
    <2>2. EventSent(dialect, f, Refusal)
      BY <1>2, <2>1 DEF EventSent, BedrockSent
    <2> QED
      BY <2>2, SentFacts
  <1>3. CASE dialect = "gemini"
    <2>1. Refusal.type = "chunk" /\ Refusal.candidates = FALSE /\ Refusal.parts = <<>>
      BY <1>3 DEF Refusal, GeminiD!Chunk
    <2>2. EventSent(dialect, f, Refusal)
      BY <1>3, <2>1 DEF EventSent, GeminiSent
    <2> QED
      BY <2>2, SentFacts
  <1>4. CASE dialect \in {"anthropic", "responses"}
    <2>1. Refusal.type = "error"
      BY <1>4 DEF Refusal
    <2>2. EventSent(dialect, f, Refusal)
      BY <1>4, <2>1 DEF EventSent, AnthropicSent, Completed
    <2> QED
      BY <2>2, SentFacts
  <1> QED
    BY <1>1, <1>2, <1>3, <1>4 DEF Providers

LEMMA TornIsSent ==
    ASSUME dialect \in Providers, NEW f, NEW tail \in Torn \union {<<>>}
    PROVE  BodySent(dialect, f, tail)
  <1>0. /\ Sequence(<<>>) /\ Len(<<>>) = 0 /\ \A x : Sequence(<<x>>) /\ Len(<<x>>) = 1 /\ <<x>>[1] = x
    BY SequenceOne, EmptyIsSilent DEF Silent
  <1> HIDE DEF Sequence
  <1>1. CASE tail = <<>>
    BY <1>0, <1>1 DEF BodySent, EventsSent, LinesSent
  <1>2. CASE dialect = "bedrock" /\ tail # <<>>
    <2>1. tail = <<TornFrame>>
      BY <1>2 DEF Torn, TornFrame
    <2>2. EventSent(dialect, f, TornFrame)
      BY <1>2 DEF EventSent, BedrockSent
    <2>3. EventsSent(dialect, f, tail)
      BY <2>1, <2>2, SentFacts
    <2> QED
      BY <1>2, <2>3 DEF BodySent
  <1>3. CASE dialect # "bedrock" /\ tail # <<>>
    <2> DEFINE e == [type |-> "junk"]
               l == Line("data", e)
    <2>1. l.value = e /\ e.type = "junk"
      BY DEF Line
    <2>2. tail = <<l>>
      BY <1>3 DEF Torn
    <2> HIDE DEF e
    <2>3. EventSent(dialect, f, e)
      BY <1>3, <2>1 DEF EventSent, CompatSent, AnthropicSent, GeminiSent, Completed
    <2> HIDE DEF l
    <2>4. LinesSent(dialect, f, <<l>>)
      <3>1. \A i \in 1..1 : i = 1
        OBVIOUS
      <3> QED
        BY <1>0, <2>1, <2>3, <3>1 DEF LinesSent
    <2> QED
      BY <1>3, <2>2, <2>4 DEF BodySent
  <1> QED
    BY <1>1, <1>2, <1>3

LEMMA WriteIsSent ==
    ASSUME NEW q, NEW f, EventsSent(dialect, f, q), Write(q)
    PROVE  BodySent(dialect, f, body')
  <1>1. CASE dialect = "bedrock"
    BY <1>1 DEF Write, BodySent
  <1>2. CASE dialect # "bedrock"
    <2>1. body' = FlattenSeq([i \in DOMAIN q |-> Written(q[i])])
      BY <1>2 DEF Write
    <2> QED
      BY <1>2, <2>1, WrittenIsSent DEF BodySent
  <1> QED
    BY <1>1, <1>2

-----------------------------------------------------------------------------
(* The inductive invariant. *)

\* What was sent on the channel, received or not.
Told == seen \o channel

EndTypeOK ==
    /\ dialect \in Providers /\ reply \in Replies
    /\ server \in {"writing", "finished", "eof", "failed"}
    /\ pc \in {"check", "next", "send", "closed"} /\ over \in BOOLEAN
    /\ Sequence(seen) /\ Sequence(channel)

ParserOK(d, s) ==
    /\ d \in {"compat", "anthropic"} => Sequence(s)
    /\ d = "bedrock" => BedrockState(s)
    /\ d = "responses" => ResponsesState(s)

\* The goroutine sends when it has something to send, the end of the stream
\* with the last event.
OutRight(p, q, last) == IF p = "send" THEN q # <<>> /\ TellsEnd(q, last) ELSE q = <<>>

\* Nothing follows a final event, and there is one when the channel is closed.
ToldRight(q, p, c) ==
    /\ Sequence(q)
    /\ \A i \in 1..Len(q) : Final(q[i]) => i = Len(q) /\ p = "closed"
    /\ p = "closed" => c \/ (q # <<>> /\ Final(q[Len(q)]))

DoneIsTrue(d, q, f) == d = "responses" /\ SaysDone(q) => f = "finished"

EndInv ==
    /\ EndTypeOK
    /\ BodySent(dialect, server, body)
    /\ ParserOK(dialect, parser)
    /\ OutRight(pc, out, over)
    /\ ToldRight(Told, pc, cancelled)
    /\ DoneIsTrue(dialect, Told, server) /\ DoneIsTrue(dialect, out, server)

LEMMA EndInvInit == Init => EndInv
  <1> SUFFICES ASSUME Init PROVE EndInv
    OBVIOUS
  <1>1. Sequence(<<>>) /\ Len(<<>>) = 0
    BY EmptyIsSilent, SequenceFacts DEF Silent
  <1>2. <<>> \o <<>> = <<>>
    OBVIOUS
  <1> HIDE DEF Sequence
  <1>3. EndTypeOK
    BY <1>1, ProviderAssumption DEF Init, EndTypeOK, Providers, ChecksContext
  <1>4. BodySent(dialect, server, body)
    BY <1>1 DEF Init, BodySent, EventsSent, LinesSent
  <1>5. ParserOK(dialect, parser)
    <2>1. BedrockState(BedrockD!NewStream)
      BY <1>1 DEF BedrockState, BedrockD!NewStream
    <2>2. ResponsesState(ResponsesD!NewStream)
      BY <1>1 DEF ResponsesState, ResponsesD!NewStream
    <2> QED
      BY <1>1, <2>1, <2>2 DEF Init, ParserOK, NewStream
  <1>6. pc # "send" /\ pc # "closed" /\ out = <<>> /\ Told = <<>>
    BY <1>2 DEF Init, Told
  <1>7. ToldRight(Told, pc, cancelled) /\ OutRight(pc, out, over)
    BY <1>1, <1>6 DEF ToldRight, OutRight
  <1>8. DoneIsTrue(dialect, Told, server) /\ DoneIsTrue(dialect, out, server)
    BY <1>1, <1>6 DEF DoneIsTrue, SaysDone
  <1> QED
    BY <1>3, <1>4, <1>5, <1>7, <1>8 DEF EndInv

\* A step of the server, which leaves the rest alone.
LEMMA ServerKeepsEndInv ==
    ASSUME EndInv, server = "writing", server' \in {"writing", "finished", "eof", "failed"},
           BodySent(dialect, server', body'),
           UNCHANGED <<dialect, reply, stream, channel, seen, reading, cancelled>>
    PROVE  EndInv'
  <1>1. /\ EndTypeOK /\ ParserOK(dialect, parser) /\ OutRight(pc, out, over) /\ ToldRight(Told, pc, cancelled)
        /\ DoneIsTrue(dialect, Told, server) /\ DoneIsTrue(dialect, out, server)
    BY DEF EndInv
  <1>2. /\ dialect' = dialect /\ reply' = reply /\ pc' = pc /\ parser' = parser /\ out' = out /\ over' = over
        /\ channel' = channel /\ seen' = seen /\ cancelled' = cancelled /\ Told' = Told
    BY DEF stream, Told
  <1>3. EndTypeOK'
    BY <1>1, <1>2 DEF EndTypeOK
  <1>4. ParserOK(dialect, parser)' /\ OutRight(pc, out, over)' /\ ToldRight(Told, pc, cancelled)'
    BY <1>1, <1>2
  <1>5. DoneIsTrue(dialect, Told, server)' /\ DoneIsTrue(dialect, out, server)'
    BY <1>1, <1>2 DEF DoneIsTrue
  <1>6. BodySent(dialect, server, body)'
    BY <1>2
  <1> QED
    BY <1>3, <1>4, <1>5, <1>6 DEF EndInv

LEMMA ServeKeepsEndInv == EndInv /\ Serve => EndInv'
  <1> SUFFICES ASSUME EndInv, Serve PROVE EndInv'
    OBVIOUS
  <1>1. dialect \in Providers /\ reply \in Replies
    BY DEF EndInv, EndTypeOK
  <1>2. ASSUME NEW i \in Blocks, OpenBlock(i) PROVE EndInv'
    <2>1. EventsSent(dialect, server', Opening(i))
      BY <1>1, BlocksAreSent
    <2>2. BodySent(dialect, server', body')
      BY <1>2, <2>1, WriteIsSent DEF OpenBlock
    <2> QED
      BY <1>2, <2>2, ServerKeepsEndInv DEF OpenBlock, Serving
  <1>3. ASSUME NEW i \in Blocks, SendPiece(i) PROVE EndInv'
    <2> DEFINE text == reply.blocks[i].pieces[progress[i] + 1]
    <2>1. EventsSent(dialect, server', Piece(i, text))
      BY <1>1, BlocksAreSent
    <2>2. BodySent(dialect, server', body')
      BY <1>3, <2>1, WriteIsSent DEF SendPiece
    <2> QED
      BY <1>3, <2>2, ServerKeepsEndInv DEF SendPiece, Serving
  <1>4. ASSUME NEW i \in Blocks, CloseBlock(i) PROVE EndInv'
    <2>1. EventsSent(dialect, server', Closing(i))
      BY <1>1, BlocksAreSent
    <2>2. BodySent(dialect, server', body')
      BY <1>4, <2>1, WriteIsSent DEF CloseBlock
    <2> QED
      BY <1>4, <2>2, ServerKeepsEndInv DEF CloseBlock, Serving
  <1>5. CASE Finish
    <2>1. EventsSent(dialect, server', Ending)
      BY <1>1, <1>5, EndingIsSent DEF Finish
    <2>2. BodySent(dialect, server', body')
      BY <1>5, <2>1, WriteIsSent DEF Finish
    <2> QED
      BY <1>5, <2>2, ServerKeepsEndInv DEF Finish, Serving
  <1>6. ASSUME NEW how \in {"eof", "failed"}, NEW tail \in Torn \union {<<>>}, Cut(how, tail) PROVE EndInv'
    <2>1. BodySent(dialect, server', body')
      BY <1>1, <1>6, TornIsSent DEF Cut
    <2> QED
      BY <1>6, <2>1, ServerKeepsEndInv DEF Cut, Serving
  <1>7. CASE Fail
    <2>1. EventsSent(dialect, server', <<Refusal>>)
      BY <1>1, RefusalIsSent
    <2>2. BodySent(dialect, server', body')
      BY <1>7, <2>1, WriteIsSent DEF Fail
    <2> QED
      BY <1>7, <2>2, ServerKeepsEndInv DEF Fail, Serving
  <1> QED
    BY <1>2, <1>3, <1>4, <1>5, <1>6, <1>7 DEF Serve

-----------------------------------------------------------------------------
(* The steps of the goroutine. *)

LEMMA ReadStreamReads ==
    ASSUME EndTypeOK, ParserOK(dialect, parser), NEW f, NEW e, EventSent(dialect, f, e)
    PROVE  LET r == ReadStream(e)
           IN ParserOK(dialect, r.state) /\ Reads(r) /\ DoneIsTrue(dialect, r.events, f)
  <1>1. CASE dialect = "compat"
    <2>1. Sequence(parser) /\ CompatSent(e)
      BY <1>1 DEF ParserOK, EventSent
    <2> QED
      BY <1>1, <2>1, CompatReads DEF ReadStream, ParserOK, DoneIsTrue
  <1>2. CASE dialect = "anthropic"
    <2>1. Sequence(parser) /\ AnthropicSent(e)
      BY <1>2 DEF ParserOK, EventSent
    <2> QED
      BY <1>2, <2>1, AnthropicReads DEF ReadStream, ParserOK, DoneIsTrue
  <1>3. CASE dialect = "bedrock"
    <2>1. BedrockState(parser) /\ BedrockSent(e)
      BY <1>3 DEF ParserOK, EventSent
    <2> QED
      BY <1>3, <2>1, BedrockReads DEF ReadStream, ParserOK, DoneIsTrue
  <1>4. CASE dialect = "gemini"
    <2>1. GeminiSent(e)
      BY <1>4 DEF EventSent
    <2> QED
      BY <1>4, <2>1, GeminiReads DEF ReadStream, ParserOK, DoneIsTrue
  <1>5. CASE dialect = "responses"
    <2>1. ResponsesState(parser) /\ (Completed(e) => f = "finished")
      BY <1>5 DEF ParserOK, EventSent
    <2> QED
      BY <1>5, <2>1, ResponsesReads DEF ReadStream, ParserOK, DoneIsTrue
  <1> QED
    BY <1>1, <1>2, <1>3, <1>4, <1>5 DEF EndTypeOK, Providers

LEMMA StreamEndedTells ==
    ASSUME EndTypeOK, ParserOK(dialect, parser), NEW failed \in BOOLEAN
    PROVE  /\ TellsEnd(StreamEnded(failed), TRUE)
           /\ dialect = "responses" => ~SaysDone(StreamEnded(failed))
  <1>1. CASE dialect = "compat"
    <2>1. StreamEnded(failed) = IF failed THEN Error ELSE Calls(parser) \o Done
      BY <1>1, CompatWords DEF StreamEnded, CompatD!StreamEnded
    <2>2. Sequence(parser)
      BY <1>1 DEF ParserOK
    <2> QED
      BY <1>1, <2>1, <2>2, EndingsTell
  <1>2. CASE dialect = "anthropic"
    <2>1. StreamEnded(failed) = IF failed THEN Error ELSE Done
      BY <1>2, AnthropicWords DEF StreamEnded, AnthropicD!StreamEnded
    <2> QED
      BY <1>2, <2>1, EndingsTell
  <1>3. CASE dialect = "bedrock"
    <2>1. StreamEnded(failed) = IF failed THEN Error ELSE Done
      BY <1>3, BedrockWords DEF StreamEnded, BedrockD!StreamEnded
    <2> QED
      BY <1>3, <2>1, EndingsTell
  <1>4. CASE dialect = "gemini"
    <2>1. StreamEnded(failed) = IF failed THEN Error ELSE Done
      BY <1>4, GeminiWords DEF StreamEnded, GeminiD!StreamEnded
    <2> QED
      BY <1>4, <2>1, EndingsTell
  <1>5. CASE dialect = "responses"
    <2>1. StreamEnded(failed) = Error
      BY <1>5, ResponsesWords DEF StreamEnded, ResponsesD!StreamEnded
    <2> QED
      BY <2>1, EndingsTell
  <1> QED
    BY <1>1, <1>2, <1>3, <1>4, <1>5 DEF EndTypeOK, Providers

\* Going on with what an event gave.
LEMMA ProceedKeepsEndInv ==
    ASSUME EndInv, pc = "next", NEW q, NEW last \in BOOLEAN, TellsEnd(q, last), DoneIsTrue(dialect, q, server),
           Proceed(q, last), ParserOK(dialect, parser'), BodySent(dialect, server, body'),
           UNCHANGED <<dialect, reply, server, channel, seen, cancelled>>
    PROVE  EndInv'
  <1>1. EndTypeOK /\ ToldRight(Told, pc, cancelled) /\ DoneIsTrue(dialect, Told, server)
    BY DEF EndInv
  <1>2. Told' = Told /\ out' = q /\ over' = last
    BY DEF Told, Proceed
  <1>3. q = <<>> => last = FALSE
    BY DEF TellsEnd
  <1>4. /\ q # <<>> => pc' = "send"
        /\ q = <<>> => pc' \in {"check", "next"}
    BY <1>3 DEF Proceed
  <1>5. pc' \in {"check", "next", "send"}
    BY <1>4
  <1>6. EndTypeOK'
    BY <1>1, <1>2, <1>5 DEF EndTypeOK
  <1>7. OutRight(pc, out, over)'
    BY <1>2, <1>4 DEF OutRight
  <1>8. ToldRight(Told, pc, cancelled)'
    BY <1>1, <1>2, <1>5 DEF ToldRight
  <1>9. DoneIsTrue(dialect, Told, server)' /\ DoneIsTrue(dialect, out, server)'
    BY <1>1, <1>2 DEF DoneIsTrue
  <1>10. ParserOK(dialect, parser)' /\ BodySent(dialect, server, body)'
    OBVIOUS
  <1> QED
    BY <1>6, <1>7, <1>8, <1>9, <1>10 DEF EndInv

LEMMA ReadEventKeepsEndInv == EndInv /\ ReadEvent => EndInv'
  <1> SUFFICES ASSUME EndInv, ReadEvent PROVE EndInv'
    OBVIOUS
  <1> DEFINE e == IF dialect = "bedrock" THEN Head(body) ELSE NextEvent(body).data
             r == ReadStream(e)
  <1>1. EndTypeOK /\ BodySent(dialect, server, body) /\ ParserOK(dialect, parser)
    BY DEF EndInv
  <1>2. EventSent(dialect, server, e) /\ BodySent(dialect, server, body')
    <2>1. CASE dialect = "bedrock"
      <3>1. Sequence(body) /\ body # <<>> /\ e = Head(body) /\ body' = Tail(body)
        BY <1>1, <2>1 DEF BodySent, EventsSent, ReadEvent, Ready
      <3>2. /\ Sequence(Tail(body)) /\ Len(Tail(body)) = Len(body) - 1
            /\ \A i \in 1..Len(Tail(body)) : Tail(body)[i] = body[i + 1]
            /\ Head(body) = body[1] /\ Len(body) \in Nat /\ Len(body) >= 1
        BY <3>1, SequenceTail
      <3>3. \A i \in 1..Len(body) : EventSent("bedrock", server, body[i])
        BY <1>1, <2>1 DEF BodySent, EventsSent
      <3>4. EventSent("bedrock", server, Head(body))
        BY <3>2, <3>3
      <3>5. \A i \in 1..Len(Tail(body)) : i + 1 \in 1..Len(body)
        BY <3>2
      <3>6. EventsSent("bedrock", server, Tail(body))
        BY <3>2, <3>3, <3>5 DEF EventsSent
      <3> QED
        BY <2>1, <3>1, <3>4, <3>6 DEF BodySent
    <2>2. CASE dialect # "bedrock"
      <3>1. DataLines(body) # {} /\ e = NextEvent(body).data /\ body' = NextEvent(body).rest
        BY <2>2, DataIsThere DEF ReadEvent, Ready
      <3>2. LinesSent(dialect, server, body)
        BY <1>1, <2>2 DEF BodySent
      <3> QED
        BY <2>2, <3>1, <3>2, NextIsSent DEF BodySent
    <2> QED
      BY <2>1, <2>2
  <1> HIDE DEF e
  <1>3. ParserOK(dialect, r.state) /\ Reads(r) /\ DoneIsTrue(dialect, r.events, server)
    BY <1>1, <1>2, ReadStreamReads
  <1>4. /\ pc = "next" /\ parser' = r.state /\ Proceed(r.events, r.over)
        /\ UNCHANGED <<dialect, reply, server, channel, seen, cancelled>>
    BY DEF ReadEvent, e, serving
  <1> HIDE DEF r
  <1>5. r.over \in BOOLEAN /\ TellsEnd(r.events, r.over)
    BY <1>3 DEF Reads
  <1> QED
    BY <1>2, <1>3, <1>4, <1>5, ProceedKeepsEndInv

LEMMA EndOfBodyKeepsEndInv ==
    ASSUME EndInv, NEW failed \in BOOLEAN, EndOfBody(failed)
    PROVE  EndInv'
  <1> DEFINE q == StreamEnded(failed)
  <1>1. EndTypeOK /\ BodySent(dialect, server, body) /\ ParserOK(dialect, parser)
    BY DEF EndInv
  <1>2. TellsEnd(q, TRUE) /\ DoneIsTrue(dialect, q, server)
    BY <1>1, StreamEndedTells DEF DoneIsTrue
  <1>3. /\ pc = "next" /\ Proceed(q, TRUE) /\ parser' = parser /\ body' = body
        /\ UNCHANGED <<dialect, reply, server, channel, seen, cancelled>>
    BY DEF EndOfBody, serving
  <1> HIDE DEF q
  <1>4. ParserOK(dialect, parser') /\ BodySent(dialect, server, body')
    BY <1>1, <1>3
  <1> QED
    BY <1>2, <1>3, <1>4, ProceedKeepsEndInv

\* Taking the first of what is to be sent leaves the end to the last.
LEMMA TailTells ==
    ASSUME NEW q, NEW last \in BOOLEAN, q # <<>>, TellsEnd(q, last)
    PROVE  /\ Final(Head(q)) <=> (last /\ Tail(q) = <<>>)
           /\ Tail(q) # <<>> => TellsEnd(Tail(q), last)
           /\ SaysDone(Tail(q)) => SaysDone(q)
           /\ Head(q).type = "done" => SaysDone(q)
  <1> DEFINE t == Tail(q)
  <1>1. Sequence(q)
    BY DEF TellsEnd
  <1>2. /\ Sequence(t) /\ Len(t) = Len(q) - 1
        /\ \A i \in 1..Len(t) : t[i] = q[i + 1]
        /\ Head(q) = q[1] /\ Len(q) \in Nat /\ Len(q) >= 1
    BY <1>1, SequenceTail
  <1> HIDE DEF t, Sequence
  <1>3. \A i \in 1..Len(t) : i + 1 \in 1..Len(q) /\ (i + 1 = Len(q) <=> i = Len(t))
    BY <1>2
  <1>4. t = <<>> <=> Len(q) = 1
    BY <1>2, SequenceFacts
  <1>5. 1 \in 1..Len(q)
    BY <1>2
  <1>6. \A i \in 1..Len(q) : Final(q[i]) <=> (last /\ i = Len(q))
    BY DEF TellsEnd
  <1>7. Final(Head(q)) <=> (last /\ t = <<>>)
    BY <1>2, <1>4, <1>5, <1>6
  <1>8. ASSUME t # <<>> PROVE TellsEnd(t, last)
    BY <1>2, <1>3, <1>6, <1>8 DEF TellsEnd
  <1>9. SaysDone(t) => SaysDone(q)
    BY <1>2, <1>3 DEF SaysDone
  <1>10. Head(q).type = "done" => SaysDone(q)
    BY <1>2, <1>5 DEF SaysDone
  <1> QED
    BY <1>7, <1>8, <1>9, <1>10 DEF t

LEMMA ToldGrows ==
    ASSUME Sequence(seen), Sequence(channel), NEW e, channel' = Append(channel, e), seen' = seen
    PROVE  Sequence(channel') /\ Told' = Append(Told, e) /\ Sequence(Told)
  <1>1. PICK X : seen \in Seq(X)
    BY DEF Sequence
  <1>2. PICK Y : channel \in Seq(Y)
    BY DEF Sequence
  <1> DEFINE Z == X \cup Y \cup {e}
  <1>3. seen \in Seq(Z) /\ channel \in Seq(Z) /\ e \in Z
    BY <1>1, <1>2
  <1> HIDE DEF Z
  <1>4. seen \o Append(channel, e) = Append(seen \o channel, e) /\ Append(channel, e) \in Seq(Z) /\ seen \o channel \in Seq(Z)
    BY <1>3
  <1> QED
    BY <1>4 DEF Told, Sequence

LEMMA SendKeepsEndInv == EndInv /\ Send => EndInv'
  <1> SUFFICES ASSUME EndInv, Send PROVE EndInv'
    OBVIOUS
  <1> DEFINE e == Head(out)
             t == Tail(out)
  <1>1. /\ EndTypeOK /\ OutRight(pc, out, over) /\ ToldRight(Told, pc, cancelled)
        /\ DoneIsTrue(dialect, Told, server) /\ DoneIsTrue(dialect, out, server)
    BY DEF EndInv
  <1>2. /\ pc = "send" /\ channel' = Append(channel, e) /\ Proceed(t, over)
        /\ dialect' = dialect /\ reply' = reply /\ server' = server /\ body' = body /\ parser' = parser
        /\ seen' = seen /\ cancelled' = cancelled
    BY DEF Send, serving
  <1>3. out # <<>> /\ TellsEnd(out, over) /\ over \in BOOLEAN
    BY <1>1, <1>2 DEF OutRight, EndTypeOK
  <1>4. /\ Final(e) <=> (over /\ t = <<>>)
        /\ t # <<>> => TellsEnd(t, over)
        /\ SaysDone(t) => SaysDone(out)
        /\ e.type = "done" => SaysDone(out)
    BY <1>3, TailTells
  <1> HIDE DEF e, t
  <1>5. Sequence(channel') /\ Told' = Append(Told, e) /\ Sequence(Told)
    BY <1>1, <1>2, ToldGrows DEF EndTypeOK
  <1>6. out' = t /\ over' = over
    BY <1>2 DEF Proceed
  <1>7. /\ t # <<>> => pc' = "send"
        /\ t = <<>> /\ over => pc' = "closed"
        /\ t = <<>> /\ ~over => pc' \in {"check", "next"}
    BY <1>2 DEF Proceed
  <1>8. EndTypeOK'
    BY <1>1, <1>2, <1>3, <1>5, <1>6, <1>7 DEF EndTypeOK
  <1>9. OutRight(pc, out, over)'
    BY <1>3, <1>4, <1>6, <1>7 DEF OutRight
  <1> DEFINE n == Len(Told)
             q == Append(Told, e)
  <1>10. /\ n \in Nat /\ Sequence(q) /\ Len(q) = n + 1 /\ q[n + 1] = e
         /\ \A i \in 1..n : q[i] = Told[i]
    BY <1>5, SequenceAppend, SequenceFacts
  <1>11. q # <<>>
    BY <1>10, SequenceFacts
  <1>12. \A i \in 1..n : ~Final(Told[i])
    BY <1>1, <1>2 DEF ToldRight
  <1>13. pc' = "closed" <=> Final(e)
    BY <1>3, <1>4, <1>7
  <1> HIDE DEF n, q
  <1>14. \A i \in 1..(n + 1) : i = n + 1 \/ i \in 1..n
    BY <1>10
  <1>15. ToldRight(q, pc', cancelled')
    <2>1. \A i \in 1..Len(q) : Final(q[i]) => i = Len(q) /\ pc' = "closed"
      BY <1>10, <1>12, <1>13, <1>14
    <2>2. pc' = "closed" => Final(q[Len(q)])
      BY <1>10, <1>13
    <2> QED
      BY <1>10, <1>11, <2>1, <2>2 DEF ToldRight
  <1>16. SaysDone(q) => SaysDone(Told) \/ SaysDone(out)
    BY <1>4, <1>10, <1>14 DEF SaysDone, n
  <1>17. DoneIsTrue(dialect, q, server) /\ DoneIsTrue(dialect, t, server)
    BY <1>1, <1>4, <1>16 DEF DoneIsTrue
  <1>18. /\ ToldRight(Told, pc, cancelled)' /\ DoneIsTrue(dialect, Told, server)'
         /\ DoneIsTrue(dialect, out, server)'
    BY <1>2, <1>5, <1>6, <1>15, <1>17 DEF q
  <1>19. BodySent(dialect, server, body)' /\ ParserOK(dialect, parser)'
    BY <1>2 DEF EndInv
  <1> QED
    BY <1>8, <1>9, <1>18, <1>19 DEF EndInv

LEMMA ReadOnKeepsEndInv == EndInv /\ ReadOn => EndInv'
  <1> SUFFICES ASSUME EndInv, ReadOn PROVE EndInv'
    OBVIOUS
  <1>1. /\ EndTypeOK /\ OutRight(pc, out, over) /\ ToldRight(Told, pc, cancelled)
        /\ BodySent(dialect, server, body) /\ ParserOK(dialect, parser)
        /\ DoneIsTrue(dialect, Told, server) /\ DoneIsTrue(dialect, out, server)
    BY DEF EndInv
  <1>2. CASE CheckContext
    <2>1. /\ pc = "check" /\ pc' \in {"closed", "next"} /\ (pc' = "closed" => cancelled)
          /\ dialect' = dialect /\ reply' = reply /\ server' = server /\ body' = body /\ parser' = parser
          /\ out' = out /\ over' = over /\ seen' = seen /\ channel' = channel /\ cancelled' = cancelled
          /\ Told' = Told
      BY <1>2 DEF CheckContext, serving, Told
    <2>2. EndTypeOK'
      BY <1>1, <2>1 DEF EndTypeOK
    <2>3. OutRight(pc, out, over)'
      BY <1>1, <2>1 DEF OutRight
    <2>4. ToldRight(Told, pc, cancelled)'
      BY <1>1, <2>1 DEF ToldRight
    <2>5. /\ BodySent(dialect, server, body)' /\ ParserOK(dialect, parser)'
          /\ DoneIsTrue(dialect, Told, server)' /\ DoneIsTrue(dialect, out, server)'
      BY <1>1, <2>1
    <2> QED
      BY <2>2, <2>3, <2>4, <2>5 DEF EndInv
  <1>3. CASE GiveUpSend
    <2>1. /\ pc = "send" /\ cancelled /\ pc' = "closed" /\ out' = <<>>
          /\ dialect' = dialect /\ reply' = reply /\ server' = server /\ body' = body /\ parser' = parser
          /\ over' = over /\ seen' = seen /\ channel' = channel /\ cancelled' = cancelled
          /\ Told' = Told
      BY <1>3 DEF GiveUpSend, serving, Told
    <2>2. EndTypeOK'
      BY <1>1, <2>1 DEF EndTypeOK
    <2>3. OutRight(pc, out, over)'
      BY <2>1 DEF OutRight
    <2>4. ToldRight(Told, pc, cancelled)'
      BY <1>1, <2>1 DEF ToldRight
    <2>5. DoneIsTrue(dialect, out, server)'
      <3>1. ~SaysDone(<<>>)
        BY EmptyIsSilent, SilentSteps
      <3> QED
        BY <2>1, <3>1 DEF DoneIsTrue
    <2>6. /\ BodySent(dialect, server, body)' /\ ParserOK(dialect, parser)'
          /\ DoneIsTrue(dialect, Told, server)'
      BY <1>1, <2>1
    <2> QED
      BY <2>2, <2>3, <2>4, <2>5, <2>6 DEF EndInv
  <1> QED
    BY <1>2, <1>3, ReadEventKeepsEndInv, EndOfBodyKeepsEndInv, SendKeepsEndInv DEF ReadOn

-----------------------------------------------------------------------------
(* The reader and the caller. *)

\* Receiving moves an event from the channel to what was seen.
LEMMA ReceivedIsTold ==
    ASSUME Sequence(seen), Sequence(channel), channel # <<>>, seen' = Append(seen, Head(channel)),
           channel' = Tail(channel)
    PROVE  Told' = Told /\ Sequence(seen') /\ Sequence(channel')
  <1>1. PICK X : seen \in Seq(X)
    BY DEF Sequence
  <1>2. PICK Y : channel \in Seq(Y)
    BY DEF Sequence
  <1> DEFINE Z == X \cup Y
  <1>3. seen \in Seq(Z) /\ channel \in Seq(Z)
    BY <1>1, <1>2
  <1> HIDE DEF Z
  <1>4. Head(channel) \in Z /\ Tail(channel) \in Seq(Z)
    BY <1>3
  <1>5. Append(seen, Head(channel)) \in Seq(Z)
    BY <1>3, <1>4
  <1>6. Append(seen, Head(channel)) \o Tail(channel) = seen \o channel
    <2> DEFINE s == Append(seen, Head(channel)) \o Tail(channel)
               t == seen \o channel
               n == Len(seen)
               m == Len(channel)
    <2>1. n \in Nat /\ m \in Nat /\ m >= 1 /\ Len(Tail(channel)) = m - 1 /\ Len(Append(seen, Head(channel))) = n + 1
      BY <1>3
    <2>2. /\ s \in Seq(Z) /\ Len(s) = (n + 1) + (m - 1)
          /\ \A i \in 1..((n + 1) + (m - 1)) :
               s[i] = IF i <= n + 1 THEN Append(seen, Head(channel))[i] ELSE Tail(channel)[i - (n + 1)]
      BY <1>4, <1>5, <2>1, ConcatProperties
    <2>3. /\ t \in Seq(Z) /\ Len(t) = n + m
          /\ \A i \in 1..(n + m) : t[i] = IF i <= n THEN seen[i] ELSE channel[i - n]
      BY <1>3, ConcatProperties
    <2>4. /\ \A i \in 1..n : Append(seen, Head(channel))[i] = seen[i]
          /\ Append(seen, Head(channel))[n + 1] = channel[1]
      BY <1>3
    <2>5. \A i \in 1..(m - 1) : Tail(channel)[i] = channel[i + 1]
      BY <1>3, HeadTailProperties
    <2> HIDE DEF s, t, n, m
    <2>6. ASSUME NEW i \in 1..(n + m) PROVE s[i] = t[i]
      <3>0. i \in Int /\ (n + 1) + (m - 1) = n + m
        BY <2>1
      <3>1. CASE i <= n
        <4>1. i \in 1..n /\ i <= n + 1
          BY <2>1, <3>0, <3>1
        <4>2. s[i] = Append(seen, Head(channel))[i]
          BY <2>2, <3>0, <4>1
        <4>3. t[i] = seen[i]
          BY <2>3, <3>1
        <4> QED
          BY <2>4, <4>1, <4>2, <4>3
      <3>2. CASE i = n + 1
        <4>1. i - n = 1 /\ i <= n + 1 /\ ~(i <= n)
          BY <2>1, <3>2
        <4>2. s[i] = channel[1]
          BY <2>2, <2>4, <3>0, <3>2, <4>1
        <4>3. t[i] = channel[1]
          BY <2>3, <4>1
        <4> QED
          BY <4>2, <4>3
      <3>3. CASE i > n + 1
        <4>1. ~(i <= n + 1) /\ ~(i <= n) /\ i - (n + 1) \in 1..(m - 1) /\ (i - (n + 1)) + 1 = i - n
          BY <2>1, <3>3
        <4>2. s[i] = Tail(channel)[i - (n + 1)]
          BY <2>2, <3>0, <4>1
        <4>3. t[i] = channel[i - n]
          BY <2>3, <4>1
        <4> QED
          BY <2>5, <4>1, <4>2, <4>3
      <3> QED
        BY <2>1, <3>0, <3>1, <3>2, <3>3
    <2>7. Len(s) = Len(t) /\ Len(t) = n + m
      BY <2>1, <2>2, <2>3
    <2>8. s = t
      BY <2>2, <2>3, <2>6, <2>7, SeqEqual
    <2> QED
      BY <2>8 DEF s, t
  <1> QED
    BY <1>4, <1>5, <1>6 DEF Told, Sequence

LEMMA OthersKeepEndInv == EndInv /\ (Receive \/ StopReading \/ Cancel \/ UNCHANGED vars) => EndInv'
  <1> SUFFICES ASSUME EndInv, Receive \/ StopReading \/ Cancel \/ UNCHANGED vars PROVE EndInv'
    OBVIOUS
  <1>1. /\ EndTypeOK /\ OutRight(pc, out, over) /\ ToldRight(Told, pc, cancelled)
        /\ BodySent(dialect, server, body) /\ ParserOK(dialect, parser)
        /\ DoneIsTrue(dialect, Told, server) /\ DoneIsTrue(dialect, out, server)
    BY DEF EndInv
  <1>2. /\ dialect' = dialect /\ reply' = reply /\ server' = server /\ body' = body /\ parser' = parser
        /\ pc' = pc /\ out' = out /\ over' = over
    BY DEF Receive, StopReading, Cancel, vars, serving, stream
  <1>3. Told' = Told /\ Sequence(seen') /\ Sequence(channel') /\ (cancelled => cancelled')
    <2>1. Sequence(seen) /\ Sequence(channel)
      BY <1>1 DEF EndTypeOK
    <2> HIDE DEF Sequence
    <2>2. CASE Receive
      <3>1. channel # <<>> /\ seen' = Append(seen, Head(channel)) /\ channel' = Tail(channel) /\ cancelled' = cancelled
        BY <2>2 DEF Receive
      <3>2. Told' = Told /\ Sequence(seen') /\ Sequence(channel')
        BY <2>1, <3>1, ReceivedIsTold
      <3> QED
        BY <3>1, <3>2
    <2>3. CASE StopReading \/ Cancel \/ UNCHANGED vars
      <3>1. channel' = channel /\ seen' = seen /\ (cancelled => cancelled')
        BY <2>3 DEF StopReading, Cancel, vars
      <3> QED
        BY <2>1, <3>1 DEF Told
    <2> QED
      BY <2>2, <2>3
  <1> HIDE DEF Sequence
  <1>4. EndTypeOK'
    BY <1>1, <1>2, <1>3 DEF EndTypeOK
  <1>5. ToldRight(Told, pc, cancelled)'
    BY <1>1, <1>2, <1>3 DEF ToldRight
  <1>6. /\ OutRight(pc, out, over)' /\ BodySent(dialect, server, body)' /\ ParserOK(dialect, parser)'
        /\ DoneIsTrue(dialect, Told, server)' /\ DoneIsTrue(dialect, out, server)'
    BY <1>1, <1>2, <1>3
  <1> QED
    BY <1>4, <1>5, <1>6 DEF EndInv

LEMMA EndInvTells == EndInv => EndIsTold
  <1> SUFFICES ASSUME EndInv PROVE EndIsTold
    OBVIOUS
  <1>1. /\ Sequence(seen) /\ Sequence(channel) /\ ToldRight(Told, pc, cancelled)
        /\ DoneIsTrue(dialect, Told, server)
    BY DEF EndInv, EndTypeOK
  <1>2. /\ Sequence(Told) /\ Len(Told) = Len(seen) + Len(channel)
        /\ \A i \in 1..Len(seen) : Told[i] = seen[i]
    BY <1>1, SequenceJoin DEF Told
  <1>3. /\ Len(seen) \in Nat /\ Len(channel) \in Nat /\ DOMAIN seen = 1..Len(seen) /\ DOMAIN Told = 1..Len(Told)
    BY <1>1, <1>2, SequenceFacts
  <1>4. \A i \in DOMAIN Told : Final(Told[i]) => i = Len(Told) /\ pc = "closed"
    BY <1>1, <1>3 DEF ToldRight
  <1>5. pc = "closed" => cancelled \/ (Told # <<>> /\ Final(Last(Told)))
    BY <1>1 DEF ToldRight, Last
  <1>6. \A i \in DOMAIN seen : i \in 1..Len(Told) /\ Told[i] = seen[i]
    BY <1>2, <1>3
  <1>7. dialect = "responses" /\ (\E i \in DOMAIN seen : seen[i].type = "done") => server = "finished"
    BY <1>1, <1>6 DEF DoneIsTrue, SaysDone
  <1> QED
    BY <1>4, <1>5, <1>7 DEF EndIsTold, Told

(***************************************************************************)
(* A stream of any provider ends with one done or error event, the last    *)
(* one, unless the caller cancelled; the Responses client says done only   *)
(* of a reply the server finished (readStream; gemini.go:230,              *)
(* responses.go:576).                                                      *)
(***************************************************************************)
THEOREM EndIsAlwaysTold == Spec => []EndIsTold
  <1>1. Init => EndInv
    BY EndInvInit
  <1>2. EndInv /\ [Next]_vars => EndInv'
    BY ServeKeepsEndInv, ReadOnKeepsEndInv, OthersKeepEndInv DEF Next
  <1>3. EndInv => EndIsTold
    BY EndInvTells
  <1> QED
    BY <1>1, <1>2, <1>3, PTL DEF Spec

-----------------------------------------------------------------------------
(* The requests. *)

OptionsRight ==
    /\ options.schema \in BOOLEAN /\ options.effort \in STRING
    /\ options.budget \in Seq(Int) /\ Len(options.budget) <= 1
    /\ options.choice \in {"required", "tool"} => options.tools # {}

\* An effort asks for a positive number of tokens, or for none.
LEMMA BudgetIsNat ==
    ASSUME NEW effort
    PROVE  BudgetTokens(effort) \in Nat
  BY DEF BudgetTokens

\* A budget that is given is one integer, and goes before that of the effort.
LEMMA GivenBudget ==
    ASSUME OptionsRight
    PROVE  /\ options.budget # <<>> => options.budget = <<options.budget[1]>> /\ options.budget[1] \in Int
           /\ BudgetAsked(options) \in Int
           /\ options.budget = <<>> => BudgetAsked(options) = BudgetTokens(options.effort)
           /\ options.budget # <<>> => BudgetAsked(options) = options.budget[1]
  <1>1. options.budget # <<>> => options.budget = <<options.budget[1]>> /\ options.budget[1] \in Int
    BY DEF OptionsRight
  <1>2. BudgetTokens(options.effort) \in Nat
    BY BudgetIsNat
  <1> QED
    BY <1>1, <1>2 DEF BudgetAsked

(***************************************************************************)
(* What a dialect sends of the reasoning is right if it sends the given    *)
(* budget, or none; a level or a positive number when it is to think, and  *)
(* neither when it is not.                                                 *)
(***************************************************************************)
LEMMA MeansReasoning ==
    ASSUME OptionsRight, NEW b,
           Thinks(options) /\ options.effort # "none" /\ ~Oddly => b.effort \notin {"", "none"} \/ Positive(b.budget),
           Thinks(options) /\ options.effort # "none" => b.effort \notin {"", "none"} \/ b.budget # <<>>,
           Positive(options.budget) => b.budget \in {<<>>, options.budget},
           options.budget = <<>> /\ ~Requested(options.effort) => b.effort \in {"", "none"} /\ ~Positive(b.budget)
    PROVE  ReasoningMeant(b)
  <1>1. Oddly => Thinks(options)
    BY DEF Oddly, Thinks
  <1> QED
    BY <1>1 DEF ReasoningMeant

LEMMA EffortIsOn ==
    ASSUME NEW budget
    PROVE  NearestEffort(budget) \notin {"", "none"}
  BY DEF NearestEffort

LEMMA CompatMeans ==
    ASSUME OptionsRight
    PROVE  LET b == CompatD!BuildRequest(options, options.effortField) IN ChoiceMeant(b) /\ ReasoningMeant(b)
  <1> DEFINE b == CompatD!BuildRequest(options, options.effortField)
             e == CompatD!ReasoningSent(options, options.effortField)
  <1>1. /\ b.tools = options.tools /\ b.choice = CompatD!ConvertToolChoice(options.choice)
        /\ b.forced = options.forced /\ b.format = CompatD!FormatSent(options)
        /\ b.effort = e /\ b.budget = <<>>
    BY DEF CompatD!BuildRequest
  <1>2. options.schema => CompatD!FormatSent(options) = "schema"
    BY DEF CompatD!FormatSent
  <1> HIDE DEF b
  <1>3. ChoiceMeant(b)
    BY <1>1, <1>2 DEF ChoiceMeant, CompatD!ConvertToolChoice
  <1>4. \A x : CompatD!NearestEffort(x) \notin {"", "none"}
    BY DEF CompatD!NearestEffort
  <1>5. CompatD!Thinks(options) <=> Thinks(options)
    BY DEF CompatD!Thinks, Thinks, CompatD!Requested, Requested
  <1>6. Thinks(options) /\ options.effort # "none" => e \notin {"", "none"}
    BY <1>4, <1>5 DEF CompatD!ReasoningSent, Thinks, Requested
  <1>7. options.budget = <<>> /\ ~Requested(options.effort) => e \in {"", "none"}
    BY DEF CompatD!ReasoningSent, Requested
  <1> HIDE DEF e
  <1>8. ~Positive(b.budget)
    BY <1>1 DEF Positive
  <1>9. ReasoningMeant(b)
    BY <1>1, <1>6, <1>7, <1>8, MeansReasoning, Zenon
  <1> QED
    BY <1>3, <1>9 DEF b

\* A dialect with a budget alone sends the one that is asked for, or a number
\* of its own for an effort that has none or a budget of 0.
LEMMA NumberMeans ==
    ASSUME OptionsRight, NEW n,
           Thinks(options) => n = <<BudgetAsked(options)>> \/ (~Positive(options.budget) /\ Positive(n)),
           Thinks(options) /\ options.budget = <<>> => Positive(n),
           ~Thinks(options) => n = <<>>
    PROVE  /\ Thinks(options) /\ ~Oddly => Positive(n)
           /\ Thinks(options) => n # <<>>
           /\ Positive(options.budget) => n = options.budget
           /\ options.budget = <<>> /\ ~Requested(options.effort) => ~Positive(n)
  <1>1. /\ options.budget # <<>> => options.budget = <<options.budget[1]>> /\ BudgetAsked(options) = options.budget[1]
        /\ options.budget = <<>> /\ ~Requested(options.effort) => ~Thinks(options)
        /\ options.budget # <<>> => Thinks(options)
    BY GivenBudget DEF Thinks
  <1>2. Positive(options.budget) => n = options.budget
    BY <1>1 DEF Positive
  <1>3. Thinks(options) => n # <<>>
    BY DEF Positive
  <1>4. ~Positive(<<>>)
    BY DEF Positive
  <1>5. Thinks(options) /\ ~Oddly => Positive(n)
    BY <1>2 DEF Oddly
  <1>6. options.budget = <<>> /\ ~Requested(options.effort) => ~Positive(n)
    BY <1>1, <1>4
  <1> QED
    BY <1>2, <1>3, <1>5, <1>6

LEMMA AnthropicMeans ==
    ASSUME OptionsRight
    PROVE  LET b == AnthropicD!BuildRequest(options) IN ChoiceMeant(b) /\ ReasoningMeant(b)
  <1> DEFINE b == AnthropicD!BuildRequest(options)
             n == AnthropicD!BudgetSent(options)
             search == IF options.search THEN {"web_search"} ELSE {}
             tools  == options.tools \union search \union (IF options.schema THEN {"structured_output"} ELSE {})
  <1>1. /\ b.tools = tools \ search
        /\ b.choice = IF options.schema THEN "tool" ELSE AnthropicD!ConvertToolChoice(options.choice)
        /\ b.forced = IF options.schema THEN "structured_output" ELSE options.forced
    BY DEF AnthropicD!BuildRequest
  <1>e. b.effort = "" /\ b.budget = n
    BY DEF AnthropicD!BuildRequest
  <1>2. options.schema => "structured_output" \in b.tools
    BY <1>1
  <1> HIDE DEF b, tools, search
  <1>3. ChoiceMeant(b)
    BY <1>1, <1>2 DEF ChoiceMeant, AnthropicD!ConvertToolChoice
  <1>4. AnthropicD!Thinks(options) <=> Thinks(options)
    BY DEF AnthropicD!Thinks, Thinks, AnthropicD!Requested, Requested
  <1>5. \A x : AnthropicD!BudgetTokens(x) = BudgetTokens(x) /\ BudgetTokens(x) \in Nat
    <2>1. \A x : AnthropicD!BudgetTokens(x) = BudgetTokens(x)
      BY DEF AnthropicD!BudgetTokens, BudgetTokens
    <2> QED
      BY <2>1, BudgetIsNat
  <1>6. AnthropicD!BudgetAsked(options) = BudgetAsked(options)
    BY <1>5 DEF AnthropicD!BudgetAsked, BudgetAsked
  <1>7. /\ Thinks(options) => n = <<BudgetAsked(options)>> \/ (~Positive(options.budget) /\ Positive(n))
        /\ Thinks(options) /\ options.budget = <<>> => Positive(n)
    <2>1. CASE options.budget # <<>>
      BY <1>4, <1>6, <2>1 DEF AnthropicD!BudgetSent, Thinks
    <2>2. CASE options.budget = <<>> /\ BudgetAsked(options) > 0
      <3>1. Thinks(options) => n = <<BudgetAsked(options)>>
        BY <1>4, <1>6, <2>2 DEF AnthropicD!BudgetSent
      <3> HIDE DEF n
      <3> QED
        BY <2>2, <3>1 DEF Positive
    <2>3. CASE options.budget = <<>> /\ ~(BudgetAsked(options) > 0)
      <3>1. Thinks(options) => n = <<10000>>
        BY <1>4, <1>6, <2>3 DEF AnthropicD!BudgetSent
      <3> HIDE DEF n
      <3> QED
        BY <2>3, <3>1 DEF Positive
    <2> QED
      BY <2>1, <2>2, <2>3
  <1>8. ~Thinks(options) => n = <<>>
    BY <1>4 DEF AnthropicD!BudgetSent
  <1> HIDE DEF n
  <1>9. /\ Thinks(options) /\ ~Oddly => Positive(n)
        /\ Thinks(options) => n # <<>>
        /\ Positive(options.budget) => n = options.budget
        /\ options.budget = <<>> /\ ~Requested(options.effort) => ~Positive(n)
    BY <1>7, <1>8, NumberMeans
  <1>10. ReasoningMeant(b)
    BY <1>e, <1>9, MeansReasoning, Zenon
  <1> QED
    BY <1>3, <1>10 DEF b

LEMMA BedrockMeans ==
    ASSUME OptionsRight
    PROVE  LET b == BedrockD!BuildRequest(options) IN ChoiceMeant(b) /\ ReasoningMeant(b)
  <1> DEFINE b == BedrockD!BuildRequest(options)
             n == BedrockD!BudgetSent(options)
             all   == options.tools \union (IF options.schema THEN {"structured_output"} ELSE {})
             tools == IF options.choice = "none" /\ ~options.schema THEN {} ELSE all
  <1>1. /\ b.tools = tools
        /\ b.choice = CASE tools = {} -> ""
                        [] options.schema -> "tool"
                        [] OTHER -> BedrockD!ConvertToolChoice(options.choice)
        /\ b.forced = IF options.schema THEN "structured_output" ELSE options.forced
    BY DEF BedrockD!BuildRequest
  <1>e. b.effort = "" /\ b.budget = n
    BY DEF BedrockD!BuildRequest
  <1>2. options.schema => "structured_output" \in tools /\ b.choice = "tool"
    BY <1>1
  <1>3. ~options.schema /\ options.choice \in {"required", "tool"} =>
            b.choice = BedrockD!ConvertToolChoice(options.choice)
    <2>1. ~options.schema /\ options.choice \in {"required", "tool"} => tools # {}
      BY DEF OptionsRight
    <2> HIDE DEF b, tools
    <2> QED
      BY <1>1, <2>1
  <1>4. options.choice = "none" /\ ~options.schema => tools = {}
    OBVIOUS
  <1> HIDE DEF b, tools, all
  <1>5. ChoiceMeant(b)
    BY <1>1, <1>2, <1>3, <1>4 DEF ChoiceMeant, BedrockD!ConvertToolChoice
  <1>6. BedrockD!Thinks(options) <=> Thinks(options)
    BY DEF BedrockD!Thinks, Thinks, BedrockD!Requested, Requested
  <1>7. \A x : BedrockD!BudgetTokens(x) = BudgetTokens(x) /\ BudgetTokens(x) \in Nat
    <2>1. \A x : BedrockD!BudgetTokens(x) = BudgetTokens(x)
      BY DEF BedrockD!BudgetTokens, BudgetTokens
    <2> QED
      BY <2>1, BudgetIsNat
  <1>8. BedrockD!BudgetAsked(options) = BudgetAsked(options)
    BY <1>7 DEF BedrockD!BudgetAsked, BudgetAsked
  <1>9. /\ Thinks(options) => n = <<BudgetAsked(options)>> \/ (~Positive(options.budget) /\ Positive(n))
        /\ Thinks(options) /\ options.budget = <<>> => Positive(n)
    <2>1. CASE BudgetAsked(options) = 0
      <3>1. Thinks(options) => n = <<10000>>
        BY <1>6, <1>8, <2>1 DEF BedrockD!BudgetSent
      <3>2. ~Positive(options.budget)
        BY <2>1, GivenBudget DEF Positive
      <3> HIDE DEF n
      <3> QED
        BY <3>1, <3>2 DEF Positive
    <2>2. CASE BudgetAsked(options) # 0
      <3>1. Thinks(options) => n = <<BudgetAsked(options)>>
        BY <1>6, <1>8, <2>2 DEF BedrockD!BudgetSent
      <3>2. options.budget = <<>> => BudgetAsked(options) > 0
        BY <2>2, GivenBudget, BudgetIsNat
      <3> HIDE DEF n
      <3> QED
        BY <3>1, <3>2 DEF Positive
    <2> QED
      BY <2>1, <2>2
  <1>10. ~Thinks(options) => n = <<>>
    BY <1>6 DEF BedrockD!BudgetSent
  <1> HIDE DEF n
  <1>11. /\ Thinks(options) /\ ~Oddly => Positive(n)
         /\ Thinks(options) => n # <<>>
         /\ Positive(options.budget) => n = options.budget
         /\ options.budget = <<>> /\ ~Requested(options.effort) => ~Positive(n)
    BY <1>9, <1>10, NumberMeans
  <1>12. ReasoningMeant(b)
    BY <1>e, <1>11, MeansReasoning, Zenon
  <1> QED
    BY <1>5, <1>12 DEF b

LEMMA GeminiMeans ==
    ASSUME OptionsRight
    PROVE  LET b == GeminiD!BuildRequest(options) IN ChoiceMeant(b) /\ ReasoningMeant(b)
  <1> DEFINE b == GeminiD!BuildRequest(options)
             t == GeminiD!ThinkingSent(options)
  <1>1. /\ b.tools = options.tools /\ b.choice = GeminiD!ConvertToolChoice(options.choice)
        /\ b.forced = IF options.choice = "tool" THEN options.forced ELSE ""
        /\ b.effort = t.effort /\ b.budget = t.budget
    BY DEF GeminiD!BuildRequest
  <1>2. options.schema => b.format = "schema"
    BY DEF GeminiD!BuildRequest
  <1> HIDE DEF b
  <1>3. ChoiceMeant(b)
    BY <1>1, <1>2 DEF ChoiceMeant, GeminiD!ConvertToolChoice
  <1>4. GeminiD!Thinks(options) <=> Thinks(options)
    BY DEF GeminiD!Thinks, Thinks, GeminiD!Requested, Requested
  <1>5. \A x : GeminiD!BudgetTokens(x) = BudgetTokens(x) /\ BudgetTokens(x) \in Nat
    <2>1. \A x : GeminiD!BudgetTokens(x) = BudgetTokens(x)
      BY DEF GeminiD!BudgetTokens, BudgetTokens
    <2> QED
      BY <2>1, BudgetIsNat
  <1>6. Thinks(options) <=> options.budget # <<>> \/ Requested(options.effort)
    BY DEF Thinks
  <1>7. GeminiD!BudgetAsked(options) = BudgetAsked(options) /\ BudgetAsked(options) \in Int
    BY <1>5, GivenBudget DEF GeminiD!BudgetAsked, BudgetAsked
  <1> DEFINE budget == BudgetAsked(options)
             level  == options.budget = <<>> /\ options.model = "gemini-3"
  <1>g. /\ options.budget # <<>> => options.budget = <<options.budget[1]>> /\ budget = options.budget[1]
        /\ Positive(options.budget) <=> options.budget # <<>> /\ budget > 0
    BY GivenBudget DEF Positive
  <1>8. CASE Thinks(options) /\ level
    <2>1. t = [effort |-> options.effort, budget |-> <<>>]
      BY <1>4, <1>8 DEF GeminiD!ThinkingSent
    <2>2. t.effort = options.effort /\ Requested(options.effort) /\ ~Positive(options.budget)
      BY <1>6, <1>8, <2>1 DEF Positive
    <2> HIDE DEF t
    <2>3. b.effort \notin {"", "none"}
      BY <1>1, <2>2 DEF Requested
    <2> QED
      BY <1>3, <2>2, <2>3, MeansReasoning, Zenon DEF b
  <1>9. CASE Thinks(options) /\ ~level /\ budget > 0
    <2>0. ~(budget <= 0)
      BY <1>7, <1>9
    <2>1. t = [effort |-> "", budget |-> <<budget>>]
      BY <1>4, <1>7, <1>9, <2>0 DEF GeminiD!ThinkingSent
    <2> HIDE DEF t, budget
    <2>2. b.budget = <<budget>>
      BY <1>1, <2>1
    <2>3. Positive(b.budget) /\ b.budget # <<>>
      BY <1>9, <2>2 DEF Positive
    <2>4. options.budget # <<>> => b.budget = options.budget
      BY <1>g, <2>2
    <2>5. ~(options.budget = <<>> /\ ~Requested(options.effort)) /\ (Positive(options.budget) => options.budget # <<>>)
      BY <1>6, <1>9 DEF Positive
    <2> QED
      BY <1>3, <2>3, <2>4, <2>5, MeansReasoning, Zenon DEF b
  <1>10. CASE Thinks(options) /\ ~level /\ ~(budget > 0)
    <2>1. budget <= 0
      BY <1>7, <1>10
    <2>2. t = [effort |-> "default", budget |-> <<>>]
      BY <1>4, <1>7, <1>10, <2>1 DEF GeminiD!ThinkingSent
    <2>3. ~Positive(options.budget)
      BY <1>g, <1>10
    <2> HIDE DEF t, budget
    <2>4. t.effort = "default"
      BY <2>2
    <2>5. b.effort \notin {"", "none"}
      BY <1>1, <2>4
    <2>6. ~(options.budget = <<>> /\ ~Requested(options.effort))
      BY <1>6, <1>10
    <2> QED
      BY <1>3, <2>3, <2>5, <2>6, MeansReasoning, Zenon DEF b
  <1>11. CASE ~Thinks(options)
    <2>1. t = [effort |-> "", budget |-> <<0>>] \/ t = [effort |-> "", budget |-> <<>>]
      BY <1>4, <1>11 DEF GeminiD!ThinkingSent
    <2> HIDE DEF t
    <2>2. t.effort = "" /\ (t.budget = <<0>> \/ t.budget = <<>>)
      <3>1. \A n : [effort |-> "", budget |-> n].effort = "" /\ [effort |-> "", budget |-> n].budget = n
        OBVIOUS
      <3> QED
        BY <2>1, <3>1, Zenon
    <2>3. ~Positive(<<0>>) /\ ~Positive(<<>>)
      BY DEF Positive
    <2>4. ~Positive(b.budget) /\ b.effort \in {"", "none"}
      BY <1>1, <2>2, <2>3, Zenon
    <2>5. ~Positive(options.budget)
      BY <1>6, <1>11 DEF Positive
    <2> QED
      BY <1>3, <1>11, <2>4, <2>5, MeansReasoning, Zenon DEF b
  <1> QED
    BY <1>8, <1>9, <1>10, <1>11

LEMMA ResponsesMeans ==
    ASSUME OptionsRight
    PROVE  LET b == ResponsesD!BuildRequest(options) IN ChoiceMeant(b) /\ ReasoningMeant(b)
  <1> DEFINE b == ResponsesD!BuildRequest(options)
             e == ResponsesD!EffortSent(options)
  <1>1. /\ b.tools = options.tools
        /\ b.choice = IF options.choice = "tool" THEN "function" ELSE options.choice
        /\ b.forced = options.forced /\ b.effort = e /\ b.budget = <<>>
    BY DEF ResponsesD!BuildRequest
  <1>2. options.schema => b.format = "schema"
    BY DEF ResponsesD!BuildRequest
  <1> HIDE DEF b
  <1>3. ChoiceMeant(b)
    BY <1>1, <1>2 DEF ChoiceMeant
  <1>4. \A x : ResponsesD!NearestEffort(x) \notin {"", "none"}
    BY DEF ResponsesD!NearestEffort
  <1>5. Thinks(options) /\ options.effort # "none" => e \notin {"", "none"}
    BY <1>4 DEF ResponsesD!EffortSent, Thinks, Requested
  <1>6. options.budget = <<>> /\ ~Requested(options.effort) => e \in {"", "none"}
    BY DEF ResponsesD!EffortSent, Requested
  <1> HIDE DEF e
  <1>7. ~Positive(b.budget)
    BY <1>1 DEF Positive
  <1>8. ReasoningMeant(b)
    BY <1>1, <1>5, <1>6, <1>7, MeansReasoning, Zenon
  <1> QED
    BY <1>3, <1>8 DEF b

(***************************************************************************)
(* A request asks every provider for the same: its tool choice, its schema *)
(* and its reasoning (buildRequestBody, buildRequest), whatever its other  *)
(* options are and whatever the history was.                               *)
(***************************************************************************)
THEOREM RequestAlwaysMeans == RequestSpec => []RequestMeans
  <1>1. RequestInit => options \in Options
    BY DEF RequestInit
  <1>2. options \in Options /\ [RequestNext]_requestVars => (options \in Options)'
    BY DEF RequestNext, requestVars, SystemSays, UserSays, ModelAnswers, ToolAnswers, Say
  <1>3. options \in Options => RequestMeans
    <2> SUFFICES ASSUME options \in Options, NEW d \in Dialects
                 PROVE  ChoiceMeant(Built(d)) /\ ReasoningMeant(Built(d))
      BY DEF RequestMeans
    <2>1. OptionsRight
      BY OptionsAssumption DEF OptionsRight
    <2>2. d \in Providers
      BY ProviderAssumption DEF Providers
    <2>3. CASE d = "compat"
      BY <2>1, <2>3, CompatMeans DEF Built
    <2>4. CASE d = "anthropic"
      BY <2>1, <2>4, AnthropicMeans DEF Built
    <2>5. CASE d = "bedrock"
      BY <2>1, <2>5, BedrockMeans DEF Built
    <2>6. CASE d = "gemini"
      BY <2>1, <2>6, GeminiMeans DEF Built
    <2>7. CASE d = "responses"
      BY <2>1, <2>7, ResponsesMeans DEF Built
    <2> QED
      BY <2>2, <2>3, <2>4, <2>5, <2>6, <2>7 DEF Providers
  <1> QED
    BY <1>1, <1>2, <1>3, PTL DEF RequestSpec

-----------------------------------------------------------------------------
(* What the dialects make of a model's answer.                             *)

\* Strings, and by name those the code puts in.
Lexeme == STRING \union {"", "{}", "null", "structured_output", "stop", "prompt", "rules", "question", "result of"} \union PartKinds

Text == Seq(Lexeme)

\* Arguments are the same value however often they are written anew.
Sound(x) == x \in {<<>>, <<"null">>} \/ Marshal(x) \notin {<<>>, <<"null">>}

BlockRead ==
    {b \in [kind : {"text", "thinking", "call"}, id : Lexeme, name : Lexeme, pieces : Seq(Text), signature : Lexeme,
           field : {"text", "thinking"}] :
        b.kind = "call" =>
            /\ b.id # "" /\ b.name # ""
            /\ FlattenSeq(b.pieces) = <<>> \/ Marshal(FlattenSeq(b.pieces)) \notin {<<>>, <<"null">>}}

MadeBy(d) ==
    {c \in [id : Lexeme, name : Lexeme, arguments : Text, metadata : [signature : Lexeme, reasoning : Text]] :
        /\ c.id # "" /\ Sound(c.arguments)
        /\ d \in {"anthropic", "bedrock", "responses"} => c.metadata.signature = ""
        /\ d # "responses" => c.metadata.reasoning = <<>>
        /\ d = "gemini" => c.id = c.name}

LEMMA OneIsSequence ==
    ASSUME NEW X, NEW x \in X
    PROVE  <<x>> \in Seq(X) /\ Len(<<x>>) = 1
  OBVIOUS

LEMMA SelectedTyped ==
    ASSUME NEW X, NEW s \in Seq(X), NEW T
    PROVE  FlattenSeq([i \in DOMAIN s |-> IF s[i] \in T THEN <<s[i]>> ELSE <<>>]) \in Seq(X)
  <1> DEFINE g == [x \in X |-> IF x \in T THEN <<x>> ELSE <<>>]
  <1>1. g \in [X -> Seq(X)]
    OBVIOUS
  <1>2. \A i \in DOMAIN s : g[s[i]] = IF s[i] \in T THEN <<s[i]>> ELSE <<>>
    BY ElementOfSeq, LenProperties
  <1>3. Images(g, s) \in Seq(X)
    <2> HIDE DEF g
    <2> QED
      BY <1>1, ImagesTyped
  <1> QED
    BY <1>2, <1>3 DEF Images

Unblanked == [x \in Lexeme |-> IF x # Blank THEN <<x>> ELSE <<>>]

LEMMA MarshalWrites ==
    ASSUME NEW x \in Text
    PROVE  /\ Marshal(x) = Images(Unblanked, x) /\ Marshal(x) \in Text
           /\ Marshal(Marshal(x)) = Marshal(x)
  <1>1. Unblanked \in [Lexeme -> Seq(Lexeme)]
    <2>1. \A p \in Lexeme : <<p>> \in Seq(Lexeme) /\ <<>> \in Seq(Lexeme)
      BY OneIsSequence, EmptySeq
    <2> QED
      BY <2>1 DEF Unblanked
  <1>2. \A y \in Text : Marshal(y) = Images(Unblanked, y) /\ Marshal(y) \in Text
    <2> TAKE y \in Text
    <2>1. \A i \in DOMAIN y : Unblanked[y[i]] = IF y[i] # Blank THEN <<y[i]>> ELSE <<>>
      BY ElementOfSeq, LenProperties DEF Unblanked, Text
    <2>2. Marshal(y) = Images(Unblanked, y)
      BY <2>1 DEF Marshal, Selected, Images
    <2>3. Images(Unblanked, y) \in Seq(Lexeme)
      BY <1>1, ImagesTyped DEF Text
    <2> QED
      BY <2>2, <2>3 DEF Text
  <1> DEFINE T == {y \in Text : Images(Unblanked, Images(Unblanked, y)) = Images(Unblanked, y)}
  <1>3. <<>> \in T
    BY ImagesOfFew, EmptySeq DEF Text
  <1>4. ASSUME NEW y \in T, NEW p \in Lexeme PROVE Append(y, p) \in T
    <2>1. y \in Seq(Lexeme) /\ Append(y, p) \in Seq(Lexeme)
      BY AppendProperties DEF Text
    <2> DEFINE w == Images(Unblanked, y)
    <2>2. Images(Unblanked, Append(y, p)) = w \o Unblanked[p]
      <3> HIDE DEF T
      <3> QED
        BY <1>1, <2>1, ImagesOneMore
    <2>3. w \in Seq(Lexeme) /\ Images(Unblanked, w) = w
      BY <1>1, <2>1, ImagesTyped
    <2>4. CASE p # Blank
      <3>1. Unblanked[p] = <<p>>
        BY <2>4 DEF Unblanked
      <3>2. w \o <<p>> = Append(w, p)
        BY <2>3, AppendIsConcat
      <3>3. Images(Unblanked, Append(w, p)) = w \o <<p>>
        <4> HIDE DEF T, w
        <4>1. Images(Unblanked, Append(w, p)) = Images(Unblanked, w) \o Unblanked[p]
          BY <1>1, <2>3, ImagesOneMore
        <4> QED
          BY <2>3, <3>1, <4>1
      <3> QED
        BY <2>1, <2>2, <3>1, <3>2, <3>3 DEF Text
    <2>5. CASE p = Blank
      <3>1. Unblanked[p] = <<>>
        BY <2>5 DEF Unblanked, Blank
      <3>2. w \o <<>> = w
        BY <2>3, ConcatEmptySeq
      <3> QED
        BY <2>1, <2>2, <2>3, <3>1, <3>2 DEF Text
    <2> QED
      BY <2>4, <2>5
  <1>5. T = Seq(Lexeme)
    <2> HIDE DEF T
    <2>1. T \in SUBSET Seq(Lexeme)
      BY DEF T, Text
    <2> QED
      BY <1>3, <1>4, <2>1, EverySequence
  <1>6. x \in T
    BY <1>5 DEF Text
  <1> QED
    BY <1>2, <1>6

\* The dialects share the words of Completion.
LEMMA SameWords ==
    /\ \A s : /\ CompatD!FlattenSeq(s) = FlattenSeq(s) /\ AnthropicD!FlattenSeq(s) = FlattenSeq(s)
              /\ BedrockD!FlattenSeq(s) = FlattenSeq(s) /\ GeminiD!FlattenSeq(s) = FlattenSeq(s)
              /\ ResponsesD!FlattenSeq(s) = FlattenSeq(s)
    /\ \A x : AnthropicD!Marshal(x) = Marshal(x) /\ GeminiD!Marshal(x) = Marshal(x)
    /\ CompatD!NoMetadata = NoMetadata /\ AnthropicD!NoMetadata = NoMetadata /\ BedrockD!NoMetadata = NoMetadata
    /\ GeminiD!NoMetadata = NoMetadata /\ ResponsesD!NoMetadata = NoMetadata
    /\ AnthropicD!Object = Object /\ BedrockD!Object = Object
    /\ \A a, b, c, e : /\ CompatD!ToolCall(a, b, c, e) = ToolCall(a, b, c, e)
                       /\ AnthropicD!ToolCall(a, b, c, e) = ToolCall(a, b, c, e)
                       /\ BedrockD!ToolCall(a, b, c, e) = ToolCall(a, b, c, e)
                       /\ GeminiD!ToolCall(a, b, c, e) = ToolCall(a, b, c, e)
                       /\ ResponsesD!ToolCall(a, b, c, e) = ToolCall(a, b, c, e)
  <1>1. \A s : /\ CompatD!FlattenSeq(s) = FlattenSeq(s) /\ AnthropicD!FlattenSeq(s) = FlattenSeq(s)
               /\ BedrockD!FlattenSeq(s) = FlattenSeq(s) /\ GeminiD!FlattenSeq(s) = FlattenSeq(s)
               /\ ResponsesD!FlattenSeq(s) = FlattenSeq(s)
    BY Zenon DEF CompatD!FlattenSeq, AnthropicD!FlattenSeq, BedrockD!FlattenSeq, GeminiD!FlattenSeq,
             ResponsesD!FlattenSeq, FlattenSeq
  <1>2. \A x : AnthropicD!Marshal(x) = Marshal(x) /\ GeminiD!Marshal(x) = Marshal(x)
    BY <1>1, Zenon DEF AnthropicD!Marshal, GeminiD!Marshal, Marshal, AnthropicD!Selected, GeminiD!Selected, Selected,
             AnthropicD!Blank, GeminiD!Blank, Blank
  <1> QED
    BY <1>1, <1>2 DEF CompatD!NoMetadata, AnthropicD!NoMetadata, BedrockD!NoMetadata, GeminiD!NoMetadata,
       ResponsesD!NoMetadata, NoMetadata, AnthropicD!Object, BedrockD!Object, Object,
       CompatD!ToolCall, AnthropicD!ToolCall, BedrockD!ToolCall, GeminiD!ToolCall, ResponsesD!ToolCall, ToolCall
-----------------------------------------------------------------------------
(* parseResponse.                                                          *)

\* What every step of a reader of blocks keeps true.
ReadBy(d) ==
    [content : Text, thinking : Text, calls : Seq(MadeBy(d)), finish : Lexeme]

LEMMA TextsJoin ==
    /\ <<>> \in Text
    /\ \A x, y \in Text : x \o y \in Text
    /\ \A b \in BlockRead : FlattenSeq(b.pieces) \in Text
  <1>1. \A b \in BlockRead : FlattenSeq(b.pieces) \in Text
    BY FlattenTyped DEF BlockRead, Text
  <1> QED
    BY <1>1, ConcatProperties, EmptySeq DEF Text

LEMMA ObjectIsSound == Object \in Text /\ Sound(Object) /\ Marshal(Object) = Object /\ Sound(<<>>) /\ <<"null">> \in Text
                       /\ Object \notin {<<>>, <<"null">>}
  <1>1. \A x \in Lexeme : <<x>> \in Text
    BY OneIsSequence DEF Text
  <1>2. Object \in Text /\ <<"null">> \in Text
    BY <1>1 DEF Object, Lexeme
  <1>3. Unblanked["{}"] = <<"{}">>
    BY DEF Unblanked, Blank, Lexeme
  <1>4. Marshal(Object) = Object
    BY <1>2, <1>3, MarshalWrites, ImagesOfFew DEF Object
  <1>5. Object # <<>> /\ Object # <<"null">>
    BY DEF Object
  <1> QED
    BY <1>2, <1>4, <1>5 DEF Sound

\* Arguments of a call, as each dialect reads them.
LEMMA ArgumentsSound ==
    ASSUME NEW b \in BlockRead, b.kind = "call"
    PROVE  LET text == FlattenSeq(b.pieces) IN
           /\ Sound(text)
           /\ Sound(IF text = <<>> THEN Object ELSE text) /\ (IF text = <<>> THEN Object ELSE text) \in Text
           /\ Sound(Marshal(IF text = <<>> THEN Object ELSE text))
           /\ Marshal(IF text = <<>> THEN Object ELSE text) \in Text
           /\ Sound(IF text = <<>> THEN <<"null">> ELSE Marshal(text))
           /\ (IF text = <<>> THEN <<"null">> ELSE Marshal(text)) \in Text
  <1> DEFINE text == FlattenSeq(b.pieces)
             args == IF text = <<>> THEN Object ELSE text
  <1>1. text \in Text
    BY TextsJoin
  <1>2. text = <<>> \/ Marshal(text) \notin {<<>>, <<"null">>}
    BY DEF BlockRead
  <1> HIDE DEF text
  <1>3. args \in Text /\ Marshal(args) \notin {<<>>, <<"null">>}
    <2>1. CASE text = <<>>
      <3>1. args = Object
        BY <2>1
      <3> HIDE DEF args
      <3> QED
        BY <3>1, ObjectIsSound
    <2>2. CASE text # <<>>
      BY <1>1, <1>2, <2>2
    <2> QED
      BY <2>1, <2>2
  <1>4. Marshal(args) \in Text /\ Marshal(Marshal(args)) = Marshal(args)
    BY <1>3, MarshalWrites
  <1>5. text # <<>> => Marshal(text) \in Text /\ Marshal(Marshal(text)) = Marshal(text)
    BY <1>1, MarshalWrites
  <1>6. Sound(args) /\ Sound(Marshal(args)) /\ Sound(text)
    BY <1>2, <1>3, <1>4 DEF Sound
  <1>7. Sound(IF text = <<>> THEN <<"null">> ELSE Marshal(text))
    BY <1>2, <1>5 DEF Sound
  <1> QED
    BY <1>3, <1>4, <1>5, <1>6, <1>7, ObjectIsSound DEF text


LEMMA CallsMade ==
    ASSUME NEW b \in BlockRead, b.kind = "call", NEW args \in Text, Sound(args)
    PROVE  /\ \A d \in {"anthropic", "bedrock", "responses"} : ToolCall(b.id, b.name, args, NoMetadata) \in MadeBy(d)
           /\ ToolCall(b.id, b.name, args, [NoMetadata EXCEPT !.signature = b.signature]) \in MadeBy("compat")
           /\ ToolCall(b.name, b.name, args, [NoMetadata EXCEPT !.signature = b.signature]) \in MadeBy("gemini")
  <1>1. /\ b.id \in Lexeme /\ b.name \in Lexeme /\ b.signature \in Lexeme /\ b.id # "" /\ b.name # ""
    BY DEF BlockRead
  <1>2. "" \in Lexeme /\ <<>> \in Text
    BY TextsJoin DEF Lexeme
  <1> QED
    BY <1>1, <1>2 DEF MadeBy, ToolCall, NoMetadata

LEMMA AnthropicParses ==
    ASSUME NEW blocks \in Seq(BlockRead), NEW finish \in Lexeme
    PROVE  AnthropicD!ParseResponse(blocks, finish) \in ReadBy("anthropic")
  <1> DEFINE S == ReadBy("anthropic")
             base == [content |-> <<>>, thinking |-> <<>>, calls |-> <<>>, finish |-> finish]
             n == Len(blocks)
             Loop(f) == f = [i \in 0..n |-> IF i = 0 THEN base ELSE AnthropicD!ParseBlock(f[i - 1], blocks[i])]
  <1>1. base \in S /\ n \in Nat
    BY TextsJoin, LenProperties, EmptySeq DEF ReadBy
  <1>2. ASSUME NEW r \in S, NEW b \in BlockRead
        PROVE  AnthropicD!ParseBlock(r, b) \in S
    <2> DEFINE text == FlattenSeq(b.pieces)
               args == Marshal(IF text = <<>> THEN Object ELSE text)
               call == ToolCall(b.id, b.name, args, NoMetadata)
    <2>1. text \in Text
      BY TextsJoin
    <2>2. b.kind = "call" => call \in MadeBy("anthropic") /\ args \in Text
      BY ArgumentsSound, CallsMade
    <2>3. r.content \o text \in Text /\ r.thinking \o text \in Text
      BY <2>1, TextsJoin DEF ReadBy
    <2>4. b.kind = "call" => Append(r.calls, call) \in Seq(MadeBy("anthropic"))
      BY <2>2, AppendProperties DEF ReadBy
    <2>5. b.kind \in {"text", "thinking", "call"}
      BY DEF BlockRead
    <2>6. AnthropicD!ParseBlock(r, b) =
            CASE b.kind = "thinking" /\ b.field = "text" -> [r EXCEPT !.thinking = @ \o text]
              [] b.kind = "text"     -> [r EXCEPT !.content = @ \o text]
              [] b.kind = "call" /\ b.name = "structured_output" -> [r EXCEPT !.content = args]
              [] b.kind = "call" /\ b.name # "structured_output" -> [r EXCEPT !.calls = Append(@, call)]
              [] OTHER -> r
      BY SameWords, Zenon DEF AnthropicD!ParseBlock
    <2> HIDE DEF text, args, call
    <2> QED
      BY <2>2, <2>3, <2>4, <2>5, <2>6 DEF ReadBy
  <1> DEFINE step == [p \in S \X (1..n) |-> AnthropicD!ParseBlock(p[1], blocks[p[2]])]
             read == CHOOSE f : Loop(f)
  <1>3. Steps(step, S, n)
    BY <1>2, ElementOfSeq DEF Steps
  <1>4. \A x \in S : \A i \in 1..n : step[<<x, i>>] = AnthropicD!ParseBlock(x, blocks[i])
    OBVIOUS
  <1>5. AnthropicD!ParseResponse(blocks, finish) = read[n]
    BY DEF AnthropicD!ParseResponse
  <1> HIDE DEF S, base, n, step
  <1>6. Loop(read)
    <2>1. PICK f : LoopOf(f, base, step, n)
      BY <1>1, <1>3, LoopRuns
    <2>2. f[0] = base /\ \A i \in 1..n : f[i] = step[<<f[i - 1], i>>]
      BY <1>1, <2>1 DEF LoopOf
    <2>3. \A i \in 0..n : f[i] \in S
      BY <1>1, <1>3, <2>2, LoopStays
    <2>4. Loop(f)
      BY <1>1, <1>4, <2>1, <2>3 DEF LoopOf
    <2> HIDE DEF Loop
    <2> QED
      BY <2>4
  <1> HIDE DEF read
  <1>7. read[0] = base /\ \A i \in 1..n : read[i - 1] \in S => read[i] = step[<<read[i - 1], i>>]
    BY <1>1, <1>4, <1>6
  <1>8. read[n] \in S
    BY <1>1, <1>3, <1>7, LoopStays
  <1> QED
    BY <1>5, <1>8 DEF S
LEMMA BedrockParses ==
    ASSUME NEW blocks \in Seq(BlockRead), NEW finish \in Lexeme
    PROVE  BedrockD!ParseResponse(blocks, finish) \in ReadBy("bedrock")
  <1> DEFINE S == ReadBy("bedrock")
             base == [content |-> <<>>, thinking |-> <<>>, calls |-> <<>>, finish |-> finish]
             n == Len(blocks)
             Loop(f) == f = [i \in 0..n |-> IF i = 0 THEN base ELSE BedrockD!ParseBlock(f[i - 1], blocks[i])]
  <1>1. base \in S /\ n \in Nat
    BY TextsJoin, LenProperties, EmptySeq DEF ReadBy
  <1>2. ASSUME NEW r \in S, NEW b \in BlockRead
        PROVE  BedrockD!ParseBlock(r, b) \in S
    <2> DEFINE text == FlattenSeq(b.pieces)
               args == IF text = <<>> THEN Object ELSE text
               call == ToolCall(b.id, b.name, args, NoMetadata)
    <2>1. text \in Text
      BY TextsJoin
    <2>2. b.kind = "call" => call \in MadeBy("bedrock") /\ args \in Text
      BY ArgumentsSound, CallsMade
    <2>3. r.content \o text \in Text /\ r.thinking \o text \in Text
      BY <2>1, TextsJoin DEF ReadBy
    <2>4. b.kind = "call" => Append(r.calls, call) \in Seq(MadeBy("bedrock"))
      BY <2>2, AppendProperties DEF ReadBy
    <2>5. b.kind \in {"text", "thinking", "call"}
      BY DEF BlockRead
    <2>6. BedrockD!ParseBlock(r, b) =
            CASE b.kind = "thinking" -> [r EXCEPT !.thinking = @ \o text]
              [] b.kind = "text"     -> [r EXCEPT !.content = @ \o text]
              [] b.kind = "call" /\ b.name = "structured_output" -> [r EXCEPT !.content = args]
              [] b.kind = "call" /\ b.name # "structured_output" -> [r EXCEPT !.calls = Append(@, call)]
              [] OTHER -> r
      BY SameWords, Zenon DEF BedrockD!ParseBlock
    <2> HIDE DEF text, args, call
    <2> QED
      BY <2>2, <2>3, <2>4, <2>5, <2>6 DEF ReadBy
  <1> DEFINE step == [p \in S \X (1..n) |-> BedrockD!ParseBlock(p[1], blocks[p[2]])]
             read == CHOOSE f : Loop(f)
  <1>3. Steps(step, S, n)
    BY <1>2, ElementOfSeq DEF Steps
  <1>4. \A x \in S : \A i \in 1..n : step[<<x, i>>] = BedrockD!ParseBlock(x, blocks[i])
    OBVIOUS
  <1>5. BedrockD!ParseResponse(blocks, finish) = read[n]
    BY DEF BedrockD!ParseResponse
  <1> HIDE DEF S, base, n, step
  <1>6. Loop(read)
    <2>1. PICK f : LoopOf(f, base, step, n)
      BY <1>1, <1>3, LoopRuns
    <2>2. f[0] = base /\ \A i \in 1..n : f[i] = step[<<f[i - 1], i>>]
      BY <1>1, <2>1 DEF LoopOf
    <2>3. \A i \in 0..n : f[i] \in S
      BY <1>1, <1>3, <2>2, LoopStays
    <2>4. Loop(f)
      BY <1>1, <1>4, <2>1, <2>3 DEF LoopOf
    <2> HIDE DEF Loop
    <2> QED
      BY <2>4
  <1> HIDE DEF read
  <1>7. read[0] = base /\ \A i \in 1..n : read[i - 1] \in S => read[i] = step[<<read[i - 1], i>>]
    BY <1>1, <1>4, <1>6
  <1>8. read[n] \in S
    BY <1>1, <1>3, <1>7, LoopStays
  <1> QED
    BY <1>5, <1>8 DEF S

LEMMA GeminiParses ==
    ASSUME NEW blocks \in Seq(BlockRead), NEW finish \in Lexeme
    PROVE  GeminiD!ParseResponse(blocks, finish) \in ReadBy("gemini")
  <1> DEFINE S == ReadBy("gemini")
             base == [content |-> <<>>, thinking |-> <<>>, calls |-> <<>>, finish |-> finish]
             n == Len(blocks)
             Loop(f) == f = [i \in 0..n |-> IF i = 0 THEN base ELSE GeminiD!ParsePart(f[i - 1], blocks[i])]
  <1>1. base \in S /\ n \in Nat
    BY TextsJoin, LenProperties, EmptySeq DEF ReadBy
  <1>2. ASSUME NEW r \in S, NEW b \in BlockRead
        PROVE  GeminiD!ParsePart(r, b) \in S
    <2> DEFINE text == FlattenSeq(b.pieces)
               args == IF text = <<>> THEN <<"null">> ELSE Marshal(text)
               call == ToolCall(b.name, b.name, args, [NoMetadata EXCEPT !.signature = b.signature])
    <2>1. text \in Text
      BY TextsJoin
    <2>2. b.kind = "call" => call \in MadeBy("gemini") /\ args \in Text
      BY ArgumentsSound, CallsMade
    <2>3. r.content \o text \in Text /\ r.thinking \o text \in Text
      BY <2>1, TextsJoin DEF ReadBy
    <2>4. b.kind = "call" => Append(r.calls, call) \in Seq(MadeBy("gemini"))
      BY <2>2, AppendProperties DEF ReadBy
    <2>5. b.kind \in {"text", "thinking", "call"}
      BY DEF BlockRead
    <2>6. GeminiD!ParsePart(r, b) =
            CASE b.kind = "thinking" -> [r EXCEPT !.thinking = @ \o text]
              [] b.kind = "text"     -> [r EXCEPT !.content = @ \o text]
              [] OTHER               -> [r EXCEPT !.calls = Append(@, call)]
      BY SameWords, Zenon DEF GeminiD!ParsePart, GeminiD!Call, GeminiD!Arguments
    <2> HIDE DEF text, args, call
    <2> QED
      BY <2>2, <2>3, <2>4, <2>5, <2>6 DEF ReadBy
  <1> DEFINE step == [p \in S \X (1..n) |-> GeminiD!ParsePart(p[1], blocks[p[2]])]
             read == CHOOSE f : Loop(f)
  <1>3. Steps(step, S, n)
    BY <1>2, ElementOfSeq DEF Steps
  <1>4. \A x \in S : \A i \in 1..n : step[<<x, i>>] = GeminiD!ParsePart(x, blocks[i])
    OBVIOUS
  <1>5. GeminiD!ParseResponse(blocks, finish) = read[n]
    BY DEF GeminiD!ParseResponse
  <1> HIDE DEF S, base, n, step
  <1>6. Loop(read)
    <2>1. PICK f : LoopOf(f, base, step, n)
      BY <1>1, <1>3, LoopRuns
    <2>2. f[0] = base /\ \A i \in 1..n : f[i] = step[<<f[i - 1], i>>]
      BY <1>1, <2>1 DEF LoopOf
    <2>3. \A i \in 0..n : f[i] \in S
      BY <1>1, <1>3, <2>2, LoopStays
    <2>4. Loop(f)
      BY <1>1, <1>4, <2>1, <2>3 DEF LoopOf
    <2> HIDE DEF Loop
    <2> QED
      BY <2>4
  <1> HIDE DEF read
  <1>7. read[0] = base /\ \A i \in 1..n : read[i - 1] \in S => read[i] = step[<<read[i - 1], i>>]
    BY <1>1, <1>4, <1>6
  <1>8. read[n] \in S
    BY <1>1, <1>3, <1>7, LoopStays
  <1> QED
    BY <1>5, <1>8 DEF S
\* What is asked of an answer that becomes a message.
AnswerOf(d, r) ==
    /\ r.content \in Text /\ r.calls \in Seq(MadeBy(d))
    /\ \A k \in 2..Len(r.calls) : r.calls[k].metadata.reasoning = <<>>

LEMMA ResponsesParses ==
    ASSUME NEW blocks \in Seq(BlockRead), NEW finish \in Lexeme
    PROVE  AnswerOf("responses", ResponsesD!ParseResponse(blocks, finish))
  <1> DEFINE Bare == {c \in MadeBy("responses") : c.metadata.reasoning = <<>>}
             S == [content : Text, thinking : Text, calls : Seq(Bare), reasoning : Text]
             base == [content |-> <<>>, thinking |-> <<>>, calls |-> <<>>, reasoning |-> <<>>]
             n == Len(blocks)
             Loop(f) == f = [i \in 0..n |-> IF i = 0 THEN base ELSE ResponsesD!ParseItem(f[i - 1], blocks[i])]
  <1>1. base \in S /\ n \in Nat
    BY TextsJoin, LenProperties, EmptySeq
  <1>2. ASSUME NEW r \in S, NEW b \in BlockRead
        PROVE  ResponsesD!ParseItem(r, b) \in S
    <2> DEFINE text == FlattenSeq(b.pieces)
               call == ToolCall(b.id, b.name, text, NoMetadata)
    <2>1. text \in Text
      BY TextsJoin
    <2>2. b.kind = "call" => call \in Bare
      <3>1. call.metadata.reasoning = <<>>
        BY DEF ToolCall, NoMetadata
      <3> HIDE DEF call
      <3>2. b.kind = "call" => call \in MadeBy("responses")
        BY <2>1, ArgumentsSound, CallsMade DEF call
      <3> QED
        BY <3>1, <3>2
    <2>3. r.content \o text \in Text /\ r.thinking \o text \in Text
      BY <2>1, TextsJoin
    <2>4. b.kind = "call" => Append(r.calls, call) \in Seq(Bare)
      <3> HIDE DEF Bare, call
      <3> QED
        BY <2>2, AppendProperties
    <2>5. b.kind \in {"text", "thinking", "call"} /\ Append(r.reasoning, b.id) \in Text
      BY AppendProperties DEF BlockRead, Text
    <2>6. ResponsesD!ParseItem(r, b) =
            CASE b.kind = "thinking" -> [r EXCEPT !.thinking = @ \o text, !.reasoning = Append(@, b.id)]
              [] b.kind = "text"     -> [r EXCEPT !.content = @ \o text]
              [] b.kind = "call"     -> [r EXCEPT !.calls = Append(@, call)]
              [] OTHER               -> r
      BY SameWords, Zenon DEF ResponsesD!ParseItem, ResponsesD!FunctionCall
    <2> HIDE DEF text, call, Bare
    <2> QED
      BY <2>2, <2>3, <2>4, <2>5, <2>6
  <1> DEFINE step == [p \in S \X (1..n) |-> ResponsesD!ParseItem(p[1], blocks[p[2]])]
             read == CHOOSE f : Loop(f)
             r    == ResponsesD!ParseResponse(blocks, finish)
  <1>3. Steps(step, S, n)
    BY <1>2, ElementOfSeq DEF Steps
  <1>4. \A x \in S : \A i \in 1..n : step[<<x, i>>] = ResponsesD!ParseItem(x, blocks[i])
    OBVIOUS
  <1>5. r.content = read[n].content /\ r.calls = ResponsesD!AttachReasoning(read[n].calls, read[n].reasoning)
    BY DEF ResponsesD!ParseResponse
  <1> HIDE DEF S, base, n, step, r
  <1>6. Loop(read)
    <2>1. PICK f : LoopOf(f, base, step, n)
      BY <1>1, <1>3, LoopRuns
    <2>2. f[0] = base /\ \A i \in 1..n : f[i] = step[<<f[i - 1], i>>]
      BY <1>1, <2>1 DEF LoopOf
    <2>3. \A i \in 0..n : f[i] \in S
      BY <1>1, <1>3, <2>2, LoopStays
    <2>4. Loop(f)
      BY <1>1, <1>4, <2>1, <2>3 DEF LoopOf
    <2> HIDE DEF Loop
    <2> QED
      BY <2>4
  <1> HIDE DEF read
  <1>7. read[0] = base /\ \A i \in 1..n : read[i - 1] \in S => read[i] = step[<<read[i - 1], i>>]
    BY <1>1, <1>4, <1>6
  <1>8. read[n] \in S
    BY <1>1, <1>3, <1>7, LoopStays
  <1> DEFINE calls     == read[n].calls
             reasoning == read[n].reasoning
  <1>9. r.content \in Text /\ calls \in Seq(Bare) /\ reasoning \in Text
    BY <1>5, <1>8 DEF S
  <1>10. r.calls = IF calls = <<>> THEN calls ELSE [calls EXCEPT ![1].metadata.reasoning = reasoning]
    BY <1>5 DEF ResponsesD!AttachReasoning
  <1> HIDE DEF calls, reasoning
  <1>11. CASE calls = <<>>
    <2>1. r.calls = <<>> /\ Len(<<>>) = 0
      BY <1>10, <1>11
    <2>2. <<>> \in Seq(MadeBy("responses"))
      BY EmptySeq
    <2> QED
      BY <1>9, <2>1, <2>2 DEF AnswerOf, r
  <1>12. CASE calls # <<>>
    <2> DEFINE made == MadeBy("responses")
               c    == [calls[1] EXCEPT !.metadata.reasoning = reasoning]
    <2>1. Len(calls) \in Nat /\ Len(calls) >= 1 /\ calls[1] \in Bare
      BY <1>9, <1>12, LenProperties, EmptySeq, ElementOfSeq
    <2>2. c \in made
      BY <1>9, <2>1 DEF MadeBy
    <2>3. \A i \in 1..Len(calls) : calls[i] \in made /\ calls[i].metadata.reasoning = <<>>
      BY <1>9, ElementOfSeq
    <2>4. r.calls = [i \in 1..Len(calls) |-> IF i = 1 THEN c ELSE calls[i]]
      BY <1>9, <1>10, <1>12, LenProperties, IsASeq
    <2> HIDE DEF made, c
    <2>5. \A i \in 1..Len(calls) : (IF i = 1 THEN c ELSE calls[i]) \in made
      BY <2>2, <2>3
    <2>6. r.calls \in Seq(made) /\ Len(r.calls) = Len(calls)
      BY <2>1, <2>4, <2>5, IsASeq, LenProperties
    <2>7. \A k \in 2..Len(calls) : r.calls[k] = calls[k]
      BY <2>1, <2>4
    <2> QED
      BY <1>9, <2>1, <2>3, <2>6, <2>7 DEF AnswerOf, made, r
  <1> QED
    BY <1>11, <1>12
LEMMA CompatParses ==
    ASSUME NEW blocks \in Seq(BlockRead), NEW finish \in Lexeme
    PROVE  AnswerOf("compat", CompatD!ParseResponse(blocks, finish))
  <1> DEFINE Calling  == {b \in BlockRead : b.kind = "call"}
             g   == [b \in BlockRead |-> IF b.kind = "call" THEN <<b>> ELSE <<>>]
             t   == [b \in BlockRead |-> IF b.kind = "text" THEN FlattenSeq(b.pieces) ELSE <<>>]
             calls == Images(g, blocks)
             r == CompatD!ParseResponse(blocks, finish)
  <1>1. g \in [BlockRead -> Seq(Calling)]
    <2>1. \A b \in Calling : <<b>> \in Seq(Calling)
      <3> HIDE DEF Calling
      <3> QED
        BY OneIsSequence
    <2> QED
      BY <2>1, EmptySeq
  <1>2. t \in [BlockRead -> Seq(Lexeme)]
    BY TextsJoin DEF Text
  <1>3. \A i \in DOMAIN blocks : blocks[i] \in BlockRead
    BY ElementOfSeq, LenProperties
  <1>4. Images(g, blocks) = FlattenSeq([i \in DOMAIN blocks |-> IF blocks[i].kind = "call" THEN <<blocks[i]>> ELSE <<>>])
    BY <1>3 DEF Images
  <1>5. Images(t, blocks) =
            FlattenSeq([i \in DOMAIN blocks |-> IF blocks[i].kind = "text" THEN FlattenSeq(blocks[i].pieces) ELSE <<>>])
    BY <1>3 DEF Images
  <1>6. r.content = Images(t, blocks)
    <2>1. r.content = CompatD!Joined(blocks, "text")
      BY DEF CompatD!ParseResponse
    <2> QED
      BY <1>5, <2>1, SameWords, Zenon DEF CompatD!Joined
  <1>7. r.calls = [i \in DOMAIN calls |-> CompatD!ParsedCall(calls[i])]
    <2>1. CompatD!Selected(blocks, LAMBDA b : b.kind = "call") = calls
      BY <1>4, SameWords, Zenon DEF CompatD!Selected
    <2> HIDE DEF calls
    <2> QED
      BY <2>1, Zenon DEF CompatD!ParseResponse
  <1>8. Images(g, blocks) \in Seq(Calling) /\ Images(t, blocks) \in Seq(Lexeme)
    <2> HIDE DEF g, t, Calling
    <2> QED
      BY <1>1, <1>2, ImagesTyped
  <1>9. ASSUME NEW b \in Calling
        PROVE  CompatD!ParsedCall(b) \in MadeBy("compat")
    <2>1. CompatD!ParsedCall(b) = ToolCall(b.id, b.name, FlattenSeq(b.pieces), [NoMetadata EXCEPT !.signature = b.signature])
      BY SameWords, Zenon DEF CompatD!ParsedCall
    <2> QED
      BY <2>1, TextsJoin, ArgumentsSound, CallsMade
  <1> HIDE DEF calls, Calling, r
  <1>10. calls \in Seq(Calling) /\ Len(calls) \in Nat /\ DOMAIN calls = 1..Len(calls)
    BY <1>8, LenProperties DEF calls
  <1>11. \A i \in 1..Len(calls) : CompatD!ParsedCall(calls[i]) \in MadeBy("compat")
    BY <1>9, <1>10, ElementOfSeq
  <1>12. r.calls \in Seq(MadeBy("compat")) /\ Len(r.calls) = Len(calls)
    BY <1>7, <1>10, <1>11, IsASeq, LenProperties
  <1>13. \A k \in 2..Len(r.calls) : r.calls[k].metadata.reasoning = <<>>
    <2>1. \A c \in MadeBy("compat") : c.metadata.reasoning = <<>>
      BY DEF MadeBy
    <2>2. \A k \in 1..Len(r.calls) : r.calls[k] \in MadeBy("compat")
      BY <1>12, ElementOfSeq
    <2> QED
      BY <1>10, <1>12, <2>1, <2>2
  <1> QED
    BY <1>6, <1>8, <1>12, <1>13 DEF AnswerOf, r, Text

LEMMA AnswersRead ==
    ASSUME NEW d \in Dialects, NEW blocks \in Seq(BlockRead)
    PROVE  AnswerOf(d, Parsed(d, blocks))
  <1>0. "stop" \in Lexeme
    BY DEF Lexeme
  <1>1. ASSUME NEW e \in {"anthropic", "bedrock", "gemini"}, NEW r \in ReadBy(e)
        PROVE  AnswerOf(e, r)
    <2>1. r.content \in Text /\ r.calls \in Seq(MadeBy(e))
      BY DEF ReadBy
    <2>2. \A k \in 1..Len(r.calls) : r.calls[k].metadata.reasoning = <<>>
      <3>1. \A c \in MadeBy(e) : c.metadata.reasoning = <<>>
        BY DEF MadeBy
      <3>2. \A k \in 1..Len(r.calls) : r.calls[k] \in MadeBy(e)
        BY <2>1, ElementOfSeq
      <3> QED
        BY <3>1, <3>2
    <2>3. Len(r.calls) \in Nat
      BY <2>1, LenProperties
    <2> QED
      BY <2>1, <2>2, <2>3 DEF AnswerOf
  <1>2. CASE d = "compat"
    BY <1>0, <1>2, CompatParses DEF Parsed
  <1>3. CASE d = "anthropic"
    BY <1>0, <1>1, <1>3, AnthropicParses DEF Parsed
  <1>4. CASE d = "bedrock"
    BY <1>0, <1>1, <1>4, BedrockParses DEF Parsed
  <1>5. CASE d = "gemini"
    BY <1>0, <1>1, <1>5, GeminiParses DEF Parsed
  <1>6. CASE d = "responses"
    BY <1>0, <1>6, ResponsesParses DEF Parsed
  <1> QED
    BY <1>2, <1>3, <1>4, <1>5, <1>6, ProviderAssumption

LEMMA FreshBlocks ==
    ASSUME NEW blocks \in Answers, Len(history) \in Nat, Len(history) < MaxMessages
    PROVE  Fresh(blocks) \in Seq(BlockRead)
  <1> DEFINE R == [kind : {"text", "thinking", "call"}, id : STRING, name : STRING, pieces : Seq(Seq(STRING)),
                   signature : STRING, field : {"text", "thinking"}]
             n == Len(history)
  <1>1. blocks \in Seq(R)
    BY AnswerAssumption
  <1>2. \A x \in Seq(STRING) : x \in Text
    <2> TAKE x \in Seq(STRING)
    <2>1. \A i \in 1..Len(x) : x[i] \in Lexeme
      BY ElementOfSeq DEF Lexeme
    <2> QED
      BY <2>1, IsASeq, LenProperties DEF Text
  <1>3. \A x \in Seq(Seq(STRING)) : x \in Seq(Text)
    <2> TAKE x \in Seq(Seq(STRING))
    <2>1. \A i \in 1..Len(x) : x[i] \in Text
      BY <1>2, ElementOfSeq
    <2>2. x = [i \in 1..Len(x) |-> x[i]] /\ Len(x) \in Nat
      BY LenProperties
    <2> DEFINE length == Len(x)
    <2>3. \A f, T : (\A i \in 1..length : f[i] \in T) => [i \in 1..length |-> f[i]] \in Seq(T)
      <3>1. length \in Nat
        BY <2>2
      <3> HIDE DEF length
      <3> QED
        BY <3>1, IsASeq
    <2> QED
      BY <2>1, <2>2, <2>3
  <1>4. ASSUME NEW k \in DOMAIN blocks
        PROVE  [blocks[k] EXCEPT !.id = Ids[n][k]] \in BlockRead
    <2>1. blocks[k] \in R
      <3> HIDE DEF R, n
      <3> QED
        BY <1>1, ElementOfSeq, LenProperties
    <2>2. Ids[n][k] \in STRING \ {""}
      <3>1. n \in 0..MaxMessages
        BY RequestAssumption
      <3> HIDE DEF n
      <3> QED
        BY <3>1, AnswerAssumption
    <2>3. blocks[k].kind = "call" =>
            /\ blocks[k].name # ""
            /\ FlattenSeq(blocks[k].pieces) = <<>> \/ Marshal(FlattenSeq(blocks[k].pieces)) \notin {<<>>, <<"null">>}
      BY AnswerAssumption
    <2> DEFINE b == blocks[k]
               i == Ids[n][k]
    <2> HIDE DEF b, i, n
    <2>4. [b EXCEPT !.id = i] \in BlockRead
      <3>1. b \in R /\ i \in STRING \ {""}
        BY <2>1, <2>2 DEF b, i
      <3>2. b.kind = "call" =>
              /\ b.name # ""
              /\ FlattenSeq(b.pieces) = <<>> \/ Marshal(FlattenSeq(b.pieces)) \notin {<<>>, <<"null">>}
        BY <2>3 DEF b
      <3>3. b.pieces \in Seq(Text)
        BY <1>3, <3>1
      <3>4. b.name \in Lexeme /\ b.signature \in Lexeme /\ i \in Lexeme
        BY <3>1 DEF Lexeme
      <3> QED
        BY <3>1, <3>2, <3>3, <3>4 DEF BlockRead
    <2> QED
      BY <2>4 DEF b, i
  <1>5. DOMAIN blocks = 1..Len(blocks) /\ Len(blocks) \in Nat
    BY <1>1, LenProperties
  <1>6. \A k \in 1..Len(blocks) : [blocks[k] EXCEPT !.id = Ids[n][k]] \in BlockRead
    BY <1>4, <1>5
  <1> QED
    BY <1>5, <1>6, IsASeq DEF Fresh
-----------------------------------------------------------------------------
(* Blocks, and what they mean: the calls, the results and the values sent.  *)

BlockSent ==
    {b \in [kind : {"text", "part", "call", "told call", "result", "told result", "reasoning"}, key : Lexeme,
            value : Text \union Lexeme, metadata : [signature : Lexeme, reasoning : Text]] :
        IF b.kind = "part" THEN b.value \in Lexeme ELSE b.value \in Text}

CallForm   == [b \in BlockSent |-> IF b.kind \in {"call", "told call"} THEN <<Form(b)>> ELSE <<>>]
ResultForm == [b \in BlockSent |-> IF b.kind \in {"result", "told result"} THEN <<Form(b)>> ELSE <<>>]
ValueForm  == [b \in BlockSent |-> ValueSent(b)]

LEMMA FormsTyped ==
    /\ CallForm \in [BlockSent -> Seq(Text)] /\ ResultForm \in [BlockSent -> Seq(Text)]
    /\ ValueForm \in [BlockSent -> Seq(Text)]
    /\ \A x \in Text : Value(x) \in Text
  <1>1. \A x \in Text : Value(x) \in Text
    BY MarshalWrites, ObjectIsSound DEF Value
  <1>2. \A b \in BlockSent : Form(b) \in Text
    BY OneIsSequence, EmptySeq DEF Form, BlockSent, Text
  <1>3. \A x \in Text : <<x>> \in Seq(Text)
    <2> HIDE DEF Text
    <2> QED
      BY OneIsSequence
  <1>4. <<>> \in Seq(Text)
    BY EmptySeq
  <1>5. ASSUME NEW b \in BlockSent PROVE ValueSent(b) \in Seq(Text)
    <2>1. b.kind = "part" => <<b.value>> \in Text
      BY OneIsSequence DEF BlockSent, Text
    <2>2. b.kind # "part" => b.value \in Text /\ Value(b.value) \in Text
      BY <1>1 DEF BlockSent
    <2>3. b.kind \in {"text", "part", "call", "told call", "result", "told result", "reasoning"}
      BY DEF BlockSent
    <2> QED
      BY <1>3, <1>4, <2>1, <2>2, <2>3 DEF ValueSent
  <1> QED
    BY <1>1, <1>2, <1>3, <1>4, <1>5 DEF CallForm, ResultForm, ValueForm

Means(s, calls, results, values) ==
    /\ s \in Seq(BlockSent)
    /\ Images(CallForm, s) = calls /\ Images(ResultForm, s) = results /\ Images(ValueForm, s) = values

LEMMA MeaningOfNothing == Means(<<>>, <<>>, <<>>, <<>>)
  BY ImagesOfFew, EmptySeq DEF Means

LEMMA MeaningOfOne ==
    ASSUME NEW b \in BlockSent
    PROVE  Means(<<b>>, CallForm[b], ResultForm[b], ValueForm[b])
  BY ImagesOfFew, OneIsSequence DEF Means

LEMMA MeaningJoins ==
    ASSUME NEW s, NEW a, NEW b, NEW c, NEW t, NEW x, NEW y, NEW z, Means(s, a, b, c), Means(t, x, y, z)
    PROVE  Means(s \o t, a \o x, b \o y, c \o z)
  <1>1. s \in Seq(BlockSent) /\ t \in Seq(BlockSent) /\ s \o t \in Seq(BlockSent)
    BY ConcatProperties DEF Means
  <1>2. /\ Images(CallForm, s \o t) = Images(CallForm, s) \o Images(CallForm, t)
        /\ Images(ResultForm, s \o t) = Images(ResultForm, s) \o Images(ResultForm, t)
        /\ Images(ValueForm, s \o t) = Images(ValueForm, s) \o Images(ValueForm, t)
    BY <1>1, FormsTyped, ImagesJoin
  <1> QED
    BY <1>1, <1>2 DEF Means

LEMMA MeaningsTyped ==
    ASSUME NEW s, NEW a, NEW b, NEW c, Means(s, a, b, c)
    PROVE  a \in Seq(Text) /\ b \in Seq(Text) /\ c \in Seq(Text)
  BY FormsTyped, ImagesTyped DEF Means

-----------------------------------------------------------------------------
(* Messages, and what each dialect makes of one.                           *)

AnyCall ==
    {c \in [id : Lexeme, name : Lexeme, arguments : Text, metadata : [signature : Lexeme, reasoning : Text]] :
        c.id # "" /\ Sound(c.arguments)}

Msg ==
    {m \in [role : {"system", "user", "assistant", "tool"}, content : Text, parts : Seq(Lexeme),
            calls : Seq(AnyCall), callID : Lexeme] :
        /\ m.role # "assistant" => m.calls = <<>>
        /\ m.role # "user" => m.parts = <<>>
        /\ IF m.role = "tool" THEN m.callID # "" /\ m.content # <<>> ELSE m.callID = ""
        /\ m.parts = <<>> \/ m.parts[1] = "text"}

\* The identifiers of calls and results, and how one is sent when those in T are told as text.
CallIDs(m)   == [j \in DOMAIN m.calls |-> m.calls[j].id]
ResultIDs(m) == IF m.role = "tool" THEN <<m.callID>> ELSE <<>>
KeyOf(T)     == [x \in Lexeme |-> <<IF x \in T THEN <<>> ELSE <<x>>>>]

\* Several values of calls.
Given(calls) == [j \in DOMAIN calls |-> Value(calls[j].arguments)]

LEMMA KeysTyped ==
    ASSUME NEW T
    PROVE  KeyOf(T) \in [Lexeme -> Seq(Text)]
  <1>1. \A x \in Text : <<x>> \in Seq(Text)
    <2> HIDE DEF Text
    <2> QED
      BY OneIsSequence
  <1>2. \A x \in Lexeme : <<x>> \in Text
    BY OneIsSequence DEF Text
  <1> QED
    BY <1>1, <1>2, TextsJoin DEF KeyOf

\* However arguments are written anew, they are the same value.
LEMMA ValuesAgree ==
    ASSUME NEW a \in Text, Sound(a)
    PROVE  /\ Marshal(a) \in Text /\ Value(Marshal(a)) = Value(a)
           /\ (IF Parses(a) THEN a ELSE Object) \in Text
           /\ Value(IF Parses(a) THEN a ELSE Object) = Value(a)
  <1>1. Marshal(a) \in Text /\ Marshal(Marshal(a)) = Marshal(a)
    BY MarshalWrites
  <1>2. Marshal(<<>>) = <<>> /\ Marshal(<<"null">>) = <<"null">>
    <2>1. Unblanked["null"] = <<"null">>
      BY DEF Unblanked, Blank, Lexeme
    <2>2. Marshal(<<>>) = Images(Unblanked, <<>>) /\ Marshal(<<"null">>) = Images(Unblanked, <<"null">>)
      BY MarshalWrites, TextsJoin, ObjectIsSound
    <2> QED
      BY <2>1, <2>2, ImagesOfFew
  <1>3. Value(Object) = Object /\ Value(<<>>) = Object
    BY ObjectIsSound DEF Value
  <1>4. CASE a \in {<<>>, <<"null">>}
    BY <1>1, <1>2, <1>3, <1>4, ObjectIsSound DEF Value, Parses
  <1>5. CASE a \notin {<<>>, <<"null">>}
    <2>1. Marshal(a) \notin {<<>>, <<"null">>}
      BY <1>5 DEF Sound
    <2> QED
      BY <1>1, <1>5, <2>1, ObjectIsSound DEF Value, Parses
  <1> QED
    BY <1>4, <1>5

LEMMA EmptyPiece == "" \in Lexeme
  BY DEF Lexeme

LEMMA BlocksTyped ==
    ASSUME NEW kind \in {"text", "call", "told call", "result", "told result", "reasoning"}, NEW k \in Lexeme, NEW x \in Text
    PROVE  Block(kind, k, x) \in BlockSent
  <1>1. NoMetadata \in [signature : Lexeme, reasoning : Text]
    BY TextsJoin, EmptyPiece DEF NoMetadata
  <1> QED
    BY <1>1 DEF Block, BlockSent

LEMMA PartTyped ==
    ASSUME NEW x \in Lexeme
    PROVE  Block("part", "", x) \in BlockSent
  <1>1. NoMetadata \in [signature : Lexeme, reasoning : Text]
    BY TextsJoin, EmptyPiece DEF NoMetadata
  <1> QED
    BY <1>1, EmptyPiece DEF Block, BlockSent

LEMMA TextMeans ==
    ASSUME NEW x \in Text
    PROVE  /\ Means(TextBlock(x), <<>>, <<>>, IF x = <<>> THEN <<>> ELSE <<x>>)
           /\ Means(<<Block("text", "", x)>>, <<>>, <<>>, IF x = <<>> THEN <<>> ELSE <<x>>)
  <1> DEFINE b == Block("text", "", x)
  <1>1. b \in BlockSent /\ b.kind = "text" /\ b.value = x
    <2>1. b \in BlockSent
      BY BlocksTyped, EmptyPiece
    <2>2. b.kind = "text" /\ b.value = x
      BY DEF Block
    <2> QED
      BY <2>1, <2>2
  <1> HIDE DEF b
  <1>2. CallForm[b] = <<>> /\ ResultForm[b] = <<>> /\ ValueForm[b] = IF x = <<>> THEN <<>> ELSE <<x>>
    BY <1>1 DEF CallForm, ResultForm, ValueForm, ValueSent
  <1>3. Means(<<b>>, <<>>, <<>>, IF x = <<>> THEN <<>> ELSE <<x>>)
    BY <1>1, <1>2, MeaningOfOne
  <1> QED
    BY <1>3, MeaningOfNothing DEF TextBlock, b

LEMMA ResultMeans ==
    ASSUME NEW k \in Lexeme, NEW x \in Text
    PROVE  /\ Means(<<Block("result", k, x)>>, <<>>, <<<<k>>>>, <<x>>)
           /\ Means(<<Block("told result", k, x)>>, <<>>, <<<<>>>>, <<x>>)
  <1> DEFINE b == Block("result", k, x)
             t == Block("told result", k, x)
  <1>1. /\ b \in BlockSent /\ b.kind = "result" /\ b.value = x /\ b.key = k
        /\ t \in BlockSent /\ t.kind = "told result" /\ t.value = x
    <2>1. b \in BlockSent /\ t \in BlockSent
      BY BlocksTyped
    <2>2. b.kind = "result" /\ b.value = x /\ b.key = k /\ t.kind = "told result" /\ t.value = x
      BY DEF Block
    <2> QED
      BY <2>1, <2>2
  <1> HIDE DEF b, t
  <1>2. /\ CallForm[b] = <<>> /\ ResultForm[b] = <<<<k>>>> /\ ValueForm[b] = <<x>>
        /\ CallForm[t] = <<>> /\ ResultForm[t] = <<<<>>>> /\ ValueForm[t] = <<x>>
    BY <1>1 DEF CallForm, ResultForm, ValueForm, ValueSent, Form
  <1> QED
    BY <1>1, <1>2, MeaningOfOne DEF b, t

LEMMA PartsMean ==
    ASSUME NEW ps \in Seq(Lexeme)
    PROVE  Means([i \in DOMAIN ps |-> Block("part", "", ps[i])], <<>>, <<>>, [i \in DOMAIN ps |-> <<ps[i]>>])
  <1> DEFINE s == [i \in DOMAIN ps |-> Block("part", "", ps[i])]
             v == [i \in DOMAIN ps |-> <<ps[i]>>]
             n == Len(ps)
  <1>1. n \in Nat /\ DOMAIN ps = 1..n /\ \A i \in 1..n : ps[i] \in Lexeme
    BY LenProperties, ElementOfSeq
  <1>2. \A i \in 1..n : Block("part", "", ps[i]) \in BlockSent
    BY <1>1, PartTyped
  <1>3. \A i \in 1..n : s[i] = Block("part", "", ps[i]) /\ s[i] \in BlockSent /\ v[i] = <<ps[i]>> /\ v[i] \in Text
    BY <1>1, <1>2, OneIsSequence DEF Text
  <1>0. \A i \in 1..n : s[i].kind = "part" /\ s[i].value = ps[i]
    BY <1>1, <1>3 DEF Block
  <1>4. v = [i \in 1..n |-> v[i]] /\ s = [i \in 1..n |-> s[i]]
    BY <1>1
  <1> HIDE DEF s, v, n
  <1>5. s \in Seq(BlockSent) /\ Len(s) = n
    BY <1>1, <1>3, <1>4, ListOf
  <1>6. v \in Seq(Text) /\ Len(v) = n
    BY <1>1, <1>3, <1>4, ListOf
  <1>7. \A i \in 1..n : CallForm[s[i]] = <<>> /\ ResultForm[s[i]] = <<>> /\ ValueForm[s[i]] = <<v[i]>>
    BY <1>0, <1>3 DEF CallForm, ResultForm, ValueForm, ValueSent
  <1>8. Images(CallForm, s) = <<>> /\ Images(ResultForm, s) = <<>>
    BY <1>5, <1>7, FormsTyped, ImagesNoneEach
  <1>9. Images(ValueForm, s) = v
    <2>1. OneEach(ValueForm, s, v)
      BY <1>5, <1>6, <1>7 DEF OneEach
    <2> QED
      BY <1>5, <1>6, <2>1, FormsTyped, ImagesOneEach
  <1> QED
    BY <1>5, <1>8, <1>9 DEF Means, s, v

LEMMA ReasoningMeans ==
    ASSUME NEW items \in Text
    PROVE  Means([i \in DOMAIN items |-> Block("reasoning", items[i], <<>>)], <<>>, <<>>, <<>>)
  <1> DEFINE s == [i \in DOMAIN items |-> Block("reasoning", items[i], <<>>)]
             n == Len(items)
  <1>1. n \in Nat /\ DOMAIN items = 1..n /\ \A i \in 1..n : items[i] \in Lexeme
    BY LenProperties, ElementOfSeq DEF Text
  <1>2. \A i \in 1..n : Block("reasoning", items[i], <<>>) \in BlockSent
    BY <1>1, BlocksTyped, TextsJoin
  <1>3. \A i \in 1..n : s[i] = Block("reasoning", items[i], <<>>) /\ s[i] \in BlockSent
    BY <1>1, <1>2
  <1>4. s = [i \in 1..n |-> s[i]]
    BY <1>1
  <1>6. \A i \in 1..n : s[i].kind = "reasoning"
    BY <1>1, <1>3 DEF Block
  <1> HIDE DEF s, n
  <1>5. s \in Seq(BlockSent) /\ Len(s) = n
    BY <1>1, <1>3, <1>4, ListOf
  <1>7. \A i \in 1..n : CallForm[s[i]] = <<>> /\ ResultForm[s[i]] = <<>> /\ ValueForm[s[i]] = <<>>
    BY <1>3, <1>6 DEF CallForm, ResultForm, ValueForm, ValueSent
  <1> QED
    BY <1>5, <1>7, FormsTyped, ImagesNoneEach DEF Means, s

\* The blocks of a turn's calls are right, one by one, and so are their keys.
CallsAgree(s, calls) ==
    /\ s = [j \in DOMAIN calls |-> s[j]]
    /\ \A j \in DOMAIN calls : /\ s[j] \in BlockSent /\ s[j].kind \in {"call", "told call"}
                                /\ Value(s[j].value) = Value(calls[j].arguments)

SameKeys(s, T, calls) == \A j \in DOMAIN calls : <<Form(s[j])>> = KeyOf(T)[calls[j].id]

LEMMA CallsMean ==
    ASSUME NEW T, NEW calls \in Seq(AnyCall), NEW s, CallsAgree(s, calls)
    PROVE  /\ Means(s, Images(CallForm, s), <<>>, Given(calls))
           /\ SameKeys(s, T, calls) => Images(CallForm, s) = Images(KeyOf(T), [j \in DOMAIN calls |-> calls[j].id])
  <1> USE DEF CallsAgree
  <1> DEFINE n == Len(calls)
             v == Given(calls)
             ids == [j \in DOMAIN calls |-> calls[j].id]
  <1>1. n \in Nat /\ DOMAIN calls = 1..n /\ \A i \in 1..n : calls[i] \in AnyCall
    BY LenProperties, ElementOfSeq
  <1>2. s \in Seq(BlockSent) /\ Len(s) = n /\ DOMAIN s = 1..n
    <2>1. \A i \in 1..n : s[i] \in BlockSent
      BY <1>1
    <2>2. s = [i \in 1..n |-> s[i]]
      BY <1>1
    <2> HIDE DEF n
    <2> QED
      BY <1>1, <2>1, <2>2, ListOf
  <1>3. v = [i \in 1..n |-> v[i]] /\ \A i \in 1..n : v[i] = Value(calls[i].arguments) /\ v[i] \in Text
    <2>1. \A i \in 1..n : calls[i].arguments \in Text
      BY <1>1 DEF AnyCall
    <2> QED
      BY <1>1, <2>1, FormsTyped DEF Given
  <1>4. \A i \in 1..n : /\ CallForm[s[i]] = <<Form(s[i])>> /\ ResultForm[s[i]] = <<>>
                        /\ ValueForm[s[i]] = <<v[i]>>
    <2> TAKE i \in 1..n
    <2>1. s[i] \in BlockSent /\ s[i].kind \in {"call", "told call"}
      BY <1>1
    <2>2. Value(s[i].value) = v[i]
      BY <1>1, <1>3
    <2> HIDE DEF v
    <2> QED
      BY <2>1, <2>2 DEF CallForm, ResultForm, ValueForm, ValueSent
  <1> HIDE DEF v, n
  <1>5. Images(ResultForm, s) = <<>>
    BY <1>2, <1>4, FormsTyped, ImagesNoneEach
  <1>6. Images(ValueForm, s) = v
    <2>1. v \in Seq(Text) /\ Len(v) = n
      BY <1>1, <1>3, ListOf
    <2> QED
      <3>1. OneEach(ValueForm, s, v)
        BY <1>2, <1>4, <2>1 DEF OneEach
      <3> QED
        BY <1>2, <2>1, <3>1, FormsTyped, ImagesOneEach
  <1>7. SameKeys(s, T, calls) => Images(CallForm, s) = Images(KeyOf(T), ids)
    <2> SUFFICES ASSUME SameKeys(s, T, calls) PROVE Images(CallForm, s) = Images(KeyOf(T), ids)
      OBVIOUS
    <2>1. DOMAIN ids = 1..n /\ \A i \in 1..n : ids[i] = calls[i].id
      BY <1>1
    <2>2. \A i \in 1..n : CallForm[s[i]] = KeyOf(T)[calls[i].id]
      BY <1>1, <1>4 DEF SameKeys
    <2> HIDE DEF ids
    <2>3. [i \in DOMAIN s |-> CallForm[s[i]]] = [i \in DOMAIN ids |-> KeyOf(T)[ids[i]]]
      BY <1>2, <2>1, <2>2
    <2> QED
      BY <2>3 DEF Images
  <1> QED
    BY <1>2, <1>5, <1>6, <1>7 DEF Means, v

-----------------------------------------------------------------------------
(* One message, by its role.                                               *)

Keeps(blocks, d, T, m) ==
    Means(blocks, Images(CallForm, blocks), Images(KeyOf(T), ResultIDs(m)), ValuesOf(d, m))

\* The calls have the right keys, too.
MeansOf(blocks, d, T, m) ==
    Means(blocks, Images(KeyOf(T), CallIDs(m)), Images(KeyOf(T), ResultIDs(m)), ValuesOf(d, m))

LEMMA WhatMeansKeeps ==
    ASSUME NEW blocks, NEW d, NEW T, NEW m, MeansOf(blocks, d, T, m)
    PROVE  Keeps(blocks, d, T, m)
  BY DEF MeansOf, Keeps, Means

Words(x) == IF x = <<>> THEN <<>> ELSE <<x>>

Listed(parts) == [i \in DOMAIN parts |-> <<parts[i]>>]

LEMMA ByRole ==
    ASSUME NEW m \in Msg, NEW T
    PROVE  /\ m.role # "assistant" => /\ Images(KeyOf(T), CallIDs(m)) = <<>> /\ Given(m.calls) = <<>>
                                      /\ m.calls = <<>> /\ ~GeminiD!Unsigned(m)
           /\ m.role # "tool" => Images(KeyOf(T), ResultIDs(m)) = <<>>
           /\ m.role = "tool" => /\ m.callID \in Lexeme
                                 /\ Images(KeyOf(T), ResultIDs(m)) = <<IF m.callID \in T THEN <<>> ELSE <<m.callID>>>>
  <1>1. m.callID \in Lexeme /\ (m.role # "assistant" => m.calls = <<>>)
    BY DEF Msg
  <1>2. m.calls = <<>> => CallIDs(m) = <<>> /\ Given(m.calls) = <<>>
    BY DEF CallIDs, Given
  <1>3. m.calls = <<>> => ~GeminiD!Unsigned(m)
    BY DEF GeminiD!Unsigned
  <1>4. KeyOf(T)[m.callID] = <<IF m.callID \in T THEN <<>> ELSE <<m.callID>>>>
    BY <1>1 DEF KeyOf
  <1>5. Images(KeyOf(T), <<>>) = <<>> /\ Images(KeyOf(T), <<m.callID>>) = KeyOf(T)[m.callID]
    BY ImagesOfFew
  <1> QED
    BY <1>1, <1>2, <1>3, <1>4, <1>5 DEF ResultIDs

LEMMA ValuesByRole ==
    ASSUME NEW m \in Msg, NEW d
    PROVE  /\ m.role = "tool" => ValuesOf(d, m) = <<m.content>>
           /\ m.role = "assistant" /\ (d # "gemini" \/ GeminiD!Unsigned(m) \/ m.calls = <<>>) =>
                 ValuesOf(d, m) = Words(m.content) \o Given(m.calls)
           /\ m.role = "assistant" /\ d = "gemini" /\ ~GeminiD!Unsigned(m) /\ m.calls # <<>> =>
                 ValuesOf(d, m) = Given(m.calls)
           /\ m.role \in {"user", "system"} /\ m.parts = <<>> => ValuesOf(d, m) = Words(m.content)
           /\ m.role \in {"user", "system"} /\ m.parts # <<>> =>
                 ValuesOf(d, m) = Listed(IF d = "bedrock" THEN Selected(m.parts, LAMBDA p : p # "image url") ELSE m.parts)
  <1> DEFINE signed == d = "gemini" /\ m.calls # <<>> /\ ~GeminiD!Unsigned(m)
             parts  == IF d = "bedrock" THEN Selected(m.parts, LAMBDA p : p # "image url") ELSE m.parts
             said   == IF m.parts # <<>> THEN Listed(parts) ELSE IF m.content = <<>> \/ signed THEN <<>> ELSE <<m.content>>
  <1>1. ValuesOf(d, m) = said \o Given(m.calls)
    BY DEF ValuesOf, Given, Listed
  <1>2. /\ m.role # "assistant" => m.calls = <<>> /\ Given(m.calls) = <<>>
        /\ m.role = "tool" => m.content # <<>>
        /\ m.role # "user" => m.parts = <<>>
    BY ByRole DEF Msg
  <1>3. Given(m.calls) \in Seq(Text)
    <2>1. m.calls \in Seq(AnyCall)
      BY DEF Msg
    <2>2. Len(m.calls) \in Nat /\ DOMAIN m.calls = 1..Len(m.calls) /\ \A j \in 1..Len(m.calls) : m.calls[j] \in AnyCall
      BY <2>1, LenProperties, ElementOfSeq
    <2>3. \A j \in 1..Len(m.calls) : Value(m.calls[j].arguments) \in Text
      BY <2>2, FormsTyped DEF AnyCall
    <2> QED
      BY <2>2, <2>3, IsASeq DEF Given
  <1>4. <<>> \o Given(m.calls) = Given(m.calls)
    BY <1>3, ConcatEmptySeq
  <1>5. \A x : <<x>> \o <<>> = <<x>> /\ <<>> \o <<>> = <<>>
    OBVIOUS
  <1>6. m.role \in {"user", "system"} /\ m.parts # <<>> => Listed(parts) \o <<>> = Listed(parts)
    <2>1. m.parts \in Seq(Lexeme)
      BY DEF Msg
    <2>2. parts \in Seq(Lexeme)
      <3>1. FlattenSeq([i \in DOMAIN m.parts |-> IF m.parts[i] \in Lexeme \ {"image url"} THEN <<m.parts[i]>> ELSE <<>>]) \in Seq(Lexeme)
        BY <2>1, SelectedTyped
      <3>2. \A i \in DOMAIN m.parts : m.parts[i] \in Lexeme
        BY <2>1, LenProperties, ElementOfSeq
      <3>3. Selected(m.parts, LAMBDA p : p # "image url") =
              FlattenSeq([i \in DOMAIN m.parts |-> IF m.parts[i] \in Lexeme \ {"image url"} THEN <<m.parts[i]>> ELSE <<>>])
        BY <3>2 DEF Selected
      <3> QED
        BY <2>1, <3>1, <3>3
    <2> HIDE DEF parts
    <2>3. Len(parts) \in Nat /\ DOMAIN parts = 1..Len(parts) /\ \A i \in 1..Len(parts) : <<parts[i]>> \in Text
      BY <2>2, LenProperties, ElementOfSeq, OneIsSequence DEF Text
    <2>4. Listed(parts) \in Seq(Text)
      BY <2>3, IsASeq DEF Listed
    <2> QED
      BY <2>4, ConcatEmptySeq
  <1> HIDE DEF parts
  <1>7. CASE m.role = "tool"
    BY <1>1, <1>2, <1>5, <1>7
  <1>8. CASE m.role = "assistant"
    BY <1>1, <1>2, <1>4, <1>8 DEF Words
  <1>9. CASE m.role \in {"user", "system"}
    BY <1>1, <1>2, <1>5, <1>6, <1>9 DEF Words, parts
  <1> QED
    BY <1>7, <1>8, <1>9

LEMMA ToolMeans ==
    ASSUME NEW m \in Msg, NEW T, NEW d, m.role = "tool"
    PROVE  MeansOf(<<Block(IF m.callID \in T THEN "told result" ELSE "result", m.callID, m.content)>>, d, T, m)
  <1>1. m.content \in Text
    BY DEF Msg
  <1>2. /\ Images(KeyOf(T), CallIDs(m)) = <<>> /\ m.callID \in Lexeme
        /\ Images(KeyOf(T), ResultIDs(m)) = <<IF m.callID \in T THEN <<>> ELSE <<m.callID>>>>
    BY ByRole
  <1>3. ValuesOf(d, m) = <<m.content>>
    BY ValuesByRole
  <1>4. CASE m.callID \in T
    BY <1>1, <1>2, <1>3, <1>4, ResultMeans DEF MeansOf
  <1>5. CASE m.callID \notin T
    BY <1>1, <1>2, <1>3, <1>5, ResultMeans DEF MeansOf
  <1> QED
    BY <1>4, <1>5

\* What a user or the system says, with the text sent also if empty, or not.
Speech(m) == IF m.parts = <<>> THEN <<Block("text", "", m.content)>>
             ELSE [i \in DOMAIN m.parts |-> Block("part", "", m.parts[i])]
Saying(m) == IF m.parts = <<>> THEN TextBlock(m.content)
             ELSE [i \in DOMAIN m.parts |-> Block("part", "", m.parts[i])]

LEMMA SpeechMeans ==
    ASSUME NEW m \in Msg, NEW T, NEW d, m.role \in {"user", "system"}
    PROVE  m.parts = <<>> \/ d # "bedrock" => MeansOf(Speech(m), d, T, m) /\ MeansOf(Saying(m), d, T, m)
  <1>1. m.content \in Text /\ m.parts \in Seq(Lexeme)
    BY DEF Msg
  <1>2. Images(KeyOf(T), CallIDs(m)) = <<>> /\ Images(KeyOf(T), ResultIDs(m)) = <<>>
    BY ByRole
  <1>3. m.parts = <<>> => ValuesOf(d, m) = Words(m.content)
    BY ValuesByRole
  <1>4. m.parts # <<>> /\ d # "bedrock" => ValuesOf(d, m) = Listed(m.parts)
    BY ValuesByRole
  <1>5. m.parts = <<>> => MeansOf(<<Block("text", "", m.content)>>, d, T, m) /\ MeansOf(TextBlock(m.content), d, T, m)
    BY <1>1, <1>2, <1>3, TextMeans DEF MeansOf, Words
  <1>6. m.parts # <<>> /\ d # "bedrock" => MeansOf([i \in DOMAIN m.parts |-> Block("part", "", m.parts[i])], d, T, m)
    BY <1>1, <1>2, <1>4, PartsMean DEF MeansOf, Listed
  <1> QED
    BY <1>5, <1>6 DEF Speech, Saying

LEMMA TurnMeans ==
    ASSUME NEW m \in Msg, NEW T, NEW d, m.role = "assistant", NEW s, CallsAgree(s, m.calls),
           NEW x, Means(x, <<>>, <<>>, Words(m.content))
    PROVE  /\ d # "gemini" \/ GeminiD!Unsigned(m) \/ m.calls = <<>> =>
                 /\ Keeps(x \o s, d, T, m)
                 /\ SameKeys(s, T, m.calls) => MeansOf(x \o s, d, T, m)
           /\ d = "gemini" /\ ~GeminiD!Unsigned(m) /\ m.calls # <<>> =>
                 /\ Keeps(s, d, T, m)
                 /\ SameKeys(s, T, m.calls) => MeansOf(s, d, T, m)
  <1>1. m.content \in Text /\ m.calls \in Seq(AnyCall)
    BY DEF Msg
  <1>2. Images(KeyOf(T), ResultIDs(m)) = <<>>
    BY ByRole
  <1> DEFINE calls == Images(CallForm, s)
  <1>3. Means(s, calls, <<>>, Given(m.calls)) /\ (SameKeys(s, T, m.calls) => calls = Images(KeyOf(T), CallIDs(m)))
    BY <1>1, CallsMean DEF CallIDs
  <1> HIDE DEF calls
  <1>5. calls \in Seq(Text) /\ <<>> \o calls = calls /\ <<>> \o <<>> = <<>>
    BY <1>3, MeaningsTyped, ConcatEmptySeq
  <1>6. Means(x \o s, <<>> \o calls, <<>> \o <<>>, Words(m.content) \o Given(m.calls))
    BY <1>3, MeaningJoins
  <1>7. Images(CallForm, x \o s) = calls
    BY <1>5, <1>6 DEF Means
  <1>8. d # "gemini" \/ GeminiD!Unsigned(m) \/ m.calls = <<>> => ValuesOf(d, m) = Words(m.content) \o Given(m.calls)
    BY ValuesByRole
  <1>9. d = "gemini" /\ ~GeminiD!Unsigned(m) /\ m.calls # <<>> => ValuesOf(d, m) = Given(m.calls)
    BY ValuesByRole
  <1>10. ASSUME d # "gemini" \/ GeminiD!Unsigned(m) \/ m.calls = <<>>
         PROVE  Keeps(x \o s, d, T, m) /\ (SameKeys(s, T, m.calls) => MeansOf(x \o s, d, T, m))
    BY <1>2, <1>3, <1>5, <1>6, <1>7, <1>8, <1>10 DEF Keeps, MeansOf
  <1>11. ASSUME d = "gemini" /\ ~GeminiD!Unsigned(m) /\ m.calls # <<>>
         PROVE  Keeps(s, d, T, m) /\ (SameKeys(s, T, m.calls) => MeansOf(s, d, T, m))
    BY <1>2, <1>3, <1>9, <1>11 DEF Keeps, MeansOf, calls
  <1> QED
    BY <1>10, <1>11

-----------------------------------------------------------------------------
(* convertMessages, of one message.                                        *)

LEMMA SameBlocks ==
    /\ \A k, x, v : /\ CompatD!Block(k, x, v) = Block(k, x, v) /\ AnthropicD!Block(k, x, v) = Block(k, x, v)
                    /\ BedrockD!Block(k, x, v) = Block(k, x, v) /\ GeminiD!Block(k, x, v) = Block(k, x, v)
                    /\ ResponsesD!Block(k, x, v) = Block(k, x, v)
    /\ \A c, v : /\ CompatD!CallBlock(c, v) = CallBlock(c, v) /\ AnthropicD!CallBlock(c, v) = CallBlock(c, v)
                 /\ BedrockD!CallBlock(c, v) = CallBlock(c, v) /\ GeminiD!CallBlock(c, v) = CallBlock(c, v)
                 /\ ResponsesD!CallBlock(c, v) = CallBlock(c, v)
    /\ \A x : /\ CompatD!TextBlock(x) = TextBlock(x) /\ AnthropicD!TextBlock(x) = TextBlock(x)
              /\ BedrockD!TextBlock(x) = TextBlock(x) /\ GeminiD!TextBlock(x) = TextBlock(x)
              /\ ResponsesD!TextBlock(x) = TextBlock(x)
    /\ \A r, b : /\ CompatD!Sent(r, b) = Sent(r, b) /\ AnthropicD!Sent(r, b) = Sent(r, b)
                 /\ BedrockD!Sent(r, b) = Sent(r, b) /\ GeminiD!Sent(r, b) = Sent(r, b)
                 /\ ResponsesD!Sent(r, b) = Sent(r, b)
    /\ \A x : BedrockD!Parses(x) = Parses(x)
  <1>1. \A k, x, v : /\ CompatD!Block(k, x, v) = Block(k, x, v) /\ AnthropicD!Block(k, x, v) = Block(k, x, v)
                     /\ BedrockD!Block(k, x, v) = Block(k, x, v) /\ GeminiD!Block(k, x, v) = Block(k, x, v)
                     /\ ResponsesD!Block(k, x, v) = Block(k, x, v)
    BY SameWords, Zenon DEF CompatD!Block, AnthropicD!Block, BedrockD!Block, GeminiD!Block, ResponsesD!Block, Block
  <1>2. \A c, v : /\ CompatD!CallBlock(c, v) = CallBlock(c, v) /\ AnthropicD!CallBlock(c, v) = CallBlock(c, v)
                  /\ BedrockD!CallBlock(c, v) = CallBlock(c, v) /\ GeminiD!CallBlock(c, v) = CallBlock(c, v)
                  /\ ResponsesD!CallBlock(c, v) = CallBlock(c, v)
    BY <1>1, Zenon DEF CompatD!CallBlock, AnthropicD!CallBlock, BedrockD!CallBlock, GeminiD!CallBlock,
       ResponsesD!CallBlock, CallBlock
  <1>3. \A x : /\ CompatD!TextBlock(x) = TextBlock(x) /\ AnthropicD!TextBlock(x) = TextBlock(x)
               /\ BedrockD!TextBlock(x) = TextBlock(x) /\ GeminiD!TextBlock(x) = TextBlock(x)
               /\ ResponsesD!TextBlock(x) = TextBlock(x)
    BY <1>1, Zenon DEF CompatD!TextBlock, AnthropicD!TextBlock, BedrockD!TextBlock, GeminiD!TextBlock,
       ResponsesD!TextBlock, TextBlock
  <1>4. \A r, b : /\ CompatD!Sent(r, b) = Sent(r, b) /\ AnthropicD!Sent(r, b) = Sent(r, b)
                  /\ BedrockD!Sent(r, b) = Sent(r, b) /\ GeminiD!Sent(r, b) = Sent(r, b)
                  /\ ResponsesD!Sent(r, b) = Sent(r, b)
    BY Zenon DEF CompatD!Sent, AnthropicD!Sent, BedrockD!Sent, GeminiD!Sent, ResponsesD!Sent, Sent
  <1>5. \A x : BedrockD!Parses(x) = Parses(x)
    BY Zenon DEF BedrockD!Parses, Parses
  <1> QED
    BY <1>1, <1>2, <1>3, <1>4, <1>5

LEMMA SentFields == \A r, b : Sent(r, b).blocks = b
  BY DEF Sent

\* A call as a block, its arguments written anew or not, with its metadata or without.
LEMMA CallTyped ==
    ASSUME NEW c \in AnyCall, NEW a \in Text, NEW md \in [signature : Lexeme, reasoning : Text]
    PROVE  LET b == CallBlock([c EXCEPT !.metadata = md], a)
           IN b \in BlockSent /\ b.kind = "call" /\ b.key = c.id /\ b.value = a /\ b.metadata = md
  <1>1. c.id \in Lexeme
    BY DEF AnyCall
  <1>2. CallBlock([c EXCEPT !.metadata = md], a) = [kind |-> "call", key |-> c.id, value |-> a, metadata |-> md]
    <2>1. /\ [c EXCEPT !.metadata = md].id = c.id /\ [c EXCEPT !.metadata = md].metadata = md
      BY DEF AnyCall
    <2> DEFINE e == [c EXCEPT !.metadata = md]
    <2> HIDE DEF e
    <2>2. [Block("call", e.id, a) EXCEPT !.metadata = e.metadata] =
            [kind |-> "call", key |-> e.id, value |-> a, metadata |-> e.metadata]
      BY DEF Block
    <2> QED
      BY <2>1, <2>2 DEF CallBlock, e
  <1>3. [kind |-> "call", key |-> c.id, value |-> a, metadata |-> md] \in BlockSent
    BY <1>1 DEF BlockSent
  <1> QED
    BY <1>2, <1>3

LEMMA CallsAreSame ==
    ASSUME NEW calls \in Seq(AnyCall), NEW s, s = [j \in DOMAIN calls |-> s[j]],
           \A j \in DOMAIN calls : \E a \in Text : \E md \in [signature : Lexeme, reasoning : Text] :
              s[j] = CallBlock([calls[j] EXCEPT !.metadata = md], a) /\ Value(a) = Value(calls[j].arguments)
    PROVE  CallsAgree(s, calls) /\ SameKeys(s, {}, calls)
  <1> SUFFICES ASSUME NEW j \in DOMAIN calls
               PROVE  /\ s[j] \in BlockSent /\ s[j].kind \in {"call", "told call"}
                      /\ <<Form(s[j])>> = KeyOf({})[calls[j].id]
                      /\ Value(s[j].value) = Value(calls[j].arguments)
    BY DEF CallsAgree, SameKeys
  <1>1. calls[j] \in AnyCall /\ calls[j].id \in Lexeme
    <2>1. calls[j] \in AnyCall
      BY LenProperties, ElementOfSeq
    <2> QED
      BY <2>1 DEF AnyCall
  <1>2. PICK a \in Text, md \in [signature : Lexeme, reasoning : Text] :
           s[j] = CallBlock([calls[j] EXCEPT !.metadata = md], a) /\ Value(a) = Value(calls[j].arguments)
    OBVIOUS
  <1>3. s[j] \in BlockSent /\ s[j].kind = "call" /\ s[j].key = calls[j].id /\ s[j].value = a
    BY <1>1, <1>2, CallTyped
  <1> QED
    BY <1>1, <1>2, <1>3 DEF Form, KeyOf

LEMMA NothingTyped ==
    /\ NoMetadata \in [signature : Lexeme, reasoning : Text]
    /\ \A c \in AnyCall : /\ c.metadata \in [signature : Lexeme, reasoning : Text] /\ c.arguments \in Text
                          /\ Sound(c.arguments) /\ c = [c EXCEPT !.metadata = c.metadata]
  BY TextsJoin, EmptyPiece DEF NoMetadata, AnyCall

LEMMA CompatConverts ==
    ASSUME NEW m \in Msg
    PROVE  MeansOf(CompatD!ConvertContent(m) \o CompatD!ConvertCalls(m.calls), "compat", {}, m)
  <1> DEFINE s == CompatD!ConvertCalls(m.calls)
             content == CompatD!ConvertContent(m)
  <1>0. m.calls \in Seq(AnyCall) /\ m.content \in Text /\ m.parts \in Seq(Lexeme) /\ m.callID \in Lexeme
    BY DEF Msg
  <1>1. s = [i \in DOMAIN m.calls |-> CallBlock(m.calls[i], m.calls[i].arguments)]
    BY SameBlocks, Zenon DEF CompatD!ConvertCalls
  <1>2. content = IF m.parts # <<>> THEN [i \in DOMAIN m.parts |-> Block("part", "", m.parts[i])]
                  ELSE <<Block(IF m.callID = "" THEN "text" ELSE "result", m.callID, m.content)>>
    BY SameBlocks, Zenon DEF CompatD!ConvertContent
  <1> HIDE DEF s, content
  <1>3. CallsAgree(s, m.calls) /\ SameKeys(s, {}, m.calls)
    <2>1. s = [j \in DOMAIN m.calls |-> s[j]]
      BY <1>1
    <2>2. ASSUME NEW j \in DOMAIN m.calls
          PROVE  \E a \in Text : \E md \in [signature : Lexeme, reasoning : Text] :
                   s[j] = CallBlock([m.calls[j] EXCEPT !.metadata = md], a) /\ Value(a) = Value(m.calls[j].arguments)
      <3>1. m.calls[j] \in AnyCall
        BY <1>0, LenProperties, ElementOfSeq
      <3>2. s[j] = CallBlock([m.calls[j] EXCEPT !.metadata = m.calls[j].metadata], m.calls[j].arguments)
        BY <1>1, <3>1, NothingTyped
      <3> QED
        BY <3>1, <3>2, NothingTyped
    <2> QED
      BY <1>0, <2>1, <2>2, CallsAreSame
  <1>4. m.role # "assistant" => s = <<>> /\ content \o <<>> = content
    <2>1. m.role # "assistant" => s = <<>>
      BY <1>1, ByRole
    <2>2. content \in Seq(BlockSent)
      <3>1. Means(IF m.parts # <<>> THEN [i \in DOMAIN m.parts |-> Block("part", "", m.parts[i])] ELSE <<>>, <<>>, <<>>,
                  IF m.parts # <<>> THEN Listed(m.parts) ELSE <<>>)
        BY <1>0, PartsMean, MeaningOfNothing DEF Listed
      <3>2. Block(IF m.callID = "" THEN "text" ELSE "result", m.callID, m.content) \in BlockSent
        BY <1>0, BlocksTyped
      <3>3. <<Block(IF m.callID = "" THEN "text" ELSE "result", m.callID, m.content)>> \in Seq(BlockSent)
        BY <3>2, OneIsSequence
      <3> QED
        BY <1>2, <3>1, <3>3 DEF Means
    <2> QED
      BY <2>1, <2>2, ConcatEmptySeq
  <1>5. /\ m.role \in {"system", "user", "assistant", "tool"} /\ (m.role # "user" => m.parts = <<>>)
        /\ IF m.role = "tool" THEN m.callID # "" ELSE m.callID = ""
    BY DEF Msg
  <1>6. CASE m.role = "tool"
    <2>1. content = <<Block("result", m.callID, m.content)>>
      BY <1>2, <1>5, <1>6
    <2> QED
      BY <1>4, <1>6, <2>1, ToolMeans DEF s, content
  <1>7. CASE m.role \in {"user", "system"}
    <2>1. content = Speech(m)
      BY <1>2, <1>5, <1>7 DEF Speech
    <2>2. MeansOf(content, "compat", {}, m)
      BY <1>7, <2>1, SpeechMeans
    <2>3. content \o s = content
      BY <1>4, <1>7
    <2> QED
      BY <2>2, <2>3 DEF s, content
  <1>8. CASE m.role = "assistant"
    <2>1. content = <<Block("text", "", m.content)>>
      BY <1>2, <1>5, <1>8
    <2>2. Means(content, <<>>, <<>>, Words(m.content))
      BY <1>0, <2>1, TextMeans DEF Words
    <2> QED
      BY <1>3, <1>8, <2>2, TurnMeans DEF s, content
  <1> QED
    BY <1>5, <1>6, <1>7, <1>8

LEMMA AnthropicConverts ==
    ASSUME NEW m \in Msg
    PROVE  MeansOf(AnthropicD!ConvertMessage(m).blocks, "anthropic", {}, m)
  <1> DEFINE s == [i \in DOMAIN m.calls |-> AnthropicD!ConvertCall(m.calls[i])]
             blocks == AnthropicD!ConvertMessage(m).blocks
  <1>0. m.calls \in Seq(AnyCall) /\ m.role \in {"system", "user", "assistant", "tool"} /\ m.content \in Text
    BY DEF Msg
  <1>1. \A c : AnthropicD!ConvertCall(c) = CallBlock([c EXCEPT !.metadata = NoMetadata], Marshal(c.arguments))
    BY SameBlocks, SameWords, Zenon DEF AnthropicD!ConvertCall
  <1>2. /\ m.role = "tool" => blocks = <<Block("result", m.callID, m.content)>>
        /\ m.role = "assistant" => blocks = TextBlock(m.content) \o s
        /\ m.role \in {"user", "system"} => blocks = Speech(m)
    <2>1. AnthropicD!ConvertParts(m) = Speech(m)
      BY SameBlocks, Zenon DEF AnthropicD!ConvertParts, Speech
    <2>2. CASE m.role = "tool"
      BY <2>2, SameBlocks, SentFields DEF AnthropicD!ConvertMessage
    <2>3. CASE m.role = "assistant"
      BY <2>3, SameBlocks, SentFields DEF AnthropicD!ConvertMessage
    <2>4. CASE m.role \in {"user", "system"}
      BY <2>1, <2>4, SameBlocks, SentFields DEF AnthropicD!ConvertMessage
    <2> QED
      BY <1>0, <2>2, <2>3, <2>4
  <1>3. CallsAgree(s, m.calls) /\ SameKeys(s, {}, m.calls)
    <2>1. s = [j \in DOMAIN m.calls |-> s[j]]
      OBVIOUS
    <2>2. ASSUME NEW j \in DOMAIN m.calls
          PROVE  \E a \in Text : \E md \in [signature : Lexeme, reasoning : Text] :
                   s[j] = CallBlock([m.calls[j] EXCEPT !.metadata = md], a) /\ Value(a) = Value(m.calls[j].arguments)
      <3>1. m.calls[j] \in AnyCall
        BY <1>0, LenProperties, ElementOfSeq
      <3>2. s[j] = CallBlock([m.calls[j] EXCEPT !.metadata = NoMetadata], Marshal(m.calls[j].arguments))
        BY <1>1
      <3> HIDE DEF s
      <3> QED
        BY <3>1, <3>2, NothingTyped, ValuesAgree
    <2> HIDE DEF s
    <2> QED
      BY <1>0, <2>1, <2>2, CallsAreSame
  <1> HIDE DEF s, blocks
  <1>4. CASE m.role = "tool"
    <2>1. blocks = <<Block(IF m.callID \in {} THEN "told result" ELSE "result", m.callID, m.content)>>
      BY <1>2, <1>4
    <2>2. MeansOf(blocks, "anthropic", {}, m)
      BY <1>4, <2>1, ToolMeans
    <2> QED
      BY <2>2 DEF blocks
  <1>5. CASE m.role \in {"user", "system"}
    <2>1. MeansOf(blocks, "anthropic", {}, m)
      BY <1>2, <1>5, SpeechMeans
    <2> QED
      BY <2>1 DEF blocks
  <1>6. CASE m.role = "assistant"
    <2>1. Means(TextBlock(m.content), <<>>, <<>>, Words(m.content))
      BY <1>0, TextMeans DEF Words
    <2> QED
      BY <1>2, <1>3, <1>6, <2>1, TurnMeans DEF blocks
  <1> QED
    BY <1>0, <1>4, <1>5, <1>6

LEMMA ResponsesConverts ==
    ASSUME NEW m \in Msg
    PROVE  MeansOf(ResponsesD!ConvertMessage(m).blocks, "responses", {}, m)
  <1> DEFINE s == [i \in DOMAIN m.calls |-> CallBlock([m.calls[i] EXCEPT !.metadata = NoMetadata], m.calls[i].arguments)]
             before == ResponsesD!Replayed(m.calls)
             blocks == ResponsesD!ConvertMessage(m).blocks
  <1>0. m.calls \in Seq(AnyCall) /\ m.role \in {"system", "user", "assistant", "tool"} /\ m.content \in Text
    BY DEF Msg
  <1>1. before = IF m.calls = <<>> THEN <<>>
                 ELSE [i \in DOMAIN m.calls[1].metadata.reasoning |-> Block("reasoning", m.calls[1].metadata.reasoning[i], <<>>)]
    BY SameBlocks, Zenon DEF ResponsesD!Replayed
  <1>2. /\ m.role = "tool" => blocks = <<Block("result", m.callID, m.content)>>
        /\ m.role = "assistant" => blocks = (before \o TextBlock(m.content)) \o s
        /\ m.role \in {"user", "system"} => blocks = Speech(m)
    <2>1. ResponsesD!ConvertParts(m) = Speech(m)
      BY SameBlocks, Zenon DEF ResponsesD!ConvertParts, Speech
    <2>2. CASE m.role = "tool"
      BY <2>2, SameBlocks, SentFields DEF ResponsesD!ConvertMessage
    <2>3. CASE m.role = "assistant"
      <3>1. [i \in DOMAIN m.calls |-> ResponsesD!CallBlock([m.calls[i] EXCEPT !.metadata = ResponsesD!NoMetadata], m.calls[i].arguments)] = s
        BY SameBlocks, SameWords, Zenon
      <3> HIDE DEF s, before
      <3>2. ResponsesD!ConvertMessage(m) = Sent("assistant", ResponsesD!Replayed(m.calls) \o TextBlock(m.content) \o s)
        BY <2>3, <3>1, SameBlocks DEF ResponsesD!ConvertMessage
      <3> QED
        BY <2>3, <3>2, SentFields DEF before
    <2>4. CASE m.role \in {"user", "system"}
      BY <2>1, <2>4, SameBlocks, SentFields DEF ResponsesD!ConvertMessage
    <2> QED
      BY <1>0, <2>2, <2>3, <2>4
  <1>3. CallsAgree(s, m.calls) /\ SameKeys(s, {}, m.calls)
    <2>1. s = [j \in DOMAIN m.calls |-> s[j]]
      OBVIOUS
    <2>2. ASSUME NEW j \in DOMAIN m.calls
          PROVE  \E a \in Text : \E md \in [signature : Lexeme, reasoning : Text] :
                   s[j] = CallBlock([m.calls[j] EXCEPT !.metadata = md], a) /\ Value(a) = Value(m.calls[j].arguments)
      <3>1. m.calls[j] \in AnyCall
        BY <1>0, LenProperties, ElementOfSeq
      <3>2. s[j] = CallBlock([m.calls[j] EXCEPT !.metadata = NoMetadata], m.calls[j].arguments)
        OBVIOUS
      <3> HIDE DEF s
      <3> QED
        BY <3>1, <3>2, NothingTyped
    <2> HIDE DEF s
    <2> QED
      BY <1>0, <2>1, <2>2, CallsAreSame
  <1> HIDE DEF s, blocks, before
  <1>4. CASE m.role = "tool"
    <2>1. blocks = <<Block(IF m.callID \in {} THEN "told result" ELSE "result", m.callID, m.content)>>
      BY <1>2, <1>4
    <2>2. MeansOf(blocks, "responses", {}, m)
      BY <1>4, <2>1, ToolMeans
    <2> QED
      BY <2>2 DEF blocks
  <1>5. CASE m.role \in {"user", "system"}
    <2>1. MeansOf(blocks, "responses", {}, m)
      BY <1>2, <1>5, SpeechMeans
    <2> QED
      BY <2>1 DEF blocks
  <1>6. CASE m.role = "assistant"
    <2>1. Means(TextBlock(m.content), <<>>, <<>>, Words(m.content))
      BY <1>0, TextMeans DEF Words
    <2>2. Means(before, <<>>, <<>>, <<>>)
      <3>1. CASE m.calls = <<>>
        BY <1>1, <3>1, MeaningOfNothing
      <3>2. CASE m.calls # <<>>
        <4>1. m.calls[1] \in AnyCall
          BY <1>0, <3>2, LenProperties, ElementOfSeq, EmptySeq
        <4>2. m.calls[1].metadata.reasoning \in Text
          BY <4>1 DEF AnyCall
        <4> DEFINE items == m.calls[1].metadata.reasoning
        <4>3. before = [i \in DOMAIN items |-> Block("reasoning", items[i], <<>>)]
          BY <1>1, <3>2
        <4> HIDE DEF items
        <4> QED
          BY <4>2, <4>3, ReasoningMeans DEF items
      <3> QED
        BY <3>1, <3>2
    <2>3. Means(before \o TextBlock(m.content), <<>> \o <<>>, <<>> \o <<>>, <<>> \o Words(m.content))
      BY <2>1, <2>2, MeaningJoins
    <2>4. <<>> \o <<>> = <<>> /\ <<>> \o Words(m.content) = Words(m.content)
      BY <2>1, MeaningsTyped, ConcatEmptySeq
    <2> QED
      BY <1>2, <1>3, <1>6, <2>3, <2>4, TurnMeans DEF blocks
  <1> QED
    BY <1>0, <1>4, <1>5, <1>6

\* Bedrock leaves out addresses of images, but not the text before them.
LEMMA BedrockParts ==
    ASSUME NEW m \in Msg, m.parts # <<>>
    PROVE  LET kept == Selected(m.parts, LAMBDA p : p # "image url") IN kept \in Seq(Lexeme) /\ kept # <<>>
  <1> DEFINE keep == [p \in Lexeme |-> IF p # "image url" THEN <<p>> ELSE <<>>]
             kept == Images(keep, m.parts)
  <1>1. m.parts \in Seq(Lexeme) /\ m.parts[1] = "text"
    BY DEF Msg
  <1>2. keep \in [Lexeme -> Seq(Lexeme)]
    BY OneIsSequence, EmptySeq
  <1>3. Len(m.parts) \in Nat /\ DOMAIN m.parts = 1..Len(m.parts) /\ 1 \in 1..Len(m.parts)
    BY <1>1, LenProperties, EmptySeq
  <1>4. \A i \in DOMAIN m.parts : keep[m.parts[i]] = IF m.parts[i] # "image url" THEN <<m.parts[i]>> ELSE <<>>
    BY <1>1, <1>3, ElementOfSeq
  <1>5. Selected(m.parts, LAMBDA p : p # "image url") = kept
    BY <1>4 DEF Selected, Images
  <1>6. HasIn(m.parts, "text") /\ HasIn(keep["text"], "text")
    <2>1. keep["text"] = <<"text">>
      <3>1. keep[m.parts[1]] = <<m.parts[1]>>
        BY <1>1, <1>3, <1>4
      <3> QED
        BY <1>1, <3>1
    <2>2. 1 \in DOMAIN <<"text">> /\ <<"text">>[1] = "text"
      OBVIOUS
    <2> HIDE DEF keep
    <2> QED
      BY <1>1, <1>3, <2>1, <2>2 DEF HasIn
  <1> HIDE DEF keep, kept
  <1>7. kept \in Seq(Lexeme)
    BY <1>1, <1>2, ImagesTyped DEF kept
  <1>8. HasIn(kept, "text")
    BY <1>1, <1>2, <1>6, ImagesHold DEF kept
  <1>9. kept # <<>>
    BY <1>8 DEF HasIn
  <1> QED
    BY <1>5, <1>7, <1>9

LEMMA BedrockConverts ==
    ASSUME NEW m \in Msg, m.role # "system"
    PROVE  MeansOf(BedrockD!ConvertMessage(m).blocks, "bedrock", {}, m)
  <1> DEFINE s == [i \in DOMAIN m.calls |-> BedrockD!ConvertCall(m.calls[i])]
             blocks == BedrockD!ConvertMessage(m).blocks
             kept == Selected(m.parts, LAMBDA p : p # "image url")
             parts == [i \in DOMAIN kept |-> Block("part", "", kept[i])]
  <1>0. m.calls \in Seq(AnyCall) /\ m.role \in {"user", "assistant", "tool"} /\ m.content \in Text
    BY DEF Msg
  <1>1. \A c : BedrockD!ConvertCall(c) =
                CallBlock([c EXCEPT !.metadata = NoMetadata], IF Parses(c.arguments) THEN c.arguments ELSE Object)
    BY SameBlocks, SameWords, Zenon DEF BedrockD!ConvertCall
  <1>2. BedrockD!ConvertParts(m) = IF parts = <<>> THEN <<Block("text", "", m.content)>> ELSE parts
    <2>1. BedrockD!Selected(m.parts, LAMBDA p : p # "image url") = kept
      BY SameWords, Zenon DEF BedrockD!Selected, Selected
    <2> HIDE DEF kept
    <2> QED
      BY <2>1, SameBlocks, Zenon DEF BedrockD!ConvertParts
  <1>3. CallsAgree(s, m.calls) /\ SameKeys(s, {}, m.calls)
    <2>1. s = [j \in DOMAIN m.calls |-> s[j]]
      OBVIOUS
    <2>2. ASSUME NEW j \in DOMAIN m.calls
          PROVE  \E a \in Text : \E md \in [signature : Lexeme, reasoning : Text] :
                   s[j] = CallBlock([m.calls[j] EXCEPT !.metadata = md], a) /\ Value(a) = Value(m.calls[j].arguments)
      <3>1. m.calls[j] \in AnyCall
        BY <1>0, LenProperties, ElementOfSeq
      <3> DEFINE a == IF Parses(m.calls[j].arguments) THEN m.calls[j].arguments ELSE Object
      <3>2. s[j] = CallBlock([m.calls[j] EXCEPT !.metadata = NoMetadata], a)
        BY <1>1
      <3>3. a \in Text /\ Value(a) = Value(m.calls[j].arguments)
        BY <3>1, NothingTyped, ValuesAgree
      <3> HIDE DEF s, a
      <3> QED
        BY <3>2, <3>3, NothingTyped
    <2> HIDE DEF s
    <2> QED
      BY <1>0, <2>1, <2>2, CallsAreSame
  <1>4. CASE m.role = "tool"
    <2>1. blocks = <<Block(IF m.callID \in {} THEN "told result" ELSE "result", m.callID, m.content)>>
      BY <1>4, SameBlocks, SentFields DEF BedrockD!ConvertMessage
    <2> HIDE DEF blocks
    <2>2. MeansOf(blocks, "bedrock", {}, m)
      BY <1>4, <2>1, ToolMeans
    <2> QED
      BY <2>2 DEF blocks
  <1>5. CASE m.role = "user" /\ m.parts = <<>>
    <2>1. kept = <<>>
      <3>1. [i \in DOMAIN m.parts |-> IF m.parts[i] # "image url" THEN <<m.parts[i]>> ELSE <<>>] = <<>>
        BY <1>5
      <3> QED
        BY <3>1, FlattenOfNothing DEF Selected
    <2>2. parts = <<>>
      <3> HIDE DEF kept
      <3> QED
        BY <2>1
    <2> HIDE DEF kept, parts
    <2>3. blocks = Speech(m)
      BY <1>2, <1>5, <2>2, SameBlocks, SentFields DEF BedrockD!ConvertMessage, Speech
    <2> HIDE DEF blocks
    <2>4. MeansOf(blocks, "bedrock", {}, m)
      BY <1>5, <2>3, SpeechMeans
    <2> QED
      BY <2>4 DEF blocks
  <1>6. CASE m.role = "user" /\ m.parts # <<>>
    <2>1. kept \in Seq(Lexeme) /\ kept # <<>>
      BY <1>6, BedrockParts
    <2>2. ValuesOf("bedrock", m) = Listed(kept)
      BY <1>6, ValuesByRole
    <2> HIDE DEF kept
    <2>3. parts # <<>> /\ Means(parts, <<>>, <<>>, Listed(kept))
      <3>1. Len(kept) \in Nat /\ Len(kept) # 0 /\ DOMAIN kept = 1..Len(kept)
        BY <2>1, LenProperties, EmptySeq
      <3>2. DOMAIN parts = DOMAIN kept /\ 1 \in DOMAIN kept
        BY <3>1
      <3>3. parts # <<>>
        <4> HIDE DEF parts
        <4> QED
          BY <3>2
      <3>4. Means(parts, <<>>, <<>>, Listed(kept))
        BY <2>1, PartsMean DEF Listed
      <3> QED
        BY <3>3, <3>4
    <2> HIDE DEF parts
    <2>4. blocks = parts
      BY <1>2, <1>6, <2>3, SameBlocks, SentFields DEF BedrockD!ConvertMessage
    <2>5. Images(KeyOf({}), CallIDs(m)) = <<>> /\ Images(KeyOf({}), ResultIDs(m)) = <<>>
      BY <1>6, ByRole
    <2> QED
      BY <2>2, <2>3, <2>4, <2>5 DEF MeansOf
  <1>7. CASE m.role = "assistant"
    <2>1. Means(TextBlock(m.content), <<>>, <<>>, Words(m.content))
      BY <1>0, TextMeans DEF Words
    <2>2. blocks = TextBlock(m.content) \o s
      BY <1>7, SameBlocks, SentFields DEF BedrockD!ConvertMessage
    <2> HIDE DEF s, blocks
    <2> QED
      BY <1>3, <1>7, <2>1, <2>2, TurnMeans DEF blocks
  <1> QED
    BY <1>0, <1>4, <1>5, <1>6, <1>7

\* Messages whose calls Gemini sends in the form that T says.
Agrees(T, m) ==
    \A j \in DOMAIN m.calls : /\ GeminiD!Unsigned(m) => m.calls[j].id \in T
                              /\ ~GeminiD!Unsigned(m) => m.calls[j].id = m.calls[j].name /\ m.calls[j].id \notin T

LEMMA GeminiConverts ==
    ASSUME NEW m \in Msg, NEW T
    PROVE  LET blocks == GeminiD!ConvertMessage(m, T).blocks
           IN Keeps(blocks, "gemini", T, m) /\ (Agrees(T, m) => MeansOf(blocks, "gemini", T, m))
  <1> DEFINE told   == [i \in DOMAIN m.calls |-> GeminiD!Told(m.calls[i])]
             called == [i \in DOMAIN m.calls |-> GeminiD!Called(m.calls[i])]
             blocks == GeminiD!ConvertMessage(m, T).blocks
  <1>0. m.calls \in Seq(AnyCall) /\ m.role \in {"system", "user", "assistant", "tool"} /\ m.content \in Text
    BY DEF Msg
  <1>1. GeminiD!ConvertParts(m) = Saying(m)
    BY SameBlocks, Zenon DEF GeminiD!ConvertParts, Saying
  <1>2. \A c : /\ GeminiD!Told(c) = Block("told call", c.name, c.arguments)
               /\ GeminiD!Called(c) = [CallBlock(c, Marshal(c.arguments)) EXCEPT !.key = c.name]
    BY SameBlocks, SameWords, Zenon DEF GeminiD!Told, GeminiD!Called
  <1>3. GeminiD!Unsigned(m) => CallsAgree(told, m.calls) /\ (Agrees(T, m) => SameKeys(told, T, m.calls))
    <2> SUFFICES ASSUME GeminiD!Unsigned(m)
                 PROVE  CallsAgree(told, m.calls) /\ (Agrees(T, m) => SameKeys(told, T, m.calls))
      OBVIOUS
    <2>1. told = [j \in DOMAIN m.calls |-> told[j]]
      OBVIOUS
    <2>2. ASSUME NEW j \in DOMAIN m.calls
          PROVE  /\ told[j] \in BlockSent /\ told[j].kind \in {"call", "told call"}
                 /\ Agrees(T, m) => <<Form(told[j])>> = KeyOf(T)[m.calls[j].id]
                 /\ Value(told[j].value) = Value(m.calls[j].arguments)
      <3>1. m.calls[j] \in AnyCall
        BY <1>0, LenProperties, ElementOfSeq
      <3>2. m.calls[j].id \in Lexeme /\ m.calls[j].name \in Lexeme /\ m.calls[j].arguments \in Text
        BY <3>1 DEF AnyCall
      <3>3. told[j] = Block("told call", m.calls[j].name, m.calls[j].arguments)
        BY <1>2
      <3> HIDE DEF told
      <3>4. told[j] \in BlockSent
        BY <3>2, <3>3, BlocksTyped
      <3>5. told[j].kind = "told call" /\ told[j].value = m.calls[j].arguments
        <4> DEFINE b == Block("told call", m.calls[j].name, m.calls[j].arguments)
        <4>1. b.kind = "told call" /\ b.value = m.calls[j].arguments
          BY DEF Block
        <4>2. told[j] = b
          BY <3>3
        <4> HIDE DEF b
        <4> QED
          BY <4>1, <4>2
      <3>6. Agrees(T, m) => m.calls[j].id \in T
        BY DEF Agrees
      <3> QED
        BY <3>2, <3>4, <3>5, <3>6 DEF Form, KeyOf
    <2> HIDE DEF told
    <2> QED
      BY <2>1, <2>2 DEF CallsAgree, SameKeys
  <1>4. ~GeminiD!Unsigned(m) => CallsAgree(called, m.calls) /\ (Agrees(T, m) => SameKeys(called, T, m.calls))
    <2> SUFFICES ASSUME ~GeminiD!Unsigned(m)
                 PROVE  CallsAgree(called, m.calls) /\ (Agrees(T, m) => SameKeys(called, T, m.calls))
      OBVIOUS
    <2>1. called = [j \in DOMAIN m.calls |-> called[j]]
      OBVIOUS
    <2>2. ASSUME NEW j \in DOMAIN m.calls
          PROVE  /\ called[j] \in BlockSent /\ called[j].kind \in {"call", "told call"}
                 /\ Agrees(T, m) => <<Form(called[j])>> = KeyOf(T)[m.calls[j].id]
                 /\ Value(called[j].value) = Value(m.calls[j].arguments)
      <3> DEFINE c == m.calls[j]
                 a == Marshal(c.arguments)
      <3>1. c \in AnyCall
        BY <1>0, LenProperties, ElementOfSeq
      <3>2. called[j] = [CallBlock(c, a) EXCEPT !.key = c.name]
        BY <1>2
      <3>3. Agrees(T, m) => c.id = c.name /\ c.id \notin T
        BY DEF Agrees
      <3> HIDE DEF called, c
      <3>4. a \in Text /\ Value(a) = Value(c.arguments)
        BY <3>1, NothingTyped, ValuesAgree
      <3>5. CallBlock(c, a) \in BlockSent /\ CallBlock(c, a).kind = "call" /\ CallBlock(c, a).value = a
        <4>1. c = [c EXCEPT !.metadata = c.metadata] /\ c.metadata \in [signature : Lexeme, reasoning : Text]
          BY <3>1, NothingTyped
        <4>2. LET b == CallBlock([c EXCEPT !.metadata = c.metadata], a)
              IN b \in BlockSent /\ b.kind = "call" /\ b.value = a
          <5> HIDE DEF a
          <5> QED
            BY <3>1, <3>4, <4>1, CallTyped
        <4> QED
          BY <4>1, <4>2
      <3>6. c.id \in Lexeme /\ c.name \in Lexeme
        BY <3>1 DEF AnyCall
      <3> DEFINE b == CallBlock(c, a)
      <3> HIDE DEF b, a
      <3>7. [b EXCEPT !.key = c.name] \in BlockSent /\ [b EXCEPT !.key = c.name].kind = "call"
            /\ [b EXCEPT !.key = c.name].value = a /\ [b EXCEPT !.key = c.name].key = c.name
        BY <3>5, <3>6 DEF BlockSent, b
      <3>8. called[j] \in BlockSent /\ called[j].kind = "call" /\ called[j].value = a /\ called[j].key = c.name
        BY <3>2, <3>7 DEF b
      <3>9. Agrees(T, m) => <<Form(called[j])>> = KeyOf(T)[c.id]
        BY <3>3, <3>6, <3>8 DEF Form, KeyOf
      <3> QED
        BY <3>4, <3>8, <3>9 DEF c
    <2> HIDE DEF called
    <2> QED
      BY <2>1, <2>2 DEF CallsAgree, SameKeys
  <1> HIDE DEF told, called
  <1>5. CASE m.role = "tool"
    <2>1. blocks = <<Block(IF m.callID \in T THEN "told result" ELSE "result", m.callID, m.content)>>
      <3>1. CASE m.callID \in T
        BY <1>5, <3>1, SameBlocks, SentFields DEF GeminiD!ConvertMessage
      <3>2. CASE m.callID \notin T
        BY <1>5, <3>2, SameBlocks, SentFields DEF GeminiD!ConvertMessage
      <3> QED
        BY <3>1, <3>2
    <2> HIDE DEF blocks
    <2>2. MeansOf(blocks, "gemini", T, m)
      BY <1>5, <2>1, ToolMeans
    <2> QED
      BY <2>2, WhatMeansKeeps DEF blocks
  <1>6. CASE m.role \in {"user", "system"}
    <2>1. blocks = Saying(m)
      <3>1. m.calls = <<>> /\ ~GeminiD!Unsigned(m)
        BY <1>6, ByRole
      <3>2. GeminiD!ConvertMessage(m, T) = GeminiD!Sent(IF m.role = "assistant" THEN "model" ELSE m.role, GeminiD!ConvertParts(m))
        BY <1>6, <3>1 DEF GeminiD!ConvertMessage
      <3> QED
        BY <1>1, <3>2, SameBlocks, SentFields
    <2> HIDE DEF blocks
    <2>2. MeansOf(blocks, "gemini", T, m)
      BY <1>6, <2>1, SpeechMeans
    <2> QED
      BY <2>2, WhatMeansKeeps DEF blocks
  <1>7. CASE m.role = "assistant" /\ GeminiD!Unsigned(m)
    <2>1. blocks = TextBlock(m.content) \o told
      BY <1>7, SameBlocks, SentFields DEF GeminiD!ConvertMessage, told
    <2>2. Means(TextBlock(m.content), <<>>, <<>>, Words(m.content))
      BY <1>0, TextMeans DEF Words
    <2> HIDE DEF blocks
    <2> QED
      BY <1>3, <1>7, <2>1, <2>2, TurnMeans DEF blocks
  <1>8. CASE m.role = "assistant" /\ ~GeminiD!Unsigned(m) /\ m.calls # <<>>
    <2>1. blocks = called
      BY <1>8, SameBlocks, SentFields DEF GeminiD!ConvertMessage, called
    <2>2. Means(TextBlock(m.content), <<>>, <<>>, Words(m.content))
      BY <1>0, TextMeans DEF Words
    <2> HIDE DEF blocks
    <2> QED
      BY <1>4, <1>8, <2>1, <2>2, TurnMeans DEF blocks
  <1>9. CASE m.role = "assistant" /\ m.calls = <<>>
    <2>1. ~GeminiD!Unsigned(m) /\ called = <<>>
      BY <1>9 DEF GeminiD!Unsigned, called
    <2>2. blocks = Saying(m)
      <3>1. GeminiD!ConvertMessage(m, T) = GeminiD!Sent(IF m.role = "assistant" THEN "model" ELSE m.role, GeminiD!ConvertParts(m))
        BY <1>9, <2>1 DEF GeminiD!ConvertMessage
      <3> QED
        BY <1>1, <3>1, SameBlocks, SentFields
    <2>3. Saying(m) = TextBlock(m.content)
      BY <1>9 DEF Saying, Msg
    <2>4. Means(TextBlock(m.content), <<>>, <<>>, Words(m.content))
      BY <1>0, TextMeans DEF Words
    <2>5. TextBlock(m.content) \o called = TextBlock(m.content)
      BY <2>1, <2>4, ConcatEmptySeq DEF Means
    <2> HIDE DEF blocks
    <2>6. /\ Keeps(TextBlock(m.content) \o called, "gemini", T, m)
          /\ Agrees(T, m) => MeansOf(TextBlock(m.content) \o called, "gemini", T, m)
      BY <1>4, <1>9, <2>1, <2>4, TurnMeans
    <2> QED
      BY <2>2, <2>3, <2>5, <2>6 DEF blocks
  <1> QED
    BY <1>0, <1>5, <1>6, <1>7, <1>8, <1>9

-----------------------------------------------------------------------------
(* A history, message after message.                                       *)

\* Each message of X means its calls, results and values.
EachMeans(X, blocks, calls, results, values) ==
    \A m \in X : Means(blocks[m], calls[m], results[m], values[m])

LEMMA HistoryMeans ==
    ASSUME NEW X, X \subseteq Msg, NEW B, B \in [Msg -> Seq(BlockSent)], NEW C, C \in [Msg -> Seq(Text)],
           NEW R, R \in [Msg -> Seq(Text)], NEW V, V \in [Msg -> Seq(Text)],
           EachMeans(X, B, C, R, V), NEW h \in Seq(X)
    PROVE  Means(Images(B, h), Images(C, h), Images(R, h), Images(V, h))
  <1> DEFINE T == {s \in Seq(X) : Means(Images(B, s), Images(C, s), Images(R, s), Images(V, s))}
  <1>1. <<>> \in T
    <2>1. /\ Images(B, <<>>) = <<>> /\ Images(C, <<>>) = <<>> /\ Images(R, <<>>) = <<>> /\ Images(V, <<>>) = <<>>
          /\ <<>> \in Seq(X)
      BY ImagesOfFew, EmptySeq
    <2> QED
      BY <2>1, MeaningOfNothing
  <1>2. ASSUME NEW s \in T, NEW m \in X PROVE Append(s, m) \in T
    <2>0. s \in Seq(X) /\ s \in Seq(Msg) /\ m \in Msg /\ Append(s, m) \in Seq(X)
      <3>1. s \in Seq(X)
        OBVIOUS
      <3>2. s \in [1..Len(s) -> Msg] /\ Len(s) \in Nat
        BY <3>1, LenProperties
      <3>3. s \in Seq(Msg)
        BY <3>2, SeqDef
      <3> QED
        BY <3>1, <3>3, AppendProperties
    <2>1. /\ Images(B, Append(s, m)) = Images(B, s) \o B[m] /\ Images(C, Append(s, m)) = Images(C, s) \o C[m]
          /\ Images(R, Append(s, m)) = Images(R, s) \o R[m] /\ Images(V, Append(s, m)) = Images(V, s) \o V[m]
      <3> HIDE DEF T
      <3> QED
        BY <2>0, ImagesOneMore
    <2>2. Means(B[m], C[m], R[m], V[m])
      BY DEF EachMeans
    <2>3. Means(Images(B, s), Images(C, s), Images(R, s), Images(V, s))
      OBVIOUS
    <2>4. Means(Images(B, s) \o B[m], Images(C, s) \o C[m], Images(R, s) \o R[m], Images(V, s) \o V[m])
      BY <2>2, <2>3, MeaningJoins
    <2> QED
      BY <2>0, <2>1, <2>4
  <1>3. T = Seq(X)
    <2>1. T \in SUBSET Seq(X)
      OBVIOUS
    <2> HIDE DEF T
    <2> QED
      BY <1>1, <1>2, <2>1, EverySequence
  <1> QED
    BY <1>3

\* The blocks of messages, behind each other.
BlocksOf(sent) == FlattenSeq([i \in DOMAIN sent |-> sent[i].blocks])

LEMMA BlocksAfter ==
    ASSUME NEW e, NEW n \in Nat, NEW s, s = [i \in 1..n |-> s[i]], e.blocks \in Seq(BlockSent),
           \A i \in 1..n : s[i].blocks \in Seq(BlockSent)
    PROVE  BlocksOf(<<e>> \o s) = e.blocks \o BlocksOf(s)
  <1> DEFINE U == {e} \union {s[i] : i \in 1..n}
             G == [u \in U |-> u.blocks]
  <1>1. G \in [U -> Seq(BlockSent)]
    OBVIOUS
  <1>2. s \in Seq(U) /\ <<e>> \in Seq(U)
    <2>1. \A i \in 1..n : s[i] \in U
      OBVIOUS
    <2>2. e \in U
      OBVIOUS
    <2> HIDE DEF U
    <2> QED
      BY <2>1, <2>2, ListOf, OneIsSequence
  <1>3. ASSUME NEW t \in Seq(U) PROVE BlocksOf(t) = Images(G, t)
    <2>1. \A i \in DOMAIN t : t[i] \in U
      <3> HIDE DEF U
      <3> QED
        BY LenProperties, ElementOfSeq
    <2>2. \A i \in DOMAIN t : G[t[i]] = t[i].blocks
      BY <2>1
    <2> HIDE DEF G, U
    <2> QED
      BY <2>2 DEF BlocksOf, Images
  <1>4. G[e] = e.blocks
    OBVIOUS
  <1> HIDE DEF G, U
  <1>5. Images(G, <<e>> \o s) = Images(G, <<e>>) \o Images(G, s)
    BY <1>1, <1>2, ImagesJoin
  <1>6. Images(G, <<e>>) = e.blocks
    BY <1>4, ImagesOfFew
  <1>7. <<e>> \o s \in Seq(U)
    BY <1>2, ConcatProperties
  <1> QED
    BY <1>2, <1>3, <1>5, <1>6, <1>7

\* One message sent for each of a history.
LEMMA BlocksOfEach ==
    ASSUME NEW B, NEW h, NEW s, s = [i \in DOMAIN h |-> s[i]], \A i \in DOMAIN h : s[i].blocks = B[h[i]]
    PROVE  BlocksOf(s) = Images(B, h)
  <1>1. DOMAIN s = DOMAIN h
    OBVIOUS
  <1> QED
    BY <1>1 DEF BlocksOf, Images

-----------------------------------------------------------------------------
(* convertMessages, of a history.                                          *)

\* What a message is sent as, and in Bedrock's system field.
BlocksFor(d, T) == [m \in Msg |->
    CASE d = "compat"    -> CompatD!ConvertContent(m) \o CompatD!ConvertCalls(m.calls)
      [] d = "anthropic" -> AnthropicD!ConvertMessage(m).blocks
      [] d = "bedrock"   -> IF m.role = "system" THEN <<>> ELSE BedrockD!ConvertMessage(m).blocks
      [] d = "gemini"    -> GeminiD!ConvertMessage(m, T).blocks
      [] d = "responses" -> ResponsesD!ConvertMessage(m).blocks]

SystemBlocks == [m \in Msg |-> IF m.role = "system" THEN TextBlock(m.content) ELSE <<>>]

KeysOfCalls(T)   == [m \in Msg |-> Images(KeyOf(T), CallIDs(m))]
KeysOfResults(T) == [m \in Msg |-> Images(KeyOf(T), ResultIDs(m))]
CallsOf(d, T)    == [m \in Msg |-> Images(CallForm, BlocksFor(d, T)[m])]
ValuesIn(d)      == [m \in Msg |-> IF d = "bedrock" /\ m.role = "system" THEN <<>> ELSE ValuesOf(d, m)]
SystemValues     == [m \in Msg |-> IF m.role = "system" THEN ValuesOf("bedrock", m) ELSE <<>>]
Nothing          == [m \in Msg |-> <<>>]

\* A message keeps what it has in every dialect; its calls are right unless
\* Gemini takes them for others.
LEMMA MessageMeans ==
    ASSUME NEW d \in {"compat", "anthropic", "bedrock", "gemini", "responses"}, NEW T, d # "gemini" => T = {},
           NEW m \in Msg
    PROVE  /\ Means(BlocksFor(d, T)[m], CallsOf(d, T)[m], KeysOfResults(T)[m], ValuesIn(d)[m])
           /\ d # "gemini" \/ Agrees(T, m) =>
                 Means(BlocksFor(d, T)[m], KeysOfCalls(T)[m], KeysOfResults(T)[m], ValuesIn(d)[m])
  <1> DEFINE b == BlocksFor(d, T)[m]
  <1>1. /\ CallsOf(d, T)[m] = Images(CallForm, b) /\ KeysOfResults(T)[m] = Images(KeyOf(T), ResultIDs(m))
        /\ KeysOfCalls(T)[m] = Images(KeyOf(T), CallIDs(m))
    BY DEF CallsOf, KeysOfResults, KeysOfCalls
  <1>2. ValuesIn(d)[m] = IF d = "bedrock" /\ m.role = "system" THEN <<>> ELSE ValuesOf(d, m)
    BY DEF ValuesIn
  <1>3. /\ d = "compat" => b = CompatD!ConvertContent(m) \o CompatD!ConvertCalls(m.calls)
        /\ d = "anthropic" => b = AnthropicD!ConvertMessage(m).blocks
        /\ d = "bedrock" => b = IF m.role = "system" THEN <<>> ELSE BedrockD!ConvertMessage(m).blocks
        /\ d = "gemini" => b = GeminiD!ConvertMessage(m, T).blocks
        /\ d = "responses" => b = ResponsesD!ConvertMessage(m).blocks
    BY DEF BlocksFor
  <1> HIDE DEF b
  <1>4. CASE d = "bedrock" /\ m.role = "system"
    <2>1. b = <<>> /\ ValuesIn(d)[m] = <<>>
      BY <1>2, <1>3, <1>4
    <2>2. Images(KeyOf(T), CallIDs(m)) = <<>> /\ Images(KeyOf(T), ResultIDs(m)) = <<>>
      BY <1>4, ByRole
    <2>3. Images(CallForm, b) = <<>>
      BY <2>1, ImagesOfFew
    <2> QED
      BY <1>1, <2>1, <2>2, <2>3, MeaningOfNothing DEF b
  <1>5. ASSUME MeansOf(b, d, T, m), ~(d = "bedrock" /\ m.role = "system")
        PROVE  /\ Means(b, CallsOf(d, T)[m], KeysOfResults(T)[m], ValuesIn(d)[m])
               /\ Means(b, KeysOfCalls(T)[m], KeysOfResults(T)[m], ValuesIn(d)[m])
    BY <1>1, <1>2, <1>5, WhatMeansKeeps DEF MeansOf, Keeps
  <1>6. CASE d = "gemini"
    BY <1>1, <1>2, <1>3, <1>6, GeminiConverts DEF MeansOf, Keeps, b
  <1>7. CASE d \in {"compat", "anthropic", "bedrock", "responses"} /\ ~(d = "bedrock" /\ m.role = "system")
    <2>1. MeansOf(b, d, T, m)
      BY <1>3, <1>7, CompatConverts, AnthropicConverts, BedrockConverts, ResponsesConverts
    <2> QED
      BY <1>5, <1>7, <2>1 DEF b
  <1> QED
    BY <1>4, <1>6, <1>7

LEMMA SystemMeans ==
    ASSUME NEW m \in Msg
    PROVE  Means(SystemBlocks[m], Nothing[m], Nothing[m], SystemValues[m])
  <1>1. /\ SystemBlocks[m] = (IF m.role = "system" THEN TextBlock(m.content) ELSE <<>>)
        /\ Nothing[m] = <<>> /\ SystemValues[m] = (IF m.role = "system" THEN ValuesOf("bedrock", m) ELSE <<>>)
    BY DEF SystemBlocks, Nothing, SystemValues
  <1>2. CASE m.role = "system"
    <2>1. m.parts = <<>> /\ m.content \in Text
      BY <1>2 DEF Msg
    <2>2. ValuesOf("bedrock", m) = Words(m.content)
      BY <1>2, <2>1, ValuesByRole
    <2> QED
      BY <1>1, <1>2, <2>1, <2>2, TextMeans DEF Words
  <1>3. CASE m.role # "system"
    BY <1>1, <1>3, MeaningOfNothing
  <1> QED
    BY <1>2, <1>3

\* The functions of messages are functions to sequences.
LEMMA MessagesTyped ==
    ASSUME NEW d \in {"compat", "anthropic", "bedrock", "gemini", "responses"}, NEW T, d # "gemini" => T = {}
    PROVE  /\ BlocksFor(d, T) \in [Msg -> Seq(BlockSent)] /\ CallsOf(d, T) \in [Msg -> Seq(Text)]
           /\ KeysOfCalls(T) \in [Msg -> Seq(Text)] /\ KeysOfResults(T) \in [Msg -> Seq(Text)]
           /\ ValuesIn(d) \in [Msg -> Seq(Text)]
           /\ SystemBlocks \in [Msg -> Seq(BlockSent)] /\ Nothing \in [Msg -> Seq(Text)]
           /\ SystemValues \in [Msg -> Seq(Text)]
  <1>1. ASSUME NEW m \in Msg
        PROVE  /\ BlocksFor(d, T)[m] \in Seq(BlockSent) /\ CallsOf(d, T)[m] \in Seq(Text)
               /\ KeysOfResults(T)[m] \in Seq(Text) /\ ValuesIn(d)[m] \in Seq(Text)
    <2>1. Means(BlocksFor(d, T)[m], CallsOf(d, T)[m], KeysOfResults(T)[m], ValuesIn(d)[m])
      BY MessageMeans
    <2> QED
      BY <2>1, MeaningsTyped DEF Means
  <1>2. ASSUME NEW m \in Msg
        PROVE  SystemBlocks[m] \in Seq(BlockSent) /\ Nothing[m] \in Seq(Text) /\ SystemValues[m] \in Seq(Text)
    <2>1. Means(SystemBlocks[m], Nothing[m], Nothing[m], SystemValues[m])
      BY SystemMeans
    <2> QED
      BY <2>1, MeaningsTyped DEF Means
  <1>3. ASSUME NEW m \in Msg
        PROVE  KeysOfCalls(T)[m] \in Seq(Text)
    <2>1. CallIDs(m) \in Seq(Lexeme)
      <3>1. m.calls \in Seq(AnyCall)
        BY DEF Msg
      <3>2. /\ Len(m.calls) \in Nat /\ DOMAIN m.calls = 1..Len(m.calls)
            /\ \A j \in 1..Len(m.calls) : m.calls[j] \in AnyCall
        BY <3>1, LenProperties, ElementOfSeq
      <3>3. \A j \in 1..Len(m.calls) : m.calls[j].id \in Lexeme
        BY <3>2 DEF AnyCall
      <3> QED
        BY <3>2, <3>3, IsASeq DEF CallIDs
    <2>2. Images(KeyOf(T), CallIDs(m)) \in Seq(Text)
      BY <2>1, KeysTyped, ImagesTyped
    <2> QED
      BY <2>2 DEF KeysOfCalls
  <1>4. BlocksFor(d, T) \in [Msg -> Seq(BlockSent)]
    BY <1>1, Zenon DEF BlocksFor
  <1>5. CallsOf(d, T) \in [Msg -> Seq(Text)]
    BY <1>1, Zenon DEF CallsOf
  <1>6. KeysOfCalls(T) \in [Msg -> Seq(Text)] /\ KeysOfResults(T) \in [Msg -> Seq(Text)]
    BY <1>1, <1>3, Zenon DEF KeysOfCalls, KeysOfResults
  <1>7. ValuesIn(d) \in [Msg -> Seq(Text)] /\ SystemValues \in [Msg -> Seq(Text)]
    BY <1>1, <1>2, Zenon DEF ValuesIn, SystemValues
  <1>8. SystemBlocks \in [Msg -> Seq(BlockSent)] /\ Nothing \in [Msg -> Seq(Text)]
    BY <1>2, Zenon DEF SystemBlocks, Nothing
  <1> QED
    BY <1>4, <1>5, <1>6, <1>7, <1>8

LEMMA PromptMeans ==
    /\ Prompt \in Text /\ Prompt # <<>>
    /\ TextBlock(Prompt) \in Seq(BlockSent) /\ Means(TextBlock(Prompt), <<>>, <<>>, <<Prompt>>)
  <1>1. Prompt \in Text /\ Prompt # <<>>
    BY OneIsSequence DEF Prompt, Text, Lexeme
  <1> QED
    BY <1>1, TextMeans DEF Means

\* A message for the prompt, and one for each of the history.
SentEach(s, h, B) == s = [i \in DOMAIN h |-> s[i]] /\ \A i \in DOMAIN h : s[i].blocks = B[h[i]]

LEMMA PromptAndEach ==
    ASSUME NEW h \in Seq(Msg), NEW B, B \in [Msg -> Seq(BlockSent)], NEW s, SentEach(s, h, B), NEW r
    PROVE  BlocksOf((IF Prompt = <<>> THEN <<>> ELSE <<Sent(r, TextBlock(Prompt))>>) \o s)
            = TextBlock(Prompt) \o Images(B, h)
  <1> DEFINE e == Sent(r, TextBlock(Prompt))
  <1>1. e.blocks = TextBlock(Prompt) /\ e.blocks \in Seq(BlockSent)
    BY PromptMeans, SentFields
  <1>2. Len(h) \in Nat /\ DOMAIN h = 1..Len(h) /\ \A i \in 1..Len(h) : h[i] \in Msg
    BY LenProperties, ElementOfSeq
  <1>3. \A i \in 1..Len(h) : s[i].blocks \in Seq(BlockSent)
    BY <1>2 DEF SentEach
  <1>4. s = [i \in 1..Len(h) |-> s[i]]
    BY <1>2 DEF SentEach
  <1> HIDE DEF e
  <1>5. BlocksOf(<<e>> \o s) = e.blocks \o BlocksOf(s)
    BY <1>1, <1>2, <1>3, <1>4, BlocksAfter
  <1>6. BlocksOf(s) = Images(B, h)
    BY BlocksOfEach DEF SentEach
  <1> QED
    BY <1>1, <1>5, <1>6, PromptMeans DEF e

LEMMA SimpleSent ==
    ASSUME NEW h \in Seq(Msg)
    PROVE  /\ BlocksOf(CompatD!ConvertMessages(Prompt, h)) = TextBlock(Prompt) \o Images(BlocksFor("compat", {}), h)
           /\ BlocksOf(AnthropicD!ConvertMessages(Prompt, h)) = TextBlock(Prompt) \o Images(BlocksFor("anthropic", {}), h)
           /\ BlocksOf(ResponsesD!ConvertMessages(Prompt, h)) = TextBlock(Prompt) \o Images(BlocksFor("responses", {}), h)
  <1>1. \A i \in DOMAIN h : h[i] \in Msg
    BY LenProperties, ElementOfSeq
  <1>2. BlocksOf(CompatD!ConvertMessages(Prompt, h)) = TextBlock(Prompt) \o Images(BlocksFor("compat", {}), h)
    <2> DEFINE s == [i \in DOMAIN h |-> Sent(h[i].role, CompatD!ConvertContent(h[i]) \o CompatD!ConvertCalls(h[i].calls))]
               B == BlocksFor("compat", {})
    <2>1. CompatD!ConvertMessages(Prompt, h) =
            (IF Prompt = <<>> THEN <<>> ELSE <<Sent("system", TextBlock(Prompt))>>) \o s
      BY SameBlocks, Zenon DEF CompatD!ConvertMessages
    <2>2. \A i \in DOMAIN h : s[i].blocks = B[h[i]]
      BY <1>1, SentFields DEF BlocksFor
    <2>3. SentEach(s, h, B)
      BY <2>2 DEF SentEach
    <2>4. B \in [Msg -> Seq(BlockSent)]
      BY MessagesTyped
    <2> HIDE DEF s, B
    <2> QED
      BY <2>1, <2>3, <2>4, PromptAndEach DEF B
  <1>3. BlocksOf(AnthropicD!ConvertMessages(Prompt, h)) = TextBlock(Prompt) \o Images(BlocksFor("anthropic", {}), h)
    <2> DEFINE s == [i \in DOMAIN h |-> AnthropicD!ConvertMessage(h[i])]
               B == BlocksFor("anthropic", {})
    <2>1. AnthropicD!ConvertMessages(Prompt, h) =
            (IF Prompt = <<>> THEN <<>> ELSE <<Sent("system field", TextBlock(Prompt))>>) \o s
      BY SameBlocks, Zenon DEF AnthropicD!ConvertMessages
    <2>2. \A i \in DOMAIN h : s[i].blocks = B[h[i]]
      BY <1>1, SentFields DEF BlocksFor
    <2>3. SentEach(s, h, B)
      BY <2>2 DEF SentEach
    <2>4. B \in [Msg -> Seq(BlockSent)]
      BY MessagesTyped
    <2> HIDE DEF s, B
    <2> QED
      BY <2>1, <2>3, <2>4, PromptAndEach DEF B
  <1>4. BlocksOf(ResponsesD!ConvertMessages(Prompt, h)) = TextBlock(Prompt) \o Images(BlocksFor("responses", {}), h)
    <2> DEFINE s == [i \in DOMAIN h |-> ResponsesD!ConvertMessage(h[i])]
               B == BlocksFor("responses", {})
    <2>1. ResponsesD!ConvertMessages(Prompt, h) =
            (IF Prompt = <<>> THEN <<>> ELSE <<Sent("system field", TextBlock(Prompt))>>) \o s
      BY SameBlocks, Zenon DEF ResponsesD!ConvertMessages
    <2>2. \A i \in DOMAIN h : s[i].blocks = B[h[i]]
      BY <1>1, SentFields DEF BlocksFor
    <2>3. SentEach(s, h, B)
      BY <2>2 DEF SentEach
    <2>4. B \in [Msg -> Seq(BlockSent)]
      BY MessagesTyped
    <2> HIDE DEF s, B
    <2> QED
      BY <2>1, <2>3, <2>4, PromptAndEach DEF B
  <1> QED
    BY <1>2, <1>3, <1>4

LEMMA BedrockHistory ==
    ASSUME NEW h \in Seq(Msg)
    PROVE  BlocksOf(BedrockD!ConvertMessages(Prompt, h))
            = (TextBlock(Prompt) \o Images(SystemBlocks, h)) \o Images(BlocksFor("bedrock", {}), h)
  <1> DEFINE Talk == {m \in Msg : m.role # "system"}
             Rules == {m \in Msg : m.role = "system"}
             O == [m \in Msg |-> IF m.role # "system" THEN <<m>> ELSE <<>>]
             Y == [m \in Msg |-> IF m.role = "system" THEN <<m>> ELSE <<>>]
             others == Images(O, h)
             system == Images(Y, h)
             B == BlocksFor("bedrock", {})
             S == SystemBlocks
             field == TextBlock(Prompt) \o FlattenSeq([i \in DOMAIN system |-> TextBlock(system[i].content)])
             s == [i \in DOMAIN others |-> BedrockD!ConvertMessage(others[i])]
  <1>1. \A i \in DOMAIN h : h[i] \in Msg
    BY LenProperties, ElementOfSeq
  <1>2. /\ B \in [Msg -> Seq(BlockSent)] /\ S \in [Msg -> Seq(BlockSent)]
        /\ \A m \in Talk : B[m] = BedrockD!ConvertMessage(m).blocks
        /\ \A m \in Rules : B[m] = <<>> /\ S[m] = TextBlock(m.content)
        /\ \A m \in Talk : S[m] = <<>>
    <2>1. B \in [Msg -> Seq(BlockSent)] /\ S \in [Msg -> Seq(BlockSent)]
      BY MessagesTyped
    <2> QED
      BY <2>1 DEF BlocksFor, SystemBlocks
  <1>3. /\ O \in [Msg -> Seq(Talk)] /\ Y \in [Msg -> Seq(Rules)]
        /\ O \in [Msg -> Seq(Msg)] /\ Y \in [Msg -> Seq(Msg)]
    <2>1. ASSUME NEW m \in Msg
          PROVE  O[m] \in Seq(Talk) /\ Y[m] \in Seq(Rules) /\ O[m] \in Seq(Msg) /\ Y[m] \in Seq(Msg)
      BY OneIsSequence, EmptySeq
    <2> QED
      BY <2>1
  <1>4. others = FlattenSeq([i \in DOMAIN h |-> IF h[i].role # "system" THEN <<h[i]>> ELSE <<>>])
    <2>1. \A i \in DOMAIN h : O[h[i]] = IF h[i].role # "system" THEN <<h[i]>> ELSE <<>>
      BY <1>1
    <2> HIDE DEF O
    <2> QED
      BY <2>1 DEF Images
  <1>5. system = FlattenSeq([i \in DOMAIN h |-> IF h[i].role = "system" THEN <<h[i]>> ELSE <<>>])
    <2>1. \A i \in DOMAIN h : Y[h[i]] = IF h[i].role = "system" THEN <<h[i]>> ELSE <<>>
      BY <1>1
    <2> HIDE DEF Y
    <2> QED
      BY <2>1 DEF Images
  <1>6. BedrockD!ConvertMessages(Prompt, h) = <<Sent("system field", field)>> \o s
    <2> HIDE DEF others, system
    <2>1. \A k : FlattenSeq(k) = BedrockD!FlattenSeq(k)
      BY SameWords, Zenon
    <2>2. /\ BedrockD!Selected(h, LAMBDA m : m.role = "system") = system
          /\ BedrockD!Selected(h, LAMBDA m : m.role # "system") = others
      BY <1>4, <1>5, <2>1, Zenon DEF BedrockD!Selected
    <2>3. BedrockD!BuildSystem(Prompt, h) = field
      BY <2>1, <2>2, SameBlocks, Zenon DEF BedrockD!BuildSystem
    <2> HIDE DEF field
    <2> QED
      BY <2>2, <2>3, SameBlocks, Zenon DEF BedrockD!ConvertMessages
  <1>7. others \in Seq(Talk) /\ system \in Seq(Rules) /\ others \in Seq(Msg) /\ system \in Seq(Msg)
    <2> HIDE DEF O, Y, Talk, Rules
    <2> QED
      BY <1>3, ImagesTyped
  <1>8. /\ \A i \in DOMAIN others : others[i] \in Talk
        /\ \A i \in DOMAIN system : system[i] \in Rules
        /\ Len(others) \in Nat /\ DOMAIN others = 1..Len(others)
    <2> HIDE DEF O, Y, Talk, Rules, others, system
    <2> QED
      BY <1>7, LenProperties, ElementOfSeq
  <1>9. BlocksOf(s) = Images(B, others) /\ \A i \in DOMAIN others : s[i].blocks \in Seq(BlockSent)
    <2>1. \A i \in DOMAIN others : s[i].blocks = B[others[i]]
      <3> HIDE DEF others, B
      <3> QED
        BY <1>2, <1>8
    <2>2. s = [i \in DOMAIN others |-> s[i]]
      OBVIOUS
    <2> HIDE DEF s, others, B
    <2>3. \A i \in DOMAIN others : s[i].blocks \in Seq(BlockSent)
      BY <1>2, <1>8, <2>1
    <2> QED
      BY <2>1, <2>2, <2>3, BlocksOfEach
  <1>10. field = TextBlock(Prompt) \o Images(S, system)
    <2>1. \A i \in DOMAIN system : S[system[i]] = TextBlock(system[i].content)
      <3> HIDE DEF system, S
      <3> QED
        BY <1>2, <1>8
    <2> HIDE DEF system, S
    <2> QED
      BY <2>1 DEF Images
  <1>11. Images(B, others) = Images(B, h)
    <2>1. ImageOf(B, B, O, Msg)
      <3> SUFFICES ASSUME NEW m \in Msg PROVE B[m] = Images(B, O[m])
        BY DEF ImageOf
      <3>1. Images(B, <<m>>) = B[m] /\ Images(B, <<>>) = <<>>
        BY ImagesOfFew
      <3>2. O[m] = (IF m.role # "system" THEN <<m>> ELSE <<>>) /\ (m.role = "system" => B[m] = <<>>)
        BY <1>2
      <3> HIDE DEF B, O
      <3> QED
        BY <3>1, <3>2
    <2>2. B \in [Msg -> Seq(BlockSent)] /\ O \in [Msg -> Seq(Msg)]
      BY <1>2, <1>3
    <2> HIDE DEF B, O
    <2>3. Images(B, Images(O, h)) = Images(B, h)
      BY <2>1, <2>2, ImagesOfImages
    <2> QED
      BY <2>3
  <1>12. Images(S, system) = Images(S, h)
    <2>1. ImageOf(S, S, Y, Msg)
      <3> SUFFICES ASSUME NEW m \in Msg PROVE S[m] = Images(S, Y[m])
        BY DEF ImageOf
      <3>1. Images(S, <<m>>) = S[m] /\ Images(S, <<>>) = <<>>
        BY ImagesOfFew
      <3>2. Y[m] = (IF m.role = "system" THEN <<m>> ELSE <<>>) /\ (m.role # "system" => S[m] = <<>>)
        BY <1>2
      <3> HIDE DEF S, Y
      <3> QED
        BY <3>1, <3>2
    <2>2. S \in [Msg -> Seq(BlockSent)] /\ Y \in [Msg -> Seq(Msg)]
      BY <1>2, <1>3
    <2> HIDE DEF S, Y
    <2>3. Images(S, Images(Y, h)) = Images(S, h)
      BY <2>1, <2>2, ImagesOfImages
    <2> QED
      BY <2>3
  <1>13. field \in Seq(BlockSent) /\ Sent("system field", field).blocks = field
    <2>1. Images(S, h) \in Seq(BlockSent)
      <3> HIDE DEF S
      <3> QED
        BY <1>2, ImagesTyped
    <2> HIDE DEF field, S, system
    <2> QED
      BY <1>10, <1>12, <2>1, PromptMeans, ConcatProperties, SentFields
  <1>14. s = [i \in 1..Len(others) |-> s[i]]
    BY <1>8
  <1> HIDE DEF s, field, others, system, S, B
  <1>15. BlocksOf(<<Sent("system field", field)>> \o s) = field \o BlocksOf(s)
    BY <1>8, <1>9, <1>13, <1>14, BlocksAfter
  <1> QED
    BY <1>6, <1>9, <1>10, <1>11, <1>12, <1>15 DEF B, S

LEMMA BlocksAsImages ==
    ASSUME NEW U, NEW G, G = [u \in U |-> u.blocks], NEW t \in Seq(U)
    PROVE  BlocksOf(t) = Images(G, t)
  <1>1. \A i \in DOMAIN t : t[i] \in U
    BY LenProperties, ElementOfSeq
  <1>2. \A i \in DOMAIN t : G[t[i]] = t[i].blocks
    BY <1>1
  <1> HIDE DEF BlocksOf
  <1> QED
    BY <1>2 DEF BlocksOf, Images

\* Messages that come to nothing add nothing.
LEMMA GeminiHistory ==
    ASSUME NEW h \in Seq(Msg), NEW T, T = GeminiD!Textified(h)
    PROVE  BlocksOf(GeminiD!ConvertMessages(Prompt, h)) = TextBlock(Prompt) \o Images(BlocksFor("gemini", T), h)
  <1> DEFINE B == BlocksFor("gemini", T)
             sent == [i \in DOMAIN h |-> GeminiD!ConvertMessage(h[i], T)]
             W == {sent[i] : i \in DOMAIN h}
             F == [u \in W |-> IF u.blocks # <<>> THEN <<u>> ELSE <<>>]
             G == [u \in W |-> u.blocks]
             kept == Images(F, sent)
             e == Sent("system field", TextBlock(Prompt))
  <1>1. Len(h) \in Nat /\ DOMAIN h = 1..Len(h) /\ \A i \in DOMAIN h : h[i] \in Msg
    BY LenProperties, ElementOfSeq
  <1>2. \A i \in DOMAIN h : sent[i].blocks = B[h[i]] /\ sent[i].blocks \in Seq(BlockSent)
    <2>1. B \in [Msg -> Seq(BlockSent)]
      BY MessagesTyped
    <2>2. \A i \in DOMAIN h : sent[i].blocks = B[h[i]]
      BY <1>1 DEF BlocksFor
    <2> HIDE DEF B, sent
    <2> QED
      BY <1>1, <2>1, <2>2
  <1>3. sent \in Seq(W) /\ DOMAIN sent = DOMAIN h /\ sent = [i \in DOMAIN h |-> sent[i]]
    <2>1. /\ sent = [i \in 1..Len(h) |-> sent[i]] /\ DOMAIN sent = DOMAIN h /\ sent = [i \in DOMAIN h |-> sent[i]]
          /\ \A i \in 1..Len(h) : sent[i] \in W
      BY <1>1
    <2> HIDE DEF sent, W
    <2> QED
      BY <1>1, <2>1, ListOf
  <1>4. \A u \in W : u.blocks \in Seq(BlockSent)
    <2> HIDE DEF sent
    <2> QED
      BY <1>2
  <1>5. F \in [W -> Seq(W)] /\ G \in [W -> Seq(BlockSent)]
    <2> HIDE DEF W
    <2> QED
      BY <1>4, OneIsSequence, EmptySeq
  <1>6. kept = FlattenSeq([i \in DOMAIN sent |-> IF sent[i].blocks # <<>> THEN <<sent[i]>> ELSE <<>>])
    <2>1. \A i \in DOMAIN sent : F[sent[i]] = IF sent[i].blocks # <<>> THEN <<sent[i]>> ELSE <<>>
      <3>1. \A i \in DOMAIN sent : sent[i] \in W
        BY <1>3
      <3> HIDE DEF sent, W
      <3> QED
        BY <3>1
    <2> HIDE DEF F, sent
    <2> QED
      BY <2>1 DEF Images
  <1>7. GeminiD!ConvertMessages(Prompt, h) = <<e>> \o kept
    <2>1. \A k : FlattenSeq(k) = GeminiD!FlattenSeq(k)
      BY SameWords, Zenon
    <2>2. GeminiD!Selected(sent, LAMBDA c : c.blocks # <<>>) = kept
      <3> HIDE DEF kept, sent
      <3> QED
        BY <1>6, <2>1, Zenon DEF GeminiD!Selected
    <2> HIDE DEF kept
    <2>3. GeminiD!ConvertMessages(Prompt, h) =
            (IF Prompt = <<>> THEN <<>> ELSE <<Sent("system field", TextBlock(Prompt))>>) \o kept
      BY <2>2, SameBlocks, Zenon DEF GeminiD!ConvertMessages
    <2> QED
      BY <2>3, PromptMeans
  <1> HIDE DEF sent, W
  <1>8. kept \in Seq(W)
    <2> HIDE DEF F
    <2> QED
      BY <1>3, <1>5, ImagesTyped
  <1>9. BlocksOf(kept) = Images(G, kept) /\ BlocksOf(sent) = Images(G, sent)
    <2> HIDE DEF kept
    <2>1. G = [u \in W |-> u.blocks]
      OBVIOUS
    <2> HIDE DEF G
    <2> QED
      BY <1>3, <1>8, <2>1, BlocksAsImages
  <1>10. Images(G, kept) = Images(G, sent)
    <2>1. ImageOf(G, G, F, W)
      <3> SUFFICES ASSUME NEW u \in W PROVE G[u] = Images(G, F[u])
        BY DEF ImageOf
      <3>1. Images(G, <<u>>) = G[u] /\ Images(G, <<>>) = <<>>
        BY ImagesOfFew
      <3>2. F[u] = (IF u.blocks # <<>> THEN <<u>> ELSE <<>>) /\ G[u] = u.blocks
        OBVIOUS
      <3> HIDE DEF F, G
      <3> QED
        BY <3>1, <3>2
    <2>2. F \in [W -> Seq(W)] /\ G \in [W -> Seq(BlockSent)] /\ sent \in Seq(W)
      BY <1>3, <1>5
    <2> HIDE DEF F, G
    <2>3. Images(G, Images(F, sent)) = Images(G, sent)
      BY <2>1, <2>2, ImagesOfImages
    <2> QED
      BY <2>3
  <1>11. BlocksOf(sent) = Images(B, h)
    <2> HIDE DEF B
    <2> QED
      BY <1>2, <1>3, BlocksOfEach
  <1>12. e.blocks = TextBlock(Prompt) /\ e.blocks \in Seq(BlockSent)
    BY PromptMeans, SentFields
  <1> HIDE DEF kept, e, B, F, G
  <1>13. BlocksOf(<<e>> \o kept) = e.blocks \o BlocksOf(kept)
    <2>1. Len(kept) \in Nat /\ kept = [i \in 1..Len(kept) |-> kept[i]] /\ \A i \in 1..Len(kept) : kept[i] \in W
      BY <1>8, LenProperties, ElementOfSeq
    <2>2. \A i \in 1..Len(kept) : kept[i].blocks \in Seq(BlockSent)
      BY <1>4, <2>1
    <2> QED
      BY <1>12, <2>1, <2>2, BlocksAfter
  <1> QED
    BY <1>7, <1>9, <1>10, <1>11, <1>12, <1>13 DEF B

-----------------------------------------------------------------------------
(* How a history grows.                                                    *)

\* The calls of a turn are those that the dialect that made it makes.
TurnOf(d, m) ==
    /\ m.calls \in Seq(MadeBy(d))
    /\ \A k \in 2..Len(m.calls) : m.calls[k].metadata.reasoning = <<>>

HistoryTyped ==
    /\ history \in Seq(Msg) /\ makers \in Seq(Dialects \union {""}) /\ Len(makers) = Len(history)
    /\ \A i \in DOMAIN history : history[i].role = "assistant" =>
          makers[i] \in Dialects /\ TurnOf(makers[i], history[i])

NewestTurn == Turns # {} => Turn \in Turns /\ \A i \in Turns : i <= Turn

IDsOfCalls   == [m \in Msg |-> CallIDs(m)]
IDsOfResults == [m \in Msg |-> ResultIDs(m)]
AllValues    == [m \in Msg |-> ValuesOf("bedrock", m)]

\* The calls of a turn that have no results behind the first k, and those of the last turn.
Awaited(calls, k) == [j \in 1..(Len(calls) - k) |-> calls[k + j].id]

Waiting == IF Turns = {} THEN <<>> ELSE Awaited(history[Turn].calls, Len(history) - Turn)

\* Results have followed the calls, in their order.
ResultsFollow == Images(IDsOfCalls, history) = Images(IDsOfResults, history) \o Waiting

\* What Bedrock takes out of the history comes before the rest of it.
RulesFirst == Images(AllValues, history) = Images(SystemValues, history) \o Images(ValuesIn("bedrock"), history)

HistoryInvariant == HistoryTyped /\ NewestTurn /\ ResultsFollow /\ RulesFirst

LEMMA MaxIs ==
    ASSUME NEW S, S \subseteq Nat, NEW t \in S, \A y \in S : y <= t
    PROVE  Max(S) = t
  <1>1. \A x \in S : (\A y \in S : x >= y) => x = t
    BY SMT
  <1>2. \A y \in S : t >= y
    BY SMT
  <1> QED
    BY <1>1, <1>2 DEF Max

OneBehind(t, s, x, X, n) == t \in Seq(X) /\ Len(t) = n + 1 /\ t[n + 1] = x /\ \A i \in 1..n : t[i] = s[i]

LEMMA AppendedBehind ==
    ASSUME NEW X, NEW s, NEW x, s \in Seq(X), x \in X
    PROVE  OneBehind(Append(s, x), s, x, X, Len(s))
  BY AppendProperties DEF OneBehind

\* A message behind the others, made by one of the dialects or by the caller.
Grown(m, by) ==
    /\ m \in Msg /\ by \in Dialects \union {""}
    /\ m.role = "assistant" => by \in Dialects /\ TurnOf(by, m)
    /\ history' = Append(history, m) /\ makers' = Append(makers, by)

LEMMA HistoryGrows ==
    ASSUME HistoryTyped, NEW m, NEW by, Grown(m, by)
    PROVE  /\ HistoryTyped' /\ Len(history) \in Nat /\ Len(history') = Len(history) + 1
           /\ history'[Len(history) + 1] = m /\ \A i \in 1..Len(history) : history'[i] = history[i]
  <1>1. /\ history \in Seq(Msg) /\ makers \in Seq(Dialects \union {""}) /\ Len(makers) = Len(history)
        /\ Len(history) \in Nat /\ DOMAIN history = 1..Len(history)
    BY LenProperties DEF HistoryTyped
  <1>2. m \in Msg /\ by \in Dialects \union {""} /\ history' = Append(history, m) /\ makers' = Append(makers, by)
    BY DEF Grown
  <1>3. /\ history' \in Seq(Msg) /\ Len(history') = Len(history) + 1 /\ history'[Len(history) + 1] = m
        /\ \A i \in 1..Len(history) : history'[i] = history[i]
    <2>1. OneBehind(Append(history, m), history, m, Msg, Len(history))
      BY <1>1, <1>2, AppendedBehind
    <2>2. OneBehind(history', history, m, Msg, Len(history))
      BY <1>2, <2>1
    <2> QED
      BY <2>2 DEF OneBehind
  <1>4. /\ makers' \in Seq(Dialects \union {""}) /\ Len(makers') = Len(history) + 1 /\ makers'[Len(history) + 1] = by
        /\ \A i \in 1..Len(history) : makers'[i] = makers[i]
    <2>1. OneBehind(Append(makers, by), makers, by, Dialects \union {""}, Len(makers))
      BY <1>1, <1>2, AppendedBehind
    <2>2. OneBehind(makers', makers, by, Dialects \union {""}, Len(history))
      BY <1>1, <1>2, <2>1
    <2> QED
      BY <2>2 DEF OneBehind
  <1>5. DOMAIN history' = 1..(Len(history) + 1)
    BY <1>3, LenProperties
  <1>6. ASSUME NEW i \in DOMAIN history', history'[i].role = "assistant"
        PROVE  makers'[i] \in Dialects /\ TurnOf(makers'[i], history'[i])
    <2>1. CASE i = Len(history) + 1
      BY <1>3, <1>4, <1>6, <2>1 DEF Grown
    <2>2. CASE i \in 1..Len(history)
      BY <1>1, <1>3, <1>4, <1>6, <2>2 DEF HistoryTyped
    <2>3. i \in 1..(Len(history) + 1) /\ Len(history) \in Nat
      BY <1>1, <1>5
    <2>4. i = Len(history) + 1 \/ i \in 1..Len(history)
      BY <2>3
    <2> QED
      BY <2>1, <2>2, <2>4
  <1> QED
    BY <1>1, <1>3, <1>4, <1>6 DEF HistoryTyped

LEMMA TurnsGrow ==
    ASSUME HistoryTyped, NewestTurn, NEW m, NEW by, Grown(m, by)
    PROVE  /\ NewestTurn'
           /\ m.role = "assistant" => Turns' # {} /\ Turn' = Len(history) + 1
           /\ m.role # "assistant" => Turns' = Turns /\ Turn' = Turn
  <1>1. /\ Len(history) \in Nat /\ DOMAIN history = 1..Len(history) /\ DOMAIN history' = 1..(Len(history) + 1)
        /\ history'[Len(history) + 1] = m /\ \A i \in 1..Len(history) : history'[i] = history[i]
    <2>1. history \in Seq(Msg) /\ history' \in Seq(Msg) /\ Len(history') = Len(history) + 1
      BY HistoryGrows DEF HistoryTyped
    <2> QED
      BY <2>1, HistoryGrows, LenProperties
  <1>2. m.role # "assistant" => Turns' = Turns
    BY <1>1 DEF Turns
  <1>3. ASSUME m.role = "assistant"
        PROVE  Len(history) + 1 \in Turns' /\ Turns' \subseteq Nat /\ \A i \in Turns' : i <= Len(history) + 1
    BY <1>1, <1>3 DEF Turns
  <1>4. CASE m.role # "assistant"
    <2>1. Turns' = Turns
      BY <1>2, <1>4
    <2>2. Turn' = Turn
      BY <2>1 DEF Turn
    <2> QED
      BY <1>4, <2>1, <2>2 DEF NewestTurn
  <1>5. CASE m.role = "assistant"
    <2>1. Len(history) + 1 \in Turns' /\ Turns' \subseteq Nat /\ \A i \in Turns' : i <= Len(history) + 1
      BY <1>3, <1>5
    <2>2. Max(Turns') = Len(history) + 1
      BY <2>1, MaxIs
    <2>3. Turn' = Len(history) + 1
      BY <2>2 DEF Turn
    <2> QED
      BY <1>5, <2>1, <2>3 DEF NewestTurn
  <1> QED
    BY <1>4, <1>5

LEMMA ImagesGrow ==
    ASSUME HistoryTyped, NEW m, NEW by, Grown(m, by), NEW g, NEW Y, g \in [Msg -> Seq(Y)]
    PROVE  Images(g, history') = Images(g, history) \o g[m]
  <1>1. history \in Seq(Msg) /\ m \in Msg /\ history' = Append(history, m)
    BY DEF HistoryTyped, Grown
  <1>2. Images(g, Append(history, m)) = Images(g, history) \o g[m]
    BY <1>1, ImagesOneMore
  <1> QED
    BY <1>1, <1>2

LEMMA RulesStayFirst ==
    ASSUME HistoryTyped, RulesFirst, NEW m, NEW by, Grown(m, by), m.role = "system" => history = <<>>
    PROVE  RulesFirst'
  <1> DEFINE A == AllValues
             S == SystemValues
             O == ValuesIn("bedrock")
  <1>1. m \in Msg /\ history \in Seq(Msg)
    BY DEF Grown, HistoryTyped
  <1>2. S \in [Msg -> Seq(Text)] /\ O \in [Msg -> Seq(Text)]
    BY MessagesTyped
  <1>3. \A x \in Msg : /\ x.role = "system" => A[x] = S[x] /\ O[x] = <<>>
                       /\ x.role # "system" => A[x] = O[x] /\ S[x] = <<>>
    BY DEF AllValues, SystemValues, ValuesIn
  <1>4. A \in [Msg -> Seq(Text)]
    <2>1. ASSUME NEW x \in Msg PROVE ValuesOf("bedrock", x) \in Seq(Text)
      <3>1. A[x] \in Seq(Text)
        <4> HIDE DEF A, S, O
        <4> QED
          BY <1>2, <1>3
      <3> QED
        BY <3>1 DEF AllValues
    <2> QED
      BY <2>1, Zenon DEF AllValues
  <1>5. Images(A, history) = Images(S, history) \o Images(O, history)
    BY DEF RulesFirst
  <1> HIDE DEF A, S, O
  <1>6. /\ Images(A, history') = Images(A, history) \o A[m]
        /\ Images(S, history') = Images(S, history) \o S[m]
        /\ Images(O, history') = Images(O, history) \o O[m]
    BY <1>2, <1>4, ImagesGrow
  <1>7. /\ Images(S, history) \in Seq(Text) /\ Images(O, history) \in Seq(Text)
        /\ S[m] \in Seq(Text) /\ O[m] \in Seq(Text)
    BY <1>1, <1>2, ImagesTyped
  <1>8. CASE m.role # "system"
    <2>1. Images(S, history) \o <<>> = Images(S, history)
      BY <1>7, ConcatEmptySeq
    <2>2. (Images(S, history) \o Images(O, history)) \o O[m] = Images(S, history) \o (Images(O, history) \o O[m])
      <3> DEFINE a == Images(S, history)
                 b == Images(O, history)
                 c == O[m]
      <3>1. a \in Seq(Text) /\ b \in Seq(Text) /\ c \in Seq(Text)
        BY <1>7
      <3> HIDE DEF a, b, c
      <3>2. (a \o b) \o c = a \o (b \o c)
        BY <3>1, ConcatAssociative
      <3> QED
        BY <3>2 DEF a, b, c
    <2>3. A[m] = O[m] /\ S[m] = <<>>
      BY <1>1, <1>3, <1>8
    <2>4. Images(A, history') = Images(S, history') \o Images(O, history')
      BY <1>5, <1>6, <2>1, <2>2, <2>3
    <2> QED
      BY <2>4 DEF RulesFirst, A, S, O
  <1>9. CASE m.role = "system"
    <2>1. Images(A, history) = <<>> /\ Images(S, history) = <<>> /\ Images(O, history) = <<>>
      BY <1>9, ImagesOfFew
    <2>2. A[m] = S[m] /\ O[m] = <<>>
      BY <1>1, <1>3, <1>9
    <2>3. <<>> \o S[m] = S[m] /\ S[m] \o <<>> = S[m] /\ <<>> \o <<>> = <<>>
      BY <1>7, ConcatEmptySeq, EmptySeq
    <2>4. Images(A, history') = Images(S, history') \o Images(O, history')
      BY <1>6, <2>1, <2>2, <2>3
    <2> QED
      BY <2>4 DEF RulesFirst, A, S, O
  <1> QED
    BY <1>8, <1>9

LEMMA AwaitedCalls ==
    ASSUME NEW calls \in Seq(AnyCall), NEW k \in Nat
    PROVE  /\ Len(calls) \in Nat /\ Awaited(calls, k) \in Seq(Lexeme)
           /\ k >= Len(calls) => Awaited(calls, k) = <<>>
           /\ Awaited(calls, 0) = [j \in DOMAIN calls |-> calls[j].id]
           /\ k < Len(calls) => /\ k + 1 \in 1..Len(calls)
                                /\ Awaited(calls, k) = <<calls[k + 1].id>> \o Awaited(calls, k + 1)
  <1>1. /\ Len(calls) \in Nat /\ DOMAIN calls = 1..Len(calls)
        /\ \A j \in 1..Len(calls) : calls[j].id \in Lexeme
    <2>1. Len(calls) \in Nat /\ DOMAIN calls = 1..Len(calls) /\ \A j \in 1..Len(calls) : calls[j] \in AnyCall
      BY LenProperties, ElementOfSeq
    <2> QED
      BY <2>1 DEF AnyCall
  <1>2. ASSUME NEW i \in Nat, i <= Len(calls)
        PROVE  /\ Awaited(calls, i) \in Seq(Lexeme) /\ Len(Awaited(calls, i)) = Len(calls) - i
               /\ \A j \in 1..(Len(calls) - i) : Awaited(calls, i)[j] = calls[i + j].id
    <2> DEFINE s == Awaited(calls, i)
               n == Len(calls) - i
    <2>1. n \in Nat
      BY <1>1, <1>2
    <2>2. s = [j \in 1..n |-> calls[i + j].id]
      BY DEF Awaited
    <2>3. \A j \in 1..n : calls[i + j].id \in Lexeme
      BY <1>1, <1>2
    <2> HIDE DEF n, s
    <2>4. \A j \in 1..n : s[j] = calls[i + j].id
      BY <2>2
    <2>5. s = [j \in 1..n |-> s[j]] /\ \A j \in 1..n : s[j] \in Lexeme
      BY <2>2, <2>3
    <2>6. s \in Seq(Lexeme) /\ Len(s) = n
      BY <2>1, <2>5, ListOf
    <2> QED
      BY <2>4, <2>6 DEF n, s
  <1>3. ASSUME k >= Len(calls) PROVE Awaited(calls, k) = <<>>
    <2>1. 1..(Len(calls) - k) = {}
      BY <1>1, <1>3
    <2> QED
      BY <2>1 DEF Awaited
  <1>4. Awaited(calls, 0) = [j \in DOMAIN calls |-> calls[j].id]
    <2>1. 1..(Len(calls) - 0) = DOMAIN calls /\ \A j \in DOMAIN calls : 0 + j = j
      BY <1>1
    <2> QED
      BY <2>1 DEF Awaited
  <1>5. ASSUME k < Len(calls)
        PROVE  k + 1 \in 1..Len(calls) /\ Awaited(calls, k) = <<calls[k + 1].id>> \o Awaited(calls, k + 1)
    <2> DEFINE s == Awaited(calls, k)
               t == Awaited(calls, k + 1)
               x == <<calls[k + 1].id>>
               n == Len(calls)
    <2>1. k + 1 \in 1..n /\ k \in Nat /\ k + 1 \in Nat /\ k <= n /\ k + 1 <= n /\ n \in Nat
      BY <1>1, <1>5
    <2>2. /\ s \in Seq(Lexeme) /\ Len(s) = n - k /\ \A j \in 1..(n - k) : s[j] = calls[k + j].id
          /\ t \in Seq(Lexeme) /\ Len(t) = n - (k + 1) /\ \A j \in 1..(n - (k + 1)) : t[j] = calls[(k + 1) + j].id
      BY <1>2, <2>1
    <2>3. x \in Seq(Lexeme) /\ Len(x) = 1 /\ x[1] = calls[k + 1].id
      BY <1>1, <2>1, OneIsSequence
    <2> HIDE DEF s, t, x, n
    <2>4. /\ x \o t \in Seq(Lexeme) /\ Len(x \o t) = 1 + Len(t)
          /\ \A j \in 1..(1 + Len(t)) : (x \o t)[j] = IF j <= 1 THEN x[j] ELSE t[j - 1]
      <3>1. x \in Seq(Lexeme) /\ t \in Seq(Lexeme) /\ Len(x) = 1
        BY <2>2, <2>3
      <3>2. /\ x \o t \in Seq(Lexeme) /\ Len(x \o t) = Len(x) + Len(t)
            /\ \A j \in 1..(Len(x) + Len(t)) : (x \o t)[j] = IF j <= Len(x) THEN x[j] ELSE t[j - Len(x)]
        BY <3>1, ConcatProperties
      <3> QED
        BY <3>1, <3>2
    <2>5. Len(x \o t) = Len(s)
      BY <2>1, <2>2, <2>4
    <2>6. ASSUME NEW j \in 1..Len(s) PROVE s[j] = (x \o t)[j]
      <3>1. s[j] = calls[k + j].id /\ j \in 1..(1 + Len(t))
        BY <2>1, <2>2
      <3>2. CASE j = 1
        BY <2>1, <2>3, <2>4, <3>1, <3>2
      <3>3. CASE j # 1
        <4>1. j - 1 \in 1..(n - (k + 1)) /\ (k + 1) + (j - 1) = k + j /\ ~(j <= 1)
          BY <2>1, <2>2, <3>3
        <4>2. t[j - 1] = calls[k + j].id
          BY <2>2, <4>1
        <4> QED
          BY <2>4, <3>1, <4>1, <4>2
      <3> QED
        BY <3>2, <3>3
    <2>7. s = x \o t
      BY <2>2, <2>4, <2>5, <2>6, SeqEqual
    <2> QED
      BY <2>1, <2>7 DEF s, t, x, n
  <1>6. Awaited(calls, k) \in Seq(Lexeme)
    <2>1. CASE k >= Len(calls)
      BY <1>3, <2>1, EmptySeq
    <2>2. CASE k <= Len(calls)
      BY <1>2, <2>2
    <2> QED
      BY <1>1, <2>1, <2>2
  <1> QED
    BY <1>1, <1>3, <1>4, <1>5, <1>6

LEMMA IDsTyped ==
    /\ IDsOfCalls \in [Msg -> Seq(Lexeme)] /\ IDsOfResults \in [Msg -> Seq(Lexeme)]
    /\ \A m \in Msg : m.role # "assistant" => CallIDs(m) = <<>>
    /\ \A m \in Msg : m.role # "tool" => ResultIDs(m) = <<>>
  <1>1. ASSUME NEW m \in Msg PROVE CallIDs(m) \in Seq(Lexeme)
    <2>1. m.calls \in Seq(AnyCall) /\ 0 \in Nat
      BY DEF Msg
    <2>2. Awaited(m.calls, 0) \in Seq(Lexeme) /\ Awaited(m.calls, 0) = CallIDs(m)
      BY <2>1, AwaitedCalls DEF CallIDs
    <2> QED
      BY <2>2
  <1>2. ASSUME NEW m \in Msg PROVE ResultIDs(m) \in Seq(Lexeme)
    <2>1. m.callID \in Lexeme
      BY DEF Msg
    <2> QED
      BY <2>1, OneIsSequence, EmptySeq DEF ResultIDs
  <1>3. ASSUME NEW m \in Msg, m.role # "assistant" PROVE CallIDs(m) = <<>>
    <2>1. m.calls = <<>>
      BY <1>3 DEF Msg
    <2> QED
      BY <2>1 DEF CallIDs
  <1>4. ASSUME NEW m \in Msg, m.role # "tool" PROVE ResultIDs(m) = <<>>
    BY <1>4 DEF ResultIDs
  <1>5. IDsOfCalls \in [Msg -> Seq(Lexeme)] /\ IDsOfResults \in [Msg -> Seq(Lexeme)]
    BY <1>1, <1>2, Zenon DEF IDsOfCalls, IDsOfResults
  <1> QED
    BY <1>3, <1>4, <1>5

\* Nothing is awaited when the last turn is answered, and its next result otherwise.
LEMMA WhatIsAwaited ==
    ASSUME HistoryTyped, NewestTurn
    PROVE  /\ Waiting \in Seq(Lexeme)
           /\ Answered => Waiting = <<>>
           /\ Turns # {} => /\ Turn \in 1..Len(history) /\ Len(history) \in Nat
                            /\ history[Turn].calls \in Seq(AnyCall) /\ Len(history[Turn].calls) \in Nat
           /\ ~Answered => Turns # {} /\ Len(history) - Turn < Len(history[Turn].calls)
  <1>1. history \in Seq(Msg) /\ Len(history) \in Nat /\ DOMAIN history = 1..Len(history)
    BY LenProperties DEF HistoryTyped
  <1>2. ASSUME Turns # {}
        PROVE  /\ Turn \in 1..Len(history) /\ history[Turn].calls \in Seq(AnyCall)
               /\ Len(history[Turn].calls) \in Nat /\ Len(history) - Turn \in Nat
    <2>1. Turn \in 1..Len(history)
      BY <1>1, <1>2 DEF NewestTurn, Turns
    <2>2. history[Turn] \in Msg
      BY <1>1, <2>1, ElementOfSeq
    <2>3. history[Turn].calls \in Seq(AnyCall)
      BY <2>2 DEF Msg
    <2>4. Len(history[Turn].calls) \in Nat
      BY <2>3, LenProperties
    <2> QED
      BY <1>1, <2>1, <2>3, <2>4
  <1>3. CASE Turns = {}
    <2>1. Answered /\ Waiting = <<>>
      BY <1>3 DEF Answered, Waiting
    <2> QED
      BY <1>3, <2>1, EmptySeq
  <1>4. CASE Turns # {}
    <2> DEFINE c == history[Turn].calls
               k == Len(history) - Turn
    <2>1. Waiting = Awaited(c, k)
      BY <1>4 DEF Waiting
    <2>2. Answered <=> k >= Len(c)
      <3>1. Answered <=> Len(history) >= Turn + Len(c)
        BY <1>4 DEF Answered
      <3>2. Turn \in Nat /\ Len(history) \in Nat /\ Len(c) \in Nat
        BY <1>1, <1>2, <1>4
      <3> HIDE DEF c
      <3> QED
        BY <3>1, <3>2
    <2>3. c \in Seq(AnyCall) /\ k \in Nat /\ Len(c) \in Nat
      BY <1>2, <1>4
    <2>4. Awaited(c, k) \in Seq(Lexeme) /\ (k >= Len(c) => Awaited(c, k) = <<>>)
      <3> HIDE DEF c, k
      <3> QED
        BY <2>3, AwaitedCalls
    <2>5. ~(k >= Len(c)) => k < Len(c)
      <3> HIDE DEF c, k
      <3> QED
        BY <2>3
    <2> QED
      BY <1>1, <1>2, <1>4, <2>1, <2>2, <2>4, <2>5
  <1> QED
    BY <1>3, <1>4

\* A message grows both sides of ResultsFollow.
LEMMA BothSidesGrow ==
    ASSUME HistoryTyped, ResultsFollow, NEW m, NEW by, Grown(m, by)
    PROVE  /\ m.role \in {"user", "system"} /\ Waiting = <<>> /\ Waiting' = <<>> => ResultsFollow'
           /\ m.role = "assistant" /\ Waiting = <<>> /\ Waiting' = CallIDs(m) => ResultsFollow'
           /\ m.role = "tool" /\ Waiting = <<m.callID>> \o Waiting' /\ Waiting' \in Seq(Lexeme) => ResultsFollow'
  <1> DEFINE C == Images(IDsOfCalls, history)
             R == Images(IDsOfResults, history)
             c == CallIDs(m)
             r == ResultIDs(m)
  <1>1. m \in Msg /\ history \in Seq(Msg)
    BY DEF Grown, HistoryTyped
  <1>2. IDsOfCalls[m] = c /\ IDsOfResults[m] = r
    BY <1>1 DEF IDsOfCalls, IDsOfResults
  <1>3. Images(IDsOfCalls, history') = C \o c /\ Images(IDsOfResults, history') = R \o r
    BY <1>2, IDsTyped, ImagesGrow
  <1>4. C = R \o Waiting
    BY DEF ResultsFollow
  <1>5. C \in Seq(Lexeme) /\ R \in Seq(Lexeme) /\ c \in Seq(Lexeme) /\ r \in Seq(Lexeme)
    <2>1. C \in Seq(Lexeme) /\ R \in Seq(Lexeme)
      BY <1>1, IDsTyped, ImagesTyped
    <2>2. IDsOfCalls[m] \in Seq(Lexeme) /\ IDsOfResults[m] \in Seq(Lexeme)
      BY <1>1, IDsTyped
    <2> QED
      BY <1>2, <2>1, <2>2
  <1>6. /\ m.role # "assistant" => c = <<>>
        /\ m.role # "tool" => r = <<>>
        /\ m.role = "tool" => r = <<m.callID>>
    BY <1>1, IDsTyped DEF ResultIDs
  <1>7. ResultsFollow' <=> C \o c = (R \o r) \o Waiting'
    BY <1>3 DEF ResultsFollow
  <1> HIDE DEF C, R, r
  <1>8. /\ R \o <<>> = R /\ C \o <<>> = C /\ <<>> \o <<>> = <<>>
    BY <1>5, ConcatEmptySeq, EmptySeq
  <1>9. CASE m.role \in {"user", "system"} /\ Waiting = <<>> /\ Waiting' = <<>>
    BY <1>4, <1>6, <1>7, <1>8, <1>9
  <1>10. CASE m.role = "assistant" /\ Waiting = <<>> /\ Waiting' = CallIDs(m)
    BY <1>4, <1>6, <1>7, <1>8, <1>10
  <1>11. CASE m.role = "tool" /\ Waiting = <<m.callID>> \o Waiting' /\ Waiting' \in Seq(Lexeme)
    <2> HIDE DEF c
    <2>1. (R \o r) \o Waiting' = R \o (r \o Waiting')
      <3>1. \A w \in Seq(Lexeme) : (R \o r) \o w = R \o (r \o w)
        BY <1>5, ConcatAssociative
      <3> QED
        BY <1>11, <3>1
    <2>2. r = <<m.callID>> /\ c = <<>>
      BY <1>6, <1>11
    <2> QED
      BY <1>4, <1>7, <1>8, <1>11, <2>1, <2>2
  <1> QED
    BY <1>9, <1>10, <1>11

-----------------------------------------------------------------------------
(* The steps.                                                              *)

LEMMA SystemStays ==
    ASSUME HistoryInvariant, SystemSays
    PROVE  HistoryInvariant'
  <1> DEFINE m == Message("system", <<"rules">>, <<>>, <<>>, "")
  <1>1. history = <<>> /\ history' = Append(history, m) /\ makers' = Append(makers, "")
    BY DEF SystemSays, Say
  <1>2. m \in Msg /\ m.role = "system"
    <2>1. <<"rules">> \in Text /\ <<>> \in Text /\ <<>> \in Seq(Lexeme) /\ <<>> \in Seq(AnyCall) /\ "" \in Lexeme
      BY OneIsSequence, EmptySeq DEF Text, Lexeme
    <2>2. m = [role |-> "system", content |-> <<"rules">>, parts |-> <<>>, calls |-> <<>>, callID |-> ""]
      BY DEF Message
    <2> HIDE DEF m
    <2> QED
      BY <2>1, <2>2 DEF Msg
  <1> HIDE DEF m
  <1>3. Grown(m, "")
    BY <1>1, <1>2 DEF Grown
  <1>4. Turns = {} /\ Turns' = {}
    <2>1. Turns = {}
      <3>1. DOMAIN history = {}
        <4>1. history \in Seq(Msg) /\ history = <<>> /\ Len(history) = 0
          BY <1>1 DEF HistoryInvariant, HistoryTyped
        <4> QED
          BY <4>1, LenProperties
      <3> QED
        BY <3>1, Zenon DEF Turns
    <2> QED
      BY <1>2, <1>3, <2>1, TurnsGrow DEF HistoryInvariant
  <1>5. Waiting = <<>> /\ Waiting' = <<>>
    BY <1>4 DEF Waiting
  <1> QED
    BY <1>1, <1>2, <1>3, <1>5, HistoryGrows, TurnsGrow, RulesStayFirst, BothSidesGrow DEF HistoryInvariant

LEMMA UserStays ==
    ASSUME HistoryInvariant, NEW parts \in {<<>>} \union {<<"text", p>> : p \in Parts}, UserSays(parts)
    PROVE  HistoryInvariant'
  <1> DEFINE m == Message("user", <<"question">>, parts, <<>>, "")
  <1>1. Answered /\ history' = Append(history, m) /\ makers' = Append(makers, "")
    BY DEF UserSays, Say
  <1>2. m \in Msg /\ m.role = "user"
    <2>1. <<"question">> \in Text /\ <<>> \in Text /\ <<>> \in Seq(Lexeme) /\ <<>> \in Seq(AnyCall) /\ "" \in Lexeme
      BY OneIsSequence, EmptySeq DEF Text, Lexeme
    <2>2. parts \in Seq(Lexeme) /\ (parts = <<>> \/ parts[1] = "text")
      <3>1. CASE parts = <<>>
        BY <2>1, <3>1
      <3>2. ASSUME NEW p \in Parts, parts = <<"text", p>> PROVE parts \in Seq(Lexeme) /\ parts[1] = "text"
        <4>1. p \in Lexeme /\ "text" \in Lexeme
          BY RequestAssumption DEF RequestAssumption, Lexeme, PartKinds
        <4> QED
          BY <3>2, <4>1
      <3> QED
        BY <3>1, <3>2
    <2>3. m = [role |-> "user", content |-> <<"question">>, parts |-> parts, calls |-> <<>>, callID |-> ""]
      BY DEF Message
    <2> HIDE DEF m
    <2> QED
      BY <2>1, <2>2, <2>3 DEF Msg
  <1> HIDE DEF m
  <1>3. Grown(m, "")
    BY <1>1, <1>2 DEF Grown
  <1>4. Turns' = Turns /\ Turn' = Turn
    BY <1>2, <1>3, TurnsGrow DEF HistoryInvariant
  <1>5. Waiting = <<>>
    BY <1>1, WhatIsAwaited DEF HistoryInvariant
  <1>6. Waiting' = <<>>
    <2>1. CASE Turns = {}
      BY <1>4, <2>1 DEF Waiting
    <2>2. CASE Turns # {}
      <3> DEFINE c == history[Turn].calls
                 k == Len(history) + 1 - Turn
      <3>1. /\ Turn \in 1..Len(history) /\ Len(history) \in Nat
            /\ c \in Seq(AnyCall) /\ Len(c) \in Nat
        BY <2>2, WhatIsAwaited DEF HistoryInvariant
      <3>2. Len(history) >= Turn + Len(c)
        BY <1>1, <2>2 DEF Answered
      <3>3. history'[Turn] = history[Turn] /\ Len(history') = Len(history) + 1
        BY <1>3, <3>1, HistoryGrows DEF HistoryInvariant
      <3>4. Waiting' = Awaited(c, k)
        <4>1. Waiting' = Awaited(history'[Turn].calls, Len(history') - Turn)
          BY <1>4, <2>2 DEF Waiting
        <4>2. Len(history') - Turn = k
          BY <3>1, <3>3
        <4> HIDE DEF k
        <4> QED
          BY <3>3, <4>1, <4>2
      <3>5. k \in Nat /\ k >= Len(c)
        <4> HIDE DEF c
        <4> QED
          BY <3>1, <3>2
      <3> HIDE DEF c, k
      <3>6. Awaited(c, k) = <<>>
        BY <3>1, <3>5, AwaitedCalls
      <3> QED
        BY <3>4, <3>6
    <2> QED
      BY <2>1, <2>2
  <1> QED
    BY <1>2, <1>3, <1>5, <1>6, HistoryGrows, TurnsGrow, RulesStayFirst, BothSidesGrow DEF HistoryInvariant

LEMMA AnswerIsMessage ==
    ASSUME NEW d \in Dialects, NEW r, AnswerOf(d, r)
    PROVE  LET m == Message("assistant", r.content, <<>>, r.calls, "")
           IN m \in Msg /\ m.role = "assistant" /\ TurnOf(d, m) /\ m.calls = r.calls
  <1> DEFINE m == Message("assistant", r.content, <<>>, r.calls, "")
  <1>1. <<>> \in Seq(Lexeme) /\ "" \in Lexeme
    BY EmptySeq, EmptyPiece
  <1>2. m = [role |-> "assistant", content |-> r.content, parts |-> <<>>, calls |-> r.calls, callID |-> ""]
    BY DEF Message
  <1>3. r.content \in Text /\ r.calls \in Seq(MadeBy(d)) /\ \A k \in 2..Len(r.calls) : r.calls[k].metadata.reasoning = <<>>
    BY DEF AnswerOf
  <1>4. r.calls \in Seq(AnyCall)
    <2>1. /\ Len(r.calls) \in Nat /\ \A j \in 1..Len(r.calls) : r.calls[j] \in MadeBy(d)
          /\ r.calls = [j \in 1..Len(r.calls) |-> r.calls[j]]
      BY <1>3, LenProperties, ElementOfSeq
    <2>2. \A j \in 1..Len(r.calls) : r.calls[j] \in AnyCall
      BY <2>1 DEF MadeBy, AnyCall
    <2> QED
      BY <2>1, <2>2, ListOf
  <1> HIDE DEF m
  <1>5. m \in Msg /\ m.role = "assistant" /\ m.calls = r.calls
    BY <1>1, <1>2, <1>3, <1>4 DEF Msg
  <1> QED
    BY <1>3, <1>5 DEF TurnOf, m

LEMMA ModelStays ==
    ASSUME HistoryInvariant, NEW d \in Dialects, NEW blocks \in Answers, ModelAnswers(d, blocks)
    PROVE  HistoryInvariant'
  <1> DEFINE r == Parsed(d, Fresh(blocks))
             m == Message("assistant", r.content, <<>>, r.calls, "")
  <1>1. Answered /\ Len(history) < MaxMessages /\ history' = Append(history, m) /\ makers' = Append(makers, d)
    BY DEF ModelAnswers, Say
  <1>2. history \in Seq(Msg) /\ Len(history) \in Nat
    BY LenProperties DEF HistoryInvariant, HistoryTyped
  <1>3. AnswerOf(d, r)
    BY <1>1, <1>2, FreshBlocks, AnswersRead
  <1> HIDE DEF r
  <1>4. m \in Msg /\ m.role = "assistant" /\ TurnOf(d, m) /\ m.calls = r.calls
    BY <1>3, AnswerIsMessage
  <1> HIDE DEF m
  <1>5. Grown(m, d)
    BY <1>1, <1>4 DEF Grown
  <1>6. Turns' # {} /\ Turn' = Len(history) + 1
    BY <1>4, <1>5, TurnsGrow DEF HistoryInvariant
  <1>7. Waiting = <<>>
    BY <1>1, WhatIsAwaited DEF HistoryInvariant
  <1>8. Waiting' = CallIDs(m)
    <2>1. history'[Turn'] = m /\ Len(history') - Turn' = 0
      BY <1>2, <1>5, <1>6, HistoryGrows DEF HistoryInvariant
    <2>2. Waiting' = Awaited(m.calls, 0)
      BY <1>6, <2>1 DEF Waiting
    <2>3. m.calls \in Seq(AnyCall) /\ 0 \in Nat
      BY <1>4 DEF Msg
    <2>4. Awaited(m.calls, 0) = CallIDs(m)
      BY <2>3, AwaitedCalls DEF CallIDs
    <2> QED
      BY <2>2, <2>4
  <1> QED
    BY <1>4, <1>5, <1>7, <1>8, HistoryGrows, TurnsGrow, RulesStayFirst, BothSidesGrow DEF HistoryInvariant

LEMMA ToolStays ==
    ASSUME HistoryInvariant, ToolAnswers
    PROVE  HistoryInvariant'
  <1> DEFINE c    == history[Turn].calls
             k    == Len(history) - Turn
             call == c[k + 1]
             m    == Message("tool", <<"result of", call.id>>, <<>>, <<>>, call.id)
  <1>1. ~Answered /\ history' = Append(history, m) /\ makers' = Append(makers, "")
    BY DEF ToolAnswers, Say
  <1>2. /\ Turns # {} /\ Turn \in 1..Len(history) /\ Len(history) \in Nat
        /\ c \in Seq(AnyCall) /\ Len(c) \in Nat /\ k < Len(c)
    BY <1>1, WhatIsAwaited DEF HistoryInvariant
  <1>3. Waiting = Awaited(c, k)
    BY <1>2 DEF Waiting
  <1>4. k \in Nat /\ k + 1 \in Nat
    <2> HIDE DEF c
    <2> QED
      BY <1>2
  <1>5. k + 1 \in 1..Len(c) /\ Awaited(c, k) = <<call.id>> \o Awaited(c, k + 1) /\ Awaited(c, k + 1) \in Seq(Lexeme)
    <2> HIDE DEF c, k
    <2> QED
      BY <1>2, <1>4, AwaitedCalls
  <1>6. call \in AnyCall /\ call.id \in Lexeme /\ call.id # ""
    <2>1. call \in AnyCall
      <3> HIDE DEF c, k
      <3> QED
        BY <1>2, <1>5, ElementOfSeq
    <2> HIDE DEF call
    <2> QED
      BY <2>1 DEF AnyCall
  <1>7. m \in Msg /\ m.role = "tool" /\ m.callID = call.id
    <2>1. "result of" \in Lexeme
      BY DEF Lexeme
    <2>2. /\ <<"result of", call.id>> \in Text /\ <<"result of", call.id>> # <<>>
          /\ <<>> \in Seq(Lexeme) /\ <<>> \in Seq(AnyCall)
      <3>1. \A x, y \in Lexeme : <<x, y>> \in Seq(Lexeme) /\ <<x, y>> # <<>>
        OBVIOUS
      <3> HIDE DEF call
      <3> QED
        BY <1>6, <2>1, <3>1, EmptySeq, Zenon DEF Text
    <2>3. m = [role |-> "tool", content |-> <<"result of", call.id>>, parts |-> <<>>, calls |-> <<>>, callID |-> call.id]
      BY DEF Message
    <2> HIDE DEF m, call
    <2> QED
      BY <1>6, <2>2, <2>3 DEF Msg
  <1> HIDE DEF m
  <1>8. Grown(m, "")
    BY <1>1, <1>7 DEF Grown
  <1>9. Turns' = Turns /\ Turn' = Turn
    BY <1>7, <1>8, TurnsGrow DEF HistoryInvariant
  <1>10. history'[Turn] = history[Turn] /\ Len(history') = Len(history) + 1
    BY <1>2, <1>8, HistoryGrows DEF HistoryInvariant
  <1>11. Len(history') - Turn = k + 1
    BY <1>2, <1>10
  <1>12. Waiting' = Awaited(c, k + 1)
    <2>1. Waiting' = Awaited(history'[Turn].calls, Len(history') - Turn)
      BY <1>2, <1>9 DEF Waiting
    <2> QED
      BY <1>10, <1>11, <2>1
  <1>13. Waiting = <<m.callID>> \o Waiting' /\ Waiting' \in Seq(Lexeme)
    BY <1>3, <1>5, <1>7, <1>12
  <1> QED
    BY <1>7, <1>8, <1>13, HistoryGrows, TurnsGrow, RulesStayFirst, BothSidesGrow DEF HistoryInvariant

-----------------------------------------------------------------------------
(* What is sent of a history.                                              *)

\* Calls told as text: only Gemini does that.
ToldBy(d) == IF d = "gemini" THEN GeminiD!Textified(history) ELSE {}

LEMMA BlocksOfARequest ==
    ASSUME HistoryTyped, NEW d \in Dialects, NEW T, T = ToldBy(d)
    PROVE  BlocksSent(d) = (IF d = "bedrock" THEN TextBlock(Prompt) \o Images(SystemBlocks, history) ELSE TextBlock(Prompt))
                           \o Images(BlocksFor(d, T), history)
  <1>1. BlocksSent(d) = BlocksOf(Converted(d))
    BY DEF BlocksSent, BlocksOf
  <1>2. history \in Seq(Msg)
    BY DEF HistoryTyped
  <1>3. /\ d = "compat"    => Converted(d) = CompatD!ConvertMessages(Prompt, history)
        /\ d = "anthropic" => Converted(d) = AnthropicD!ConvertMessages(Prompt, history)
        /\ d = "bedrock"   => Converted(d) = BedrockD!ConvertMessages(Prompt, history)
        /\ d = "gemini"    => Converted(d) = GeminiD!ConvertMessages(Prompt, history)
        /\ d = "responses" => Converted(d) = ResponsesD!ConvertMessages(Prompt, history)
    BY DEF Converted
  <1>4. d \in {"compat", "anthropic", "bedrock", "gemini", "responses"}
    BY ProviderAssumption DEF ProviderAssumption
  <1>5. T = IF d = "gemini" THEN GeminiD!Textified(history) ELSE {}
    BY DEF ToldBy
  <1>6. /\ d = "compat"    => BlocksOf(Converted(d)) = TextBlock(Prompt) \o Images(BlocksFor(d, T), history)
        /\ d = "anthropic" => BlocksOf(Converted(d)) = TextBlock(Prompt) \o Images(BlocksFor(d, T), history)
        /\ d = "responses" => BlocksOf(Converted(d)) = TextBlock(Prompt) \o Images(BlocksFor(d, T), history)
    BY <1>2, <1>3, <1>5, SimpleSent
  <1>7. d = "bedrock" => BlocksOf(Converted(d))
                            = (TextBlock(Prompt) \o Images(SystemBlocks, history)) \o Images(BlocksFor(d, T), history)
    BY <1>2, <1>3, <1>5, BedrockHistory
  <1>8. d = "gemini" => BlocksOf(Converted(d)) = TextBlock(Prompt) \o Images(BlocksFor(d, T), history)
    BY <1>2, <1>3, <1>5, GeminiHistory
  <1> QED
    BY <1>1, <1>4, <1>6, <1>7, <1>8

\* What each message means, all of them mean, behind the prompt.
LEMMA SentMeans ==
    ASSUME HistoryTyped, RulesFirst, NEW d \in Dialects, NEW T, T = ToldBy(d), NEW C, C \in [Msg -> Seq(Text)],
           NEW X, X \subseteq Msg, history \in Seq(X), EachMeans(X, BlocksFor(d, T), C, KeysOfResults(T), ValuesIn(d))
    PROVE  Means(BlocksSent(d), Images(C, history), Images(KeysOfResults(T), history),
                 <<Prompt>> \o FlattenSeq([i \in DOMAIN history |-> ValuesOf(d, history[i])]))
  <1> DEFINE B == BlocksFor(d, T)
             R == KeysOfResults(T)
             V == ValuesIn(d)
             S == SystemBlocks
             N == Nothing
             W == SystemValues
             values == FlattenSeq([i \in DOMAIN history |-> ValuesOf(d, history[i])])
             c == Images(C, history)
             r == Images(R, history)
             v == Images(V, history)
             w == Images(W, history)
  <1>1. d \in {"compat", "anthropic", "bedrock", "gemini", "responses"} /\ (d # "gemini" => T = {})
    BY ProviderAssumption DEF ProviderAssumption, ToldBy
  <1>2. history \in Seq(Msg) /\ \A i \in DOMAIN history : history[i] \in Msg
    BY LenProperties, ElementOfSeq DEF HistoryTyped
  <1>3. /\ B \in [Msg -> Seq(BlockSent)] /\ R \in [Msg -> Seq(Text)] /\ V \in [Msg -> Seq(Text)]
        /\ S \in [Msg -> Seq(BlockSent)] /\ N \in [Msg -> Seq(Text)] /\ W \in [Msg -> Seq(Text)]
    BY <1>1, MessagesTyped
  <1>4. EachMeans(Msg, S, N, N, W) /\ EachMeans(X, B, C, R, V)
    BY SystemMeans DEF EachMeans
  <1>5. \A m \in Msg : /\ d # "bedrock" => V[m] = ValuesOf(d, m)
                       /\ AllValues[m] = ValuesOf("bedrock", m) /\ N[m] = <<>>
    BY DEF ValuesIn, AllValues, Nothing
  <1>6. d # "bedrock" => values = Images(V, history)
    <2> HIDE DEF V
    <2> QED
      BY <1>2, <1>5 DEF Images
  <1>7. d = "bedrock" => values = Images(AllValues, history)
    BY <1>2, <1>5 DEF Images
  <1>8. d = "bedrock" => values = Images(W, history) \o Images(V, history)
    BY <1>7 DEF RulesFirst
  <1>9. BlocksSent(d) = (IF d = "bedrock" THEN TextBlock(Prompt) \o Images(S, history) ELSE TextBlock(Prompt))
                        \o Images(B, history)
    BY BlocksOfARequest
  <1>10. Means(TextBlock(Prompt), <<>>, <<>>, <<Prompt>>)
    BY PromptMeans
  <1>11. Images(N, history) = <<>>
    <2>1. \A i \in 1..Len(history) : N[history[i]] = <<>>
      BY <1>2, <1>5, LenProperties
    <2>2. Len(history) = Len(history) /\ history \in Seq(Msg) /\ N \in [Msg -> Seq(Text)]
      BY <1>2, <1>3
    <2> HIDE DEF N
    <2> QED
      BY <2>1, <2>2, ImagesNoneEach
  <1> HIDE DEF B, R, V, S, N, W, values
  <1>12. Means(Images(B, history), c, r, v)
    BY <1>3, <1>4, HistoryMeans
  <1>13. Means(Images(S, history), <<>>, <<>>, w)
    <2>1. Msg \subseteq Msg
      OBVIOUS
    <2>2. Means(Images(S, history), Images(N, history), Images(N, history), Images(W, history))
      BY <1>2, <1>3, <1>4, <2>1, HistoryMeans
    <2> QED
      BY <1>11, <2>2
  <1>14. c \in Seq(Text) /\ r \in Seq(Text) /\ v \in Seq(Text) /\ w \in Seq(Text) /\ <<Prompt>> \in Seq(Text)
    BY <1>12, <1>13, <1>10, MeaningsTyped
  <1> HIDE DEF c, r, v, w
  <1>15. /\ <<>> \o c = c /\ <<>> \o r = r /\ <<>> \o <<>> = <<>>
         /\ (<<Prompt>> \o w) \o v = <<Prompt>> \o (w \o v)
    <2>1. <<>> \o c = c /\ <<>> \o r = r /\ <<>> \o <<>> = <<>>
      BY <1>14, ConcatEmptySeq, EmptySeq
    <2>2. (<<Prompt>> \o w) \o v = <<Prompt>> \o (w \o v)
      BY <1>14, ConcatAssociative
    <2> QED
      BY <2>1, <2>2
  <1>16. CASE d # "bedrock"
    <2>1. Means(TextBlock(Prompt) \o Images(B, history), <<>> \o c, <<>> \o r, <<Prompt>> \o v)
      BY <1>10, <1>12, MeaningJoins
    <2> QED
      BY <1>6, <1>9, <1>15, <1>16, <2>1 DEF v, c, r, R, V, values
  <1>17. CASE d = "bedrock"
    <2>1. Means(TextBlock(Prompt) \o Images(S, history), <<>> \o <<>>, <<>> \o <<>>, <<Prompt>> \o w)
      BY <1>10, <1>13, MeaningJoins
    <2>2. Means((TextBlock(Prompt) \o Images(S, history)) \o Images(B, history),
                (<<>> \o <<>>) \o c, (<<>> \o <<>>) \o r, (<<Prompt>> \o w) \o v)
      BY <1>12, <2>1, MeaningJoins
    <2> QED
      BY <1>8, <1>9, <1>15, <1>17, <2>2 DEF v, w, c, r, R, V, W, values
  <1> QED
    BY <1>16, <1>17

\* Forms and values are read off the blocks.
LEMMA FormsAreImages ==
    ASSUME NEW d, NEW calls, NEW results, NEW values, Means(BlocksSent(d), calls, results, values)
    PROVE  CallsSent(d) = calls /\ ResultsSent(d) = results /\ ValuesSent(d) = values
  <1> DEFINE s == BlocksSent(d)
  <1>1. s \in Seq(BlockSent) /\ Images(CallForm, s) = calls /\ Images(ResultForm, s) = results /\ Images(ValueForm, s) = values
    BY DEF Means
  <1>2. CallsSent(d) = Forms(s, {"call", "told call"}) /\ ResultsSent(d) = Forms(s, {"result", "told result"})
    BY DEF CallsSent, ResultsSent
  <1>3. ValuesSent(d) = FlattenSeq([k \in DOMAIN s |-> ValueSent(s[k])])
    BY DEF ValuesSent
  <1> HIDE DEF s
  <1>4. \A k \in DOMAIN s : s[k] \in BlockSent
    BY <1>1, LenProperties, ElementOfSeq
  <1>5. \A k \in DOMAIN s :
          /\ CallForm[s[k]] = (IF s[k].kind \in {"call", "told call"} THEN <<Form(s[k])>> ELSE <<>>)
          /\ ResultForm[s[k]] = (IF s[k].kind \in {"result", "told result"} THEN <<Form(s[k])>> ELSE <<>>)
          /\ ValueForm[s[k]] = ValueSent(s[k])
    BY <1>4, Zenon DEF CallForm, ResultForm, ValueForm
  <1>6. Forms(s, {"call", "told call"}) = Images(CallForm, s)
    BY <1>5 DEF Forms, Images
  <1>7. Forms(s, {"result", "told result"}) = Images(ResultForm, s)
    BY <1>5 DEF Forms, Images
  <1>8. FlattenSeq([k \in DOMAIN s |-> ValueSent(s[k])]) = Images(ValueForm, s)
    BY <1>5 DEF Images
  <1> QED
    BY <1>1, <1>2, <1>3, <1>6, <1>7, <1>8

LEMMA NothingLostThen ==
    ASSUME HistoryInvariant
    PROVE  NothingLost
  <1> SUFFICES ASSUME NEW d \in Dialects
               PROVE  ValuesSent(d) = <<Prompt>> \o FlattenSeq([i \in DOMAIN history |-> ValuesOf(d, history[i])])
    BY DEF NothingLost
  <1> DEFINE T == ToldBy(d)
  <1>1. d \in {"compat", "anthropic", "bedrock", "gemini", "responses"} /\ (d # "gemini" => T = {})
    BY ProviderAssumption DEF ProviderAssumption, ToldBy
  <1>2. CallsOf(d, T) \in [Msg -> Seq(Text)]
    BY <1>1, MessagesTyped
  <1>3. EachMeans(Msg, BlocksFor(d, T), CallsOf(d, T), KeysOfResults(T), ValuesIn(d))
    BY <1>1, MessageMeans DEF EachMeans
  <1>4. Msg \subseteq Msg /\ history \in Seq(Msg) /\ HistoryTyped /\ RulesFirst
    BY DEF HistoryInvariant, HistoryTyped
  <1>5. T = ToldBy(d)
    OBVIOUS
  <1> HIDE DEF T
  <1>6. Means(BlocksSent(d), Images(CallsOf(d, T), history), Images(KeysOfResults(T), history),
              <<Prompt>> \o FlattenSeq([i \in DOMAIN history |-> ValuesOf(d, history[i])]))
    BY <1>2, <1>3, <1>4, <1>5, SentMeans
  <1> QED
    BY <1>6, FormsAreImages

-----------------------------------------------------------------------------
(* Calls and results, and what models want back.                           *)

\* The calls of a turn are in Gemini's form if Gemini made them, and told otherwise.
LEMMA TurnsAgree ==
    ASSUME HistoryTyped, ~Ambiguous, NEW i \in DOMAIN history
    PROVE  Agrees(GeminiD!Textified(history), history[i])
  <1> DEFINE T == GeminiD!Textified(history)
             m == history[i]
  <1>1. m \in Msg /\ m.calls \in Seq(AnyCall) /\ (m.role # "assistant" => m.calls = <<>>)
    <2>1. m \in Msg
      BY LenProperties, ElementOfSeq DEF HistoryTyped
    <2> QED
      BY <2>1 DEF Msg
  <1> SUFFICES ASSUME NEW j \in DOMAIN m.calls
               PROVE  /\ GeminiD!Unsigned(m) => m.calls[j].id \in T
                      /\ ~GeminiD!Unsigned(m) => m.calls[j].id = m.calls[j].name /\ m.calls[j].id \notin T
    BY DEF Agrees
  <1>2. \A k \in DOMAIN history : \A c \in ToSet(history[k].calls) : c \in AnyCall /\ GeminiD!ToolCallKey(c) = c.id
    <2> SUFFICES ASSUME NEW k \in DOMAIN history, NEW c \in ToSet(history[k].calls)
                 PROVE  c \in AnyCall /\ GeminiD!ToolCallKey(c) = c.id
      OBVIOUS
    <2>1. history[k] \in Msg
      BY LenProperties, ElementOfSeq DEF HistoryTyped
    <2>2. history[k].calls \in Seq(AnyCall)
      BY <2>1 DEF Msg
    <2>3. PICK n \in DOMAIN history[k].calls : c = history[k].calls[n]
      BY DEF ToSet
    <2>4. c \in AnyCall
      BY <2>2, <2>3, LenProperties, ElementOfSeq
    <2>5. c.id # ""
      BY <2>4 DEF AnyCall
    <2> QED
      BY <2>4, <2>5 DEF GeminiD!ToolCallKey
  <1>3. m.calls[j] \in ToSet(m.calls) /\ m.calls # <<>> /\ GeminiD!ToolCallKey(m.calls[j]) = m.calls[j].id
    <2>1. m.calls[j] \in ToSet(m.calls)
      BY DEF ToSet
    <2>2. m.calls # <<>>
      BY <1>1, LenProperties
    <2> QED
      BY <1>2, <2>1, <2>2
  <1>4. m.role = "assistant" /\ i \in Turns
    BY <1>1, <1>3 DEF Turns
  <1>5. CASE GeminiD!Unsigned(m)
    <2>1. GeminiD!ToolCallKey(m.calls[j]) \in T
      BY <1>5 DEF GeminiD!Textified
    <2> QED
      BY <1>3, <1>5, <2>1
  <1>6. CASE ~GeminiD!Unsigned(m)
    <2>1. GeminiD!TurnIsSigned(m.calls)
      BY <1>3, <1>6 DEF GeminiD!Unsigned
    <2>2. PICK n \in DOMAIN m.calls : m.calls[n].metadata.signature # ""
      BY <2>1 DEF GeminiD!TurnIsSigned
    <2>3. makers[i] \in Dialects /\ m.calls \in Seq(MadeBy(makers[i]))
      BY <1>4 DEF HistoryTyped, TurnOf
    <2>4. makers[i] # "compat"
      BY <1>4, <2>1 DEF Ambiguous
    <2>5. m.calls[n] \in MadeBy(makers[i]) /\ m.calls[j] \in MadeBy(makers[i])
      BY <2>3, LenProperties, ElementOfSeq
    <2>6. makers[i] = "gemini"
      <3>1. makers[i] \in {"compat", "anthropic", "bedrock", "gemini", "responses"}
        BY <2>3, ProviderAssumption DEF ProviderAssumption
      <3>2. makers[i] \notin {"anthropic", "bedrock", "responses"}
        BY <2>2, <2>5 DEF MadeBy
      <3> QED
        BY <2>4, <3>1, <3>2
    <2>7. m.calls[j].id = m.calls[j].name
      BY <2>5, <2>6 DEF MadeBy
    <2>8. ASSUME m.calls[j].id \in T PROVE FALSE
      <3>1. PICK k \in DOMAIN history : /\ GeminiD!Unsigned(history[k])
                                         /\ \E l \in DOMAIN history[k].calls :
                                               m.calls[j].id = GeminiD!ToolCallKey(history[k].calls[l])
        BY <2>8 DEF GeminiD!Textified
      <3>2. PICK l \in DOMAIN history[k].calls : m.calls[j].id = GeminiD!ToolCallKey(history[k].calls[l])
        BY <3>1
      <3>3. history[k].calls[l] \in ToSet(history[k].calls)
        BY DEF ToSet
      <3>4. k \in Turns
        <4>1. history[k] \in Msg
          BY LenProperties, ElementOfSeq DEF HistoryTyped
        <4>2. history[k].calls # <<>>
          BY <3>1 DEF GeminiD!Unsigned
        <4> QED
          BY <4>1, <4>2 DEF Msg, Turns
      <3>5. \E a \in ToSet(history[k].calls), b \in ToSet(history[i].calls) :
               GeminiD!ToolCallKey(a) = GeminiD!ToolCallKey(b)
        BY <1>3, <3>2, <3>3
      <3> QED
        BY <1>3, <1>4, <1>6, <3>1, <3>4, <3>5 DEF Ambiguous
    <2> QED
      BY <1>6, <2>7, <2>8
  <1> QED
    BY <1>5, <1>6

LEMMA CallsPairedThen ==
    ASSUME HistoryInvariant
    PROVE  CallsPaired
  <1> SUFFICES ASSUME Answered, NEW d \in Dialects, d = "gemini" => ~Ambiguous
               PROVE  CallsSent(d) = ResultsSent(d)
    BY DEF CallsPaired
  <1> DEFINE T == ToldBy(d)
             X == {m \in Msg : d # "gemini" \/ Agrees(T, m)}
             C == KeysOfCalls(T)
             R == KeysOfResults(T)
             values == <<Prompt>> \o FlattenSeq([i \in DOMAIN history |-> ValuesOf(d, history[i])])
  <1>1. d \in {"compat", "anthropic", "bedrock", "gemini", "responses"} /\ (d # "gemini" => T = {})
    BY ProviderAssumption DEF ProviderAssumption, ToldBy
  <1>2. C \in [Msg -> Seq(Text)] /\ R \in [Msg -> Seq(Text)]
    BY <1>1, MessagesTyped
  <1>3. EachMeans(X, BlocksFor(d, T), C, R, ValuesIn(d))
    <2> SUFFICES ASSUME NEW m \in Msg, d # "gemini" \/ Agrees(T, m)
                 PROVE  Means(BlocksFor(d, T)[m], C[m], R[m], ValuesIn(d)[m])
      BY DEF EachMeans
    <2> QED
      BY <1>1, MessageMeans
  <1>4. HistoryTyped /\ RulesFirst /\ history \in Seq(Msg) /\ X \subseteq Msg
    BY DEF HistoryInvariant, HistoryTyped
  <1>5. history \in Seq(X)
    <2>1. ASSUME NEW i \in DOMAIN history PROVE history[i] \in X
      <3>1. history[i] \in Msg
        BY <1>4, LenProperties, ElementOfSeq
      <3>2. d = "gemini" => Agrees(T, history[i])
        BY <1>4, TurnsAgree DEF ToldBy
      <3> QED
        BY <3>1, <3>2
    <2>2. Len(history) \in Nat /\ DOMAIN history = 1..Len(history) /\ history = [i \in 1..Len(history) |-> history[i]]
      BY <1>4, LenProperties
    <2> HIDE DEF X
    <2> QED
      BY <2>1, <2>2, ListOf
  <1>6. T = ToldBy(d)
    OBVIOUS
  <1>7. ImageOf(C, KeyOf(T), IDsOfCalls, Msg) /\ ImageOf(R, KeyOf(T), IDsOfResults, Msg)
    BY DEF ImageOf, KeysOfCalls, KeysOfResults, IDsOfCalls, IDsOfResults
  <1> HIDE DEF T, X, C, R, values
  <1>8. Means(BlocksSent(d), Images(C, history), Images(R, history), values)
    BY <1>2, <1>3, <1>4, <1>5, <1>6, SentMeans DEF values, R
  <1>9. CallsSent(d) = Images(C, history) /\ ResultsSent(d) = Images(R, history)
    BY <1>8, FormsAreImages
  <1>10. Images(IDsOfCalls, history) = Images(IDsOfResults, history)
    <2>1. Waiting = <<>>
      BY WhatIsAwaited DEF HistoryInvariant
    <2>2. Images(IDsOfResults, history) \in Seq(Lexeme)
      BY <1>4, IDsTyped, ImagesTyped
    <2> QED
      BY <2>1, <2>2, ConcatEmptySeq DEF HistoryInvariant, ResultsFollow
  <1>11. KeyOf(T) \in [Lexeme -> Seq(Text)] /\ IDsOfCalls \in [Msg -> Seq(Lexeme)] /\ IDsOfResults \in [Msg -> Seq(Lexeme)]
    BY KeysTyped, IDsTyped
  <1>12. Images(C, history) = Images(KeyOf(T), Images(IDsOfCalls, history))
    <2> DEFINE K == KeyOf(T)
               I == IDsOfCalls
    <2>1. ImageOf(C, K, I, Msg) /\ K \in [Lexeme -> Seq(Text)] /\ I \in [Msg -> Seq(Lexeme)] /\ history \in Seq(Msg)
      BY <1>4, <1>7, <1>11
    <2> HIDE DEF K, I
    <2>2. Images(K, Images(I, history)) = Images(C, history)
      BY <2>1, ImagesOfImages
    <2> QED
      BY <2>2 DEF K, I
  <1>13. Images(R, history) = Images(KeyOf(T), Images(IDsOfResults, history))
    <2> DEFINE K == KeyOf(T)
               I == IDsOfResults
    <2>1. ImageOf(R, K, I, Msg) /\ K \in [Lexeme -> Seq(Text)] /\ I \in [Msg -> Seq(Lexeme)] /\ history \in Seq(Msg)
      BY <1>4, <1>7, <1>11
    <2> HIDE DEF K, I
    <2>2. Images(K, Images(I, history)) = Images(R, history)
      BY <2>1, ImagesOfImages
    <2> QED
      BY <2>2 DEF K, I
  <1> QED
    BY <1>9, <1>10, <1>12, <1>13

\* What is made of a message is sent.
LEMMA BlockIsSent ==
    ASSUME HistoryTyped, NEW d \in Dialects, NEW T, T = ToldBy(d), NEW i \in DOMAIN history, NEW b,
           HasIn(BlocksFor(d, T)[history[i]], b)
    PROVE  HasIn(BlocksSent(d), b)
  <1> DEFINE B == BlocksFor(d, T)
             front == IF d = "bedrock" THEN TextBlock(Prompt) \o Images(SystemBlocks, history) ELSE TextBlock(Prompt)
             x == history[i]
  <1>1. d \in {"compat", "anthropic", "bedrock", "gemini", "responses"} /\ (d # "gemini" => T = {})
    BY ProviderAssumption DEF ProviderAssumption, ToldBy
  <1>2. history \in Seq(Msg) /\ HasIn(history, x)
    BY DEF HistoryTyped, HasIn
  <1>3. B \in [Msg -> Seq(BlockSent)] /\ SystemBlocks \in [Msg -> Seq(BlockSent)]
    BY <1>1, MessagesTyped
  <1>4. Images(B, history) \in Seq(BlockSent) /\ Images(SystemBlocks, history) \in Seq(BlockSent)
    <2> HIDE DEF B
    <2> QED
      BY <1>2, <1>3, ImagesTyped
  <1>5. front \in Seq(BlockSent)
    BY <1>4, PromptMeans, ConcatProperties
  <1>6. BlocksSent(d) = front \o Images(B, history)
    BY BlocksOfARequest
  <1> HIDE DEF B, x
  <1>7. HasIn(Images(B, history), b)
    <2>1. HasIn(B[x], b)
      BY DEF B, x
    <2> QED
      BY <1>2, <1>3, <2>1, ImagesHold
  <1> HIDE DEF front
  <1> QED
    BY <1>4, <1>5, <1>6, <1>7, HasInJoin

LEMMA SentBack ==
    ASSUME NEW d, NEW i, NEW b, HasIn(BlocksSent(d), b), NEW c \in ToSet(history[i].calls)
    PROVE  /\ d # "responses" /\ b.kind = "call" /\ b.key = c.id => b.metadata.signature \in ReasoningOf(d, i)
           /\ d = "responses" /\ b.kind = "reasoning" => b.key \in ReasoningOf(d, i)
  <1>1. PICK k \in DOMAIN BlocksSent(d) : BlocksSent(d)[k] = b
    BY DEF HasIn
  <1> DEFINE s == BlocksSent(d)
             ids == {e.id : e \in ToSet(history[i].calls)}
  <1>2. ReasoningOf(d, i) = IF d = "responses" THEN {s[n].key : n \in {l \in DOMAIN s : s[l].kind = "reasoning"}}
                            ELSE {s[n].metadata.signature : n \in {l \in DOMAIN s : s[l].kind = "call" /\ s[l].key \in ids}}
    BY DEF ReasoningOf
  <1>3. c.id \in ids
    OBVIOUS
  <1> HIDE DEF s, ids
  <1> QED
    BY <1>1, <1>2, <1>3 DEF s

LEMMA TurnsTyped ==
    ASSUME HistoryTyped, NEW i \in Turns
    PROVE  LET m == history[i] IN
           /\ i \in DOMAIN history /\ m \in Msg /\ m.role = "assistant" /\ m.parts = <<>> /\ m.content \in Text
           /\ m.calls \in Seq(AnyCall) /\ m.calls \in Seq(MadeBy(makers[i])) /\ makers[i] \in Dialects
           /\ Len(m.calls) \in Nat /\ DOMAIN m.calls = 1..Len(m.calls)
           /\ \A k \in 2..Len(m.calls) : m.calls[k].metadata.reasoning = <<>>
           /\ \A c \in ToSet(m.calls) : /\ c \in AnyCall /\ c \in MadeBy(makers[i])
                                        /\ \E j \in DOMAIN m.calls : c = m.calls[j]
  <1> DEFINE m == history[i]
  <1>1. i \in DOMAIN history /\ m.role = "assistant"
    BY DEF Turns
  <1>2. m \in Msg
    BY <1>1, LenProperties, ElementOfSeq DEF HistoryTyped
  <1>3. makers[i] \in Dialects /\ TurnOf(makers[i], m)
    BY <1>1 DEF HistoryTyped
  <1> HIDE DEF m
  <1>4. m.parts = <<>> /\ m.content \in Text /\ m.calls \in Seq(AnyCall)
    BY <1>1, <1>2 DEF Msg
  <1>5. m.calls \in Seq(MadeBy(makers[i])) /\ \A k \in 2..Len(m.calls) : m.calls[k].metadata.reasoning = <<>>
    BY <1>3 DEF TurnOf
  <1>6. Len(m.calls) \in Nat /\ DOMAIN m.calls = 1..Len(m.calls)
    BY <1>4, LenProperties
  <1>7. ASSUME NEW c \in ToSet(m.calls)
        PROVE  c \in AnyCall /\ c \in MadeBy(makers[i]) /\ \E j \in DOMAIN m.calls : c = m.calls[j]
    <2>1. PICK j \in DOMAIN m.calls : c = m.calls[j]
      BY DEF ToSet
    <2>2. j \in 1..Len(m.calls)
      BY <1>6
    <2>3. m.calls[j] \in AnyCall
      BY <1>4, <2>2, ElementOfSeq
    <2>4. m.calls[j] \in MadeBy(makers[i])
      BY <1>5, <2>2, ElementOfSeq
    <2> QED
      BY <2>1, <2>3, <2>4
  <1> QED
    BY <1>1, <1>2, <1>3, <1>4, <1>5, <1>6, <1>7 DEF m

LEMMA CompatSendsCalls ==
    ASSUME NEW m \in Msg, m.role = "assistant", NEW j \in DOMAIN m.calls
    PROVE  HasIn(BlocksFor("compat", {})[m], CallBlock(m.calls[j], m.calls[j].arguments))
  <1> DEFINE s == [i \in DOMAIN m.calls |-> CallBlock(m.calls[i], m.calls[i].arguments)]
             text == <<Block("text", "", m.content)>>
             b == CallBlock(m.calls[j], m.calls[j].arguments)
  <1>1. m.calls \in Seq(AnyCall) /\ m.content \in Text /\ m.parts = <<>> /\ m.callID = ""
    BY DEF Msg
  <1>2. Len(m.calls) \in Nat /\ DOMAIN m.calls = 1..Len(m.calls) /\ \A i \in 1..Len(m.calls) : m.calls[i] \in AnyCall
    BY <1>1, LenProperties, ElementOfSeq
  <1>3. \A i \in 1..Len(m.calls) : s[i] \in BlockSent
    <2> SUFFICES ASSUME NEW i \in 1..Len(m.calls) PROVE CallBlock(m.calls[i], m.calls[i].arguments) \in BlockSent
      BY <1>2
    <2>1. m.calls[i] \in AnyCall
      BY <1>2
    <2> QED
      BY <2>1, NothingTyped, CallTyped
  <1>4. s = [i \in 1..Len(m.calls) |-> s[i]]
    BY <1>2
  <1>5. HasIn(s, b)
    BY DEF HasIn
  <1>6. BlocksFor("compat", {})[m] = text \o s
    <2>1. BlocksFor("compat", {})[m] = CompatD!ConvertContent(m) \o CompatD!ConvertCalls(m.calls)
      BY DEF BlocksFor
    <2>2. CompatD!ConvertContent(m) = text
      BY <1>1, SameBlocks, Zenon DEF CompatD!ConvertContent
    <2>3. CompatD!ConvertCalls(m.calls) = s
      BY SameBlocks, Zenon DEF CompatD!ConvertCalls
    <2> QED
      BY <2>1, <2>2, <2>3
  <1> HIDE DEF s, b
  <1>7. s \in Seq(BlockSent)
    BY <1>2, <1>3, <1>4, ListOf
  <1>8. text \in Seq(BlockSent)
    BY <1>1, BlocksTyped, EmptyPiece, OneIsSequence
  <1> HIDE DEF text
  <1> QED
    BY <1>5, <1>6, <1>7, <1>8, HasInJoin DEF b

LEMMA GeminiSendsCalls ==
    ASSUME NEW m \in Msg, m.role = "assistant", ~GeminiD!Unsigned(m), NEW j \in DOMAIN m.calls, NEW T
    PROVE  HasIn(BlocksFor("gemini", T)[m], GeminiD!Called(m.calls[j]))
  <1> DEFINE s == [i \in DOMAIN m.calls |-> GeminiD!Called(m.calls[i])]
  <1>1. m.calls # <<>>
    <2>1. m.calls \in Seq(AnyCall)
      BY DEF Msg
    <2> QED
      BY <2>1, LenProperties
  <1>2. GeminiD!ConvertMessage(m, T) = Sent("model", s)
    BY <1>1, SameBlocks DEF GeminiD!ConvertMessage
  <1>3. BlocksFor("gemini", T)[m] = s
    BY <1>2, SentFields DEF BlocksFor
  <1>4. HasIn(s, GeminiD!Called(m.calls[j]))
    BY DEF HasIn
  <1> QED
    BY <1>3, <1>4

LEMMA ResponsesSendsReasoning ==
    ASSUME NEW m \in Msg, m.role = "assistant", 1 \in DOMAIN m.calls, NEW x, HasIn(m.calls[1].metadata.reasoning, x)
    PROVE  HasIn(BlocksFor("responses", {})[m], Block("reasoning", x, <<>>))
  <1> DEFINE items == m.calls[1].metadata.reasoning
             first == [i \in DOMAIN items |-> Block("reasoning", items[i], <<>>)]
             text == TextBlock(m.content)
             s == [i \in DOMAIN m.calls |-> CallBlock([m.calls[i] EXCEPT !.metadata = NoMetadata], m.calls[i].arguments)]
  <1>1. m.calls \in Seq(AnyCall) /\ m.content \in Text
    BY DEF Msg
  <1>2. Len(m.calls) \in Nat /\ DOMAIN m.calls = 1..Len(m.calls) /\ \A i \in 1..Len(m.calls) : m.calls[i] \in AnyCall
    BY <1>1, LenProperties, ElementOfSeq
  <1>3. \A i \in 1..Len(m.calls) : s[i] \in BlockSent
    <2> SUFFICES ASSUME NEW i \in 1..Len(m.calls)
                 PROVE  CallBlock([m.calls[i] EXCEPT !.metadata = NoMetadata], m.calls[i].arguments) \in BlockSent
      BY <1>2
    <2>1. m.calls[i] \in AnyCall
      BY <1>2
    <2> QED
      BY <2>1, NothingTyped, CallTyped
  <1>4. s = [i \in 1..Len(m.calls) |-> s[i]]
    BY <1>2
  <1>5. items \in Text
    <2>1. m.calls[1] \in AnyCall
      BY <1>2
    <2> QED
      BY <2>1 DEF AnyCall
  <1>6. HasIn(first, Block("reasoning", x, <<>>))
    BY DEF HasIn
  <1>7. BlocksFor("responses", {})[m] = (first \o text) \o s
    <2>1. BlocksFor("responses", {})[m] = ResponsesD!ConvertMessage(m).blocks
      BY DEF BlocksFor
    <2>2. m.calls # <<>>
      BY <1>1, LenProperties
    <2>3. ResponsesD!Replayed(m.calls) = first
      BY <2>2, SameBlocks, Zenon DEF ResponsesD!Replayed
    <2>4. ResponsesD!NoMetadata = NoMetadata
      BY SameWords, Zenon
    <2> HIDE DEF first
    <2>5. ResponsesD!ConvertMessage(m) = Sent("assistant", (first \o text) \o s)
      BY <2>3, <2>4, SameBlocks DEF ResponsesD!ConvertMessage
    <2> QED
      BY <2>1, <2>5, SentFields
  <1> HIDE DEF items
  <1>8. first \in Seq(BlockSent)
    BY <1>5, ReasoningMeans DEF Means
  <1> HIDE DEF first, s
  <1>9. text \in Seq(BlockSent)
    BY <1>1, TextMeans DEF Means
  <1>10. s \in Seq(BlockSent)
    BY <1>2, <1>3, <1>4, ListOf
  <1> HIDE DEF text
  <1>11. first \o text \in Seq(BlockSent) /\ HasIn(first \o text, Block("reasoning", x, <<>>))
    BY <1>6, <1>8, <1>9, HasInJoin, ConcatProperties
  <1> QED
    BY <1>7, <1>10, <1>11, HasInJoin

LEMMA ReasoningReturnsThen ==
    ASSUME HistoryInvariant
    PROVE  ReasoningReturns
  <1> SUFFICES ASSUME NEW i \in Turns, NEW d, d = makers[i]
               PROVE  /\ d \in {"compat", "gemini"} /\ (d = "gemini" => ~Ambiguous) =>
                            \A c \in ToSet(history[i].calls) :
                               c.metadata.signature # "" => c.metadata.signature \in ReasoningOf(d, i)
                      /\ d = "responses" => \A c \in ToSet(history[i].calls) : ToSet(c.metadata.reasoning) \subseteq ReasoningOf(d, i)
    BY DEF ReasoningReturns
  <1> DEFINE m == history[i]
             T == ToldBy(d)
  <1>1. /\ i \in DOMAIN history /\ m \in Msg /\ m.role = "assistant" /\ d \in Dialects
        /\ Len(m.calls) \in Nat /\ DOMAIN m.calls = 1..Len(m.calls)
        /\ \A k \in 2..Len(m.calls) : m.calls[k].metadata.reasoning = <<>>
        /\ \A c \in ToSet(m.calls) : c \in AnyCall /\ c \in MadeBy(d) /\ \E j \in DOMAIN m.calls : c = m.calls[j]
        /\ HistoryTyped
    BY TurnsTyped DEF HistoryInvariant
  <1>2. ASSUME NEW b, HasIn(BlocksFor(d, T)[m], b) PROVE HasIn(BlocksSent(d), b)
    BY <1>1, <1>2, BlockIsSent
  <1>3. ASSUME d = "compat", NEW c \in ToSet(m.calls)
        PROVE  c.metadata.signature \in ReasoningOf(d, i)
    <2> DEFINE b == CallBlock(c, c.arguments)
    <2>1. PICK j \in DOMAIN m.calls : c = m.calls[j]
      BY <1>1
    <2>2. T = {}
      BY <1>3 DEF ToldBy
    <2>3. HasIn(BlocksFor(d, T)[m], b)
      BY <1>1, <1>3, <2>1, <2>2, CompatSendsCalls
    <2>4. HasIn(BlocksSent(d), b)
      BY <1>2, <2>3
    <2>5. b.kind = "call" /\ b.key = c.id /\ b.metadata = c.metadata
      <3>1. c \in AnyCall
        BY <1>1
      <3> QED
        BY <3>1, NothingTyped, CallTyped
    <2> HIDE DEF b
    <2> QED
      BY <1>3, <2>4, <2>5, SentBack
  <1>4. ASSUME d = "gemini", ~Ambiguous, NEW c \in ToSet(m.calls), c.metadata.signature # ""
        PROVE  c.metadata.signature \in ReasoningOf(d, i)
    <2> DEFINE b == GeminiD!Called(c)
    <2>1. PICK j \in DOMAIN m.calls : c = m.calls[j]
      BY <1>1
    <2>2. ~GeminiD!Unsigned(m)
      BY <1>4, <2>1 DEF GeminiD!Unsigned, GeminiD!TurnIsSigned
    <2>3. HasIn(BlocksFor(d, T)[m], b)
      BY <1>1, <1>4, <2>1, <2>2, GeminiSendsCalls
    <2>4. HasIn(BlocksSent(d), b)
      BY <1>2, <2>3
    <2>5. b.kind = "call" /\ b.key = c.id /\ b.metadata = c.metadata
      <3>1. c \in AnyCall /\ c.id = c.name
        BY <1>1, <1>4 DEF MadeBy
      <3> DEFINE e == CallBlock(c, Marshal(c.arguments))
      <3>2. b = [e EXCEPT !.key = c.name]
        BY SameBlocks, SameWords, Zenon DEF GeminiD!Called
      <3>3. e \in BlockSent /\ e.kind = "call" /\ e.metadata = c.metadata
        <4>1. Marshal(c.arguments) \in Text
          BY <3>1, NothingTyped, ValuesAgree
        <4> QED
          BY <3>1, <4>1, NothingTyped, CallTyped
      <3> HIDE DEF b, e
      <3>4. b.kind = "call" /\ b.key = c.name /\ b.metadata = c.metadata
        BY <3>2, <3>3 DEF BlockSent
      <3> QED
        BY <3>1, <3>4
    <2> HIDE DEF b
    <2> QED
      BY <1>4, <2>4, <2>5, SentBack
  <1>5. ASSUME d = "responses", NEW c \in ToSet(m.calls), NEW x \in ToSet(c.metadata.reasoning)
        PROVE  x \in ReasoningOf(d, i)
    <2> DEFINE b == Block("reasoning", x, <<>>)
    <2>1. PICK j \in DOMAIN m.calls : c = m.calls[j]
      BY <1>1
    <2>2. PICK n \in DOMAIN c.metadata.reasoning : x = c.metadata.reasoning[n]
      BY <1>5 DEF ToSet
    <2>3. j = 1
      <3>1. c.metadata.reasoning # <<>>
        <4>1. c.metadata.reasoning \in Text
          BY <1>1 DEF AnyCall
        <4> QED
          BY <2>2, <4>1, LenProperties DEF Text
      <3>2. j \notin 2..Len(m.calls)
        BY <1>1, <2>1, <3>1
      <3> QED
        BY <1>1, <2>1, <3>2
    <2>4. 1 \in DOMAIN m.calls /\ HasIn(m.calls[1].metadata.reasoning, x)
      BY <2>1, <2>2, <2>3 DEF HasIn
    <2>5. T = {}
      BY <1>5 DEF ToldBy
    <2>6. HasIn(BlocksFor(d, T)[m], b)
      BY <1>1, <1>5, <2>4, <2>5, ResponsesSendsReasoning
    <2>7. HasIn(BlocksSent(d), b)
      BY <1>2, <2>6
    <2>8. b.kind = "reasoning" /\ b.key = x
      BY DEF Block
    <2> HIDE DEF b
    <2> QED
      BY <1>5, <2>7, <2>8, SentBack
  <1> QED
    BY <1>3, <1>4, <1>5

-----------------------------------------------------------------------------
(* The theorems.                                                           *)

LEMMA HistoryBegins == RequestInit => HistoryInvariant
  <1> SUFFICES ASSUME RequestInit PROVE HistoryInvariant
    OBVIOUS
  <1>1. history = <<>> /\ makers = <<>>
    BY DEF RequestInit
  <1>2. DOMAIN history = {} /\ Len(history) = 0 /\ history \in Seq(Msg) /\ makers \in Seq(Dialects \union {""}) /\ Len(makers) = 0
    <2>1. <<>> \in Seq(Msg) /\ <<>> \in Seq(Dialects \union {""}) /\ Len(<<>>) = 0
      BY EmptySeq
    <2>2. DOMAIN history = 1..0
      BY <1>1, <2>1, LenProperties
    <2> QED
      BY <1>1, <2>1, <2>2
  <1>3. Turns = {}
    BY <1>2, Zenon DEF Turns
  <1>4. Waiting = <<>>
    BY <1>3 DEF Waiting
  <1>5. \A g : Images(g, history) = <<>>
    BY <1>1, ImagesOfFew
  <1>6. <<>> \o <<>> = <<>>
    BY ConcatEmptySeq, EmptySeq
  <1> QED
    BY <1>2, <1>3, <1>4, <1>5, <1>6 DEF HistoryInvariant, HistoryTyped, NewestTurn, ResultsFollow, RulesFirst

LEMMA HistoryStays == HistoryInvariant /\ [RequestNext]_requestVars => HistoryInvariant'
  <1> SUFFICES ASSUME HistoryInvariant, [RequestNext]_requestVars
               PROVE  HistoryInvariant'
    OBVIOUS
  <1>1. CASE SystemSays
    BY <1>1, SystemStays
  <1>2. CASE \E parts \in {<<>>} \union {<<"text", p>> : p \in Parts} : UserSays(parts)
    BY <1>2, UserStays
  <1>3. CASE \E d \in Dialects, blocks \in Answers : ModelAnswers(d, blocks)
    BY <1>3, ModelStays
  <1>4. CASE ToolAnswers
    BY <1>4, ToolStays
  <1>5. CASE UNCHANGED requestVars
    <2>1. history' = history /\ makers' = makers
      BY <1>5 DEF requestVars
    <2>2. Turns' = Turns
      BY <2>1 DEF Turns
    <2>3. Turn' = Turn
      BY <2>2 DEF Turn
    <2>4. Waiting' = Waiting
      BY <2>1, <2>2, <2>3 DEF Waiting
    <2> QED
      BY <2>1, <2>2, <2>3, <2>4 DEF HistoryInvariant, HistoryTyped, NewestTurn, ResultsFollow, RulesFirst
  <1> QED
    BY <1>1, <1>2, <1>3, <1>4, <1>5 DEF RequestNext

LEMMA HistoryAlwaysHolds == RequestSpec => []HistoryInvariant
  BY HistoryBegins, HistoryStays, PTL DEF RequestSpec

(***************************************************************************)
(* Whichever dialects made the turns of a history, whatever the answers,   *)
(* and whichever dialect it is sent to (convertMessages, toInput), calls   *)
(* and results are sent in pairs, and what a model gave with its calls     *)
(* goes back to it: CallsReplayed.                                         *)
(***************************************************************************)
THEOREM CallsAlwaysReplayed == RequestSpec => []CallsReplayed
  <1>1. HistoryInvariant => CallsReplayed
    BY CallsPairedThen, ReasoningReturnsThen DEF CallsReplayed
  <1> QED
    BY <1>1, HistoryAlwaysHolds, PTL

(***************************************************************************)
(* Every text, part, call and result of a history is sent, in its order,   *)
(* behind the prompt (convertMessages, buildSystem, toInput): NothingLost. *)
(***************************************************************************)
THEOREM NothingIsEverLost == RequestSpec => []NothingLost
  BY NothingLostThen, HistoryAlwaysHolds, PTL

=============================================================================
