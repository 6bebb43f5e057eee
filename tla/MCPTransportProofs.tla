------------------------- MODULE MCPTransportProofs -------------------------
(***************************************************************************)
(* Proofs about the two transports of the MCP client.                      *)
(*                                                                         *)
(* StdioTransport, for any number of calls and any sizes of the pipes: an  *)
(* id is taken once, an entry of the pending map belongs to a call in      *)
(* flight, and what a channel or the reader holds is for the call that     *)
(* took the id.                                                            *)
(*                                                                         *)
(* MCPHttp and TokenSource, for any number of requests, of tokens, of      *)
(* faults and of questions.  Three properties, each with an invariant of   *)
(* its own on top of what holds of the mutex (Locked):                     *)
(*   RetryEnough   a request on its second attempt finds a session whose   *)
(*                 token the server accepts, if it has one (SecondAttempt);*)
(*   AskedOnce     what the servers gave is in the session, and in the     *)
(*                 store unless the holder of the mutex is about to save   *)
(*                 it (ClientKept, GrantKept);                             *)
(*   ElicitedOnce  a question was shown once for each answer that was lost *)
(*                 and once for the one there is (ShownOnce); what is in   *)
(*                 memory is what the checkpoint has and an answer to its  *)
(*                 question (Remembers); and a call without a pending      *)
(*                 question has answers for all before the next one        *)
(*                 (AnswersGoOn).                                          *)
(***************************************************************************)
EXTENDS StdioTransport, MCPHttp, FiniteSetTheorems, TLAPS

-----------------------------------------------------------------------------
(* The stdio transport. *)

Started == {c \in Caller : caller[c] # "idle"}

\* Ids are taken once each, by calls that have started, in order.
IdsInv ==
    /\ nextID = Cardinality(Started)
    /\ \A c \in Caller : id[c] <= nextID /\ (caller[c] = "idle" <=> id[c] = 0)
    /\ \A c, d \in Caller : id[c] = id[d] /\ id[c] # 0 => c = d

\* An entry belongs to a call in flight that nothing has been sent to.
PendingInv == \A i \in ID : pending[i] # Nobody =>
    /\ id[pending[i]] = i
    /\ caller[pending[i]] \in {"writing", "waiting"}
    /\ buffer[pending[i]] = 0
    /\ pending[i] \notin closed

\* What the reader holds is for the call that took the id, out of the map.
HoldingInv == holding # NothingHeld =>
    /\ id[holding.call] = holding.id
    /\ pending[holding.id] = Nobody
    /\ buffer[holding.call] = 0
    /\ holding.call \notin closed

\* What a channel holds, and what a call returned with, is its own answer.
AnswerInv == \A c \in Caller :
    /\ buffer[c] # 0 => buffer[c] = id[c]
    /\ outcome[c] = "answered" => got[c] = id[c]
    /\ caller[c] # "returned" => outcome[c] = "none"
    /\ caller[c] = "idle" => buffer[c] = 0 /\ c \notin closed

\* A call in flight can be reached, from its registration on.
ReachInv == \A c \in Caller :
    caller[c] \in {"writing", "waiting"} =>
      \/ pending[id[c]] = c /\ ~stopped
      \/ holding.call = c \/ buffer[c] # 0 \/ c \in closed

IInv == TypeOK /\ IdsInv /\ PendingInv /\ HoldingInv /\ AnswerInv /\ ReachInv

\* A call that has not started finds an id left for it.
LEMMA IdsLast ==
    ASSUME NEW c \in Caller, TypeOK, IdsInv, caller[c] = "idle"
    PROVE  nextID + 1 \in ID
<1>1. /\ IsFiniteSet(Caller) /\ Cardinality(Caller) \in Nat
  BY FS_CardinalityType, StdioAssumption
<1>2. Started \subseteq Caller /\ c \in Caller \ Started
  BY DEF Started
<1>3. IsFiniteSet(Started) /\ Cardinality(Started) < Cardinality(Caller)
  BY <1>1, <1>2, FS_Subset, FS_CardinalityType
<1> QED
  BY <1>1, <1>3 DEF IdsInv, ID, TypeOK

\* Taking an id (transport_stdio.go:167) keeps ids distinct and counted.
LEMMA IdsKept ==
    ASSUME NEW c \in Caller, TypeOK, IdsInv, caller[c] = "idle",
           nextID' = nextID + 1, id' = [id EXCEPT ![c] = nextID + 1],
           NEW s \in {"writing", "returned"}, caller' = [caller EXCEPT ![c] = s]
    PROVE  IdsInv'
<1>1. IsFiniteSet(Started)
  BY FS_Subset, StdioAssumption DEF Started
<1>2. Started' = Started \cup {c} /\ c \notin Started
  BY DEF Started, TypeOK
<1>3. Cardinality(Started') = Cardinality(Started) + 1
  BY <1>1, <1>2, FS_AddElement
<1> QED
  BY <1>3 DEF IdsInv, TypeOK, ID

\* A step that moves a call on without taking an id keeps IdsInv.
LEMMA IdsStay ==
    ASSUME TypeOK, IdsInv, UNCHANGED <<nextID, id>>,
           \A c \in Caller : caller'[c] = "idle" <=> caller[c] = "idle"
    PROVE  IdsInv'
<1>1. Started' = Started
  BY DEF Started
<1> QED
  BY <1>1 DEF IdsInv

\* A call that has started has an id of ours.
LEMMA CallInFlight ==
    ASSUME NEW c \in Caller, TypeOK, IdsInv, caller[c] # "idle"
    PROVE  id[c] \in ID
  BY DEF TypeOK, IdsInv

\* The steps of call() (transport_stdio.go:166).
LEMMA CallKeepsInv ==
    ASSUME NEW c \in Caller, IInv,
           TakeID(c) \/ Writes(c) \/ Waits(c) \/ CancelContext(c)
    PROVE  IInv'
<1> USE StdioAssumption DEF IInv
<1>1. CASE TakeID(c)
  <2>1. nextID + 1 \in ID
    BY <1>1, IdsLast DEF TakeID
  <2>2. /\ nextID' = nextID + 1 /\ id' = [id EXCEPT ![c] = nextID + 1] /\ caller[c] = "idle"
        /\ UNCHANGED <<ctx, got, buffer, closed, holding, stopped, handling, closing, stdin, stdout,
                       received, alive, eof>>
    BY <1>1 DEF TakeID, FreshID, reader, server
  <2>3. /\ id[c] = 0 /\ 0 \notin ID /\ buffer[c] = 0 /\ c \notin closed /\ holding.call # c
        /\ \A d \in Caller : id[d] # nextID + 1
        /\ \A i \in ID : pending[i] # c
    <3>1. id[c] = 0 /\ 0 \notin ID
      BY <2>2 DEF IdsInv, ID
    <3>2. buffer[c] = 0 /\ c \notin closed
      BY <2>2 DEF AnswerInv
    <3>3. holding.call # c
      BY <3>1 DEF HoldingInv, TypeOK, NothingHeld
    <3>4. \A d \in Caller : id[d] # nextID + 1
      BY DEF IdsInv, TypeOK, ID
    <3>5. \A i \in ID : pending[i] # c
      BY <3>1 DEF PendingInv, TypeOK
    <3> QED BY <3>1, <3>2, <3>3, <3>4, <3>5
  <2>4. CASE Refused
    <3>1. /\ caller' = [caller EXCEPT ![c] = "returned"]
          /\ outcome' = [outcome EXCEPT ![c] = "exited"]
          /\ pending' = pending
      BY <1>1, <2>4 DEF TakeID, Return
    <3>2. TypeOK'
      BY <2>1, <2>2, <3>1 DEF TypeOK
    <3>3. IdsInv'
      BY <2>2, <3>1, IdsKept
    <3>4. PendingInv' /\ HoldingInv'
      BY <2>2, <2>3, <3>1 DEF PendingInv, HoldingInv, TypeOK
    <3>5. AnswerInv' /\ ReachInv'
      BY <2>2, <2>3, <3>1 DEF AnswerInv, ReachInv, TypeOK
    <3> QED BY <3>2, <3>3, <3>4, <3>5
  <2>5. CASE ~Refused
    <3>1. /\ caller' = [caller EXCEPT ![c] = "writing"]
          /\ outcome' = outcome
          /\ pending' = [pending EXCEPT ![nextID + 1] = c]
      BY <1>1, <2>5 DEF TakeID, FreshID
    <3>2. TypeOK'
      BY <2>1, <2>2, <3>1 DEF TypeOK
    <3>3. IdsInv'
      BY <2>2, <3>1, IdsKept
    <3>4. PendingInv' /\ HoldingInv'
      BY <2>1, <2>2, <2>3, <3>1 DEF PendingInv, HoldingInv, TypeOK
    <3>5. AnswerInv' /\ ReachInv'
      BY <2>1, <2>2, <2>3, <2>5, <3>1 DEF AnswerInv, ReachInv, TypeOK, Refused
    <3> QED BY <3>2, <3>3, <3>4, <3>5
  <2> QED BY <2>4, <2>5
<1>2. CASE WriteRequest(c)
  <2>1. TypeOK'
    <3>1. Line("request", id[c]) \in ToServer
      BY <1>2, CallInFlight DEF WriteRequest, Line, ToServer
    <3>2. stdin' \in Seq(ToServer)
      BY <1>2, <3>1 DEF WriteRequest, Write, TypeOK
    <3> QED
      BY <1>2, <3>2 DEF WriteRequest, TypeOK, reader, server
  <2>2. IdsInv'
    BY <1>2, IdsStay DEF WriteRequest, TypeOK
  <2>3. PendingInv' /\ HoldingInv'
    BY <1>2 DEF WriteRequest, IdsInv, PendingInv, HoldingInv, TypeOK, ID, reader
  <2>4. AnswerInv' /\ ReachInv'
    BY <1>2 DEF WriteRequest, IdsInv, PendingInv, HoldingInv, AnswerInv, ReachInv, TypeOK, ID, reader
  <2> QED BY <2>1, <2>2, <2>3, <2>4
<1>3. CASE WriteFails(c)
  <2>1. TypeOK'
    BY <1>3 DEF WriteFails, forget, Return, TypeOK, reader, server
  <2>2. IdsInv'
    BY <1>3, IdsStay DEF WriteFails, forget, Return, TypeOK
  <2>3. PendingInv' /\ HoldingInv'
    BY <1>3 DEF WriteFails, forget, Return, IdsInv, PendingInv, HoldingInv, TypeOK, ID, reader
  <2>4. AnswerInv' /\ ReachInv'
    BY <1>3 DEF WriteFails, forget, Return, IdsInv, PendingInv, HoldingInv, AnswerInv, ReachInv, TypeOK, ID, reader
  <2> QED BY <2>1, <2>2, <2>3, <2>4
<1>4. CASE TakeAnswer(c)
  <2>1. TypeOK'
    BY <1>4 DEF TakeAnswer, Return, TypeOK, reader, server
  <2>2. IdsInv'
    BY <1>4, IdsStay DEF TakeAnswer, Return, TypeOK
  <2>3. PendingInv' /\ HoldingInv'
    BY <1>4 DEF TakeAnswer, Return, IdsInv, PendingInv, HoldingInv, TypeOK, ID, reader
  <2>4. AnswerInv' /\ ReachInv'
    BY <1>4 DEF TakeAnswer, Return, IdsInv, PendingInv, HoldingInv, AnswerInv, ReachInv, TypeOK, ID, reader
  <2> QED BY <2>1, <2>2, <2>3, <2>4
<1>5. CASE TakeClosed(c)
  <2>1. TypeOK'
    BY <1>5 DEF TakeClosed, Return, TypeOK, reader, server
  <2>2. IdsInv'
    BY <1>5, IdsStay DEF TakeClosed, Return, TypeOK
  <2>3. PendingInv' /\ HoldingInv'
    BY <1>5 DEF TakeClosed, Return, IdsInv, PendingInv, HoldingInv, TypeOK, ID, reader
  <2>4. AnswerInv' /\ ReachInv'
    BY <1>5 DEF TakeClosed, Return, IdsInv, PendingInv, HoldingInv, AnswerInv, ReachInv, TypeOK, ID, reader
  <2> QED BY <2>1, <2>2, <2>3, <2>4
<1>6. CASE GiveUp(c)
  <2>1. TypeOK'
    BY <1>6 DEF GiveUp, forget, TypeOK, reader, server
  <2>2. IdsInv'
    BY <1>6, IdsStay DEF GiveUp, forget, TypeOK
  <2>3. PendingInv' /\ HoldingInv'
    BY <1>6 DEF GiveUp, forget, IdsInv, PendingInv, HoldingInv, TypeOK, ID, reader
  <2>4. AnswerInv' /\ ReachInv'
    BY <1>6 DEF GiveUp, forget, IdsInv, PendingInv, HoldingInv, AnswerInv, ReachInv, TypeOK, ID, reader
  <2> QED BY <2>1, <2>2, <2>3, <2>4
<1>7. CASE SendCancelled(c)
  <2>1. TypeOK'
    <3>1. Line("cancelled", id[c]) \in ToServer
      BY <1>7, CallInFlight DEF SendCancelled, Line, ToServer
    <3>2. stdin' \in Seq(ToServer)
      <4>1. CASE UNCHANGED stdin
        BY <4>1 DEF TypeOK
      <4>2. CASE Write(Line("cancelled", id[c]))
        BY <4>2, <3>1 DEF Write, TypeOK
      <4> QED BY <1>7, <4>1, <4>2 DEF SendCancelled
    <3> QED
      BY <1>7, <3>2 DEF SendCancelled, Return, TypeOK, reader, server
  <2>2. IdsInv'
    BY <1>7, IdsStay DEF SendCancelled, Return, TypeOK
  <2>3. PendingInv' /\ HoldingInv'
    BY <1>7 DEF SendCancelled, Return, IdsInv, PendingInv, HoldingInv, TypeOK, ID, reader
  <2>4. AnswerInv' /\ ReachInv'
    BY <1>7 DEF SendCancelled, Return, IdsInv, PendingInv, HoldingInv, AnswerInv, ReachInv, TypeOK, ID, reader
  <2> QED BY <2>1, <2>2, <2>3, <2>4
<1>8. CASE CancelContext(c)
  <2>1. TypeOK'
    BY <1>8 DEF CancelContext, TypeOK, reader, server
  <2>2. IdsInv'
    BY <1>8, IdsStay DEF CancelContext, TypeOK
  <2>3. PendingInv' /\ HoldingInv'
    BY <1>8 DEF CancelContext, IdsInv, PendingInv, HoldingInv, TypeOK, ID, reader
  <2>4. AnswerInv' /\ ReachInv'
    BY <1>8 DEF CancelContext, IdsInv, PendingInv, HoldingInv, AnswerInv, ReachInv, TypeOK, ID, reader
  <2> QED BY <2>1, <2>2, <2>3, <2>4
<1> QED
  BY <1>1, <1>2, <1>3, <1>4, <1>5, <1>6, <1>7, <1>8 DEF Writes, Waits

\* The steps of the reader goroutine (transport_stdio.go:96).
LEMMA ReadKeepsInv ==
    ASSUME IInv, Read
    PROVE  IInv'
<1> USE StdioAssumption DEF IInv
<1>1. CASE DispatchAnswer
  <2>1. Head(stdout) \in FromServer /\ stdout' \in Seq(FromServer)
    BY <1>1 DEF DispatchAnswer, Reading, TypeOK
  <2> DEFINE i == Head(stdout).id
  <2>2. i \in ID
    BY <1>1, <2>1 DEF DispatchAnswer, FromServer
  <2>3. /\ pending' = [pending EXCEPT ![i] = Nobody]
        /\ holding' = IF pending[i] = Nobody THEN holding ELSE [call |-> pending[i], id |-> i]
        /\ holding = NothingHeld
        /\ UNCHANGED <<nextID, id, caller, ctx, outcome, got, buffer, closed, stopped, handling,
                       closing, stdin, received, alive, eof>>
    BY <1>1 DEF DispatchAnswer, Dispatched, Reading, calls
  <2> HIDE DEF i
  <2>4. TypeOK'
    BY <2>1, <2>2, <2>3 DEF TypeOK
  <2>5. IdsInv'
    BY <2>3, IdsStay
  <2>6. PendingInv' /\ HoldingInv'
    BY <2>2, <2>3 DEF PendingInv, HoldingInv, TypeOK, NothingHeld
  <2>7. AnswerInv' /\ ReachInv'
    BY <2>2, <2>3 DEF PendingInv, AnswerInv, ReachInv, TypeOK, NothingHeld
  <2> QED BY <2>4, <2>5, <2>6, <2>7
<1>2. CASE HandOver
  <2>1. /\ holding # NothingHeld /\ holding' = NothingHeld
        /\ buffer' = [buffer EXCEPT ![holding.call] = holding.id]
        /\ UNCHANGED <<nextID, id, caller, ctx, outcome, got, pending, closed, stopped, handling,
                       closing, stdin, stdout, received, alive, eof>>
    BY <1>2 DEF HandOver, calls, server
  <2>2. holding.call \in Caller /\ holding.id \in ID /\ 0 \notin ID
    BY <2>1 DEF TypeOK, ID
  <2>3. TypeOK'
    BY <2>1, <2>2 DEF TypeOK
  <2>4. IdsInv'
    BY <2>1, IdsStay
  <2>5. PendingInv' /\ HoldingInv'
    BY <2>1, <2>2 DEF PendingInv, HoldingInv, TypeOK, NothingHeld
  <2>6. AnswerInv' /\ ReachInv'
    BY <2>1, <2>2 DEF IdsInv, HoldingInv, AnswerInv, ReachInv, TypeOK, NothingHeld
  <2> QED BY <2>3, <2>4, <2>5, <2>6
<1>3. CASE DispatchRequest \/ DispatchOther
  <2>1. /\ stdout' \in Seq(FromServer) /\ handling' \in Nat
        /\ UNCHANGED <<nextID, id, caller, ctx, outcome, got, pending, buffer, closed, holding,
                       stopped, closing, stdin, received, alive, eof>>
    <3>1. CASE DispatchRequest
      BY <3>1 DEF DispatchRequest, Reading, TypeOK, calls, reader
    <3>2. CASE DispatchOther
      BY <3>2 DEF DispatchOther, Reading, TypeOK, calls, reader
    <3> QED BY <1>3, <3>1, <3>2
  <2>2. TypeOK'
    BY <2>1 DEF TypeOK
  <2>3. IdsInv'
    BY <2>1, IdsStay
  <2> QED
    BY <2>1, <2>2, <2>3 DEF PendingInv, HoldingInv, AnswerInv, ReachInv
<1>4. CASE ReaderStops
  <2>1. /\ holding = NothingHeld /\ stopped' = TRUE
        /\ closed' = closed \cup {c \in Caller : \E i \in ID : pending[i] = c}
        /\ pending' = [i \in ID |-> Nobody]
        /\ UNCHANGED <<nextID, id, caller, ctx, outcome, got, buffer, holding, handling, closing,
                       stdin, stdout, received, alive, eof>>
    BY <1>4 DEF ReaderStops, calls, server
  <2>2. TypeOK'
    BY <2>1 DEF TypeOK
  <2>3. IdsInv'
    BY <2>1, IdsStay
  <2>4. PendingInv' /\ HoldingInv'
    BY <2>1 DEF PendingInv, HoldingInv
  <2>5. AnswerInv'
    BY <2>1 DEF PendingInv, AnswerInv, TypeOK
  <2>6. ReachInv'
    <3> SUFFICES ASSUME NEW c \in Caller, caller[c] \in {"writing", "waiting"}
                 PROVE  buffer[c] # 0 \/ c \in closed'
      BY <2>1 DEF ReachInv
    <3>1. id[c] \in ID
      BY CallInFlight
    <3>2. holding.call # c
      BY <2>1 DEF NothingHeld
    <3> QED
      BY <2>1, <3>1, <3>2 DEF ReachInv
  <2> QED BY <2>2, <2>3, <2>4, <2>5, <2>6
<1> QED
  BY <1>1, <1>2, <1>3, <1>4 DEF Read

\* What close(), the handlers, notify() and the server do leaves the calls and
\* the map alone; only the pipes have to stay well typed.
LEMMA RestKeepsInv ==
    ASSUME IInv, Notify \/ Reply \/ CloseStdin \/ Close \/ Server
    PROVE  IInv'
<1> USE DEF IInv
<1> DEFINE Quiet ==
      /\ UNCHANGED <<nextID, id, caller, ctx, outcome, got, pending, buffer, closed, holding, stopped>>
      /\ stdin' \in Seq(ToServer) /\ stdout' \in Seq(FromServer) /\ received' \subseteq ID
      /\ handling' \in Nat /\ closing' \in {"no", "waiting", "reaped", "closed"}
      /\ alive' \in BOOLEAN /\ eof' \in BOOLEAN
<1>1. Quiet
  <2>1. CASE Notify
    <3>1. Line("notify", 0) \in ToServer
      BY DEF Line, ToServer
    <3> QED BY <2>1, <3>1 DEF Notify, Write, TypeOK, calls, reader, server
  <2>2. CASE Reply
    <3>1. Line("reply", 0) \in ToServer
      BY DEF Line, ToServer
    <3>2. stdin' \in Seq(ToServer)
      <4>1. CASE UNCHANGED stdin
        BY <4>1 DEF TypeOK
      <4>2. CASE Write(Line("reply", 0))
        BY <4>2, <3>1 DEF Write, TypeOK
      <4> QED BY <2>2, <4>1, <4>2 DEF Reply
    <3> QED BY <2>2, <3>2 DEF Reply, TypeOK, calls, reader, server
  <2>3. CASE CloseStdin \/ Close
    BY <2>3 DEF CloseStdin, Close, Kill, Reap, CloseReturns, TypeOK, calls, reader, server
  <2>4. CASE ServerReads
    <3>1. Head(stdin) \in ToServer /\ stdin' \in Seq(ToServer)
      BY <2>4 DEF ServerReads, TypeOK
    <3>2. received' \subseteq ID
      BY <2>4, <3>1 DEF ServerReads, ToServer, TypeOK
    <3> QED BY <2>4, <3>1, <3>2 DEF ServerReads, TypeOK, calls, reader
  <2>5. ASSUME NEW line \in FromServer, Emits(line)
        PROVE  Quiet
    BY <2>5 DEF Emits, TypeOK, calls, reader
  <2>6. CASE ServerClosesStdout \/ ServerExits
    BY <2>6 DEF ServerClosesStdout, ServerExits, TypeOK, calls, reader
  <2>7. CASE ServerAnswers
    BY <2>7, <2>5 DEF ServerAnswers, Line, FromServer, TypeOK
  <2>8. CASE ServerAsks \/ ServerChatters
    BY <2>8, <2>5 DEF ServerAsks, ServerChatters, Line, FromServer
  <2> QED
    BY <2>1, <2>2, <2>3, <2>4, <2>6, <2>7, <2>8 DEF Server
<1>2. TypeOK'
  BY <1>1 DEF TypeOK
<1>3. IdsInv'
  BY <1>1, IdsStay
<1> QED
  BY <1>1, <1>2, <1>3 DEF PendingInv, HoldingInv, AnswerInv, ReachInv

\* The strengthening is an invariant of the transport.
LEMMA Inductive == StdioSpec => []IInv
<1>1. StdioInit => IInv
  <2> SUFFICES ASSUME StdioInit PROVE IInv
    OBVIOUS
  <2>1. TypeOK
    <3>1. <<>> \in Seq(ToServer) /\ <<>> \in Seq(FromServer)
      OBVIOUS
    <3> QED BY <3>1 DEF StdioInit, TypeOK
  <2>2. IdsInv
    <3>1. Started = {}
      BY DEF StdioInit, Started
    <3> QED BY <3>1, FS_EmptySet DEF StdioInit, IdsInv
  <2> QED
    BY <2>1, <2>2 DEF StdioInit, IInv, PendingInv, HoldingInv, AnswerInv, ReachInv
<1>2. IInv /\ [StdioNext]_stdioVars => IInv'
  <2> SUFFICES ASSUME IInv, [StdioNext]_stdioVars PROVE IInv'
    OBVIOUS
  <2>1. CASE UNCHANGED stdioVars
    <3>1. TypeOK'
      BY <2>1 DEF IInv, stdioVars, calls, reader, server, TypeOK
    <3>2. IdsInv'
      BY <2>1, IdsStay DEF IInv, stdioVars, calls
    <3> QED
      BY <2>1, <3>1, <3>2 DEF IInv, stdioVars, calls, reader, PendingInv, HoldingInv, AnswerInv, ReachInv
  <2>2. CASE StdioNext
    BY <2>2, CallKeepsInv, ReadKeepsInv, RestKeepsInv DEF StdioNext
  <2> QED BY <2>1, <2>2
<1> QED
  BY <1>1, <1>2, PTL DEF StdioSpec

\* The transport's state is well typed (transport_stdio.go:27).
THEOREM StdioTypes == StdioSpec => []TypeOK
<1>1. IInv => TypeOK
  BY DEF IInv
<1> QED BY <1>1, Inductive, PTL

\* Answers are matched to calls by an id that no two calls share
\* (transport_stdio.go:141): a late or repeated answer never reaches another.
THEOREM AnswersReachTheirCall == StdioSpec => []OwnAnswer
<1>1. IInv => OwnAnswer
  <2> SUFFICES ASSUME IInv, NEW c \in Caller, outcome[c] = "answered"
               PROVE  got[c] = id[c] /\ \A d \in Caller \ {c} : id[d] # got[c]
    BY DEF OwnAnswer
  <2>1. got[c] = id[c]
    BY DEF IInv, AnswerInv
  <2>2. id[c] # 0
    BY DEF IInv, AnswerInv, IdsInv
  <2> QED BY <2>1, <2>2 DEF IInv, IdsInv
<1> QED BY <1>1, Inductive, PTL

\* The reader's send always finds room in an open channel
\* (transport_stdio.go:150), because the entry was deleted before it.
THEOREM ReaderKeepsReading == StdioSpec => []ReaderNeverBlocks
<1>1. IInv => ReaderNeverBlocks
  BY DEF IInv, HoldingInv, ReaderNeverBlocks
<1> QED BY <1>1, Inductive, PTL

\* No call waits on a channel nobody will use again (transport_stdio.go:170).
THEOREM NoCallIsOrphaned == StdioSpec => []NoOrphan
<1>1. IInv => NoOrphan
  BY DEF IInv, ReachInv, NoOrphan
<1> QED BY <1>1, Inductive, PTL

\* The map holds calls in flight only (transport_stdio.go:204).
THEOREM EntriesAreRemoved == StdioSpec => []NoLeak
<1>1. IInv => NoLeak
  BY DEF IInv, PendingInv, NoLeak
<1> QED BY <1>1, Inductive, PTL

-----------------------------------------------------------------------------
(* The HTTP transport and its token source. *)

\* Where Token stands while it holds the mutex.
Inside == {"refresh", "grant", "user", "exchange", "save", "save client"}

TokenTypes ==
    /\ auth \in [Procs -> {"", "lock", "got", "failed"} \union Inside]
    /\ bearer \in [Procs -> Nat]
    /\ session \in [loaded : BOOLEAN, client : Nat, access : Nat, refresh : Nat]
    /\ store \in [client : Nat, access : Nat, refresh : Nat]
    /\ minted \in Nat /\ clients \in Nat /\ states \in Nat

HttpTypes ==
    /\ pc \in [Procs -> {"idle", "token", "invalidate", "read", "done", "failed", "paused"}]
    /\ tries \in [Procs -> {1, 2}]

CallTypes ==
    /\ next \in [Procs -> Nat] /\ slot \in [Procs -> Nat]
    /\ answers \in [Procs -> SUBSET Nat] /\ kept \in [Procs -> SUBSET Nat]
    /\ open \in [Procs -> Nat]
    /\ DOMAIN lost = Procs
    /\ \A p \in Procs : lost[p] \in [Asked(p) -> Nat]

\* Who is inside Token past its lock holds the mutex, and has a session; a
\* process is in Token only while it wants to post.
Locked == \A p \in Procs :
    /\ auth[p] \in Inside <=> holder = p
    /\ auth[p] \in Inside \union {"got"} => session.loaded
    /\ tries[p] # 1 => session.loaded
    /\ pc[p] = "token" => auth[p] # ""
    /\ pc[p] = "invalidate" => auth[p] = "got"
    /\ pc[p] \notin {"token", "invalidate"} => auth[p] = ""

Base == TokenTypes /\ HttpTypes /\ Locked

\* A request that was refused once and in whose time no token died.
SecondAttempt == \A p \in Procs :
    (pc[p] = "token" /\ tries[p] # 1 /\ p \notin shaken) =>
        /\ session.access \in good \union {0}
        /\ auth[p] = "got" => bearer[p] \in good

RetryInv == Base /\ SecondAttempt /\ refused = {}

At1(label) == \E p \in Procs : auth[p] = label

\* The one client that was registered is known.
ClientKept ==
    /\ clients \in {0, 1}
    /\ session.loaded => session.client = clients
    /\ store.client = clients \/ (session.loaded /\ At1("save client"))

\* After the one authorization there is a refresh token, or will be.
GrantKept ==
    /\ states \in {0, 1}
    /\ At1("grant") \/ At1("save client") => states = 0
    /\ states = 1 =>
         \/ At1("user") \/ At1("exchange")
         \/ /\ session.loaded => session.refresh # 0
            /\ store.refresh # 0 \/ (session.loaded /\ At1("save"))

AskedInv == Base /\ (~excused => ClientKept /\ GrantKept)

\* A question was shown for each answer to it: those that were lost, and the
\* one there is.
ShownOnce ==
    shown = [p \in Procs |-> [q \in Asked(p) |->
                IF q \in answers[p] \union kept[p] THEN lost[p][q] + 1 ELSE lost[p][q]]]

\* The checkpoint's answers are not to its question; a node that is not paused
\* has them and perhaps an answer to it.
Remembers(p) ==
    /\ answers[p] \subseteq kept[p] \union {open[p]}
    /\ IF pc[p] = "paused" THEN answers[p] = {} /\ slot[p] = 0 /\ open[p] # 0
       ELSE kept[p] \subseteq answers[p]
    /\ IF open[p] = 0 THEN answers[p] = {} /\ kept[p] = {}
       ELSE open[p] \in Asked(p) /\ open[p] \notin kept[p]

GoesOn(p) ==
    /\ next[p] # 0
    /\ slot[p] # 0 => slot[p] \in Asked(p) /\ slot[p] \notin answers[p]
    /\ (Running(p) /\ slot[p] = 0) => \A q \in Asked(p) : q < next[p] => q \in answers[p]
    /\ (pc[p] = "done" /\ slot[p] = 0) => Asked(p) \subseteq answers[p]
    /\ Remembers(p)

AnswersGoOn == \A p \in Procs \ {Main} : GoesOn(p)

ElicitInv == Base /\ CallTypes /\ ShownOnce /\ AnswersGoOn
-----------------------------------------------------------------------------
(* What the steps of the client do to the token source. *)

\* A step of p that begins a POST, or ends one: it has used its token.
Sends(p) ==
    /\ auth[p] \notin Inside
    /\ \/ auth' = [auth EXCEPT ![p] = "lock"] /\ pc' = [pc EXCEPT ![p] = "token"]
       \/ /\ auth' = [auth EXCEPT ![p] = ""]
          /\ \E label \in {"read", "done", "failed"} : pc' = [pc EXCEPT ![p] = label]
    /\ bearer' = [bearer EXCEPT ![p] = 0]
    /\ tries' = [tries EXCEPT ![p] = 1]
    /\ shaken' \in {shaken, shaken \ {p}}
    /\ UNCHANGED <<holder, session, store, minted, good, clients, states, excused>>

\* A step that leaves the token source and the attempts alone.
Apart ==
    /\ \E p \in Procs : \/ UNCHANGED pc
                        \/ /\ pc[p] \in {"read", "done", "failed", "paused"}
                           /\ \E label \in {"idle", "done", "failed", "paused"} : pc' = [pc EXCEPT ![p] = label]
    /\ shaken' \in SUBSET shaken
    /\ \A p \in Procs : p \in shaken \ shaken' => pc[p] = "read"
    /\ UNCHANGED <<tries, holder, auth, bearer, session, store, minted, good, clients, states, excused>>

\* post (transport_http.go:148) starts from a process that is not in Token.
LEMMA PostSends ==
    ASSUME Base, NEW p \in Procs, auth[p] \notin Inside, NEW what,
           Post(p, what), shaken' \in {shaken, shaken \ {p}}
    PROVE  Sends(p)
  BY DEF Post, Goto, At, Sends, issuer

\* A POST that is over (postOnce) has used its token.
LEMMA PostedSends ==
    ASSUME Base, NEW p \in Procs, auth[p] \notin Inside, NEW label \in {"read", "done", "failed"},
           Posted(p, label), shaken' \in {shaken, shaken \ {p}}
    PROVE  Sends(p)
  BY DEF Posted, Used, Goto, At, Sends, issuer

\* So has one that failed, be it followed by the next one of the setup.
LEMMA FailedSends ==
    ASSUME Base, NEW p \in Procs, auth[p] \notin Inside, Failed(p), UNCHANGED shaken
    PROVE  Sends(p)
  BY PostSends, PostedSends DEF Failed

\* The steps that begin or end a POST.
LEMMA SetupSends ==
    ASSUME Base, Setup \/ SetupStep
    PROVE  Sends(Main)
  <1>1. Main \in Procs
    BY HttpAssumption
  <1>2. CASE Setup
    <2>1. auth[Main] \notin Inside
      BY <1>1, <1>2 DEF Setup, Base, Locked, Inside
    <2> QED
      BY <1>1, <1>2, <2>1, PostSends DEF Setup
  <1>3. CASE SetupStep
    <2>1. auth[Main] \notin Inside
      BY <1>3 DEF SetupStep, Initialized, Notified, Listed, Accepted, Inside
    <2> QED
      BY <1>1, <1>3, <2>1, PostSends, PostedSends DEF SetupStep, Initialized, Notified, Listed
  <1> QED
    BY <1>2, <1>3

\* The same for the calls (Execute, readStream, client.go).
LEMMA CallSends ==
    ASSUME Base, NEW p \in Procs,
           Call(p) \/ NoToken(p) \/ Lost(p) \/ RejectAgain(p) \/ Answered(p) \/ Elicited(p)
    PROVE  Sends(p)
  <1>1. CASE Call(p)
    <2>1. auth[p] \notin Inside
      BY <1>1 DEF Call, Base, Locked, Inside
    <2> QED
      BY <1>1, <2>1, PostSends DEF Call
  <1>2. CASE NoToken(p) \/ Lost(p) \/ RejectAgain(p)
    <2>1. auth[p] \notin Inside /\ Failed(p) /\ UNCHANGED shaken
      BY <1>2 DEF NoToken, Lost, RejectAgain, Rejected, Inside
    <2> QED
      BY <2>1, FailedSends
  <1>3. CASE Answered(p)
    <2>1. auth[p] \notin Inside
      BY <1>3 DEF Answered, Accepted, Inside
    <2> QED
      BY <1>3, <2>1, PostedSends DEF Answered
  <1>4. CASE Elicited(p)
    <2>1. auth[p] \notin Inside
      BY <1>4 DEF Elicited, Base, Locked, Inside
    <2> QED
      BY <1>4, <2>1, PostSends DEF Elicited
  <1> QED
    BY <1>1, <1>2, <1>3, <1>4

\* The end of a stream, the pause and the resumption of a node (elicitation.go)
\* do not touch the token source.
LEMMA RestIsApart ==
    ASSUME Base, NEW p \in Procs, (\E ok \in BOOLEAN : Response(p, ok)) \/ Pause(p) \/ Resume(p)
    PROVE  Apart
  BY DEF Response, Pause, Resume, Paused, Goto, Idle, Apart, issuer, tokenVars

\* Every step is one of these (transport_http.go, client.go, oauth.go).
LEMMA StepKinds ==
    ASSUME Base, [Next]_vars
    PROVE  \/ \E p \in Procs : Sends(p) /\ refused' = refused
           \/ \E p \in Procs : RejectAgain(p) /\ Sends(p)
           \/ Apart /\ refused' = refused
           \/ \E p \in Procs : TokenStep(p) /\ UNCHANGED httpVars
           \/ \E p \in Procs : Reject(p) \/ Invalidate(p)
           \/ \E access \in 1..MaxTokens : TokenDies(access)
           \/ Crash
           \/ UNCHANGED vars
  <1>1. CASE Setup \/ SetupStep
    <2>1. refused' = refused /\ Main \in Procs
      BY <1>1, HttpAssumption DEF Setup, SetupStep, Initialized, Notified, Listed
    <2> QED
      BY <1>1, <2>1, SetupSends
  <1>2. ASSUME NEW p \in Procs, Call(p) \/ NoToken(p) \/ Lost(p) \/ Answered(p) \/ Elicited(p)
        PROVE  Sends(p) /\ refused' = refused
    <2>1. refused' = refused
      BY <1>2 DEF Call, NoToken, Lost, Answered, Elicited
    <2> QED
      BY <1>2, <2>1, CallSends
  <1>3. ASSUME NEW p \in Procs, RejectAgain(p) PROVE Sends(p)
    BY <1>3, CallSends
  <1>4. ASSUME NEW p \in Procs, (\E ok \in BOOLEAN : Response(p, ok)) \/ Pause(p) \/ Resume(p)
        PROVE  Apart /\ refused' = refused
    BY <1>4, RestIsApart DEF Response, Pause, Resume
  <1> QED
    BY <1>1, <1>2, <1>3, <1>4 DEF Next, Step

-----------------------------------------------------------------------------
(* Types and the mutex. *)

\* A step of Token (oauth.go:163) goes in, stays in, or leaves with a token or
\* without.
Moves(p) ==
    /\ \/ auth[p] = "lock" /\ holder = Free
       \/ holder = p
    /\ \/ holder' = p /\ bearer' = bearer /\ \E label \in Inside : At(p, label)
       \/ \E access \in Nat : Leave(p, access)
    /\ session.loaded => session'.loaded
    /\ auth'[p] # "failed" => session'.loaded

\* The lock is taken with the session loaded (oauth.go:163).
LEMMA EnterMoves ==
    ASSUME Base, NEW p \in Procs, NEW reached \in BOOLEAN, Enter(p, reached)
    PROVE  Moves(p) /\ TokenTypes'
  <1> USE DEF Base, TokenTypes, Inside
  <1> DEFINE s == IF session.loaded THEN session
                  ELSE [loaded |-> TRUE, client |-> store.client, access |-> store.access,
                        refresh |-> store.refresh]
  <1>1. s \in [loaded : BOOLEAN, client : Nat, access : Nat, refresh : Nat] /\ s.loaded
    OBVIOUS
  <1>2. /\ auth[p] = "lock" /\ holder = Free /\ session' = s
        /\ \/ Leave(p, s.access) /\ s.access # 0
           \/ holder' = p /\ bearer' = bearer /\ \E label \in Inside : At(p, label)
        /\ UNCHANGED <<store, minted, clients, states>>
    <2>1. /\ auth[p] = "lock" /\ holder = Free /\ session' = s
          /\ IF Valid(s.access) THEN Leave(p, s.access)
             ELSE holder' = p /\ At(p, NextGrant(s)) /\ UNCHANGED bearer
          /\ UNCHANGED <<store, minted, clients, states>>
      BY DEF Enter, issuer
    <2> HIDE DEF s
    <2> QED
      BY <2>1 DEF Valid, NextGrant
  <1> HIDE DEF s
  <1>3. Moves(p)
    BY <1>1, <1>2 DEF Moves
  <1>4. auth' \in [Procs -> {"", "lock", "got", "failed"} \union Inside] /\ bearer' \in [Procs -> Nat]
    BY <1>1, <1>2 DEF Leave, At
  <1> QED
    BY <1>1, <1>2, <1>3, <1>4

\* Inside the mutex (oauth.go:163).
LEMMA InsideMoves ==
    ASSUME Base, NEW p \in Procs, auth[p] \in Inside,
           \/ holder' = holder /\ bearer' = bearer /\ \E label \in Inside : At(p, label)
           \/ \E access \in Nat : Leave(p, access),
           session' \in [loaded : BOOLEAN, client : Nat, access : Nat, refresh : Nat],
           (session.loaded => session'.loaded),
           store' \in [client : Nat, access : Nat, refresh : Nat],
           minted' \in Nat, clients' \in Nat, states' \in Nat
    PROVE  Moves(p) /\ TokenTypes'
  <1>1. holder = p /\ session.loaded
    BY DEF Base, Locked
  <1>2. Moves(p)
    BY <1>1 DEF Moves
  <1>3. auth' \in [Procs -> {"", "lock", "got", "failed"} \union Inside] /\ bearer' \in [Procs -> Nat]
    BY DEF Leave, At, Base, TokenTypes
  <1> QED
    BY <1>2, <1>3 DEF TokenTypes

\* Every step of Token.
LEMMA TokenMoves ==
    ASSUME Base, NEW p \in Procs, TokenStep(p)
    PROVE  Moves(p) /\ TokenTypes'
  <1>1. minted \in Nat /\ clients \in Nat /\ states \in Nat /\ session.refresh \in Nat
    BY DEF Base, TokenTypes
  <1>2. minted + 1 \in Nat /\ clients + 1 \in Nat /\ states + 1 \in Nat
    BY <1>1
  <1> USE DEF Base, TokenTypes
  <1>3. CASE LoadFails(p)
    <2>1. Leave(p, 0) /\ auth[p] = "lock" /\ holder = Free
          /\ UNCHANGED <<session, store, minted, clients, states>>
      BY <1>3 DEF LoadFails, issuer
    <2> QED
      BY <2>1 DEF Moves, Leave, At
  <1>4. ASSUME NEW rotates \in BOOLEAN, Refresh(p, rotates) \/ Exchange(p, rotates)
        PROVE  Moves(p) /\ TokenTypes'
    <2> DEFINE refresh == IF rotates THEN minted + 1 ELSE 0
    <2>1. /\ auth[p] \in Inside /\ Granted(p, refresh)
          /\ UNCHANGED <<holder, bearer, store, clients, states>>
      BY <1>4 DEF Refresh, Exchange, CanExchange, Inside
    <2>2. /\ session' \in [loaded : BOOLEAN, client : Nat, access : Nat, refresh : Nat]
          /\ (session.loaded => session'.loaded) /\ minted' \in Nat /\ At(p, "save")
      <3>1. minted' \in Nat /\ Kept(session, refresh) \in Nat
        BY <2>1, <1>1, <1>2 DEF Granted, Mint, Kept
      <3> QED
        BY <2>1, <3>1, <1>2 DEF Granted
    <2> QED
      BY <2>1, <2>2, InsideMoves DEF Inside
  <1>5. CASE RefreshFails(p)
    BY <1>5, InsideMoves DEF RefreshFails, issuer, Inside
  <1>6. ASSUME NEW ok \in BOOLEAN, Register(p, ok) PROVE Moves(p) /\ TokenTypes'
    <2>1. /\ auth[p] \in Inside
          /\ \/ holder' = holder /\ bearer' = bearer /\ \E label \in Inside : At(p, label)
             \/ Leave(p, 0)
          /\ UNCHANGED <<store, minted, states>>
      BY <1>6 DEF Register, issuer, Inside
    <2>2. /\ session' \in [loaded : BOOLEAN, client : Nat, access : Nat, refresh : Nat]
          /\ (session.loaded => session'.loaded) /\ clients' \in Nat
      BY <1>2, <1>6 DEF Register
    <2> QED
      BY <2>1, <2>2, InsideMoves
  <1>7. ASSUME NEW ok \in BOOLEAN, Save(p, ok) PROVE Moves(p) /\ TokenTypes'
    <2>1. /\ auth[p] \in Inside
          /\ \/ holder' = holder /\ bearer' = bearer /\ \E label \in Inside : At(p, label)
             \/ Leave(p, 0) \/ Leave(p, session.access)
          /\ UNCHANGED <<session, minted, clients, states>>
      BY <1>7 DEF Save, issuer, Inside
    <2>2. store' \in [client : Nat, access : Nat, refresh : Nat]
      BY <1>7 DEF Save, Saved
    <2> QED
      BY <2>1, <2>2, InsideMoves
  <1>8. ASSUME NEW ok \in BOOLEAN, NEW s \in 1..states, Redirected(p, s, ok)
        PROVE  Moves(p) /\ TokenTypes'
    <2>1. /\ auth[p] \in Inside
          /\ \/ holder' = holder /\ bearer' = bearer /\ \E label \in Inside : At(p, label)
             \/ Leave(p, 0)
          /\ UNCHANGED <<session, store, minted, clients, states>>
      BY <1>8 DEF Redirected, issuer, Inside
    <2> QED
      BY <2>1, InsideMoves
  <1>9. CASE Authorize(p)
    <2>1. auth[p] \in Inside /\ \E label \in Inside : At(p, label)
      BY <1>9 DEF Authorize, Inside
    <2>2. UNCHANGED <<holder, bearer, session, store, minted, clients>>
      BY <1>9 DEF Authorize, issuer
    <2>3. states' \in Nat
      BY <1>2, <1>9 DEF Authorize
    <2> QED
      BY <2>1, <2>2, <2>3, InsideMoves
  <1>10. CASE ExchangeFails(p)
    BY <1>10, InsideMoves DEF ExchangeFails, CanExchange, issuer, Inside
  <1> QED
    BY <1>3, <1>4, <1>5, <1>6, <1>7, <1>8, <1>9, <1>10, EnterMoves DEF TokenStep

\* A mutex that is free is held by no request.
LEMMA NobodyIsFree == Free \notin Procs
  BY TokenAssumption

\* Only its holder moves inside the mutex (oauth.go:163).
LEMMA MovesKeepLocked ==
    ASSUME Base, NEW p \in Procs, Moves(p), UNCHANGED <<pc, tries>>
    PROVE  Locked'
  <1>1. Free \notin Procs
    BY NobodyIsFree
  <1>2. \A q \in Procs : auth[q] \in Inside <=> holder = q
    BY DEF Base, Locked
  <1>3. \E label \in {"got", "failed"} \union Inside :
           /\ auth' = [auth EXCEPT ![p] = label]
           /\ label \in Inside <=> holder' = p
           /\ holder' \in {p, Free}
    BY <1>1 DEF Moves, Leave, At, Inside
  <1>4. auth' \in [Procs -> {"", "lock", "got", "failed"} \union Inside] /\ auth'[p] # "" /\ auth'[p] # "lock"
    BY <1>3 DEF Base, TokenTypes, Inside
  <1>5. \A q \in Procs \ {p} : auth'[q] = auth[q] /\ auth[q] \notin Inside /\ holder' # q
    <2>1. auth \in [Procs -> {"", "lock", "got", "failed"} \union Inside]
      BY DEF Base, TokenTypes
    <2>2. holder \in {p, Free}
      BY DEF Moves
    <2> QED
      BY <1>1, <1>2, <1>3, <2>1, <2>2, ZenonT(30)
  <1>6. auth'[p] \in Inside <=> holder' = p
    BY <1>3 DEF Base, TokenTypes
  <1>7. auth[p] \in {"lock"} \union Inside
    BY <1>2 DEF Moves
  <1>8. ASSUME NEW q \in Procs
        PROVE  /\ auth'[q] \in Inside <=> holder' = q
               /\ auth'[q] \in Inside \union {"got"} => session'.loaded
               /\ tries'[q] # 1 => session'.loaded
    BY <1>5, <1>6 DEF Moves, Base, Locked, Inside
  <1>9. ASSUME NEW q \in Procs
        PROVE  /\ pc'[q] = "token" => auth'[q] # ""
               /\ pc'[q] = "invalidate" => auth'[q] = "got"
               /\ pc'[q] \notin {"token", "invalidate"} => auth'[q] = ""
    BY <1>4, <1>5, <1>7 DEF Base, Locked, Inside
  <1> QED
    BY <1>8, <1>9 DEF Locked

\* Types and mutex are an invariant of the client.
LEMMA BaseKept ==
    ASSUME Base, [Next]_vars
    PROVE  Base'
  <1>1. ASSUME NEW p \in Procs, Sends(p) PROVE Base'
    <2>1. HttpTypes'
      BY <1>1 DEF Sends, Base, HttpTypes
    <2>2. auth' \in [Procs -> {"", "lock", "got", "failed"} \union Inside] /\ bearer' \in [Procs -> Nat]
      BY <1>1 DEF Sends, Base, TokenTypes
    <2>3. TokenTypes'
      BY <1>1, <2>2 DEF Sends, Base, TokenTypes
    <2>4. \E to \in {"", "lock"}, label \in {"token", "read", "done", "failed"} :
             /\ auth' = [auth EXCEPT ![p] = to] /\ pc' = [pc EXCEPT ![p] = label]
             /\ to = "lock" <=> label = "token"
             /\ auth[p] \notin Inside /\ tries' = [tries EXCEPT ![p] = 1]
             /\ UNCHANGED <<holder, session>>
      BY <1>1 DEF Sends
    <2>5. auth \in [Procs -> {"", "lock", "got", "failed"} \union Inside]
      BY DEF Base, TokenTypes
    <2>6. ASSUME NEW q \in Procs \ {p}
          PROVE  auth'[q] = auth[q] /\ pc'[q] = pc[q] /\ tries'[q] = tries[q]
      BY <2>4, <2>5 DEF Base, HttpTypes
    <2>7. tries'[p] = 1
      BY <2>4 DEF Base, HttpTypes
    <2>8. /\ auth'[p] \in {"", "lock"} /\ pc'[p] \notin {"idle", "invalidate"}
          /\ auth'[p] = "lock" <=> pc'[p] = "token"
      BY <2>4, <2>5 DEF Base, HttpTypes
    <2>9. ASSUME NEW q \in Procs
          PROVE  /\ auth'[q] \in Inside <=> holder' = q
                 /\ auth'[q] \in Inside \union {"got"} => session'.loaded
      BY <2>4, <2>6, <2>8 DEF Base, Locked, Inside
    <2>10. ASSUME NEW q \in Procs
           PROVE  /\ pc'[q] = "token" => auth'[q] # ""
                  /\ pc'[q] = "invalidate" => auth'[q] = "got"
                  /\ pc'[q] \notin {"token", "invalidate"} => auth'[q] = ""
      BY <2>6, <2>8 DEF Base, Locked, Inside
    <2>11. ASSUME NEW q \in Procs PROVE tries'[q] # 1 => session'.loaded
      BY <2>4, <2>6, <2>7 DEF Base, Locked
    <2> QED
      BY <2>1, <2>3, <2>9, <2>10, <2>11 DEF Base, Locked
  <1>2. CASE Apart
    <2>1. TokenTypes' /\ HttpTypes'
      BY <1>2, ZenonT(30) DEF Apart, Base, TokenTypes, HttpTypes
    <2>2. Locked'
      BY <1>2 DEF Apart, Base, HttpTypes, Locked
    <2> QED
      BY <2>1, <2>2 DEF Base
  <1>3. ASSUME NEW p \in Procs, TokenStep(p), UNCHANGED httpVars PROVE Base'
    <2>1. UNCHANGED <<pc, tries>>
      BY <1>3 DEF httpVars
    <2> QED
      BY <1>3, <2>1, TokenMoves, MovesKeepLocked DEF Base, HttpTypes
  <1>4. ASSUME NEW p \in Procs, Reject(p) PROVE Base'
    <2>1. /\ pc' = [pc EXCEPT ![p] = "invalidate"] /\ auth[p] = "got" /\ pc[p] = "token"
          /\ UNCHANGED <<tries, holder, auth, bearer, session, store, minted, clients, states>>
      BY <1>4 DEF Reject, Rejected, Goto, tokenVars
    <2> QED
      BY <2>1 DEF Base, TokenTypes, HttpTypes, Locked
  <1>5. ASSUME NEW p \in Procs, Invalidate(p) PROVE Base'
    <2>1. /\ pc' = [pc EXCEPT ![p] = "token"] /\ auth' = [auth EXCEPT ![p] = "lock"]
          /\ tries' = [tries EXCEPT ![p] = 2] /\ auth[p] = "got"
          /\ session' = Invalidated(session) /\ holder = Free
          /\ UNCHANGED <<holder, bearer, store, minted, clients, states>>
      BY <1>5 DEF Invalidate, InvalidateToken, Goto, At, issuer, Base, Locked
    <2>2. TokenTypes' /\ HttpTypes' /\ session'.loaded
      BY <2>1 DEF Base, TokenTypes, HttpTypes, Invalidated, Locked
    <2>3. auth \in [Procs -> {"", "lock", "got", "failed"} \union Inside]
      BY DEF Base, TokenTypes
    <2>4. Locked'
      BY <2>1, <2>2, <2>3, ZenonT(30) DEF Base, HttpTypes, Locked, Inside
    <2> QED
      BY <2>2, <2>4 DEF Base
  <1>6. ASSUME NEW access \in 1..MaxTokens, TokenDies(access) PROVE Base'
    <2>1. UNCHANGED <<pc, tries, holder, auth, bearer, session, store, minted, clients, states>>
      BY <1>6 DEF TokenDies, Expire, Revoke
    <2> QED
      BY <2>1 DEF Base, TokenTypes, HttpTypes, Locked
  <1>7. CASE Crash
    <2>1. /\ pc' = [p \in Procs |-> IF open[p] # 0 THEN "paused" ELSE "idle"]
          /\ tries' = [p \in Procs |-> 1] /\ holder' = Free
          /\ auth' = [p \in Procs |-> ""] /\ bearer' = [p \in Procs |-> 0] /\ session' = NoSession
          /\ UNCHANGED <<store, minted, clients, states>>
      BY <1>7 DEF Crash, Restart, issuer
    <2>2. TokenTypes' /\ HttpTypes'
      BY <2>1 DEF Base, TokenTypes, HttpTypes, NoSession
    <2>3. \A p \in Procs : auth'[p] = "" /\ pc'[p] \in {"idle", "paused"} /\ tries'[p] = 1 /\ holder' # p
      <3>1. \A p \in Procs : auth'[p] = "" /\ pc'[p] \in {"idle", "paused"}
        BY <2>1
      <3>2. \A p \in Procs : tries'[p] = 1
        BY <2>1
      <3>3. \A p \in Procs : holder' # p
        BY <2>1, NobodyIsFree
      <3> QED
        BY <3>1, <3>2, <3>3
    <2>4. Locked'
      BY <2>3 DEF Locked, Inside
    <2> QED
      BY <2>2, <2>4 DEF Base
  <1>8. CASE UNCHANGED vars
    <2>1. UNCHANGED <<pc, tries, holder, auth, bearer, session, store, minted, clients, states>>
      BY <1>8 DEF vars, httpVars, tokenVars
    <2> QED
      BY <2>1 DEF Base, TokenTypes, HttpTypes, Locked
  <1> QED
    BY <1>1, <1>2, <1>3, <1>4, <1>5, <1>6, <1>7, <1>8, StepKinds

\* The client starts outside the mutex, with no session.
LEMMA InitBase ==
    ASSUME Init
    PROVE  Base
  <1>1. TokenTypes /\ HttpTypes
    BY DEF Init, TokenInit, TokenTypes, HttpTypes, NoSession, Nothing
  <1>2. /\ pc = [p \in Procs |-> "idle"] /\ tries = [p \in Procs |-> 1] /\ holder = Free
        /\ auth = [p \in Procs |-> ""]
    BY DEF Init, TokenInit
  <1>3. \A p \in Procs : auth[p] = "" /\ pc[p] = "idle" /\ tries[p] = 1 /\ holder # p
    <2>1. \A p \in Procs : auth[p] = "" /\ pc[p] = "idle"
      BY <1>2
    <2>2. \A p \in Procs : tries[p] = 1
      BY <1>2
    <2>3. \A p \in Procs : holder # p
      BY <1>2, NobodyIsFree
    <2> QED
      BY <2>1, <2>2, <2>3
  <1>4. Locked
    BY <1>3 DEF Locked, Inside
  <1> QED
    BY <1>1, <1>4 DEF Base

-----------------------------------------------------------------------------
(* RetryEnough. *)

\* What Token (oauth.go:163) gives: the session's token, which is the one it
\* had or one that the server has just given.
Gives(p) ==
    /\ good \subseteq good'
    /\ session.loaded => session'.access = session.access \/ session'.access \in good'
    /\ auth'[p] = "got" => bearer'[p] = session'.access /\ bearer'[p] # 0
    /\ \A q \in Procs \ {p} : auth'[q] = auth[q] /\ bearer'[q] = bearer[q]

\* Staying inside the mutex gives nothing yet.
LEMMA StaysGives ==
    ASSUME Base, NEW p \in Procs, NEW label \in Inside, At(p, label), bearer' = bearer,
           good \subseteq good',
           session.loaded => session'.access = session.access \/ session'.access \in good'
    PROVE  Gives(p)
  BY DEF Base, TokenTypes, At, Gives, Inside

\* Leaving gives the session's token, or none.
LEMMA LeaveGives ==
    ASSUME Base, NEW p \in Procs, NEW access \in {0, session'.access}, Leave(p, access), good' = good,
           session.loaded => session'.access = session.access
    PROVE  Gives(p)
  <1>1. /\ auth' = [auth EXCEPT ![p] = IF access = 0 THEN "failed" ELSE "got"]
        /\ bearer' = [bearer EXCEPT ![p] = access]
    BY DEF Leave, At
  <1>2. DOMAIN auth = Procs /\ DOMAIN bearer = Procs
    BY DEF Base, TokenTypes
  <1>3. auth'[p] = "got" => access # 0
    BY <1>1, <1>2
  <1>4. bearer'[p] = access
    BY <1>1, <1>2
  <1> QED
    BY <1>1, <1>2, <1>3, <1>4 DEF Gives

\* Every step of Token.
LEMMA TokenGives ==
    ASSUME Base, NEW p \in Procs, TokenStep(p)
    PROVE  Gives(p)
  <1>1. ASSUME NEW reached \in BOOLEAN, Enter(p, reached) PROVE Gives(p)
    <2>1. /\ session.loaded => session' = session
          /\ \/ Leave(p, session'.access)
             \/ At(p, NextGrant(session')) /\ UNCHANGED bearer
          /\ good' = good
      BY <1>1 DEF Enter, issuer
    <2>2. NextGrant(session') \in Inside
      BY DEF NextGrant, Inside
    <2> QED
      BY <2>1, <2>2, StaysGives, LeaveGives
  <1>2. CASE LoadFails(p)
    BY <1>2, LeaveGives DEF LoadFails, issuer
  <1>3. ASSUME NEW rotates \in BOOLEAN, Refresh(p, rotates) \/ Exchange(p, rotates)
        PROVE  Gives(p)
    <2>1. PICK refresh : Granted(p, refresh) /\ UNCHANGED bearer
      BY <1>3 DEF Refresh, Exchange
    <2>2. DOMAIN session = {"loaded", "client", "access", "refresh"}
      BY DEF Base, TokenTypes
    <2>3. session'.access = minted + 1
      BY <2>1, <2>2 DEF Granted
    <2>4. good' = good \union {minted + 1} /\ At(p, "save")
      BY <2>1 DEF Granted, Mint
    <2> QED
      BY <2>1, <2>3, <2>4, StaysGives DEF Inside
  <1>4. CASE RefreshFails(p)
    BY <1>4, StaysGives DEF RefreshFails, issuer, Inside
  <1>5. ASSUME NEW ok \in BOOLEAN, Register(p, ok) PROVE Gives(p)
    <2>1. /\ \/ session' = session \/ session' = [session EXCEPT !.client = clients + 1]
          /\ good' = good
          /\ \/ Leave(p, 0)
             \/ At(p, "save client") /\ UNCHANGED bearer
      BY <1>5 DEF Register, issuer
    <2>2. session'.access = session.access
      BY <2>1 DEF Base, TokenTypes
    <2> QED
      BY <2>1, <2>2, StaysGives, LeaveGives DEF Inside
  <1>6. ASSUME NEW ok \in BOOLEAN, Save(p, ok) PROVE Gives(p)
    <2>1. /\ session' = session /\ good' = good
          /\ \/ Leave(p, 0) \/ Leave(p, session'.access)
             \/ At(p, "grant") /\ UNCHANGED bearer
      BY <1>6 DEF Save, issuer
    <2> QED
      BY <2>1, StaysGives, LeaveGives DEF Inside
  <1>7. ASSUME NEW ok \in BOOLEAN, NEW s \in 1..states, Redirected(p, s, ok) PROVE Gives(p)
    <2>1. /\ session' = session /\ good' = good
          /\ \/ Leave(p, 0)
             \/ At(p, "exchange") /\ UNCHANGED bearer
      BY <1>7 DEF Redirected, issuer
    <2> QED
      BY <2>1, StaysGives, LeaveGives DEF Inside
  <1>8. CASE Authorize(p)
    BY <1>8, StaysGives DEF Authorize, issuer, Inside
  <1>9. CASE ExchangeFails(p)
    BY <1>9, LeaveGives DEF ExchangeFails, issuer
  <1> QED
    BY <1>1, <1>2, <1>3, <1>4, <1>5, <1>6, <1>7, <1>8, <1>9 DEF TokenStep

\* A second attempt keeps its chance.
LEMMA RetryKept ==
    ASSUME RetryInv, [Next]_vars
    PROVE  SecondAttempt' /\ refused' = {}
  <1> USE DEF RetryInv
  <1>1. /\ DOMAIN auth = Procs /\ DOMAIN bearer = Procs /\ DOMAIN pc = Procs /\ DOMAIN tries = Procs
    BY DEF Base, TokenTypes, HttpTypes
  <1>2. ASSUME NEW p \in Procs, Sends(p) PROVE SecondAttempt'
    <2>1. \A q \in Procs \ {p} : /\ auth'[q] = auth[q] /\ bearer'[q] = bearer[q] /\ pc'[q] = pc[q]
                                 /\ tries'[q] = tries[q] /\ (q \in shaken => q \in shaken')
      BY <1>1, <1>2 DEF Sends
    <2>2. tries'[p] = 1 /\ UNCHANGED <<session, good>>
      BY <1>1, <1>2 DEF Sends
    <2> QED
      BY <2>1, <2>2 DEF SecondAttempt
  <1>3. ASSUME NEW p \in Procs, RejectAgain(p) PROVE refused' = {}
    <2>1. pc[p] = "token" /\ auth[p] = "got" /\ bearer[p] \notin good
      BY <1>3 DEF RejectAgain, Rejected
    <2>2. tries[p] # 1
      <3>1. tries[p] = 2
        BY <1>3 DEF RejectAgain
      <3> QED
        BY <3>1
    <2>3. p \in shaken
      BY <2>1, <2>2 DEF SecondAttempt
    <2> QED
      BY <1>3, <2>3 DEF RejectAgain
  <1>4. ASSUME Apart PROVE SecondAttempt'
    <2>1. \A q \in Procs : pc'[q] = "token" => pc[q] = "token" /\ (q \in shaken => q \in shaken')
      BY <1>1, <1>4 DEF Apart
    <2>2. UNCHANGED <<tries, auth, bearer, session, good>>
      BY <1>4 DEF Apart
    <2> QED
      BY <2>1, <2>2 DEF SecondAttempt
  <1>5. ASSUME NEW p \in Procs, TokenStep(p), UNCHANGED httpVars PROVE SecondAttempt' /\ refused' = {}
    <2>1. UNCHANGED <<pc, tries, shaken, refused>>
      BY <1>5 DEF httpVars
    <2>2. Gives(p)
      BY <1>5, TokenGives
    <2>3. \A q \in Procs : tries[q] # 1 => session.loaded
      BY DEF Base, Locked
    <2> QED
      BY <2>1, <2>2, <2>3 DEF SecondAttempt, Gives
  <1>6. ASSUME NEW p \in Procs, Reject(p) PROVE SecondAttempt' /\ refused' = {}
    <2>1. /\ pc' = [pc EXCEPT ![p] = "invalidate"]
          /\ UNCHANGED <<tries, auth, bearer, session, good, shaken, refused>>
      BY <1>6 DEF Reject, Goto, tokenVars
    <2> QED
      BY <1>1, <2>1 DEF SecondAttempt
  <1>7. ASSUME NEW p \in Procs, Invalidate(p) PROVE SecondAttempt' /\ refused' = {}
    <2>1. /\ pc' = [pc EXCEPT ![p] = "token"] /\ auth' = [auth EXCEPT ![p] = "lock"]
          /\ tries' = [tries EXCEPT ![p] = 2]
          /\ session' = Invalidated(session)
          /\ UNCHANGED <<bearer, good, shaken, refused>>
      BY <1>7 DEF Invalidate, InvalidateToken, Goto, At, issuer
    <2>2. session'.access = 0
      BY <2>1 DEF Base, TokenTypes, Invalidated
    <2>3. \A q \in Procs \ {p} : auth'[q] = auth[q] /\ pc'[q] = pc[q] /\ tries'[q] = tries[q]
      BY <1>1, <2>1
    <2>4. auth'[p] = "lock"
      BY <1>1, <2>1
    <2> QED
      BY <2>1, <2>2, <2>3, <2>4 DEF SecondAttempt
  <1>8. ASSUME NEW access \in 1..MaxTokens, TokenDies(access) PROVE SecondAttempt' /\ refused' = {}
    <2>1. shaken' = shaken \union {q \in Procs : Running(q)} /\ UNCHANGED <<pc, refused>>
      BY <1>8 DEF TokenDies
    <2> QED
      BY <2>1 DEF SecondAttempt, Running
  <1>9. CASE Crash
    <2>1. \A q \in Procs : pc'[q] # "token"
      BY <1>9 DEF Crash
    <2>2. refused' = {}
      BY <1>9 DEF Crash
    <2> QED
      BY <2>1, <2>2 DEF SecondAttempt
  <1>10. CASE UNCHANGED vars
    <2>1. UNCHANGED <<pc, tries, auth, bearer, session, good, shaken, refused>>
      BY <1>10 DEF vars, httpVars, tokenVars
    <2> QED
      BY <2>1 DEF SecondAttempt
  <1> QED
    BY <1>2, <1>3, <1>4, <1>5, <1>6, <1>7, <1>8, <1>9, <1>10, StepKinds

(***************************************************************************)
(* One retry after a 401 is enough (post, transport_http.go:148) unless a  *)
(* token died during the call, whatever the calls do to the shared token.  *)
(***************************************************************************)
THEOREM RetryAlwaysEnough == Spec => []RetryEnough
  <1>1. Init => RetryInv
    <2> SUFFICES ASSUME Init PROVE RetryInv
      OBVIOUS
    <2>1. (\A p \in Procs : pc[p] = "idle") /\ refused = {}
      BY DEF Init
    <2> QED
      BY <2>1, InitBase DEF RetryInv, SecondAttempt
  <1>2. RetryInv /\ [Next]_vars => RetryInv'
    BY BaseKept, RetryKept DEF RetryInv
  <1>3. RetryInv => RetryEnough
    BY DEF RetryInv, RetryEnough
  <1> QED
    BY <1>1, <1>2, <1>3, PTL DEF Spec

-----------------------------------------------------------------------------
(* AskedOnce. *)

KeptInv == ClientKept /\ GrantKept

\* The same, where p alone can be inside the mutex.
KeptBy(p) ==
    /\ clients \in {0, 1}
    /\ session.loaded => session.client = clients
    /\ store.client = clients \/ (session.loaded /\ auth[p] = "save client")
    /\ states \in {0, 1}
    /\ auth[p] \in {"grant", "save client"} => states = 0
    /\ states = 1 =>
         \/ auth[p] \in {"user", "exchange"}
         \/ /\ session.loaded => session.refresh # 0
            /\ store.refresh # 0 \/ (session.loaded /\ auth[p] = "save")

\* Token runs under its mutex (oauth.go:163): the others are outside.
LEMMA Alone ==
    ASSUME Base, NEW p \in Procs, TokenStep(p)
    PROVE  /\ KeptInv => KeptBy(p)
           /\ KeptBy(p)' => KeptInv'
  <1>1. /\ holder \in {p, Free} /\ holder' \in {p, Free}
        /\ \A q \in Procs \ {p} : auth'[q] = auth[q]
        /\ Free \notin Procs
    <2>1. Moves(p)
      BY TokenMoves
    <2>2. \E label : At(p, label)
      BY <2>1 DEF Moves, Leave
    <2>3. DOMAIN auth = Procs
      BY DEF Base, TokenTypes
    <2>4. holder \in {p, Free} /\ holder' \in {p, Free}
      BY <2>1 DEF Moves, Leave
    <2> QED
      BY <2>2, <2>3, <2>4, NobodyIsFree DEF At
  <1>2. \A q \in Procs \ {p} : auth[q] \notin Inside /\ auth'[q] \notin Inside
    BY <1>1 DEF Base, Locked
  <1>3. \A label \in Inside : (At1(label) <=> auth[p] = label) /\ (At1(label)' <=> auth'[p] = label)
    BY <1>2 DEF At1
  <1>4. ASSUME NEW label \in Inside
        PROVE  (At1(label) <=> auth[p] = label) /\ (At1(label)' <=> auth'[p] = label)
    BY <1>3
  <1>5. /\ At1("grant") <=> auth[p] = "grant"
        /\ At1("user") <=> auth[p] = "user"
        /\ At1("exchange") <=> auth[p] = "exchange"
        /\ At1("save") <=> auth[p] = "save"
        /\ At1("save client") <=> auth[p] = "save client"
    BY <1>4 DEF Inside
  <1>6. /\ At1("grant")' <=> auth'[p] = "grant"
        /\ At1("user")' <=> auth'[p] = "user"
        /\ At1("exchange")' <=> auth'[p] = "exchange"
        /\ At1("save")' <=> auth'[p] = "save"
        /\ At1("save client")' <=> auth'[p] = "save client"
    BY <1>4 DEF Inside
  <1>7. KeptInv => KeptBy(p)
    BY <1>5 DEF KeptInv, ClientKept, GrantKept, KeptBy
  <1>8. KeptBy(p)' => KeptInv'
    BY <1>6 DEF KeptInv, ClientKept, GrantKept, KeptBy
  <1> QED
    BY <1>7, <1>8

\* A step that moves nobody inside the mutex, and what is kept.
LEMMA OutsideKeeps ==
    ASSUME KeptInv,
           \A q \in Procs : auth[q] \in Inside \/ auth'[q] \in Inside => auth'[q] = auth[q],
           UNCHANGED <<session.loaded, session.client, session.refresh, store, clients, states>>
    PROVE  KeptInv'
  <1>1. ASSUME NEW label \in Inside PROVE At1(label)' <=> At1(label)
    BY DEF At1
  <1>2. /\ At1("grant")' <=> At1("grant")
        /\ At1("user")' <=> At1("user")
        /\ At1("exchange")' <=> At1("exchange")
        /\ At1("save")' <=> At1("save")
        /\ At1("save client")' <=> At1("save client")
    BY <1>1 DEF Inside
  <1> QED
    BY <1>2 DEF KeptInv, ClientKept, GrantKept

\* Token loads what was saved, or has it (oauth.go:163).
LEMMA EnterKeeps ==
    ASSUME Base, NEW p \in Procs, NEW reached \in BOOLEAN, Enter(p, reached), KeptBy(p)
    PROVE  KeptBy(p)'
  <1>1. /\ auth[p] = "lock"
        /\ session' = IF session.loaded THEN session
                      ELSE [loaded |-> TRUE, client |-> store.client, access |-> store.access,
                            refresh |-> store.refresh]
        /\ \/ \E label \in {"got", "failed", "refresh"} : At(p, label)
           \/ At(p, "grant") /\ session'.refresh = 0
        /\ UNCHANGED <<store, clients, states>>
    BY DEF Enter, Leave, NextGrant, issuer
  <1>2. DOMAIN auth = Procs
    BY DEF Base, TokenTypes
  <1>3. /\ auth'[p] \in {"got", "failed", "refresh"} \/ (auth'[p] = "grant" /\ session'.refresh = 0)
    BY <1>1, <1>2 DEF At
  <1>4. /\ session'.loaded
        /\ session'.client \in {session.client, store.client}
        /\ session.loaded => session'.client = session.client /\ session'.refresh = session.refresh
        /\ ~session.loaded => session'.client = store.client /\ session'.refresh = store.refresh
    BY <1>1
  <1>5. /\ auth[p] \notin {"save", "save client", "user", "exchange"}
        /\ auth'[p] \notin {"save", "save client", "user", "exchange"}
    BY <1>1, <1>3
  <1>6. store.client = clients /\ (states = 1 => store.refresh # 0 /\ session'.refresh # 0)
    BY <1>4, <1>5 DEF KeptBy
  <1> QED
    BY <1>1, <1>3, <1>4, <1>5, <1>6 DEF KeptBy

\* Every step of Token that is no excuse for asking again.
LEMMA TokenKeeps ==
    ASSUME Base, NEW p \in Procs, TokenStep(p), KeptBy(p), ~excused'
    PROVE  KeptBy(p)'
  <1>1. DOMAIN auth = Procs /\ DOMAIN session = {"loaded", "client", "access", "refresh"}
    BY DEF Base, TokenTypes
  <1>2. auth[p] \in Inside => session.loaded
    BY DEF Base, Locked
  <1>3. minted + 1 # 0
    <2>1. minted \in Nat
      BY DEF Base, TokenTypes
    <2> QED
      BY <2>1
  <1>4. CASE LoadFails(p)
    <2>1. /\ auth[p] = "lock" /\ auth'[p] = "failed"
          /\ UNCHANGED <<session, store, clients, states>>
      BY <1>1, <1>4 DEF LoadFails, Leave, At, issuer
    <2> QED
      BY <2>1 DEF KeptBy
  <1>5. ASSUME NEW rotates \in BOOLEAN, Refresh(p, rotates) \/ Exchange(p, rotates)
        PROVE  KeptBy(p)'
    <2>1. PICK refresh :
             /\ Granted(p, refresh) /\ refresh \in {0, minted + 1}
             /\ \/ auth[p] = "refresh"
                \/ auth[p] \in {"exchange", "grant"} /\ refresh = minted + 1
             /\ UNCHANGED <<store, clients, states>>
      BY <1>5 DEF Refresh, Exchange, CanExchange
    <2>2. /\ session'.loaded = session.loaded /\ session'.client = session.client
          /\ session'.refresh = Kept(session, refresh)
          /\ auth'[p] = "save"
      BY <1>1, <2>1 DEF Granted, At
    <2>3. session.loaded /\ auth[p] # "save client"
      BY <1>2, <2>1 DEF Inside
    <2>4. states = 1 => session'.refresh # 0
      BY <1>3, <2>1, <2>2, <2>3 DEF Kept, KeptBy
    <2> QED
      BY <2>1, <2>2, <2>3, <2>4 DEF KeptBy
  <1>6. ASSUME NEW ok \in BOOLEAN, Register(p, ok) PROVE KeptBy(p)'
    <2>1. /\ auth[p] = "grant" /\ session.client = 0 /\ clients' = clients + 1
          /\ session' = [session EXCEPT !.client = clients + 1]
          /\ At(p, "save client") /\ UNCHANGED <<store, states>>
      BY <1>6 DEF Register, issuer
    <2>2. auth'[p] = "save client" /\ session.loaded
      BY <1>1, <1>2, <2>1 DEF At, Inside
    <2>3. session'.client = clients' /\ session'.loaded
      BY <1>1, <2>1, <2>2
    <2>4. clients = 0 /\ states = 0
      BY <2>1, <2>2 DEF KeptBy
    <2>5. clients' = clients + 1 /\ states' = states
      BY <2>1
    <2>6. clients' \in {0, 1} /\ states' \in {0, 1} /\ states' = 0 /\ states' # 1
      BY <2>4, <2>5
    <2> QED
      BY <2>2, <2>3, <2>6 DEF KeptBy
  <1>7. ASSUME NEW ok \in BOOLEAN, Save(p, ok) PROVE KeptBy(p)'
    <2>1. /\ auth[p] \in {"save", "save client"} /\ store' = Saved(session)
          /\ \/ auth[p] = "save client" /\ At(p, "grant")
             \/ auth[p] = "save" /\ \E label \in {"got", "failed"} : At(p, label)
          /\ UNCHANGED <<session, clients, states>>
      BY <1>7 DEF Save, Leave, issuer
    <2>2. /\ session.loaded /\ store'.client = session.client /\ store'.refresh = session.refresh
          /\ auth[p] = "save client" \/ auth[p] = "save"
          /\ auth'[p] \in {"grant", "got", "failed"}
          /\ auth'[p] = "grant" => auth[p] = "save client"
      BY <1>1, <1>2, <2>1 DEF Saved, At, Inside
    <2> QED
      BY <2>1, <2>2 DEF KeptBy
  <1>8. ASSUME NEW ok \in BOOLEAN, NEW s \in 1..states, Redirected(p, s, ok) PROVE KeptBy(p)'
    <2>1. /\ auth[p] = "user" /\ At(p, "exchange")
          /\ UNCHANGED <<session, store, clients, states>>
      BY <1>8 DEF Redirected, issuer
    <2>2. auth'[p] = "exchange"
      BY <1>1, <2>1 DEF At
    <2> QED
      BY <2>1, <2>2 DEF KeptBy
  <1>9. CASE Authorize(p)
    <2>1. /\ auth[p] = "grant" /\ At(p, "user")
          /\ UNCHANGED <<session, store, clients>>
      BY <1>9 DEF Authorize, issuer
    <2>2. auth'[p] = "user"
      BY <1>1, <2>1 DEF At
    <2>3. states' = states + 1
      BY <1>9 DEF Authorize
    <2>4. states = 0
      BY <2>1 DEF KeptBy
    <2>5. states' = 1
      BY <2>3, <2>4
    <2> QED
      BY <2>1, <2>2, <2>5 DEF KeptBy
  <1>10. ~RefreshFails(p) /\ ~ExchangeFails(p)
    BY DEF RefreshFails, ExchangeFails
  <1> QED
    BY <1>4, <1>5, <1>6, <1>7, <1>8, <1>9, <1>10, EnterKeeps DEF TokenStep

\* An excuse stays one.
LEMMA ExcuseStays ==
    ASSUME NEW p \in Procs, TokenStep(p), ~excused'
    PROVE  ~excused
  BY DEF TokenStep, Enter, LoadFails, Refresh, Exchange, RefreshFails, Register, Save, Redirected,
         Authorize, ExchangeFails

\* What was registered and authorized stays known.
LEMMA AskedKept ==
    ASSUME AskedInv, [Next]_vars, ~excused'
    PROVE  KeptInv'
  <1> USE DEF AskedInv
  <1>1. /\ DOMAIN auth = Procs /\ session \in [loaded : BOOLEAN, client : Nat, access : Nat, refresh : Nat]
        /\ ~excused => KeptInv
    BY DEF Base, TokenTypes, KeptInv
  <1>2. ASSUME NEW p \in Procs, Sends(p) PROVE KeptInv'
    <2>1. \A q \in Procs : auth[q] \in Inside \/ auth'[q] \in Inside => auth'[q] = auth[q]
      BY <1>1, <1>2 DEF Sends, Inside
    <2>2. UNCHANGED <<session, store, clients, states, excused>>
      BY <1>2 DEF Sends
    <2> QED
      BY <1>1, <2>1, <2>2, OutsideKeeps
  <1>3. CASE Apart
    <2>1. UNCHANGED <<auth, session, store, clients, states, excused>>
      BY <1>3 DEF Apart
    <2> QED
      BY <1>1, <2>1, OutsideKeeps
  <1>4. ASSUME NEW p \in Procs, TokenStep(p) PROVE KeptInv'
    BY <1>1, <1>4, Alone, TokenKeeps, ExcuseStays
  <1>5. ASSUME NEW p \in Procs, Reject(p) PROVE KeptInv'
    <2>1. UNCHANGED <<auth, session, store, clients, states, excused>>
      BY <1>5 DEF Reject, tokenVars
    <2> QED
      BY <1>1, <2>1, OutsideKeeps
  <1>6. ASSUME NEW p \in Procs, Invalidate(p) PROVE KeptInv'
    <2>1. /\ auth' = [auth EXCEPT ![p] = "lock"] /\ auth[p] = "got" /\ session' = Invalidated(session)
          /\ UNCHANGED <<store, clients, states, excused>>
      BY <1>6 DEF Invalidate, InvalidateToken, At, Base, Locked
    <2>2. UNCHANGED <<session.loaded, session.client, session.refresh>>
      BY <1>1, <2>1 DEF Invalidated
    <2>3. \A q \in Procs : auth[q] \in Inside \/ auth'[q] \in Inside => auth'[q] = auth[q]
      BY <1>1, <2>1 DEF Inside
    <2> QED
      BY <1>1, <2>1, <2>2, <2>3, OutsideKeeps
  <1>7. ASSUME NEW access \in 1..MaxTokens, TokenDies(access) PROVE KeptInv'
    <2>1. UNCHANGED <<auth, session, store, clients, states, excused>>
      BY <1>7 DEF TokenDies, Expire, Revoke
    <2> QED
      BY <1>1, <2>1, OutsideKeeps
  <1>8. CASE Crash
    <2>1. /\ session' = NoSession /\ ~excused /\ ~Unsaved /\ UNCHANGED <<store, clients, states>>
          /\ auth' = [q \in Procs |-> ""]
      BY <1>8 DEF Crash, Restart
    <2>2. ~At1("save client") /\ ~At1("save") /\ ~At1("user") /\ ~At1("exchange")
      BY <2>1 DEF Unsaved, At1
    <2>3. KeptInv
      BY <1>1, <2>1
    <2>4. ~session'.loaded /\ ~At1("grant")' /\ ~At1("save client")'
      BY <2>1 DEF At1, NoSession
    <2>5. /\ clients \in {0, 1} /\ states \in {0, 1} /\ store.client = clients
          /\ states = 1 => store.refresh # 0
      BY <2>2, <2>3 DEF KeptInv, ClientKept, GrantKept
    <2> QED
      BY <2>1, <2>4, <2>5 DEF KeptInv, ClientKept, GrantKept
  <1>9. CASE UNCHANGED vars
    <2>1. UNCHANGED <<auth, session, store, clients, states, excused>>
      BY <1>9 DEF vars, tokenVars
    <2> QED
      BY <1>1, <2>1, OutsideKeeps
  <1> QED
    BY <1>2, <1>3, <1>4, <1>5, <1>6, <1>7, <1>8, <1>9, StepKinds

(***************************************************************************)
(* "a restart neither registers a new client nor asks the user to          *)
(* authorize again" (oauth.go:66): while servers and store work, there is  *)
(* at most one registration and one authorization.                         *)
(***************************************************************************)
THEOREM AskedAtMostOnce == Spec => []AskedOnce
  <1>1. Init => AskedInv
    <2> SUFFICES ASSUME Init PROVE AskedInv
      OBVIOUS
    <2>1. clients = 0 /\ states = 0 /\ store.client = 0 /\ ~session.loaded /\ \A p \in Procs : auth[p] = ""
      BY DEF Init, TokenInit, NoSession, Nothing
    <2>2. ~At1("grant") /\ ~At1("save client")
      BY <2>1 DEF At1
    <2>3. clients \in {0, 1} /\ states \in {0, 1} /\ states # 1 /\ store.client = clients
      <3>1. clients = 0 /\ states = 0 /\ store.client = 0
        BY <2>1
      <3> QED
        BY <3>1
    <2>4. ClientKept /\ GrantKept
      BY <2>1, <2>2, <2>3 DEF ClientKept, GrantKept
    <2> QED
      BY <2>4, InitBase DEF AskedInv
  <1>2. AskedInv /\ [Next]_vars => AskedInv'
    <2> SUFFICES ASSUME AskedInv, [Next]_vars PROVE AskedInv'
      OBVIOUS
    <2>1. Base'
      BY BaseKept DEF AskedInv
    <2>2. ~excused' => ClientKept' /\ GrantKept'
      BY AskedKept DEF KeptInv
    <2> QED
      BY <2>1, <2>2 DEF AskedInv
  <1>3. AskedInv => AskedOnce
    <2>1. AskedInv => (~excused => clients \in {0, 1} /\ states \in {0, 1})
      BY DEF AskedInv, ClientKept, GrantKept
    <2>2. clients \in {0, 1} /\ states \in {0, 1} => clients <= 1 /\ states <= 1
      OBVIOUS
    <2> QED
      BY <2>1, <2>2 DEF AskedOnce
  <1> QED
    BY <1>1, <1>2, <1>3, PTL DEF Spec

-----------------------------------------------------------------------------
(* ElicitedOnce. *)

\* A step that only moves p, and ends no call well, or moves Main.
Walks(p) ==
    /\ \/ UNCHANGED pc
       \/ p = Main /\ \E label : pc' = [pc EXCEPT ![p] = label]
       \/ Running(p) /\ \E label \in {"token", "invalidate", "read", "failed"} : pc' = [pc EXCEPT ![p] = label]
    /\ UNCHANGED <<next, slot, human>>

\* The steps that bring no question and no answer (transport_http.go, client.go).
LEMMA MostWalk ==
    ASSUME Base, [Next]_vars
    PROVE  \/ \E p \in Procs : Walks(p)
           \/ \E p \in Procs : Call(p) \/ Elicited(p) \/ Pause(p) \/ Resume(p) \/ \E ok \in BOOLEAN : Response(p, ok)
           \/ Crash
  <1>1. Main \in Procs
    BY HttpAssumption
  <1>2. ASSUME Setup \/ SetupStep PROVE Walks(Main)
    <2>1. UNCHANGED <<next, slot, human>>
      BY <1>2 DEF Setup, SetupStep, Initialized, Notified, Listed
    <2>2. \E label : pc' = [pc EXCEPT ![Main] = label]
      BY <1>2 DEF Setup, SetupStep, Initialized, Notified, Listed, Post, Posted, Goto
    <2> QED
      BY <2>1, <2>2 DEF Walks
  <1>3. ASSUME NEW p \in Procs, NoToken(p) \/ Lost(p) \/ RejectAgain(p) PROVE Walks(p)
    <2>1. pc[p] = "token" /\ Failed(p) /\ UNCHANGED <<next, slot, human>>
      BY <1>3 DEF NoToken, Lost, RejectAgain, Rejected
    <2>2. \E label \in {"token", "failed"} : pc' = [pc EXCEPT ![p] = label]
      BY <2>1 DEF Failed, Post, Posted, Goto
    <2> QED
      BY <2>1, <2>2 DEF Walks, Running
  <1>4. ASSUME NEW p \in Procs, Reject(p) \/ Invalidate(p) \/ Answered(p) PROVE Walks(p)
    <2>1. pc[p] \in {"token", "invalidate"} /\ UNCHANGED <<next, slot, human>>
      BY <1>4 DEF Reject, Rejected, Invalidate, Answered, Accepted
    <2>2. \E label \in {"token", "invalidate", "read"} : pc' = [pc EXCEPT ![p] = label]
      BY <1>4 DEF Reject, Invalidate, Answered, Posted, Goto
    <2> QED
      BY <2>1, <2>2 DEF Walks, Running
  <1>5. ASSUME \/ \E p \in Procs : TokenStep(p) /\ UNCHANGED httpVars
               \/ \E access \in 1..MaxTokens : TokenDies(access)
               \/ UNCHANGED vars
        PROVE  Walks(Main)
    BY <1>5 DEF Walks, TokenDies, vars, httpVars
  <1> QED
    BY <1>1, <1>2, <1>3, <1>4, <1>5 DEF Next, Step

\* What is left alone goes on.
LEMMA OthersGoOn ==
    ASSUME AnswersGoOn, NEW p \in Procs,
           \A q \in Procs \ {p} : /\ pc'[q] = pc[q] /\ next'[q] = next[q] /\ slot'[q] = slot[q]
                                  /\ answers'[q] = answers[q] /\ kept'[q] = kept[q]
                                  /\ open'[q] = open[q],
           p # Main => GoesOn(p)'
    PROVE  AnswersGoOn'
  BY DEF AnswersGoOn, GoesOn, Remembers, Running, Asked

\* Walking brings no question.
LEMMA WalkKeeps ==
    ASSUME ElicitInv, NEW p \in Procs, Walks(p)
    PROVE  CallTypes' /\ ShownOnce' /\ AnswersGoOn'
  <1> USE DEF ElicitInv
  <1>1. CallTypes' /\ ShownOnce'
    BY DEF Walks, CallTypes, ShownOnce, Asked, human
  <1>2. UNCHANGED <<next, slot, answers, kept, open>> /\ DOMAIN pc = Procs
    BY DEF Walks, Base, HttpTypes, human
  <1>3. \A q \in Procs \ {p} : pc'[q] = pc[q]
    BY <1>2 DEF Walks
  <1>4. ASSUME p # Main PROVE GoesOn(p)'
    <2>1. pc'[p] = pc[p] \/ (Running(p) /\ pc'[p] \in {"token", "invalidate", "read", "failed"})
      BY <1>2, <1>4 DEF Walks
    <2>2. GoesOn(p)
      BY <1>4 DEF AnswersGoOn
    <2>3. /\ Running(p)' => Running(p)
          /\ pc'[p] = "done" => pc[p] = "done"
          /\ pc'[p] = "paused" <=> pc[p] = "paused"
      BY <2>1 DEF Running
    <2> QED
      BY <1>2, <2>2, <2>3 DEF GoesOn, Remembers, Asked
  <1> QED
    BY <1>1, <1>2, <1>3, <1>4, OthersGoOn

\* A call begins with no question behind it (Execute, client.go).
LEMMA CallKeeps ==
    ASSUME ElicitInv, NEW p \in Procs, Call(p)
    PROVE  CallTypes' /\ ShownOnce' /\ AnswersGoOn'
  <1> USE DEF ElicitInv
  <1>1. /\ p # Main /\ pc[p] = "idle" /\ pc' = [pc EXCEPT ![p] = "token"]
        /\ next' = [next EXCEPT ![p] = 1] /\ slot' = [slot EXCEPT ![p] = 0]
        /\ UNCHANGED <<answers, kept, open, shown, lost>>
    BY DEF Call, Post, Goto, human
  <1>2. CallTypes' /\ ShownOnce'
    BY <1>1 DEF CallTypes, ShownOnce, Asked
  <1>3. DOMAIN pc = Procs /\ DOMAIN next = Procs /\ DOMAIN slot = Procs
    BY DEF Base, HttpTypes, CallTypes
  <1>4. \A q \in Procs \ {p} : pc'[q] = pc[q] /\ next'[q] = next[q] /\ slot'[q] = slot[q]
    BY <1>1, <1>3
  <1>5. pc'[p] = "token" /\ next'[p] = 1 /\ slot'[p] = 0
    BY <1>1, <1>3
  <1>6. \A q \in Asked(p) : ~(q < 1)
    BY DEF Asked
  <1>7. next'[p] # 0
    <2>1. next'[p] = 1
      BY <1>5
    <2> QED
      BY <2>1
  <1>9. Remembers(p)'
    <2>1. Remembers(p)
      BY <1>1 DEF AnswersGoOn, GoesOn
    <2> QED
      BY <1>1, <1>5, <2>1 DEF Remembers, Asked
  <1>8. GoesOn(p)'
    BY <1>5, <1>6, <1>7, <1>9 DEF GoesOn, Asked
  <1> QED
    BY <1>1, <1>2, <1>4, <1>8, OthersGoOn

\* A question that has an answer is passed, one that has none is the call's
\* pending question unless there is one (handleElicit, elicitation.go).
LEMMA ElicitedKeeps ==
    ASSUME ElicitInv, NEW p \in Procs, Elicited(p)
    PROVE  CallTypes' /\ ShownOnce' /\ AnswersGoOn'
  <1> USE DEF ElicitInv
  <1>1. /\ pc[p] = "read" /\ pc' = [pc EXCEPT ![p] = "token"]
        /\ next[p] \in Asked(p)
        /\ UNCHANGED <<answers, kept, open, shown, lost>>
    BY DEF Elicited, Post, Goto, human
  <1>2. /\ next' = [next EXCEPT ![p] = next[p] + 1]
        /\ slot' = IF next[p] \in answers[p] \/ slot[p] # 0 THEN slot ELSE [slot EXCEPT ![p] = next[p]]
    BY DEF Elicited, Record
  <1>3. /\ next \in [Procs -> Nat] /\ slot \in [Procs -> Nat] /\ DOMAIN pc = Procs
    BY DEF Base, HttpTypes, CallTypes
  <1>4. next' \in [Procs -> Nat] /\ slot' \in [Procs -> Nat]
    BY <1>2, <1>3
  <1>5. CallTypes' /\ ShownOnce'
    BY <1>1, <1>4 DEF CallTypes, ShownOnce, Asked
  <1>6. \A q \in Procs \ {p} : pc'[q] = pc[q] /\ next'[q] = next[q] /\ slot'[q] = slot[q]
    BY <1>1, <1>2, <1>3
  <1>7. pc'[p] = "token"
    BY <1>1, <1>3
  <1>8. next'[p] = next[p] + 1 /\ next'[p] # 0
    BY <1>2, <1>3
  <1>9. ASSUME p # Main PROVE GoesOn(p)'
    <2>1. GoesOn(p) /\ Running(p)
      BY <1>1, <1>9 DEF AnswersGoOn, Running
    <2>2. slot'[p] # 0 => slot'[p] \in Asked(p) /\ slot'[p] \notin answers[p]
      BY <1>1, <1>2, <1>3, <2>1 DEF GoesOn
    <2>3. slot'[p] = 0 => slot[p] = 0 /\ next[p] \in answers[p]
      BY <1>2, <1>3, <2>1 DEF GoesOn
    <2>4. \A q \in Asked(p) : q < next[p] + 1 => q < next[p] \/ q = next[p]
      BY <1>3 DEF Asked
    <2>5. slot'[p] = 0 => \A q \in Asked(p) : q < next'[p] => q \in answers[p]
      BY <1>8, <2>1, <2>3, <2>4 DEF GoesOn
    <2>6. Remembers(p)'
      BY <1>1, <1>7, <2>1 DEF GoesOn, Remembers, Asked
    <2> QED
      BY <1>1, <1>7, <1>8, <2>2, <2>5, <2>6 DEF GoesOn, Asked
  <1> QED
    BY <1>1, <1>5, <1>6, <1>9, OthersGoOn

\* A call ends well only when it was asked everything, or has a question pending.
LEMMA ResponseKeeps ==
    ASSUME ElicitInv, NEW p \in Procs, NEW ok \in BOOLEAN, Response(p, ok)
    PROVE  CallTypes' /\ ShownOnce' /\ AnswersGoOn'
  <1> USE DEF ElicitInv
  <1>1. /\ pc[p] = "read" /\ pc' = [pc EXCEPT ![p] = IF ok THEN "done" ELSE "failed"]
        /\ next' = [next EXCEPT ![p] = 1]
        /\ ok => next[p] \notin Asked(p) \/ slot[p] # 0
        /\ UNCHANGED <<slot, answers, kept, open, shown, lost>>
    BY DEF Response, Goto, human
  <1>2. CallTypes' /\ ShownOnce'
    BY <1>1 DEF CallTypes, ShownOnce, Asked
  <1>3. DOMAIN pc = Procs /\ DOMAIN next = Procs /\ next[p] \in Nat
    BY DEF Base, HttpTypes, CallTypes
  <1>4. \A q \in Procs \ {p} : pc'[q] = pc[q] /\ next'[q] = next[q]
    BY <1>1, <1>3
  <1>5. ASSUME p # Main PROVE GoesOn(p)'
    <2>1. GoesOn(p) /\ Running(p)
      BY <1>1, <1>5 DEF AnswersGoOn, Running
    <2>2. /\ pc'[p] \in {"done", "failed"} /\ (pc'[p] = "done" => ok)
      BY <1>1, <1>3
    <2>3. next'[p] = 1
      BY <1>1, <1>3
    <2>4. next'[p] # 0
      BY <2>3
    <2>5. Questions[p] \in Nat
      BY HttpAssumption
    <2>6. next[p] \notin Asked(p) /\ next[p] # 0 => \A q \in Asked(p) : q < next[p]
      BY <1>3, <2>5 DEF Asked
    <2>7. pc'[p] = "done" /\ slot[p] = 0 => Asked(p) \subseteq answers[p]
      BY <1>1, <2>1, <2>2, <2>6 DEF GoesOn
    <2>8. Remembers(p)'
      BY <1>1, <2>1, <2>2 DEF GoesOn, Remembers, Asked
    <2> QED
      BY <1>1, <2>1, <2>2, <2>4, <2>7, <2>8 DEF GoesOn, Running, Asked
  <1> QED
    BY <1>1, <1>2, <1>4, <1>5, OthersGoOn

\* The checkpoint takes the question and the answers there were (elicitation.go:186).
LEMMA PauseKeeps ==
    ASSUME ElicitInv, NEW p \in Procs, Pause(p)
    PROVE  CallTypes' /\ ShownOnce' /\ AnswersGoOn'
  <1> USE DEF ElicitInv
  <1>1. /\ p # Main /\ slot[p] # 0 /\ pc[p] # "paused"
        /\ open' = [open EXCEPT ![p] = slot[p]] /\ kept' = [kept EXCEPT ![p] = answers[p]]
        /\ answers' = [answers EXCEPT ![p] = {}] /\ slot' = [slot EXCEPT ![p] = 0]
        /\ pc' = [pc EXCEPT ![p] = "paused"]
        /\ UNCHANGED <<next, shown, lost>>
    BY DEF Pause, Paused, Goto
  <1>2. GoesOn(p)
    BY <1>1 DEF AnswersGoOn
  <1>3. DOMAIN pc = Procs /\ CallTypes
    BY DEF Base, HttpTypes
  <1>4. /\ open'[p] = slot[p] /\ kept'[p] = answers[p] /\ answers'[p] = {} /\ slot'[p] = 0
        /\ pc'[p] = "paused" /\ next'[p] = next[p]
    BY <1>1, <1>3 DEF CallTypes
  <1>5. \A q \in Procs \ {p} : /\ pc'[q] = pc[q] /\ next'[q] = next[q] /\ slot'[q] = slot[q]
                               /\ answers'[q] = answers[q] /\ kept'[q] = kept[q]
                               /\ open'[q] = open[q]
    BY <1>1, <1>3 DEF CallTypes
  <1>6. CallTypes'
    BY <1>1, <1>3 DEF CallTypes, Asked
  <1>7. ShownOnce'
    <2>1. \A r \in Procs : answers'[r] \union kept'[r] = answers[r] \union kept[r]
      <3>1. answers'[p] \union kept'[p] = answers[p] \union kept[p]
        BY <1>1, <1>2, <1>4 DEF GoesOn, Remembers
      <3> QED
        BY <1>5, <3>1
    <2> QED
      BY <1>1, <2>1 DEF ShownOnce, Asked
  <1>8. GoesOn(p)'
    <2>1. Remembers(p)'
      BY <1>1, <1>2, <1>4 DEF GoesOn, Remembers, Asked
    <2> QED
      BY <1>2, <1>4, <2>1 DEF GoesOn, Running
  <1> QED
    BY <1>5, <1>6, <1>7, <1>8, OthersGoOn

\* The user is shown the checkpoint's question, which had no answer (elicitation.go:181).
LEMMA ResumeKeeps ==
    ASSUME ElicitInv, NEW p \in Procs, Resume(p)
    PROVE  CallTypes' /\ ShownOnce' /\ AnswersGoOn'
  <1> USE DEF ElicitInv
  <1>1. /\ p # Main /\ pc[p] = "paused"
        /\ answers' = [answers EXCEPT ![p] = kept[p] \union {open[p]}]
        /\ shown' = [shown EXCEPT ![p] = [shown[p] EXCEPT ![open[p]] = shown[p][open[p]] + 1]]
        /\ pc' = [pc EXCEPT ![p] = "idle"]
        /\ UNCHANGED <<next, slot, kept, open, lost>>
    BY DEF Resume, With, Goto
  <1>2. GoesOn(p)
    BY <1>1 DEF AnswersGoOn
  <1>3. open[p] \in Asked(p) /\ open[p] \notin kept[p] /\ answers[p] = {} /\ open[p] # 0 /\ slot[p] = 0
    BY <1>1, <1>2 DEF GoesOn, Remembers
  <1>4. CallTypes'
    <2>1. kept[p] \union {open[p]} \in SUBSET Nat
      BY DEF CallTypes
    <2> QED
      BY <1>1, <2>1 DEF CallTypes, Asked
  <1>5. DOMAIN pc = Procs /\ DOMAIN answers = Procs
    BY DEF Base, HttpTypes, CallTypes
  <1>6. \A q \in Procs \ {p} : pc'[q] = pc[q] /\ answers'[q] = answers[q]
    BY <1>1, <1>5
  <1>7. pc'[p] = "idle" /\ answers'[p] = kept[p] \union {open[p]}
    BY <1>1, <1>5
  <1>8. GoesOn(p)'
    <2>1. Remembers(p)'
      BY <1>1, <1>3, <1>7 DEF Remembers, Asked
    <2> QED
      BY <1>1, <1>2, <1>3, <1>7, <2>1 DEF GoesOn, Running
  <1>9. ShownOnce'
    <2> DEFINE Count(r, known) == [q \in Asked(r) |-> IF q \in known THEN lost[r][q] + 1 ELSE lost[r][q]]
    <2>1. shown = [r \in Procs |-> Count(r, answers[r] \union kept[r])]
      BY DEF ShownOnce
    <2>2. answers[p] \union kept[p] = kept[p] /\ answers'[p] \union kept'[p] = kept[p] \union {open[p]}
      BY <1>1, <1>3, <1>7
    <2>3. shown[p] = Count(p, kept[p])
      BY <2>1, <2>2
    <2>4. [shown[p] EXCEPT ![open[p]] = shown[p][open[p]] + 1] = Count(p, kept[p] \union {open[p]})
      BY <1>3, <2>3
    <2> HIDE DEF Count
    <2>5. shown' = [r \in Procs |-> Count(r, answers'[r] \union kept'[r])]
      <3>1. \A r \in Procs \ {p} : answers'[r] \union kept'[r] = answers[r] \union kept[r]
        BY <1>1, <1>6
      <3>2. shown' = [r \in Procs |-> IF r = p THEN Count(p, kept[p] \union {open[p]})
                                      ELSE Count(r, answers[r] \union kept[r])]
        BY <1>1, <2>1, <2>4
      <3> QED
        BY <2>2, <3>1, <3>2
    <2>6. lost' = lost
      BY <1>1
    <2>7. \A r \in Procs : Count(r, answers'[r] \union kept'[r])
                          = [q \in 1..Questions[r] |->
                               IF q \in answers'[r] \union kept'[r] THEN lost'[r][q] + 1 ELSE lost'[r][q]]
      BY <2>6 DEF Count, Asked
    <2> QED
      BY <2>5, <2>7 DEF ShownOnce, Asked
  <1> QED
    BY <1>1, <1>4, <1>6, <1>8, <1>9, OthersGoOn

\* After a restart nobody has a question pending, and what was in memory only
\* is lost (graph.go:351).
LEMMA CrashKeeps ==
    ASSUME ElicitInv, Crash
    PROVE  CallTypes' /\ ShownOnce' /\ AnswersGoOn'
  <1> USE DEF ElicitInv
  <1>1. /\ pc' = [p \in Procs |-> IF open[p] # 0 THEN "paused" ELSE "idle"]
        /\ next' = [p \in Procs |-> 1] /\ slot' = [p \in Procs |-> 0]
        /\ answers' = [p \in Procs |-> {}]
        /\ lost' = [p \in Procs |-> [q \in Asked(p) |->
                       IF q \in answers[p] \ kept[p] THEN lost[p][q] + 1 ELSE lost[p][q]]]
        /\ UNCHANGED <<kept, open, shown>>
    BY DEF Crash
  <1>2. CallTypes'
    <2>1. \A p \in Procs : lost'[p] \in [Asked(p) -> Nat]
      BY <1>1 DEF CallTypes
    <2> QED
      BY <1>1, <2>1 DEF CallTypes, Asked
  <1>3. ShownOnce'
    <2>1. shown = [p \in Procs |-> [q \in Asked(p) |->
                     IF q \in answers[p] \union kept[p] THEN lost[p][q] + 1 ELSE lost[p][q]]]
      BY DEF ShownOnce
    <2>2. ASSUME NEW p \in Procs, NEW q \in Asked(p)
          PROVE  (IF q \in answers[p] \union kept[p] THEN lost[p][q] + 1 ELSE lost[p][q])
                 = (IF q \in answers'[p] \union kept'[p] THEN lost'[p][q] + 1 ELSE lost'[p][q])
      <3>1. lost'[p][q] = IF q \in answers[p] \ kept[p] THEN lost[p][q] + 1 ELSE lost[p][q]
        BY <1>1
      <3>2. answers'[p] = {} /\ kept'[p] = kept[p]
        BY <1>1
      <3> QED
        BY <3>1, <3>2
    <2>3. shown' = [p \in Procs |-> [q \in Asked(p) |->
                      IF q \in answers'[p] \union kept'[p] THEN lost'[p][q] + 1 ELSE lost'[p][q]]]
      BY <1>1, <2>1, <2>2
    <2> QED
      BY <2>3 DEF ShownOnce, Asked
  <1>4. \A p \in Procs : next'[p] # 0
    <2>1. next' = [p \in Procs |-> 1]
      BY <1>1
    <2> QED
      BY <2>1
  <1>5. ASSUME NEW p \in Procs \ {Main} PROVE GoesOn(p)'
    <2>1. /\ pc'[p] = (IF open[p] # 0 THEN "paused" ELSE "idle") /\ slot'[p] = 0
          /\ answers'[p] = {} /\ kept'[p] = kept[p] /\ open'[p] = open[p]
      BY <1>1
    <2>2. Remembers(p)'
      BY <2>1 DEF AnswersGoOn, GoesOn, Remembers, Asked
    <2> QED
      BY <1>4, <2>1, <2>2 DEF GoesOn, Running
  <1> QED
    BY <1>2, <1>3, <1>5 DEF AnswersGoOn

(***************************************************************************)
(* A question is put to the user once, and once more for each answer that  *)
(* was lost because no checkpoint had it yet (AwaitElicitation,            *)
(* elicitation.go:181), and a call that ends well had all its questions    *)
(* answered, for any number of pauses, restarts and failures.              *)
(***************************************************************************)
THEOREM ElicitedAtMostOnce == Spec => []ElicitedOnce
  <1>1. Init => ElicitInv
    <2> SUFFICES ASSUME Init PROVE ElicitInv
      OBVIOUS
    <2>1. CallTypes
      BY DEF Init, CallTypes, Asked
    <2>2. ShownOnce
      BY DEF Init, ShownOnce
    <2>3. \A p \in Procs : /\ pc[p] = "idle" /\ slot[p] = 0 /\ open[p] = 0
                          /\ answers[p] = {} /\ kept[p] = {}
      BY DEF Init
    <2>4. \A p \in Procs : next[p] # 0
      <3>1. next = [p \in Procs |-> 1]
        BY DEF Init
      <3> QED
        BY <3>1
    <2>5. AnswersGoOn
      BY <2>3, <2>4 DEF AnswersGoOn, GoesOn, Remembers, Running
    <2> QED
      BY <2>1, <2>2, <2>5, InitBase DEF ElicitInv
  <1>2. ElicitInv /\ [Next]_vars => ElicitInv'
    <2> SUFFICES ASSUME ElicitInv, [Next]_vars PROVE ElicitInv'
      OBVIOUS
    <2>1. Base /\ Base'
      BY BaseKept DEF ElicitInv
    <2>2. CallTypes' /\ ShownOnce' /\ AnswersGoOn'
      BY <2>1, MostWalk, WalkKeeps, CallKeeps, ElicitedKeeps, ResponseKeeps,
         PauseKeeps, ResumeKeeps, CrashKeeps
    <2> QED
      BY <2>1, <2>2 DEF ElicitInv
  <1>3. ElicitInv => ElicitedOnce
    <2> SUFFICES ASSUME ElicitInv, NEW p \in Procs \ {Main}
                 PROVE  /\ \A q \in Asked(p) : shown[p][q] <= 1 + lost[p][q]
                        /\ pc[p] = "done" /\ slot[p] = 0 => Asked(p) \subseteq answers[p]
      BY DEF ElicitedOnce
    <2>1. \A q \in Asked(p) : /\ shown[p][q] \in {lost[p][q], lost[p][q] + 1}
                             /\ lost[p][q] \in Nat
      BY DEF ElicitInv, ShownOnce, CallTypes
    <2>2. \A q \in Asked(p) : shown[p][q] <= 1 + lost[p][q]
      BY <2>1
    <2> QED
      BY <2>2 DEF ElicitInv, AnswersGoOn, GoesOn
  <1> QED
    BY <1>1, <1>2, <1>3, PTL DEF Spec
=============================================================================
