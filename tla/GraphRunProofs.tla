--------------------------- MODULE GraphRunProofs ---------------------------
(***************************************************************************)
(* Proofs about GraphRun, for every graph Topology's assumptions allow and *)
(* every number of calls.  The inductive invariant is the conjunction of   *)
(* TypeOK, StepsCounted and OneSuperstepAhead, proved in that order, each  *)
(* using the ones before it; the refinement, what calls report and what    *)
(* passes between a call and its caller follow.                            *)
(***************************************************************************)
EXTENDS GraphRun, SequenceTheorems, TLAPS

\* The empty sequence, as a state, as pending events and as a history.
LEMMA EmptyTypes ==
    <<>> \in State /\ <<>> \in Seq(State) /\ <<>> \in Seq(Checkpoint)
  BY EmptySeq DEF State

\* The executions of a fan-out (graph.go:440), one for each branch.
LEMMA BranchRunsType ==
    ASSUME NEW sends \in Seq(Name)
    PROVE  /\ BranchRuns(sends) \in State
           /\ Len(BranchRuns(sends)) = Len(sends)
  <1>1. Len(sends) \in Nat /\ \A i \in 1..Len(sends) : sends[i] \in Name
    OBVIOUS
  <1>2. BranchRuns(sends) \in [1..Len(sends) -> Execution]
    BY <1>1 DEF BranchRuns, Exec, Execution
  <1> QED
    BY <1>1, <1>2, SeqDef DEF State, BranchRuns

\* Reducing a fan-out (graph.go:598) adds one execution for each branch.
LEMMA ReducedType ==
    ASSUME NEW s \in State, NEW sends \in Seq(Name)
    PROVE  /\ Reduced(s, sends) \in State
           /\ Len(Reduced(s, sends)) = Len(s) + Len(sends)
  BY BranchRunsType, ConcatProperties, SMTT(30) DEF Reduced, State

\* Executing a node (graph.go:400) adds one execution to the state.
LEMMA AppendType ==
    ASSUME NEW s \in State, NEW n \in Name, NEW by \in {"node", "handler", "branch"}
    PROVE  /\ Append(s, Exec(n, by)) \in State
           /\ Len(Append(s, Exec(n, by))) = Len(s) + 1
  BY DEF State, Exec, Execution

\* Routers and edges lead to names (graph.go:459).
LEMMA EdgesType == \A n : EdgesOf(n) \subseteq Name
  BY EdgeAssumption DEF EdgesOf

\* An error handler returns a name or "" (node.go:23).
LEMMA OverridesType == \A n : OverridesOf(n) \subseteq Name \cup {NoNext}
  BY EdgeAssumption DEF OverridesOf

\* A fan function returns lists of names, and its join is a name (graph.go:220).
LEMMA FanType ==
    ASSUME NEW n \in DOMAIN Fan, NEW sends \in Fan[n]
    PROVE  n \in Node /\ sends \in Seq(Name) /\ Join[n] \in Name
  BY FanAssumption

\* The events of a fan-out (graph.go:442) are states.
LEMMA BranchEventsType ==
    ASSUME NEW s \in State, NEW sends \in Seq(Name)
    PROVE  [i \in 1..Len(sends) |-> Append(s, Exec(sends[i], "branch"))] \in Seq(State)
  <1>1. Len(sends) \in Nat /\ \A i \in 1..Len(sends) : sends[i] \in Name
    OBVIOUS
  <1>2. \A i \in 1..Len(sends) : Append(s, Exec(sends[i], "branch")) \in State
    BY <1>1, AppendType
  <1>3. [i \in 1..Len(sends) |-> Append(s, Exec(sends[i], "branch"))]
          \in [1..Len(sends) -> State]
    BY <1>2
  <1> QED
    BY <1>1, <1>3, SeqDef

-----------------------------------------------------------------------------
\* Questions are questions, the absent one included (interrupt.go:15).
LEMMA QuestionType ==
    /\ NoQuestion \in Question
    /\ \A n \in Name, i \in Nat : step \in Nat => Ask(n, i) \in Question
  BY NameAssumption DEF NoQuestion, Question, Ask

\* Returning from the call leaves a result of the right type (graph.go:236).
LEMMA ReturnType ==
    ASSUME DataOK, NEW kind \in Kinds, NEW s \in State, NEW q \in Question,
           Return(kind, s, q)
    PROVE  result' \in Result /\ pc' = "idle"
  BY DEF DataOK, Return, Result

\* Load returns the latest checkpoint (checkpoint.go:72).
LEMMA LatestType ==
    ASSUME DataOK, history # <<>>
    PROVE  Latest \in Checkpoint /\ Load = Latest
  BY DEF DataOK, Latest, Load

\* saveCheckpoint and pause append checkpoints (graph.go:516).
LEMMA StoredType ==
    ASSUME DataOK, NEW q \in Question
    PROVE  /\ Stored(q) \in Checkpoint
           /\ Append(history, Stored(q)) \in Seq(Checkpoint)
  BY DEF DataOK, Stored, Checkpoint

\* Every variable of the run loop (graph.go:363) keeps its type, for every graph,
\* every number of questions and every number of calls.
THEOREM TypeCorrect == Spec => []TypeOK
  <1>1. Init => TypeOK
    <2>1. Init => FlagsOK
      BY DEF Init, FlagsOK
    <2>2. Init => DataOK
      BY NameAssumption, QuestionType, EmptyTypes DEF Init, DataOK, Result, Kinds
    <2> QED
      BY <2>1, <2>2 DEF TypeOK
  <1>2. TypeOK /\ [Next]_vars => FlagsOK'
    <2> SUFFICES ASSUME FlagsOK, [Next]_vars PROVE FlagsOK'
      BY DEF TypeOK
    <2> USE DEF FlagsOK, store, loop, config, signals, await, events
    <2>1. CASE Caller
      BY <2>1, Zenon DEF Caller, Run, ResumeDone, ResumeRefused, Resume, Call
    <2>2. CASE Top
      BY <2>2, Zenon DEF Top, Finish, StopEarly, StartNode
    <2>3. CASE Execute
      BY <2>3, Zenon DEF Execute, AwaitAnswered, AwaitInterrupts, Retry, NodeOk, Recover,
                  NodeFails, Executed
    <2>4. CASE Routing
      BY <2>4, Zenon DEF Routing, FanOut, FanOutFails, TakeEdge, NoEdge
    <2>5. CASE Saving
      BY <2>5, Zenon DEF Saving, Save, SaveFails, Pause, PauseFails, PauseReturns
    <2>6. CASE Emit
      BY <2>6, Zenon DEF Emit, Deliver, Drop
    <2>7. CASE Environment
      BY <2>7, Zenon DEF Environment, Cancel, RequestDrain, StopReading, Crash
    <2>8. CASE UNCHANGED vars
      BY <2>8, Zenon DEF vars
    <2> QED
      BY <2>1, <2>2, <2>3, <2>4, <2>5, <2>6, <2>7, <2>8 DEF Next, Loop
  <1>3. TypeOK /\ [Next]_vars => DataOK'
    <2> SUFFICES ASSUME DataOK, [Next]_vars PROVE DataOK'
      BY DEF TypeOK
    <2> USE QuestionType DEF store, loop, config, signals, await, events
    <2>1. CASE Run
      BY <2>1, NameAssumption, EmptyTypes DEF Run, Call, DataOK, Result, Kinds
    <2>2. CASE ResumeDone \/ Resume
      <3>1. Load \in Checkpoint
        BY <2>2, LatestType DEF ResumeDone, Resume
      <3>2. CASE ResumeDone
        BY <3>1, <3>2, EmptyTypes DEF ResumeDone, Call, DataOK, Result, Kinds, Checkpoint
      <3>3. CASE Resume
        BY <3>1, <3>3, EmptyTypes DEF Resume, Call, DataOK, Result, Kinds, Checkpoint
      <3> QED
        BY <2>2, <3>2, <3>3
    <2>3. CASE ResumeRefused
      BY <2>3, NameAssumption, EmptyTypes DEF ResumeRefused, Call, DataOK, Result, Kinds
    <2>4. CASE Top
      BY <2>4, ReturnType
         DEF Top, Finish, StopEarly, StartNode, Fail, DataOK, Kinds
    <2>5. CASE AwaitAnswered \/ AwaitInterrupts \/ Retry \/ NodeFails
      BY <2>5, ReturnType
         DEF AwaitAnswered, AwaitInterrupts, Retry, NodeFails, SlotAfterAwait, Fail,
             DataOK, Kinds
    <2>6. ASSUME NEW by \in {"node", "handler"}, NEW to \in {"route", "save"},
                 NEW next \in Name, Executed(by, to, next)
          PROVE  DataOK'
      <3>1. state' \in State /\ step' \in Nat
        BY <2>6, AppendType DEF Executed, DataOK
      <3>2. out' \in Seq(State)
        BY <2>6, <3>1, EmptyTypes DEF Executed, Record
      <3> QED
        BY <2>6, <3>1, <3>2 DEF Executed, DataOK
    <2>7. CASE NodeOk
      BY <2>6, <2>7 DEF NodeOk, DataOK
    <2>8. CASE Recover
      BY <2>6, <2>8, OverridesType DEF Recover, DataOK
    <2>9. CASE FanOut
      <3>1. PICK sends \in Fan[node] :
               /\ node \in DOMAIN Fan
               /\ state' = Reduced(state, sends) /\ step' = step + Len(sends)
               /\ out' = IF stream
                         THEN [i \in 1..Len(sends) |-> Append(state, Exec(sends[i], "branch"))]
                         ELSE <<>>
        BY <2>9 DEF FanOut, Record, StepsOf
      <3>2. sends \in Seq(Name) /\ Join[node] \in Name
        BY <3>1, FanType
      <3>3. state' \in State /\ step' \in Nat
        BY <3>1, <3>2, ReducedType DEF DataOK
      <3>4. out' \in Seq(State)
        BY <3>1, <3>2, BranchEventsType, EmptyTypes DEF DataOK
      <3>5. slot' \in {"none", "fresh", "used"} /\ asked' \in Nat
        BY <2>9 DEF FanOut, SlotAfterAwait, DataOK
      <3> QED
        BY <2>9, <3>2, <3>3, <3>4, <3>5 DEF FanOut, DataOK
    <2>10. CASE FanOutFails \/ TakeEdge \/ NoEdge
      BY <2>10, ReturnType, EdgesType
         DEF FanOutFails, TakeEdge, NoEdge, Fail, DataOK, Kinds
    <2>11. CASE Saving
      <3>1. Asked \in Question
        BY DEF Asked, DataOK
      <3>2. CASE Save
        BY <3>2, ReturnType, StoredType DEF Save, DataOK, Kinds
      <3>3. CASE SaveFails
        BY <3>3, ReturnType, StoredType DEF SaveFails, Fail, DataOK, Kinds
      <3>4. CASE Pause
        <4>1. CASE durable
          <5>1. out' \in Seq(State)
            <6>1. out' \in {<<state>>, <<>>}
              BY <3>4, <4>1 DEF Pause, Record
            <6>2. \A s \in State : <<s>> \in Seq(State)
              OBVIOUS
            <6>3. state \in State
              BY DEF DataOK
            <6> QED
              BY <6>1, <6>3, EmptyTypes, <6>2
          <5>2. history' \in Seq(Checkpoint)
            BY <3>1, <3>4, <4>1, StoredType DEF Pause
          <5> QED
            BY <3>4, <4>1, <5>1, <5>2 DEF Pause, DataOK
        <4>2. CASE ~durable
          BY <3>4, <4>2, ReturnType DEF Pause, Fail, DataOK, Kinds
        <4> QED
          BY <4>1, <4>2
      <3>5. CASE PauseFails
        BY <3>1, <3>5, ReturnType, StoredType DEF PauseFails, Fail, DataOK, Kinds
      <3>6. CASE PauseReturns
        BY <3>1, <3>6, ReturnType DEF PauseReturns, DataOK, Kinds
      <3> QED
        BY <2>11, <3>2, <3>3, <3>4, <3>5, <3>6 DEF Saving
    <2>12. CASE Emit
      <3>1. Head(out) \in State /\ Tail(out) \in Seq(State)
        BY <2>12, HeadTailProperties DEF Emit, Deliver, Drop, DataOK
      <3>2. out' = Tail(out) /\ seen' \in {seen, Head(out)}
        BY <2>12 DEF Emit, Deliver, Drop
      <3> QED
        BY <2>12, <3>1, <3>2 DEF Emit, Deliver, Drop, DataOK
    <2>13. CASE Environment
      BY <2>13, ReturnType, EmptyTypes
         DEF Environment, Cancel, RequestDrain, StopReading, Crash, Fail, DataOK, Kinds
    <2>14. CASE UNCHANGED vars
      BY <2>14 DEF vars, DataOK
    <2> QED
      BY <2>1, <2>2, <2>3, <2>4, <2>5, <2>7, <2>8, <2>9, <2>10, <2>11, <2>12, <2>13,
         <2>14
         DEF Next, Caller, Loop, Execute, Routing
  <1> QED
    <2>1. TypeOK /\ [Next]_vars => TypeOK'
      BY <1>2, <1>3 DEF TypeOK
    <2> QED
      BY <1>1, <2>1, PTL DEF Spec

-----------------------------------------------------------------------------
\* Stored progress moves only when the history does.
LEMMA SavedKept ==
    ASSUME history' = history
    PROVE  Saved' = Saved
  BY DEF Saved, Latest

\* Appending a checkpoint (checkpoint.go:65) moves stored progress to the run.
LEMMA SavedStored ==
    ASSUME DataOK, NEW q \in Question, history' = Append(history, Stored(q))
    PROVE  /\ Saved' = Place(node, state)
           /\ history' # <<>> /\ Latest' = Stored(q)
           /\ Len(history') = Len(history) + 1
           /\ \A i \in 1..Len(history') :
                 history'[i] = Stored(q) \/ (i \in 1..Len(history) /\ history'[i] = history[i])
  <1>1. Stored(q) \in Checkpoint /\ history \in Seq(Checkpoint)
    BY StoredType DEF DataOK
  <1>2. /\ history' # <<>> /\ Len(history') = Len(history) + 1
        /\ history'[Len(history')] = Stored(q)
        /\ \A i \in 1..Len(history') :
              history'[i] = Stored(q) \/ (i \in 1..Len(history) /\ history'[i] = history[i])
    BY <1>1
  <1>3. Latest' = Stored(q)
    BY <1>2 DEF Latest
  <1> QED
    BY <1>2, <1>3 DEF Saved, Stored

\* The step counter (graph.go:372) is the number of executions the state is made
\* of, in memory and in every checkpoint, and never exceeds WithMaxSteps.
THEOREM StepsAreCounted == Spec => []StepsCounted
  <1>1. Init => StepsCounted
    BY BudgetAssumption DEF Init, StepsCounted
  <1>2. TypeOK /\ StepsCounted /\ [Next]_vars => StepsCounted'
    <2> SUFFICES ASSUME DataOK, StepsCounted, [Next]_vars PROVE StepsCounted'
      BY DEF TypeOK
    <2> USE DEF store, loop, config, signals, await, events
    <2>1. CASE Run
      BY <2>1, BudgetAssumption DEF Run, Call, StepsCounted
    <2>2. CASE ResumeDone \/ ResumeRefused
      BY <2>2 DEF ResumeDone, ResumeRefused, Call, StepsCounted
    <2>3. CASE Resume
      <3>1. Len(history) \in 1..Len(history)
        BY <2>3 DEF Resume, DataOK
      <3> QED
        BY <2>3, <3>1 DEF Resume, Call, Load, StepsCounted
    <2>4. CASE Top
      BY <2>4 DEF Top, Finish, StopEarly, StartNode, Fail, Return, StepsCounted, DataOK
    <2>5. CASE AwaitAnswered \/ AwaitInterrupts \/ Retry \/ NodeFails
      BY <2>5 DEF AwaitAnswered, AwaitInterrupts, Retry, NodeFails, Fail, Return,
                  StepsCounted
    <2>6. ASSUME NEW by \in {"node", "handler"}, NEW to \in {"route", "save"}, NEW next,
                 Ready("exec"), Executed(by, to, next)
          PROVE  StepsCounted'
      BY <2>6, AppendType, BudgetAssumption DEF Ready, Executed, StepsCounted, DataOK
    <2>7. CASE NodeOk
      BY <2>6, <2>7 DEF NodeOk
    <2>8. CASE Recover
      BY <2>6, <2>8 DEF Recover
    <2>9. CASE FanOut
      <3>1. PICK sends \in Fan[node] :
               /\ node \in DOMAIN Fan
               /\ state' = Reduced(state, sends) /\ step' = step + Len(sends)
               /\ step + Len(sends) <= MaxSteps
        BY <2>9 DEF FanOut, StepsOf
      <3>2. Len(state') = Len(state) + Len(sends)
        BY <3>1, FanType, ReducedType DEF DataOK
      <3> QED
        BY <2>9, <3>1, <3>2 DEF FanOut, StepsCounted
    <2>10. CASE FanOutFails \/ TakeEdge \/ NoEdge
      BY <2>10 DEF FanOutFails, TakeEdge, NoEdge, Fail, Return, StepsCounted
    <2>11. CASE Saving
      <3>1. Asked \in Question /\ NoQuestion \in Question
        BY QuestionType DEF Asked, DataOK
      <3>2. /\ pc' # "exec" /\ UNCHANGED <<state, step>>
            /\ \/ history' = history
               \/ \E q \in Question : history' = Append(history, Stored(q))
        BY <2>11, <3>1 DEF Saving, Save, SaveFails, Pause, PauseFails, PauseReturns,
                           Fail, Return
      <3>3. ASSUME NEW q \in Question, history' = Append(history, Stored(q))
            PROVE  StepsCounted'
        <4>1. Stored(q).step = Len(Stored(q).state) /\ Stored(q).step <= MaxSteps
          BY DEF Stored, StepsCounted
        <4> QED
          BY <3>2, <3>3, <4>1, SavedStored DEF StepsCounted
      <3> QED
        BY <3>2, <3>3 DEF StepsCounted
    <2>12. CASE Emit \/ Environment \/ UNCHANGED vars
      BY <2>12 DEF Emit, Deliver, Drop, Environment, Cancel, RequestDrain, StopReading,
                   Crash, Fail, Return, vars, StepsCounted
    <2> QED
      BY <2>1, <2>2, <2>3, <2>4, <2>5, <2>7, <2>8, <2>9, <2>10, <2>11, <2>12
         DEF Next, Caller, Loop, Execute, Routing
  <1> QED
    BY <1>1, <1>2, TypeCorrect, PTL DEF Spec

-----------------------------------------------------------------------------
\* Routing an executed node completes a superstep of the walk.
LEMMA RoutedIsSuperstep ==
    ASSUME JustExecuted, NEW p \in Routed(node, state)
    PROVE  p \in Supersteps(Saved)
  BY DEF JustExecuted, Supersteps

\* A durable run (graph.go:363) stands where the store stands, or one superstep
\* further while it routes and saves: the inductive core of durable execution.
THEOREM StaysOneSuperstepAhead == Spec => []OneSuperstepAhead
  <1>1. Init => OneSuperstepAhead
    BY DEF Init, OneSuperstepAhead
  <1>2. TypeOK /\ StepsCounted /\ OneSuperstepAhead /\ [Next]_vars => OneSuperstepAhead'
    <2> SUFFICES ASSUME DataOK, StepsCounted, OneSuperstepAhead, [Next]_vars, durable'
                 PROVE  OneSuperstepAhead'
      BY DEF TypeOK, OneSuperstepAhead
    <2> USE DEF store, loop, config, signals, await, events
    <2>1. CASE Run
      BY <2>1, SavedKept DEF Run, Call, Saved, Start, OneSuperstepAhead
    <2>2. CASE ResumeDone \/ ResumeRefused
      BY <2>2 DEF ResumeDone, ResumeRefused, Call, OneSuperstepAhead
    <2>3. CASE Resume
      BY <2>3, SavedKept DEF Resume, Call, Load, Saved, Latest, OneSuperstepAhead
    <2>4. CASE Top
      BY <2>4, SavedKept DEF Top, Finish, StopEarly, StartNode, Ready, Fail, Return,
                             OneSuperstepAhead
    <2>5. CASE AwaitAnswered \/ AwaitInterrupts \/ Retry \/ NodeFails
      BY <2>5, SavedKept DEF AwaitAnswered, AwaitInterrupts, Retry, NodeFails, Ready, Fail,
                             Return, OneSuperstepAhead
    <2>6. CASE NodeOk
      <3>1. Place(node, state) = Saved /\ Saved' = Saved /\ node \in Node
            /\ Len(state) < MaxSteps
        BY <2>6, SavedKept DEF NodeOk, Ready, Executed, OneSuperstepAhead, StepsCounted
      <3>2. pc' = "route" /\ node' = node /\ state' = Append(state, Exec(node, "node"))
        BY <2>6 DEF NodeOk, Executed
      <3> QED
        BY <3>1, <3>2 DEF JustExecuted, Place, OneSuperstepAhead
    <2>7. CASE Recover
      <3>1. Place(node, state) = Saved /\ Saved' = Saved /\ node \in Node
            /\ Len(state) < MaxSteps
        BY <2>7, SavedKept DEF Recover, Ready, Executed, OneSuperstepAhead, StepsCounted
      <3>2. PICK next \in OverridesOf(node) :
               IF next = NoNext THEN Executed("handler", "route", node)
                                ELSE Executed("handler", "save", next)
        BY <2>7 DEF Recover
      <3>3. CASE next = NoNext
        BY <3>1, <3>2, <3>3 DEF Executed, JustExecuted, Place, OneSuperstepAhead
      <3>4. CASE next # NoNext
        <4>1. /\ pc' = "save"
              /\ Place(node', state') = Place(next, Append(state, Exec(node, "handler")))
          BY <3>2, <3>4 DEF Executed
        <4>2. Saved.node = node /\ Saved.state = state
          BY <3>1 DEF Place
        <4>3. Place(node', state') \in Supersteps(Saved)
          BY <3>1, <3>4, <4>1, <4>2 DEF Supersteps
        <4> QED
          BY <3>1, <4>1, <4>3 DEF OneSuperstepAhead
      <3> QED
        BY <3>3, <3>4
    <2>8. CASE FanOut
      <3>1. PICK sends \in Fan[node] :
               /\ node \in DOMAIN Fan /\ Planned(sends)
               /\ step + Len(sends) <= MaxSteps
               /\ state' = Reduced(state, sends) /\ node' = Join[node]
        BY <2>8 DEF FanOut, StepsOf
      <3>2. JustExecuted /\ Saved' = Saved /\ step = Len(state) /\ pc' = "save"
        BY <2>8, SavedKept DEF FanOut, Ready, OneSuperstepAhead, StepsCounted
      <3>3. Place(node', state') \in Routed(node, state)
        BY <3>1, <3>2 DEF Routed
      <3> QED
        BY <3>2, <3>3, RoutedIsSuperstep DEF OneSuperstepAhead
    <2>9. CASE TakeEdge
      <3>1. JustExecuted /\ Saved' = Saved /\ pc' = "save"
        BY <2>9, SavedKept DEF TakeEdge, Ready, OneSuperstepAhead
      <3>2. Place(node', state') \in Routed(node, state)
        BY <2>9 DEF TakeEdge, Routed
      <3> QED
        BY <3>1, <3>2, RoutedIsSuperstep DEF OneSuperstepAhead
    <2>10. CASE FanOutFails \/ NoEdge
      BY <2>10 DEF FanOutFails, NoEdge, Fail, Return, OneSuperstepAhead
    <2>11. CASE Save
      <3>1. Saved' = Place(node, state)
        BY <2>11, QuestionType, SavedStored DEF Save
      <3> QED
        BY <2>11, <3>1 DEF Save, Return, OneSuperstepAhead
    <2>12. CASE Pause
      <3>1. Asked \in Question
        BY QuestionType DEF Asked, DataOK
      <3>2. Saved' = Place(node, state)
        BY <2>12, <3>1, SavedStored DEF Pause
      <3> QED
        BY <2>12, <3>2 DEF Pause, Fail, Return, OneSuperstepAhead
    <2>13. CASE SaveFails \/ PauseFails \/ PauseReturns \/ Crash
      BY <2>13 DEF SaveFails, PauseFails, PauseReturns, Crash, Fail, Return,
                   OneSuperstepAhead
    <2>14. CASE Emit \/ Cancel \/ RequestDrain \/ StopReading \/ UNCHANGED vars
      BY <2>14, SavedKept DEF Emit, Deliver, Drop, Cancel, RequestDrain, StopReading, vars,
                              JustExecuted, OneSuperstepAhead
    <2> QED
      BY <2>1, <2>2, <2>3, <2>4, <2>5, <2>6, <2>7, <2>8, <2>9, <2>10, <2>11, <2>12,
         <2>13, <2>14
         DEF Next, Caller, Loop, Execute, Routing, Saving, Environment
  <1> QED
    BY <1>1, <1>2, TypeCorrect, StepsAreCounted, PTL DEF Spec

\* The walk is over the same graph.
LEMMA SameSupersteps == \A p : Walk!Supersteps(p) = Supersteps(p)
  BY Zenon DEF Walk!Supersteps, Walk!Routed, Walk!Reduced, Walk!BranchRuns, Walk!Planned,
         Walk!EdgesOf, Walk!OverridesOf, Walk!Place, Walk!Exec,
         Supersteps, Routed, Reduced, BranchRuns, Planned, EdgesOf, OverridesOf, Place, Exec

\* Durable execution (docs/durable-execution.md): whatever fails, crashes, pauses,
\* drains or is resumed, the checkpoints of a thread follow one uninterrupted walk.
THEOREM RunImplementsWalk == Spec => WalkSpec
  <1>1. Init => Walk!Init
    BY DEF Init, Walk!Init, Saved, Walk!Start, Start, Walk!Place, Place
  <1>2. TypeOK /\ OneSuperstepAhead /\ [Next]_vars => [Walk!Superstep]_Saved
    <2> SUFFICES ASSUME DataOK, OneSuperstepAhead, [Next]_vars, Saved' # Saved
                 PROVE  Saved' \in Supersteps(Saved)
      BY SameSupersteps DEF TypeOK, Walk!Superstep
    <2>1. CASE Save \/ SaveFails
      <3>1. history' = Append(history, Stored(NoQuestion)) /\ durable /\ pc = "save"
        BY <2>1, SavedKept DEF Save, SaveFails, Ready
      <3>2. Saved' = Place(node, state)
        BY <3>1, QuestionType, SavedStored
      <3> QED
        BY <3>1, <3>2 DEF OneSuperstepAhead
    <2>2. CASE Pause \/ PauseFails
      <3>1. history' = Append(history, Stored(Asked)) /\ durable /\ pc = "pause"
        BY <2>2, SavedKept DEF Pause, PauseFails, Ready
      <3>2. Asked \in Question
        BY QuestionType DEF Asked, DataOK
      <3> QED
        BY <3>1, <3>2, SavedStored DEF OneSuperstepAhead
    <2>3. CASE \/ Caller \/ Top \/ Execute \/ Routing \/ PauseReturns \/ Emit
               \/ Environment \/ UNCHANGED vars
      <3>1. history' = history
        BY <2>3 DEF Caller, Run, ResumeDone, ResumeRefused, Resume, Call, Top, Finish,
           StopEarly, StartNode, Execute, AwaitAnswered, AwaitInterrupts, Retry, NodeOk,
           Recover, NodeFails, Executed, Routing, FanOut, FanOutFails, TakeEdge, NoEdge,
           PauseReturns, Emit, Deliver, Drop, Environment, Cancel, RequestDrain,
           StopReading, Crash, vars, store
      <3> QED
        BY <3>1, SavedKept
    <2> QED
      BY <2>1, <2>2, <2>3 DEF Next, Loop, Saving
  <1> QED
    BY <1>1, <1>2, TypeCorrect, StaysOneSuperstepAhead, PTL DEF Spec, WalkSpec, Walk!Spec

-----------------------------------------------------------------------------
\* What ResultIsStored rests on: the latest checkpoint is Done exactly at END,
\* where nothing is pending, and a pausing run has stored its own question.
LatestIsClosed ==
    /\ history # <<>> => /\ Latest.done <=> Latest.node = END
                         /\ Latest.node = END => Latest.intr = NoQuestion
    /\ pc \in {"pause", "paused"} => node \in Node
    /\ pc = "paused" => /\ durable /\ history # <<>>
                        /\ Latest.intr = Asked

\* The invariant that what calls report rests on.
Reported == LatestIsClosed /\ ResultIsStored /\ FailedNodeRunsAgain

\* What a durable call reports (graph.go:236) is what the store holds, and a node
\* that failed is the one Resume (graph.go:331) starts with.
THEOREM CallsReportTheStore == Spec => []CallReports
  <1>1. Init => Reported
    BY DEF Init, Reported, LatestIsClosed, ResultIsStored, FailedNodeRunsAgain
  <1>2. TypeOK /\ StepsCounted /\ OneSuperstepAhead /\ Reported /\ [Next]_vars => Reported'
    <2> SUFFICES ASSUME DataOK, StepsCounted, OneSuperstepAhead, Reported, [Next]_vars
                 PROVE  Reported'
      BY DEF TypeOK
    <2> USE DEF store, loop, config, signals, await, events
    <2>1. CASE Run \/ ResumeRefused
      BY <2>1 DEF Run, ResumeRefused, Call, Reported, LatestIsClosed, ResultIsStored,
                  FailedNodeRunsAgain, Latest
    <2>2. CASE ResumeDone \/ Resume
      BY <2>2, LatestType DEF ResumeDone, Resume, Call, Load, Reported, LatestIsClosed,
                  ResultIsStored, FailedNodeRunsAgain, Latest
    <2>3. CASE Finish
      <3>1. /\ pc' = "idle" /\ history' = history /\ durable' = durable /\ node = END
            /\ result' = [kind |-> "ok", node |-> node, state |-> state, intr |-> NoQuestion]
        BY <2>3 DEF Finish, Return
      <3>2. durable => /\ history # <<>> /\ Latest.node = END /\ Latest.state = state
        BY <2>3, NameAssumption DEF Finish, Ready, OneSuperstepAhead, Saved, Start, Place
      <3> QED
        BY <3>1, <3>2 DEF Reported, LatestIsClosed, ResultIsStored, FailedNodeRunsAgain,
                          Latest
    <2>4. CASE NodeFails
      <3>1. /\ pc' = "idle" /\ history' = history /\ durable' = durable
            /\ result' = [kind |-> "nodefailed", node |-> node, state |-> state,
                          intr |-> NoQuestion]
        BY <2>4 DEF NodeFails, Fail, Return
      <3>2. durable => Place(node, state) = Saved
        BY <2>4 DEF NodeFails, Ready, OneSuperstepAhead
      <3> QED
        BY <3>1, <3>2, SavedKept DEF Reported, LatestIsClosed, ResultIsStored,
                                     FailedNodeRunsAgain, Latest
    <2>5. CASE \/ StopEarly \/ StartNode \/ AwaitAnswered \/ AwaitInterrupts \/ Retry
               \/ NodeOk \/ Recover \/ Routing
      <3>1. history' = history /\ durable' = durable
        BY <2>5 DEF StopEarly, StartNode, AwaitAnswered, AwaitInterrupts, Retry, NodeOk,
                    Recover, Executed, Routing, FanOut, FanOutFails, TakeEdge, NoEdge
      <3>2. \/ pc' \notin {"idle", "pause", "paused"}
            \/ pc' = "idle" /\ result'.kind = "failed"
            \/ pc' = "pause" /\ node' = node /\ pc = "exec"
        <4>1. CASE StopEarly \/ StartNode \/ AwaitAnswered \/ AwaitInterrupts \/ Retry
          BY <4>1 DEF StopEarly, StartNode, AwaitAnswered, AwaitInterrupts, Retry, Ready,
                      Fail, Return
        <4>2. CASE NodeOk \/ Recover
          BY <4>2 DEF NodeOk, Recover, Executed
        <4>3. CASE Routing
          <5>1. CASE FanOut
            BY <5>1 DEF FanOut
          <5>2. CASE FanOutFails \/ TakeEdge \/ NoEdge
            BY <5>2 DEF FanOutFails, TakeEdge, NoEdge, Fail, Return
          <5> QED
            BY <4>3, <5>1, <5>2 DEF Routing
        <4> QED
          BY <2>5, <4>1, <4>2, <4>3
      <3> QED
        BY <3>1, <3>2 DEF Reported, LatestIsClosed, ResultIsStored, FailedNodeRunsAgain,
                          Latest, StepsCounted
    <2>6. CASE Save \/ SaveFails
      <3>1. NoQuestion \in Question
        BY QuestionType
      <3>2. /\ pc' # "pause" /\ pc' # "paused" /\ durable' = durable
            /\ \/ history' = history
               \/ history' = Append(history, Stored(NoQuestion))
            /\ pc' = "idle" =>
                 \/ result'.kind = "failed"
                 \/ /\ result'.kind = "drained" /\ node # END /\ result'.state = state
                    /\ result'.intr = NoQuestion
                    /\ durable => history' = Append(history, Stored(NoQuestion))
        BY <2>6 DEF Save, SaveFails, Draining, Fail, Return
      <3>3. CASE history' = Append(history, Stored(NoQuestion))
        <4>1. /\ history' # <<>> /\ Latest'.node = node /\ Latest'.state = state
              /\ Latest'.done = (node = END) /\ Latest'.intr = NoQuestion
          BY <3>1, <3>3, SavedStored DEF Stored
        <4> QED
          BY <3>2, <4>1 DEF Reported, LatestIsClosed, ResultIsStored, FailedNodeRunsAgain
      <3>4. CASE history' = history
        BY <3>1, <3>2, <3>4, SavedStored
           DEF Reported, LatestIsClosed, ResultIsStored, FailedNodeRunsAgain, Latest, Stored
      <3> QED
        BY <3>2, <3>3, <3>4
    <2>7. CASE Pause \/ PauseFails
      <3>1. Asked \in Question /\ Asked' = Asked /\ node' = node /\ node \in Node
        BY <2>7, QuestionType DEF Asked, Ask, DataOK, Pause, PauseFails, Ready, Reported,
                                  LatestIsClosed
      <3>2. /\ durable' = durable /\ pc' \in {"idle", "paused"}
            /\ \/ history' = history
               \/ history' = Append(history, Stored(Asked))
            /\ pc' = "paused" => durable /\ history' = Append(history, Stored(Asked))
            /\ pc' = "idle" => \/ result'.kind = "failed"
                              \/ ~durable
        BY <2>7 DEF Pause, PauseFails, Fail, Return
      <3>3. CASE history' = Append(history, Stored(Asked))
        <4>1. /\ history' # <<>> /\ Latest'.node = node /\ Latest'.state = state
              /\ Latest'.done = (node = END) /\ Latest'.intr = Asked
          BY <3>1, <3>3, SavedStored DEF Stored
        <4> QED
          BY <3>1, <3>2, <4>1, NameAssumption
             DEF Reported, LatestIsClosed, ResultIsStored, FailedNodeRunsAgain
      <3>4. CASE history' = history /\ pc' = "idle"
        BY <3>2, <3>4 DEF Reported, LatestIsClosed, ResultIsStored, FailedNodeRunsAgain, Latest
      <3> QED
        BY <3>2, <3>3, <3>4
    <2>8. CASE PauseReturns
      <3>1. /\ pc' = "idle" /\ history' = history /\ durable' = durable
            /\ result' = [kind |-> "paused", node |-> node, state |-> state, intr |-> Asked]
            /\ pc = "paused"
        BY <2>8 DEF PauseReturns, Return, Ready
      <3>2. durable => Latest.state = state /\ Latest.node = node
        BY <3>1 DEF OneSuperstepAhead, Reported, LatestIsClosed, Saved, Place
      <3> QED
        BY <3>1, <3>2, NameAssumption
           DEF Reported, LatestIsClosed, ResultIsStored, FailedNodeRunsAgain, Latest
    <2>9. CASE Emit \/ Environment \/ UNCHANGED vars
      <3>1. /\ history' = history /\ durable' = durable
            /\ UNCHANGED <<node, step, asked>>
            /\ \/ pc' = pc /\ result' = result
               \/ pc' = "idle" /\ result'.kind = "crashed"
        BY <2>9 DEF Emit, Deliver, Drop, Environment, Cancel, RequestDrain, StopReading,
                    Crash, Fail, Return, vars
      <3> QED
        BY <3>1, SavedKept DEF Reported, LatestIsClosed, ResultIsStored,
                               FailedNodeRunsAgain, Latest, Asked, Ask
    <2> QED
      BY <2>1, <2>2, <2>3, <2>4, <2>5, <2>6, <2>7, <2>8, <2>9
         DEF Next, Caller, Loop, Top, Execute, Saving
  <1>3. Reported => CallReports
    BY DEF Reported, CallReports
  <1> QED
    BY <1>1, <1>2, <1>3, TypeCorrect, StepsAreCounted, StaysOneSuperstepAhead, PTL DEF Spec

\* After Drain.Request (drain.go:32) a call starts at most one more node.
THEOREM DrainIsPrompt == Spec => []DrainStopsRun
  <1>1. Init => DrainStopsRun
    BY DEF Init, DrainStopsRun
  <1>2. TypeOK /\ DrainStopsRun /\ [Next]_vars => DrainStopsRun'
    <2> SUFFICES ASSUME DataOK, DrainStopsRun, [Next]_vars PROVE DrainStopsRun'
      BY DEF TypeOK
    <2> USE DEF store, loop, config, signals, await, events, DrainStopsRun
    <2>1. CASE Caller
      BY <2>1 DEF Caller, Run, ResumeDone, ResumeRefused, Resume, Call
    <2>2. CASE Top
      BY <2>2, NameAssumption
         DEF Top, Finish, StopEarly, StartNode, Fail, Return, Ready, DataOK
    <2>3. CASE Execute
      BY <2>3 DEF Execute, AwaitAnswered, AwaitInterrupts, Retry, NodeOk, Recover, NodeFails,
                  Executed, Ready, Fail, Return
    <2>4. CASE Routing
      BY <2>4 DEF Routing, FanOut, FanOutFails, TakeEdge, NoEdge, Ready, Fail, Return
    <2>5. CASE Saving
      BY <2>5 DEF Saving, Save, SaveFails, Pause, PauseFails, PauseReturns, Draining, Fail,
                  Return
    <2>6. CASE Emit \/ Environment \/ UNCHANGED vars
      BY <2>6 DEF Emit, Deliver, Drop, Environment, Cancel, RequestDrain, StopReading,
                  Crash, Fail, Return, vars
    <2> QED
      BY <2>1, <2>2, <2>3, <2>4, <2>5, <2>6 DEF Next, Loop
  <1> QED
    BY <1>1, <1>2, TypeCorrect, PTL DEF Spec
-----------------------------------------------------------------------------
(***************************************************************************)
(* CallerInTouch.  A resume value given for a question is unread only at   *)
(* the node that asked, or once that node's error handler has gone on      *)
(* without it (AnswerInv); one given for none is anybody's;                *)
(* the last event on its way to the reader is the state (StreamInv).       *)
(***************************************************************************)

\* Every node calls Await once at most.
OneAsk == \A n \in Node : Asks[n] <= 1

\* The node the resume value was for was recovered by its error handler.
Recovered == Len(state) > pending.step /\ state[pending.step + 1].by = "handler"

\* The value is for whichever Await comes first.
Strayed == pending = NoQuestion \/ Recovered

\* The run is back at the node that asked, before its Await.
AtAsker == /\ pc \in {"top", "exec"} /\ node \in Node /\ Asks[node] = 1
           /\ pending = Ask(node, 1)
           /\ pc = "exec" => asked = 0

\* The question a checkpoint is paused at is its own node's.
QuestionStored ==
    (history # <<>> /\ Latest.intr # NoQuestion) =>
      /\ Latest.node \in Node /\ Asks[Latest.node] = 1
      /\ Latest.intr = [node |-> Latest.node, ask |-> 1, step |-> Latest.step]

AnswerInv ==
    /\ QuestionStored
    /\ pc = "pause" => node \in Node /\ asked < Asks[node]
    /\ (Running /\ slot = "fresh") => AtAsker \/ Strayed
    /\ misled => Strayed

\* The reader has the state, or it comes last of what it is sent.
ToldLast == IF out = <<>> THEN seen = state ELSE out[Len(out)] = state

EndsInBranch == state # <<>> /\ state[Len(state)].by = "branch"

StreamInv ==
    /\ ~Running => out = <<>>
    /\ (Running /\ stream /\ ~cancelled /\ ~EndsInBranch) => ToldLast
    /\ StreamEndsWithResult

\* Strayed is about the call and the start of the state, and stays so as the
\* state grows (graph.go:372).
LEMMA StrayedGrows ==
    ASSUME DataOK, Strayed, pending' = pending, state' \in State,
           Len(state) <= Len(state'),
           \A i \in 1..Len(state) : state'[i] = state[i]
    PROVE  Strayed'
  <1>1. pending.step \in Nat /\ Len(state) \in Nat /\ Len(state') \in Nat
    BY DEF DataOK, Question, State
  <1>2. ASSUME Recovered PROVE Recovered'
    <2>1. pending.step + 1 \in 1..Len(state) /\ state[pending.step + 1].by = "handler"
      BY <1>1, <1>2 DEF Recovered
    <2>2. Len(state') > pending.step /\ state'[pending.step + 1] = state[pending.step + 1]
      BY <1>1, <2>1
    <2> QED
      BY <2>1, <2>2 DEF Recovered
  <1> QED
    BY <1>2 DEF Strayed

\* An execution more (graph.go:400) leaves the earlier ones.
LEMMA AppendGrows ==
    ASSUME NEW s \in State, NEW n \in Name, NEW by \in {"node", "handler", "branch"}
    PROVE  /\ Append(s, Exec(n, by)) # <<>>
           /\ Append(s, Exec(n, by))[Len(s) + 1].by = by
           /\ \A i \in 1..Len(s) : Append(s, Exec(n, by))[i] = s[i]
  <1>1. Exec(n, by) \in Execution /\ Exec(n, by).by = by
    BY DEF Exec, Execution
  <1>2. s \in Seq(Execution)
    BY DEF State
  <1> QED
    BY <1>1, <1>2

\* A reduced fan-out (graph.go:598) leaves the earlier executions, and its
\* branches come last.
LEMMA ReducedGrows ==
    ASSUME NEW s \in State, NEW sends \in Seq(Name)
    PROVE  /\ \A i \in 1..Len(s) : Reduced(s, sends)[i] = s[i]
           /\ sends = <<>> => Reduced(s, sends) = s
           /\ sends # <<>> => /\ Reduced(s, sends) # <<>>
                              /\ Reduced(s, sends)[Len(Reduced(s, sends))].by = "branch"
  <1>1. /\ s \in Seq(Execution) /\ BranchRuns(sends) \in Seq(Execution)
        /\ Len(BranchRuns(sends)) = Len(sends) /\ Len(sends) \in Nat /\ Len(s) \in Nat
    BY BranchRunsType DEF State
  <1>2. /\ Len(Reduced(s, sends)) = Len(s) + Len(sends)
        /\ \A i \in 1..(Len(s) + Len(sends)) :
              Reduced(s, sends)[i] = IF i <= Len(s) THEN s[i] ELSE BranchRuns(sends)[i - Len(s)]
    BY <1>1 DEF Reduced
  <1>3. \A i \in 1..Len(s) : Reduced(s, sends)[i] = s[i]
    BY <1>1, <1>2
  <1>4. ASSUME sends = <<>> PROVE Reduced(s, sends) = s
    <2>1. Reduced(s, sends) \in Seq(Execution) /\ Len(sends) = 0
      BY <1>1, <1>4, ReducedType DEF State
    <2> QED
      BY <1>1, <1>2, <1>3, <2>1
  <1>5. ASSUME sends # <<>>
        PROVE  /\ Reduced(s, sends) # <<>>
               /\ Reduced(s, sends)[Len(Reduced(s, sends))].by = "branch"
    <2>1. Len(sends) \in 1..Len(sends)
      BY <1>5
    <2>2. Reduced(s, sends)[Len(s) + Len(sends)] = BranchRuns(sends)[Len(sends)]
      BY <1>1, <1>2, <2>1
    <2>3. BranchRuns(sends)[Len(sends)].by = "branch"
      BY <2>1 DEF BranchRuns, Exec
    <2>4. Len(Reduced(s, sends)) # 0
      BY <1>1, <1>2, <2>1
    <2> QED
      BY <1>2, <2>2, <2>3, <2>4
  <1> QED
    BY <1>3, <1>4, <1>5


\* The resume value (interrupt.go:75) is accounted for at every step, when every
\* node asks once at most.
LEMMA AnswerAccounted ==
    ASSUME OneAsk, DataOK, DataOK', StepsCounted, AnswerInv, [Next]_vars
    PROVE  AnswerInv'
  <1> USE DEF store, loop, config, signals, await, events
  <1>1. /\ step = Len(state) /\ (pc = "exec" => node \in Node)
        /\ pending \in Question /\ asked \in Nat /\ state \in State /\ step \in Nat
        /\ \A n \in Node : Asks[n] \in {0, 1}
    <2>1. \A n \in Node : Asks[n] \in Nat /\ Asks[n] <= 1
      BY AskAssumption DEF OneAsk
    <2>2. \A n \in Node : Asks[n] \in {0, 1}
      BY <2>1
    <2>3. step = Len(state) /\ (pc = "exec" => node \in Node)
      BY DEF StepsCounted
    <2>4. pending \in Question /\ asked \in Nat /\ state \in State /\ step \in Nat
      BY DEF DataOK
    <2> QED
      BY <2>2, <2>3, <2>4
  <1>2. ASSUME UNCHANGED <<history, pending, state, misled>>,
               pc' = "pause" => node' \in Node /\ asked' < Asks[node'],
               (Running' /\ slot' = "fresh") => AtAsker' \/ Strayed
        PROVE  AnswerInv'
    BY <1>2 DEF AnswerInv, QuestionStored, Latest, Strayed, Recovered
  <1>3. CASE Caller
    <2>1. /\ history' = history /\ misled' = FALSE /\ pc' # "pause"
      BY <1>3 DEF Caller, Run, ResumeDone, ResumeRefused, Resume, Call
    <2>2. QuestionStored'
      BY <2>1 DEF AnswerInv, QuestionStored, Latest
    <2>3. (Running' /\ slot' = "fresh") => AtAsker' \/ Strayed'
      <3>1. CASE Run \/ ResumeDone \/ ResumeRefused
        BY <3>1 DEF Run, ResumeDone, ResumeRefused, Call, Running
      <3>2. CASE Resume
        <4>1. PICK value \in {"none", "fresh"} :
                 /\ slot' = value /\ pending' = Load.intr /\ history # <<>>
                 /\ pc' = "top" /\ node' = Load.node /\ step' = Load.step
          BY <3>2 DEF Resume, Call
        <4>2. Load = Latest
          BY DEF Load, Latest
        <4>3. CASE Latest.intr = NoQuestion
          BY <4>1, <4>2, <4>3 DEF Strayed
        <4>4. CASE Latest.intr # NoQuestion
          BY <4>1, <4>2, <4>4 DEF AtAsker, Ask, AnswerInv, QuestionStored
        <4> QED
          BY <4>3, <4>4
      <3> QED
        BY <1>3, <3>1, <3>2 DEF Caller
    <2> QED
      BY <2>1, <2>2, <2>3 DEF AnswerInv
  <1>4. CASE Top
    BY <1>1, <1>2, <1>4 DEF Top, Finish, StopEarly, StartNode, Fail, Return, Ready, Running,
                       AnswerInv, AtAsker, Ask
  <1>5. CASE AwaitAnswered
    <2>1. /\ slot = "fresh" /\ Running /\ pc = "exec" /\ pc' = "exec" /\ slot' = "used"
          /\ UNCHANGED <<history, pending, state>>
          /\ misled' = (misled \/ pending # Ask(node, asked + 1))
      BY <1>5 DEF AwaitAnswered, SlotAfterAwait, Ready, Running
    <2>2. AtAsker => pending = Ask(node, asked + 1)
      BY <2>1 DEF AtAsker
    <2>3. misled' => Strayed
      BY <2>1, <2>2 DEF AnswerInv
    <2>4. QuestionStored' /\ Strayed' = Strayed
      BY <2>1 DEF AnswerInv, QuestionStored, Latest, Strayed, Recovered
    <2> QED
      BY <2>1, <2>3, <2>4 DEF AnswerInv
  <1>6. CASE AwaitInterrupts
    BY <1>1, <1>2, <1>6 DEF AwaitInterrupts, Ready, Running
  <1>7. CASE Retry
    BY <1>2, <1>7 DEF Retry, Ready, Running, AnswerInv, AtAsker, Ask
  <1>8. CASE NodeFails
    BY <1>2, <1>8 DEF NodeFails, Fail, Return, Running
  <1>9. ASSUME NEW by \in {"node", "handler"}, NEW to \in {"route", "save"}, NEW next,
               pc = "exec", Executed(by, to, next),
               slot = "fresh" /\ AtAsker => by = "handler"
        PROVE  AnswerInv'
    <2>1. /\ UNCHANGED <<history, pending, misled, slot>>
          /\ state' = Append(state, Exec(node, by)) /\ pc' \in {"route", "save"}
      BY <1>9 DEF Executed
    <2>2. node \in Name
      BY DEF DataOK
    <2>3. /\ state' \in State /\ Len(state') = Len(state) + 1
          /\ state'[Len(state) + 1].by = by
          /\ \A i \in 1..Len(state) : state'[i] = state[i]
      BY <1>1, <2>1, <2>2, AppendType, AppendGrows
    <2>4. Strayed => Strayed'
      <3>1. Len(state) <= Len(state')
        BY <1>1, <2>3
      <3> QED
        BY <2>1, <2>3, <3>1, StrayedGrows
    <2>5. ASSUME slot = "fresh", AtAsker PROVE Strayed'
      <3>1. pending.step = Len(state) /\ by = "handler"
        BY <1>1, <1>9, <2>5 DEF AtAsker, Ask
      <3> QED
        BY <1>1, <2>1, <2>3, <3>1 DEF Strayed, Recovered
    <2>6. (Running' /\ slot' = "fresh") => Strayed'
      BY <1>9, <2>1, <2>4, <2>5 DEF AnswerInv, Running
    <2>7. misled' => Strayed'
      BY <2>1, <2>4 DEF AnswerInv
    <2>8. QuestionStored'
      BY <2>1 DEF AnswerInv, QuestionStored, Latest
    <2> QED
      BY <2>1, <2>6, <2>7, <2>8 DEF AnswerInv
  <1>10. CASE NodeOk
    <2>1. pc = "exec" /\ asked = Asks[node] /\ Executed("node", "route", node)
      BY <1>10 DEF NodeOk, Ready
    <2>2. ~AtAsker
      BY <2>1 DEF AtAsker
    <2> QED
      BY <1>9, <2>1, <2>2
  <1>11. CASE Recover
    BY <1>9, <1>11 DEF Recover, Ready
  <1>12. CASE FanOut
    <2>1. PICK sends \in Fan[node] :
             node \in DOMAIN Fan /\ state' = Reduced(state, sends)
      BY <1>12 DEF FanOut
    <2>2. sends \in Seq(Name)
      BY <2>1, FanType
    <2>3. /\ UNCHANGED <<history, pending>> /\ pc = "route" /\ pc' = "save"
          /\ \/ slot' = slot /\ misled' = misled
             \/ slot = "fresh" /\ slot' = "used"
      BY <1>12 DEF FanOut, Ready, SlotAfterAwait
    <2>4. Strayed => Strayed'
      <3>1. /\ state' \in State /\ Len(state) <= Len(state')
            /\ \A i \in 1..Len(state) : state'[i] = state[i]
        BY <1>1, <2>1, <2>2, ReducedType, ReducedGrows
      <3> QED
        BY <2>3, <3>1, StrayedGrows
    <2>5. slot = "fresh" => Strayed
      BY <2>3 DEF AnswerInv, AtAsker, Running
    <2>6. QuestionStored'
      BY <2>3 DEF AnswerInv, QuestionStored, Latest
    <2>7. misled' => Strayed'
      BY <2>3, <2>4, <2>5 DEF AnswerInv
    <2> QED
      BY <2>3, <2>4, <2>5, <2>6, <2>7 DEF AnswerInv
  <1>13. CASE FanOutFails \/ TakeEdge \/ NoEdge
    BY <1>2, <1>13 DEF FanOutFails, TakeEdge, NoEdge, Fail, Return, Ready, Running,
                       AnswerInv, AtAsker
  <1>14. CASE Save \/ SaveFails
    <2>1. /\ UNCHANGED <<pending, state, misled, slot>>
          /\ pc = "save" /\ pc' \in {"top", "idle"}
          /\ \/ history' = history
             \/ history' = Append(history, Stored(NoQuestion))
      BY <1>14 DEF Save, SaveFails, Fail, Return, Ready
    <2>2. QuestionStored'
      <3>1. CASE history' = history
        BY <3>1 DEF AnswerInv, QuestionStored, Latest
      <3>2. CASE history' = Append(history, Stored(NoQuestion))
        <4>1. Latest'.intr = NoQuestion
          BY <3>2, QuestionType, SavedStored DEF Stored
        <4> QED
          BY <4>1 DEF QuestionStored
      <3> QED
        BY <2>1, <3>1, <3>2
    <2>3. slot = "fresh" => Strayed
      BY <2>1 DEF AnswerInv, AtAsker, Running
    <2> QED
      BY <2>1, <2>2, <2>3 DEF AnswerInv, Strayed, Recovered
  <1>15. CASE Pause \/ PauseFails
    <2>1. /\ UNCHANGED <<pending, state, misled, slot>>
          /\ pc = "pause" /\ pc' \in {"paused", "idle"}
          /\ \/ history' = history
             \/ history' = Append(history, Stored(Asked))
      BY <1>15 DEF Pause, PauseFails, Fail, Return, Ready
    <2>2. node \in Node /\ Asks[node] = 1 /\ asked = 0
      BY <1>1, <2>1 DEF AnswerInv
    <2>3. QuestionStored'
      <3>1. CASE history' = history
        BY <3>1 DEF AnswerInv, QuestionStored, Latest
      <3>2. CASE history' = Append(history, Stored(Asked))
        <4>1. Latest' = Stored(Asked) /\ Asked = Ask(node, 1)
          BY <2>2, <3>2, QuestionType, SavedStored DEF Asked, DataOK
        <4>2. /\ Latest'.node = node /\ Latest'.step = step
              /\ Latest'.intr = [node |-> node, ask |-> 1, step |-> step]
          BY <4>1 DEF Stored, Ask
        <4> QED
          BY <2>2, <4>2 DEF QuestionStored
      <3> QED
        BY <2>1, <3>1, <3>2
    <2>4. slot = "fresh" => Strayed
      BY <2>1 DEF AnswerInv, AtAsker, Running
    <2> QED
      BY <2>1, <2>3, <2>4 DEF AnswerInv, Strayed, Recovered
  <1>16. CASE PauseReturns \/ Crash
    BY <1>2, <1>16 DEF PauseReturns, Crash, Fail, Return, Running
  <1>17. CASE Emit \/ Cancel \/ RequestDrain \/ StopReading \/ UNCHANGED vars
    <2>1. UNCHANGED <<history, pending, state, misled, slot, pc, node, asked, step>>
      BY <1>17 DEF Emit, Deliver, Drop, Cancel, RequestDrain, StopReading, vars
    <2> QED
      BY <2>1 DEF AnswerInv, QuestionStored, Latest, Running, AtAsker, Ask, Strayed, Recovered
  <1> QED
    BY <1>3, <1>4, <1>5, <1>6, <1>7, <1>8, <1>10, <1>11, <1>12, <1>13, <1>14, <1>15, <1>16,
       <1>17
       DEF Next, Loop, Execute, Routing, Saving, Environment

\* What a stream's reader was sent last (graph.go:308) is the state, at every
\* step.
LEMMA StreamTold ==
    ASSUME DataOK, DataOK', StreamInv, [Next]_vars
    PROVE  StreamInv'
  <1> USE DEF store, loop, config, signals, await, events
  <1>1. ASSUME UNCHANGED <<state, out, seen, stream, cancelled, result>>,
               Running' = Running
        PROVE  StreamInv'
    BY <1>1 DEF StreamInv, EndsInBranch, ToldLast, StreamEndsWithResult, Running
  <1>2. ASSUME UNCHANGED <<state, out, seen, stream, cancelled>>, Running, out = <<>>,
               pc' = "idle", result'.state = state
        PROVE  StreamInv'
    BY <1>2 DEF StreamInv, EndsInBranch, ToldLast, StreamEndsWithResult, Running
  <1>3. CASE Caller
    <2>1. CASE Run
      BY <2>1 DEF Run, Call, StreamInv, ToldLast, StreamEndsWithResult, Running
    <2>2. CASE ResumeDone \/ ResumeRefused \/ Resume
      <3>1. stream' = FALSE /\ out' = <<>>
        BY <2>2 DEF ResumeDone, ResumeRefused, Resume, Call
      <3> QED
        BY <3>1 DEF StreamInv, StreamEndsWithResult
    <2> QED
      BY <1>3, <2>1, <2>2 DEF Caller
  <1>4. CASE Finish \/ StopEarly \/ NodeFails \/ FanOutFails \/ NoEdge \/ SaveFails
             \/ PauseFails \/ PauseReturns
    BY <1>2, <1>4 DEF Finish, StopEarly, NodeFails, FanOutFails, NoEdge, SaveFails, PauseFails,
                      PauseReturns, Fail, Return, Ready, Running
  <1>5. CASE StartNode \/ AwaitAnswered \/ AwaitInterrupts \/ Retry \/ TakeEdge
    BY <1>1, <1>5 DEF StartNode, AwaitAnswered, AwaitInterrupts, Retry, TakeEdge, Ready, Running
  <1>6. ASSUME NEW by, NEW to \in {"route", "save"}, NEW next, Executed(by, to, next)
        PROVE  StreamInv'
    <2>1. /\ pc' # "idle" /\ stream' = stream
          /\ stream => out' = <<state'>>
      BY <1>6 DEF Executed, Record
    <2>2. stream => ToldLast'
      <3>1. \A s : <<s>> # <<>> /\ Len(<<s>>) = 1 /\ <<s>>[1] = s
        OBVIOUS
      <3> QED
        BY <2>1, <3>1 DEF ToldLast
    <2> QED
      BY <2>1, <2>2 DEF StreamInv, StreamEndsWithResult, Running
  <1>7. CASE NodeOk \/ Recover
    BY <1>6, <1>7 DEF NodeOk, Recover
  <1>8. CASE FanOut
    <2>1. PICK sends \in Fan[node] :
             /\ node \in DOMAIN Fan /\ state' = Reduced(state, sends)
             /\ out' = IF stream
                       THEN [i \in 1..Len(sends) |-> Append(state, Exec(sends[i], "branch"))]
                       ELSE <<>>
      BY <1>8 DEF FanOut, Record
    <2>2. sends \in Seq(Name) /\ state \in State
      BY <2>1, FanType DEF DataOK
    <2>3. /\ UNCHANGED <<stream, cancelled, seen>> /\ pc = "route" /\ pc' = "save"
          /\ out = <<>>
      BY <1>8 DEF FanOut, Ready
    <2>4. CASE sends = <<>>
      <3>1. state' = state
        BY <2>1, <2>2, <2>4, ReducedGrows
      <3>2. out' = <<>>
        BY <2>1, <2>2, <2>4, BranchEventsType
      <3> QED
        BY <2>3, <3>1, <3>2 DEF StreamInv, EndsInBranch, ToldLast, StreamEndsWithResult, Running
    <2>5. CASE sends # <<>>
      <3>1. EndsInBranch'
        BY <2>1, <2>2, <2>5, ReducedGrows DEF EndsInBranch
      <3> QED
        BY <2>3, <3>1 DEF StreamInv, StreamEndsWithResult, Running
    <2> QED
      BY <2>4, <2>5
  <1>9. CASE Save
    <2>1. /\ UNCHANGED <<state, out, seen, stream, cancelled>> /\ out = <<>> /\ pc = "save"
          /\ \/ pc' = "top" /\ result' = result
             \/ pc' = "idle" /\ result'.state = state
      BY <1>9 DEF Save, Return, Ready
    <2> QED
      BY <1>1, <1>2, <2>1 DEF Running
  <1>10. CASE Pause
    <2>1. CASE durable
      <3>1. /\ pc' = "paused" /\ UNCHANGED <<stream, state>>
            /\ stream => out' = <<state>>
        BY <1>10, <2>1 DEF Pause, Record
      <3>2. stream => ToldLast'
        <4>1. \A s : <<s>> # <<>> /\ Len(<<s>>) = 1 /\ <<s>>[1] = s
          OBVIOUS
        <4> QED
          BY <3>1, <4>1 DEF ToldLast
      <3> QED
        BY <3>1, <3>2 DEF StreamInv, StreamEndsWithResult, Running
    <2>2. CASE ~durable
      BY <1>2, <1>10, <2>2 DEF Pause, Fail, Return, Ready, Running
    <2> QED
      BY <2>1, <2>2
  <1>11. CASE Deliver
    <2>1. /\ out # <<>> /\ seen' = Head(out) /\ out' = Tail(out) /\ out \in Seq(State)
          /\ UNCHANGED <<state, stream, cancelled, result, pc>>
      BY <1>11 DEF Deliver, DataOK
    <2>2. Running
      BY <2>1 DEF StreamInv
    <2>3. ToldLast => ToldLast'
      <3>1. CASE Len(out) = 1
        BY <2>1, <3>1 DEF ToldLast
      <3>2. CASE Len(out) # 1
        <4>1. Tail(out) # <<>> /\ Len(Tail(out)) = Len(out) - 1
              /\ Tail(out)[Len(out) - 1] = out[Len(out)]
          <5>1. /\ Len(out) \in Nat /\ Len(out) # 0 /\ Tail(out) \in Seq(State)
                /\ Len(Tail(out)) = Len(out) - 1
                /\ \A i \in 1..Len(Tail(out)) : Tail(out)[i] = out[i + 1]
            BY <2>1, HeadTailProperties
          <5>2. Len(out) - 1 \in 1..Len(Tail(out)) /\ (Len(out) - 1) + 1 = Len(out)
            BY <3>2, <5>1
          <5>3. Tail(out) # <<>>
            <6>1. Len(Tail(out)) # 0
              BY <5>2
            <6>2. \A s : Len(s) # 0 => s # <<>>
              OBVIOUS
            <6> QED
              BY <6>1, <6>2, Zenon
          <5>4. Tail(out)[Len(out) - 1] = out[(Len(out) - 1) + 1]
            BY <5>1, <5>2
          <5> QED
            BY <5>1, <5>2, <5>3, <5>4
        <4> QED
          BY <2>1, <4>1 DEF ToldLast
      <3> QED
        BY <3>1, <3>2
    <2> QED
      BY <2>1, <2>2, <2>3 DEF StreamInv, EndsInBranch, StreamEndsWithResult, Running
  <1>12. CASE Drop
    BY <1>12 DEF Drop, GivesUp, StreamInv, StreamEndsWithResult, Running
  <1>13. CASE Cancel
    BY <1>13 DEF Cancel, StreamInv, StreamEndsWithResult, Running
  <1>14. CASE RequestDrain \/ StopReading
    BY <1>1, <1>14 DEF RequestDrain, StopReading, Running
  <1>15. CASE Crash
    BY <1>15 DEF Crash, Fail, Return, StreamInv, StreamEndsWithResult, Running
  <1>16. CASE UNCHANGED vars
    BY <1>1, <1>16 DEF vars, Running
  <1> QED
    BY <1>3, <1>4, <1>5, <1>7, <1>8, <1>9, <1>10, <1>11, <1>12, <1>13, <1>14, <1>15, <1>16
       DEF Next, Loop, Top, Execute, Routing, Saving, Emit, Environment

\* A stream (graph.go:308) that was not cancelled ends with the final state, for
\* every graph, unless its last superstep was a fan-out.
THEOREM LastEventIsTheState == Spec => []StreamInv
  <1>1. Init => StreamInv
    BY DEF Init, StreamInv, StreamEndsWithResult, Running
  <1>2. TypeOK /\ TypeOK' /\ StreamInv /\ [Next]_vars => StreamInv'
    BY StreamTold DEF TypeOK
  <1> QED
    BY <1>1, <1>2, TypeCorrect, PTL DEF Spec

\* What passes between a call and its caller (graph.go:308, interrupt.go:75) is the
\* run's own: in every graph whose nodes ask once at most, a resume value given
\* for a question is taken by the node that asked, unless its error handler
\* went on without it, and a stream ends with the final state.
THEOREM CallerAlwaysInTouch ==
    ASSUME OneAsk
    PROVE  Spec => []CallerInTouch
  <1>1. Init => AnswerInv
    BY DEF Init, AnswerInv, QuestionStored, Running
  <1>2. TypeOK /\ TypeOK' /\ StepsCounted /\ AnswerInv /\ [Next]_vars => AnswerInv'
    BY AnswerAccounted DEF TypeOK
  <1>3. AnswerInv /\ StreamInv => CallerInTouch
    BY DEF AnswerInv, StreamInv, CallerInTouch, AnswerStaysWithAsker, Strayed, Recovered
  <1> QED
    BY <1>1, <1>2, <1>3, TypeCorrect, StepsAreCounted, LastEventIsTheState, PTL DEF Spec
=============================================================================
