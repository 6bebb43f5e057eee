-------------------------- MODULE AgentLoopProofs ---------------------------
(***************************************************************************)
(* Proofs about the agent's run and the memory of its conversation.        *)
(*                                                                         *)
(* AgentLoop, for any tools, configurations and bounds.  On top of the     *)
(* types, each property has an invariant of its own:                       *)
(*                                                                         *)
(*   HumanDecides      a human is asked about a call that has no decision, *)
(*                     and was asked once about each that has (Asked);     *)
(*   LimitsKept        what was executed is paid for by the calls that     *)
(*                     were counted, each with one execution and its       *)
(*                     retries; the call being made has paid for its tries *)
(*                     so far (Paid);                                      *)
(*   SoundRequest      between rounds every call has its result and every  *)
(*                     result its call (Valid); in a round only its own    *)
(*                     message waits for results (OpenRound); and the last *)
(*                     round is at the end until the next one (LastRound); *)
(*   EventsTellTheRun  emit hands over one event at a time; a result       *)
(*                     follows its call (CallsPaired), and nothing follows *)
(*                     the final event (EndsOnce).                         *)
(*                                                                         *)
(* ConversationMemory, for any roles, sizes and limits.  TrimsRight speaks *)
(* of the end of Add; the invariant says what holds between two turns of   *)
(* its loop: the messages are numbered in order up to the newest and few   *)
(* enough (Trimmed), and once the loop has ended it had nothing more to do *)
(* or nothing left to remove (LoopRanOut).  The prompt stays because it is *)
(* all there is until another message comes (PromptFirst).                 *)
(***************************************************************************)
EXTENDS AgentLoop, ConversationMemory, SequenceLemmas, Integers, FiniteSetTheorems, NaturalsInduction

-----------------------------------------------------------------------------
(* Types. *)

InRound == pc \in {"call", "exec", "sleep"}

Types ==
    /\ setup \in Setups
    /\ iteration \in Nat /\ attempt \in Nat /\ total \in Nat /\ executions \in Nat /\ current \in Nat
    /\ stats \in [Tool -> Nat] /\ ran \in [Tool -> Nat] /\ shown \in [Tool -> Nat]
    /\ decided \in [Tool -> {"none", "approve", "reject"}] /\ asking \in Tool \union {NoTool}
    /\ response \in Seq(Tool)
    /\ InRound => current \in 1..Len(response)

\* What the configurations are made of.
LEMMA SetupTypes ==
    ASSUME setup \in Setups
    PROVE  /\ setup.keepResults \in Nat /\ setup.keepRecent \in Nat
           /\ setup.modelLimit \in Nat /\ setup.toolLimit \in Nat /\ setup.retries \in Nat
           /\ setup.tools \subseteq Tool /\ setup.named \subseteq Tool /\ setup.awaits \subseteq Tool
           /\ NoTool \notin Tool
  BY AgentAssumption

\* The rest of a call's handler, once it returned (agent.go:189).
LEMMA CallEndsTyped ==
    ASSUME Types, InRound, CallEnds
    PROVE  /\ current' \in 1..Len(response) /\ current' \in Nat /\ attempt' = attempt
           /\ pc' \in {"call", "next"}
  <1>1. current \in 1..Len(response) /\ Len(response) \in Nat
    BY DEF Types
  <1>2. CASE current < Len(response)
    <2>1. current' = current + 1 /\ pc' = "call" /\ attempt' = attempt
      BY <1>2 DEF CallEnds
    <2>2. current + 1 \in 1..Len(response) /\ current + 1 \in Nat
      BY <1>1, <1>2
    <2> QED
      BY <2>1, <2>2
  <1>3. CASE ~(current < Len(response))
    <2>1. current' = current /\ pc' = "next" /\ attempt' = attempt
      BY <1>3 DEF CallEnds
    <2> QED
      BY <1>1, <2>1
  <1> QED
    BY <1>2, <1>3

\* An execution is counted (agent.go:189).
LEMMA RanTyped ==
    ASSUME Types, pc = "exec", Ran \/ UNCHANGED runs
    PROVE  ran' \in [Tool -> Nat] /\ executions' \in Nat
  <1>1. Called \in Tool
    BY DEF Types, InRound, Called
  <1>2. CASE Ran
    <2>1. ran' = [ran EXCEPT ![Called] = @ + 1] /\ executions' = executions + 1
      BY <1>2 DEF Ran
    <2> QED
      BY <1>1, <2>1 DEF Types
  <1> QED
    BY <1>2 DEF Types, runs

\* Types are kept (agent.go, run).
LEMMA TypesKept == Types /\ [Next]_vars => Types'
  <1> SUFFICES ASSUME Types, [Next]_vars PROVE Types'
    OBVIOUS
  <1> USE DEF Types, InRound, Ready, agent, conversation, calling, counts, runs, review
  <1>1. ASSUME NextIteration \/ BeforeModel \/ BeforeModelFails \/ ModelFails PROVE Types'
    BY <1>1 DEF NextIteration, BeforeModel, BeforeModelFails, ModelFails, Return
  <1>2. ASSUME ModelAnswers PROVE Types'
    <2>1. PICK k \in 0..MaxCalls : response' \in [1..k -> setup.tools]
      BY <1>2 DEF ModelAnswers
    <2>2. response' \in Seq(Tool)
      BY <2>1, SetupTypes, AgentAssumption
    <2> QED
      BY <1>2, <2>2 DEF ModelAnswers
  <1>3. ASSUME AfterModelFails \/ Answer \/ NoExecutor PROVE Types'
    BY <1>3 DEF AfterModelFails, Answer, NoExecutor, Return
  <1>4. ASSUME StartRound PROVE Types'
    BY <1>4, SMTT(30) DEF StartRound
  <1>5. ASSUME StartCall PROVE Types'
    <2>1. pc = "call" /\ Called \in Tool
      BY <1>5 DEF StartCall, Called
    <2>2. stats' = [stats EXCEPT ![Called] = @ + 1] /\ total' = total + 1
      BY <1>5 DEF StartCall
    <2>3. stats' \in [Tool -> Nat] /\ total' \in Nat
      BY <2>1, <2>2, SMTT(30)
    <2>4. /\ attempt' = 0
          /\ UNCHANGED <<setup, iteration, executions, current, ran, shown, decided, asking, response>>
      BY <1>5 DEF StartCall
    <2> QED
      BY <2>1, <2>3, <2>4
  <1>6. ASSUME Refuse \/ ToolRejected \/ BackoffCut PROVE Types'
    <2>1. CASE CallEnds
      BY <1>6, <2>1, CallEndsTyped DEF Refuse, ToolRejected, BackoffCut
    <2>2. CASE ~CallEnds
      BY <1>6, <2>2 DEF Refuse, ToolRejected, BackoffCut, AfterError
    <2> QED
      BY <2>1, <2>2
  <1>7. ASSUME ToolReturns \/ ToolFails PROVE Types'
    <2>1. ran' \in [Tool -> Nat] /\ executions' \in Nat
      <3>1. pc = "exec" /\ (Ran)
        BY <1>7 DEF ToolReturns, ToolFails
      <3> QED
        BY <3>1, RanTyped
    <2>2. CASE CallEnds
      BY <1>7, <2>1, <2>2, CallEndsTyped DEF ToolReturns, ToolFails
    <2>3. CASE ~CallEnds
      BY <1>7, <2>1, <2>3 DEF ToolReturns, ToolFails, AfterError
    <2> QED
      BY <2>2, <2>3
  <1>8. ASSUME ToolAborts PROVE Types'
    <2>1. ran' \in [Tool -> Nat] /\ executions' \in Nat
      <3>1. pc = "exec" /\ (Ran \/ UNCHANGED runs)
        BY <1>8 DEF ToolAborts
      <3> QED
        BY <3>1, RanTyped
    <2> QED
      BY <1>8, <2>1 DEF ToolAborts, Aborted, Return
  <1>9. ASSUME AwaitApproval PROVE Types'
    BY <1>9 DEF AwaitApproval, Aborted, Return, Called
  <1>10. ASSUME BackoffEnds \/ Finish \/ Deliver \/ Drop \/ Cancel \/ StopReading \/ UNCHANGED vars PROVE Types'
    BY <1>10, SMTT(30) DEF BackoffEnds, Finish, Deliver, Drop, Cancel, StopReading, vars
  <1>11. ASSUME Resume PROVE Types'
    <2>1. asking \in Tool
      BY <1>11 DEF Resume
    <2>2. decided' \in [Tool -> {"none", "approve", "reject"}] /\ shown' \in [Tool -> Nat]
      BY <1>11, <2>1 DEF Resume, With
    <2>3. response' \in Seq(Tool)
      BY <1>11 DEF Resume
    <2> QED
      BY <1>11, <2>2, <2>3 DEF Resume
  <1> QED
    BY <1>1, <1>2, <1>3, <1>4, <1>5, <1>6, <1>7, <1>8, <1>9, <1>10, <1>11
       DEF Next, Loop, ModelCall, Outcome, ToolCall

-----------------------------------------------------------------------------
(* HumanDecides. *)

Asked ==
    /\ asking # NoTool => decided[asking] = "none"
    /\ \A t \in Tool : shown[t] = IF decided[t] = "none" THEN 0 ELSE 1
    /\ \A t \in setup.awaits : ran[t] > 0 => decided[t] = "approve"

(***************************************************************************)
(* A guarded tool runs only after a human approved (hitl.go:209), and no   *)
(* human is asked twice about the same call, however often the node is     *)
(* replayed, whatever the model calls then, and whatever is retried.       *)
(***************************************************************************)
THEOREM HumanAlwaysDecides == Spec => []HumanDecides
  <1>1. Init => Types /\ Asked
    BY SetupTypes DEF Init, Types, Asked, InRound
  <1>2. Types /\ Asked /\ [Next]_vars => Types' /\ Asked'
    <2> SUFFICES ASSUME Types, Asked, [Next]_vars PROVE Asked'
      BY TypesKept
    <2> USE DEF Asked, Types, agent, conversation, calling, counts, runs, review
    <2>1. CASE UNCHANGED <<setup, asking, decided, shown, ran>>
      BY <2>1
    <2>2. ASSUME Ran, "approve" \in Decisions(Called), Ready("exec"), UNCHANGED <<setup, asking, decided, shown>>
          PROVE  Asked'
      <3>1. Called \in Tool
        BY <2>2 DEF Ready, InRound, Called
      <3>2. ASSUME NEW t \in setup.awaits, ran'[t] > 0 PROVE decided[t] = "approve"
        <4>1. CASE t = Called
          BY <2>2, <4>1 DEF Decisions
        <4>2. CASE t # Called
          <5>1. t \in Tool
            BY SetupTypes
          <5>2. ran'[t] = ran[t]
            BY <2>2, <4>2, <5>1 DEF Ran
          <5> QED
            BY <3>2, <5>2
        <4> QED
          BY <4>1, <4>2
      <3> QED
        BY <2>2, <3>2
    <2>3. CASE AwaitApproval
      <3>1. asking' = Called /\ UNCHANGED <<setup, decided, shown, ran>>
        BY <2>3 DEF AwaitApproval, Aborted
      <3>2. decided[Called] = "none"
        BY <2>3 DEF AwaitApproval, Decisions
      <3> QED
        BY <3>1, <3>2
    <2>4. CASE Resume
      <3>1. PICK d \in {"approve", "reject"} : decided' = With(d)
        BY <2>4 DEF Resume
      <3>2. /\ asking # NoTool /\ asking' = NoTool /\ setup' = setup
            /\ shown' = [shown EXCEPT ![asking] = @ + 1] /\ ran' = [t \in Tool |-> 0]
        BY <2>4 DEF Resume
      <3>3. ASSUME NEW t \in Tool PROVE shown'[t] = IF decided'[t] = "none" THEN 0 ELSE 1
        <4>1. CASE t = asking
          <5>1. shown[t] = 0
            BY <3>2, <4>1
          <5>2. shown'[t] = 1 /\ decided'[t] = d
            BY <3>1, <3>2, <4>1, <5>1 DEF With
          <5>3. d # "none"
            BY <3>1
          <5> QED
            BY <5>2, <5>3
        <4>2. CASE t # asking
          BY <3>1, <3>2, <4>2 DEF With
        <4> QED
          BY <4>1, <4>2
      <3>4. ASSUME NEW t \in setup.awaits PROVE ran'[t] = 0
        BY <3>2, SetupTypes
      <3> QED
        BY <3>2, <3>3, <3>4
    <2>5. \/ UNCHANGED <<setup, asking, decided, shown, ran>>
          \/ /\ Ran /\ "approve" \in Decisions(Called) /\ Ready("exec")
             /\ UNCHANGED <<setup, asking, decided, shown>>
          \/ AwaitApproval \/ Resume
      <3>1. CASE UNCHANGED vars
        BY <3>1 DEF vars
      <3>2. CASE NextIteration \/ ModelCall \/ Outcome
        BY <3>2 DEF NextIteration, ModelCall, BeforeModel, BeforeModelFails, ModelAnswers, ModelFails,
                    Outcome, AfterModelFails, Answer, NoExecutor, StartRound
      <3>3. CASE StartCall \/ Refuse \/ ToolRejected \/ BackoffEnds \/ BackoffCut
        BY <3>3 DEF StartCall, Refuse, ToolRejected, BackoffEnds, BackoffCut
      <3>4. CASE ToolReturns \/ ToolFails
        BY <3>4 DEF ToolReturns, ToolFails
      <3>5. CASE ToolAborts
        BY <3>5 DEF ToolAborts, Aborted
      <3>6. CASE Finish \/ Deliver \/ Drop \/ Cancel \/ StopReading
        BY <3>6 DEF Finish, Deliver, Drop, Cancel, StopReading
      <3> QED
        BY <3>1, <3>2, <3>3, <3>4, <3>5, <3>6 DEF Next, Loop, ToolCall
    <2> QED
      BY <2>1, <2>2, <2>3, <2>4, <2>5
  <1>3. Types /\ Asked => HumanDecides
    <2> SUFFICES ASSUME Types, Asked, NEW t \in setup.awaits
                 PROVE  (ran[t] > 0 => decided[t] = "approve") /\ shown[t] <= 1
      BY DEF HumanDecides
    <2>1. t \in Tool
      BY SetupTypes DEF Types
    <2>2. shown[t] = IF decided[t] = "none" THEN 0 ELSE 1
      BY <2>1 DEF Asked
    <2>3. shown[t] <= 1
      <3>1. shown[t] \in {0, 1}
        BY <2>2
      <3> QED
        BY <3>1
    <2> QED
      BY <2>3 DEF Asked
  <1> QED
    BY <1>1, <1>2, <1>3, PTL DEF Spec

-----------------------------------------------------------------------------
(* LimitsKept. *)

\* What a limit counts: the calls of a tool, or of all of them together.
Charged == IF setup.named = {} THEN {NoTool} ELSE setup.named

Counted(t) == IF t = NoTool THEN total ELSE stats[t]

Executed(t) == IF t = NoTool THEN executions ELSE ran[t]

Busy(t) == pc \in {"exec", "sleep"} /\ (t = NoTool \/ t = Called)

\* How often the call being made has been executed.
Tries == IF pc = "sleep" THEN attempt + 1 ELSE attempt

\* Of count calls that are let through up to the limit, each is executed at
\* most each times, and the one being made tries times so far.
Within(limit, each, count, done, busy, tries) ==
    /\ done <= limit * each
    /\ count <= limit /\ busy => count >= 1 /\ done <= (count - 1) * each + tries
    /\ count <= limit /\ ~busy => done <= count * each

Paid(t) == Within(setup.toolLimit, 1 + setup.retries, Counted(t), Executed(t), Busy(t), Tries)

ModelPaid ==
    setup.modelLimit > 0 =>
        /\ iteration <= setup.modelLimit
        /\ InRound \/ pc = "next" => iteration < setup.modelLimit

\* A call tries no more than its retries allow.
TriesLeft ==
    /\ pc = "sleep" => attempt < setup.retries
    /\ pc = "exec" => attempt <= setup.retries

\* The products that Within compares.
LEMMA Products ==
    ASSUME NEW m \in Nat, NEW n \in Nat, NEW k \in Nat, m <= n
    PROVE  /\ m * k <= n * k /\ m * k \in Nat /\ n * k \in Nat
           /\ m >= 1 => (m - 1) * k + k = m * k
           /\ (m + 1 - 1) * k = m * k
  OBVIOUS

\* A call is counted (agent.go:186), tried (retry.go:75) and ends.
LEMMA WithinSteps ==
    ASSUME NEW limit \in Nat, NEW each \in Nat, NEW count \in Nat, NEW done \in Nat, NEW tries \in Nat
    PROVE  /\ Within(limit, each, count, done, FALSE, tries) => Within(limit, each, count + 1, done, TRUE, 0)
           /\ Within(limit, each, count, done, TRUE, tries) /\ count <= limit /\ tries < each
                => Within(limit, each, count, done + 1, TRUE, tries + 1)
           /\ \A n \in Nat : Within(limit, each, count, done, TRUE, tries) /\ tries <= each
                => Within(limit, each, count, done, FALSE, n)
           /\ \A n \in Nat : Within(limit, each, count, done, TRUE, tries) /\ count > limit
                => Within(limit, each, count, done, TRUE, n)
           /\ \A n \in Nat : Within(limit, each, count, done, FALSE, tries)
                => Within(limit, each, count, done, FALSE, n)
  <1>1. Within(limit, each, count, done, FALSE, tries) => Within(limit, each, count + 1, done, TRUE, 0)
    <2>1. (count + 1 - 1) * each = count * each /\ count * each \in Nat
      BY Products
    <2> QED
      BY <2>1 DEF Within
  <1>2. ASSUME Within(limit, each, count, done, TRUE, tries), count <= limit, tries < each
        PROVE  Within(limit, each, count, done + 1, TRUE, tries + 1)
    <2>1. count >= 1 /\ done <= (count - 1) * each + tries
      BY <1>2 DEF Within
    <2>2. /\ (count - 1) * each + each = count * each /\ count * each <= limit * each
          /\ count * each \in Nat /\ limit * each \in Nat
      BY <1>2, <2>1, Products
    <2>3. (count - 1) * each \in Nat
      BY <2>1, Products
    <2>4. \A p, q, r \in Nat : done <= p + tries /\ p + each = q /\ q <= r => done + 1 <= r /\ done + 1 <= p + (tries + 1)
      BY <1>2
    <2>5. done + 1 <= limit * each /\ done + 1 <= (count - 1) * each + (tries + 1)
      BY <2>1, <2>2, <2>3, <2>4
    <2> QED
      BY <2>1, <2>5 DEF Within
  <1>3. ASSUME NEW n \in Nat, Within(limit, each, count, done, TRUE, tries), tries <= each
        PROVE  Within(limit, each, count, done, FALSE, n)
    <2>1. ASSUME count <= limit PROVE done <= count * each
      <3>1. count >= 1 /\ done <= (count - 1) * each + tries
        BY <1>3, <2>1 DEF Within
      <3>2. (count - 1) * each + each = count * each /\ count * each \in Nat
        BY <3>1, Products
      <3>3. (count - 1) * each \in Nat
        BY <3>1, Products
      <3>4. \A p, q \in Nat : done <= p + tries /\ p + each = q => done <= q
        BY <1>3
      <3> QED
        BY <3>1, <3>2, <3>3, <3>4
    <2> QED
      BY <1>3, <2>1 DEF Within
  <1>4. ASSUME NEW n \in Nat, Within(limit, each, count, done, TRUE, tries), count > limit
        PROVE  Within(limit, each, count, done, TRUE, n)
    BY <1>4 DEF Within
  <1>5. ASSUME NEW n \in Nat, Within(limit, each, count, done, FALSE, tries)
        PROVE  Within(limit, each, count, done, FALSE, n)
    BY <1>5 DEF Within
  <1> QED
    BY <1>1, <1>2, <1>3, <1>4, <1>5

\* The numbers that Paid compares are numbers.
LEMMA PaidTypes ==
    ASSUME Types, NEW t \in Charged
    PROVE  /\ setup.toolLimit \in Nat /\ setup.retries \in Nat /\ 1 + setup.retries \in Nat
           /\ Counted(t) \in Nat /\ Executed(t) \in Nat /\ Tries \in Nat
           /\ t = NoTool \/ t \in Tool
  <1>1. t = NoTool \/ t \in Tool
    BY SetupTypes DEF Types, Charged
  <1>2. NoTool \notin Tool
    BY SetupTypes DEF Types
  <1>3. Counted(t) \in Nat /\ Executed(t) \in Nat
    BY <1>1 DEF Types, Counted, Executed
  <1>4. Tries \in Nat
    BY DEF Types, Tries
  <1>5. setup.toolLimit \in Nat /\ setup.retries \in Nat
    BY SetupTypes DEF Types
  <1> QED
    BY <1>1, <1>3, <1>4, <1>5

\* What happens outside of a call costs nothing.
LEMMA PaidOutside ==
    ASSUME Types, Types', NEW t \in Charged, Paid(t), setup' = setup, UNCHANGED <<counts, runs>>,
           pc \notin {"exec", "sleep"}, pc' \notin {"exec", "sleep"}
    PROVE  Paid(t)'
  <1>1. Counted(t)' = Counted(t) /\ Executed(t)' = Executed(t)
    BY DEF Counted, Executed, counts, runs
  <1>2. Busy(t) = FALSE /\ Busy(t)' = FALSE
    BY DEF Busy
  <1>3. Within(setup.toolLimit, 1 + setup.retries, Counted(t), Executed(t), FALSE, Tries)
    BY <1>2 DEF Paid
  <1>4. Tries' \in Nat
    BY DEF Types, Tries
  <1>5. Within(setup.toolLimit, 1 + setup.retries, Counted(t), Executed(t), FALSE, Tries')
    BY <1>3, <1>4, PaidTypes, WithinSteps
  <1> QED
    BY <1>1, <1>2, <1>5 DEF Paid

\* A call is counted before it is made (agent.go:186).
LEMMA PaidStart ==
    ASSUME Types, NEW t \in Charged, Paid(t), StartCall
    PROVE  Paid(t)'
  <1>1. /\ pc = "call" /\ pc' = "exec" /\ attempt' = 0 /\ total' = total + 1
        /\ stats' = [stats EXCEPT ![Called] = @ + 1]
        /\ UNCHANGED <<setup, response, current, ran, executions>>
    BY DEF StartCall, Ready, agent, conversation, runs
  <1>2. Called' = Called /\ Called \in Tool
    BY <1>1 DEF Called, Types, InRound
  <1>3. Busy(t) = FALSE
    BY <1>1 DEF Busy
  <1>4. Tries' = 0
    BY <1>1 DEF Tries
  <1>5. Executed(t)' = Executed(t)
    BY <1>1 DEF Executed
  <1>6. Within(setup.toolLimit, 1 + setup.retries, Counted(t), Executed(t), FALSE, Tries)
    BY <1>3 DEF Paid
  <1>7. NoTool \notin Tool
    BY SetupTypes DEF Types
  <1>8. CASE t = NoTool \/ t = Called
    <2>1. Counted(t)' = Counted(t) + 1
      BY <1>1, <1>2, <1>7, <1>8 DEF Counted, Types
    <2>2. Busy(t)' = TRUE
      BY <1>1, <1>2, <1>8 DEF Busy
    <2>3. Within(setup.toolLimit, 1 + setup.retries, Counted(t) + 1, Executed(t), TRUE, 0)
      BY <1>6, PaidTypes, WithinSteps
    <2> QED
      BY <1>1, <1>4, <1>5, <2>1, <2>2, <2>3 DEF Paid
  <1>9. CASE ~(t = NoTool \/ t = Called)
    <2>1. t \in Tool
      BY <1>9, PaidTypes
    <2>2. Counted(t)' = Counted(t)
      BY <1>1, <1>2, <1>9, <2>1 DEF Counted, Types
    <2>3. Busy(t)' = FALSE
      BY <1>2, <1>9 DEF Busy
    <2>4. Within(setup.toolLimit, 1 + setup.retries, Counted(t), Executed(t), FALSE, 0)
      BY <1>6, PaidTypes, WithinSteps
    <2> QED
      BY <1>1, <1>4, <1>5, <2>2, <2>3, <2>4 DEF Paid
  <1> QED
    BY <1>8, <1>9

\* The steps of a call (limits.go:74, retry.go:75), as far as Paid sees them.
CallSteps ==
    /\ pc \in {"exec", "sleep"}
    /\ UNCHANGED <<setup, response, counts>>
    /\ UNCHANGED runs \/ (Ran /\ pc = "exec" /\ ~OverLimit)
    /\ \/ pc' \notin {"exec", "sleep"}
       \/ /\ current' = current /\ pc = "exec" /\ pc' = "sleep"
          /\ attempt' = attempt /\ (OverLimit \/ Ran)
       \/ current' = current /\ pc = "sleep" /\ pc' = "exec" /\ attempt' = attempt + 1 /\ UNCHANGED runs

\* They are these (agent.go:189).
LEMMA ToolCallSteps ==
    ASSUME Types, ToolCall, ~StartCall
    PROVE  CallSteps
  <1> USE DEF Ready, agent, conversation, counts, CallSteps
  <1>1. CASE Refuse
    BY <1>1 DEF Refuse, AfterError, CallEnds
  <1>2. CASE ToolReturns \/ ToolRejected
    BY <1>2 DEF ToolReturns, ToolRejected, CallEnds
  <1>3. CASE ToolFails
    BY <1>3 DEF ToolFails, AfterError, CallEnds
  <1>4. CASE ToolAborts \/ AwaitApproval
    BY <1>4 DEF ToolAborts, AwaitApproval, Aborted, Return
  <1>5. CASE BackoffEnds \/ BackoffCut
    BY <1>5 DEF BackoffEnds, BackoffCut, CallEnds
  <1> QED
    BY <1>1, <1>2, <1>3, <1>4, <1>5 DEF ToolCall

\* A call that is let through is executed once and for each retry, and one
\* that is refused is not (limits.go:74).
LEMMA PaidCall ==
    ASSUME Types, Types', TriesLeft, NEW t \in Charged, Paid(t), CallSteps
    PROVE  Paid(t)'
  <1> DEFINE limit == setup.toolLimit
             each == 1 + setup.retries
             c == Counted(t)
             d == Executed(t)
             n == Tries
  <1>1. pc \in {"exec", "sleep"} /\ setup' = setup /\ UNCHANGED <<response, total, stats>>
    BY DEF CallSteps, counts
  <1>2. Counted(t)' = c
    BY <1>1 DEF Counted
  <1>3. /\ limit \in Nat /\ each \in Nat /\ c \in Nat /\ d \in Nat /\ n \in Nat
        /\ t = NoTool \/ t \in Tool
    BY PaidTypes
  <1>4. \/ n < each
        \/ pc = "sleep" /\ n <= each
    <2>1. attempt \in Nat /\ setup.retries \in Nat
      BY SetupTypes DEF Types
    <2>2. CASE pc = "exec"
      <3>1. n = attempt /\ attempt <= setup.retries
        BY <2>2 DEF TriesLeft, Tries
      <3> QED
        BY <2>1, <3>1
    <2>3. CASE pc = "sleep"
      <3>1. n = attempt + 1 /\ attempt < setup.retries
        BY <2>3 DEF TriesLeft, Tries
      <3> QED
        BY <2>1, <2>3, <3>1
    <2> QED
      BY <1>1, <2>2, <2>3
  <1>5. Tries' \in Nat
    <2>1. attempt' \in Nat
      BY DEF Types
    <2>2. Tries' = attempt' + 1 \/ Tries' = attempt'
      BY DEF Tries
    <2> QED
      BY <2>1, <2>2
  <1>6. NoTool \notin Tool /\ Called \in Tool
    BY <1>1, SetupTypes DEF Types, InRound, Called
  <1>7. CASE ~(t = NoTool \/ t = Called)
    <2>1. Busy(t) = FALSE
      BY <1>7 DEF Busy
    <2>2. Executed(t)' = d
      BY <1>3, <1>6, <1>7 DEF CallSteps, Executed, Ran, runs, Types
    <2>3. Busy(t)' = FALSE
      BY <1>1, <1>7 DEF CallSteps, Busy, Called
    <2>4. Within(limit, each, c, d, FALSE, n)
      BY <2>1 DEF Paid
    <2>5. Within(limit, each, c, d, FALSE, Tries')
      BY <1>3, <1>5, <2>4, WithinSteps
    <2> QED
      BY <1>1, <1>2, <2>2, <2>3, <2>5 DEF Paid
  <1>8. CASE t = NoTool \/ t = Called
    <2>1. Busy(t) = TRUE
      BY <1>1, <1>8 DEF Busy
    <2>2. Within(limit, each, c, d, TRUE, n)
      BY <2>1 DEF Paid
    <2>3. OverLimit <=> c > limit
      <3>1. Count = c
        <4>1. CASE setup.named = {}
          BY <4>1 DEF Count, Counted, Charged
        <4>2. CASE setup.named # {}
          <5>1. t \in setup.named /\ t = Called
            BY <1>6, <1>8, <4>2, SetupTypes DEF Charged, Types
          <5> QED
            BY <1>6, <4>2, <5>1 DEF Count, Counted
        <4> QED
          BY <4>1, <4>2
      <3> QED
        BY <3>1 DEF OverLimit
    <2>4. Executed(t)' = d \/ (Executed(t)' = d + 1 /\ pc = "exec" /\ ~OverLimit /\ Ran)
      BY <1>6, <1>8 DEF CallSteps, Executed, Ran, runs, Types
    <2> DEFINE e == Executed(t)'
    <2>5. e \in Nat
      BY <1>3, <2>4
    <2>6. PICK m \in Nat : /\ Within(limit, each, c, e, TRUE, m) /\ m <= each
                           /\ e = d => m = n
                           /\ e # d => m = n + 1 /\ c <= limit
      <3>1. CASE e = d
        <4>1. n \in Nat /\ n <= each
          BY <1>3, <1>4
        <4>2. Within(limit, each, c, e, TRUE, n)
          BY <2>2, <3>1
        <4> QED
          BY <3>1, <4>1, <4>2, Zenon
      <3>2. CASE e # d
        <4>1. e = d + 1 /\ pc = "exec" /\ c <= limit /\ n < each
          BY <1>3, <1>4, <2>3, <2>4, <3>2
        <4>2. Within(limit, each, c, d + 1, TRUE, n + 1)
          BY <1>3, <2>2, <4>1, WithinSteps
        <4>3. n + 1 \in Nat /\ n + 1 <= each
          BY <1>3, <4>1
        <4> QED
          BY <3>2, <4>1, <4>2, <4>3
      <3> QED
        BY <3>1, <3>2
    <2>7. CASE pc' \notin {"exec", "sleep"}
      <3>1. Busy(t)' = FALSE
        BY <2>7 DEF Busy
      <3>2. Within(limit, each, c, e, FALSE, Tries')
        BY <1>3, <1>5, <2>5, <2>6, WithinSteps
      <3> QED
        BY <1>1, <1>2, <3>1, <3>2 DEF Paid
    <2>8. CASE pc' \in {"exec", "sleep"}
      <3>1. /\ current' = current
            /\ \/ pc = "exec" /\ pc' = "sleep" /\ attempt' = attempt /\ (OverLimit \/ Ran)
               \/ pc = "sleep" /\ pc' = "exec" /\ attempt' = attempt + 1 /\ UNCHANGED runs
        BY <2>8 DEF CallSteps
      <3>2. Busy(t)' = TRUE
        BY <1>1, <1>8, <2>8, <3>1 DEF Busy, Called
      <3>3. CASE OverLimit
        <4>1. Within(limit, each, c, e, TRUE, Tries')
          BY <1>3, <1>5, <2>3, <2>5, <2>6, <3>3, WithinSteps
        <4> QED
          BY <1>1, <1>2, <3>2, <4>1 DEF Paid
      <3>4. CASE ~OverLimit
        <4>1. Tries' = m
          <5>1. CASE pc = "exec"
            <6>1. Ran /\ pc' = "sleep" /\ attempt' = attempt
              BY <3>1, <3>4, <5>1
            <6>2. e = d + 1
              BY <1>6, <1>8, <6>1 DEF Ran, Executed, Types
            <6>3. m = n + 1
              BY <1>3, <2>6, <6>2
            <6> QED
              BY <5>1, <6>1, <6>3 DEF Tries
          <5>2. CASE pc = "sleep"
            <6>1. UNCHANGED runs /\ pc' = "exec" /\ attempt' = attempt + 1
              BY <3>1, <5>2
            <6>2. e = d
              BY <6>1 DEF runs, Executed
            <6> QED
              BY <2>6, <5>2, <6>1, <6>2 DEF Tries
          <5> QED
            BY <1>1, <5>1, <5>2
        <4> QED
          BY <1>1, <1>2, <2>6, <3>2, <4>1 DEF Paid
      <3> QED
        BY <3>3, <3>4
    <2> QED
      BY <2>7, <2>8
  <1> QED
    BY <1>7, <1>8

LimitInv == Types /\ ModelPaid /\ TriesLeft /\ \A t \in Charged : Paid(t)

\* The iterations that ModelCallLimit (limits.go:42) and WithMaxIterations let
\* through, and the retries of a call (retry.go:75).
LEMMA RoundsKept ==
    ASSUME Types, Types', ModelPaid, TriesLeft, [Next]_vars
    PROVE  ModelPaid' /\ TriesLeft'
  <1> USE DEF ModelPaid, TriesLeft, InRound, Ready, agent, conversation, calling, counts, runs, review
  <1>1. setup.modelLimit \in Nat /\ setup.retries \in Nat /\ iteration \in Nat /\ attempt \in Nat
    BY SetupTypes DEF Types
  <1>2. CASE UNCHANGED vars
    BY <1>2 DEF vars
  <1>3. CASE NextIteration
    BY <1>1, <1>3 DEF NextIteration, Return
  <1>4. CASE ModelCall
    BY <1>4 DEF ModelCall, BeforeModel, BeforeModelFails, ModelAnswers, ModelFails, Return
  <1>5. CASE Outcome
    <2>1. CASE StartRound
      <3>1. ~(iteration >= setup.modelLimit) /\ pc' = "call" /\ UNCHANGED <<setup, iteration, attempt>>
        BY <2>1 DEF StartRound, Limited
      <3> QED
        BY <1>1, <3>1
    <2>2. CASE AfterModelFails \/ Answer \/ NoExecutor
      BY <2>2 DEF AfterModelFails, Answer, NoExecutor, Return
    <2> QED
      BY <1>5, <2>1, <2>2 DEF Outcome
  <1>6. CASE StartCall
    BY <1>1, <1>6 DEF StartCall
  <1>7. CASE Refuse \/ ToolFails
    <2>1. /\ pc = "exec" /\ UNCHANGED <<setup, iteration, attempt>>
          /\ \/ pc' = "sleep" /\ attempt < setup.retries
             \/ pc' \in {"call", "next"}
      BY <1>7 DEF Refuse, ToolFails, AfterError, CallEnds
    <2> QED
      BY <2>1
  <1>8. CASE ToolReturns \/ ToolRejected \/ BackoffCut
    BY <1>8 DEF ToolReturns, ToolRejected, BackoffCut, CallEnds
  <1>9. CASE ToolAborts \/ AwaitApproval
    BY <1>9 DEF ToolAborts, AwaitApproval, Aborted, Return
  <1>10. CASE BackoffEnds
    <2>1. pc = "sleep" /\ pc' = "exec" /\ attempt' = attempt + 1 /\ UNCHANGED <<setup, iteration>>
      BY <1>10 DEF BackoffEnds
    <2> QED
      BY <1>1, <2>1
  <1>11. CASE Finish \/ Deliver \/ Drop \/ Cancel \/ StopReading
    BY <1>11 DEF Finish, Deliver, Drop, Cancel, StopReading
  <1>12. CASE Resume
    BY <1>1, <1>12 DEF Resume
  <1> QED
    BY <1>2, <1>3, <1>4, <1>5, <1>6, <1>7, <1>8, <1>9, <1>10, <1>11, <1>12 DEF Next, Loop, ToolCall

\* What is executed is kept within the limits (limits.go:74).
LEMMA PaidKept ==
    ASSUME Types, Types', TriesLeft, [Next]_vars, NEW t \in Charged, Paid(t)
    PROVE  Paid(t)'
  <1> USE DEF Ready, agent, conversation, calling, counts, runs, review
  <1>1. CASE NextIteration \/ ModelCall \/ Outcome
    <2>1. /\ setup' = setup /\ UNCHANGED <<counts, runs>>
          /\ pc \notin {"exec", "sleep"} /\ pc' \notin {"exec", "sleep"}
      BY <1>1 DEF NextIteration, ModelCall, BeforeModel, BeforeModelFails, ModelAnswers, ModelFails,
                  Outcome, AfterModelFails, Answer, NoExecutor, StartRound, Return
    <2> QED
      BY <2>1, PaidOutside
  <1>2. CASE StartCall
    BY <1>2, PaidStart
  <1>3. CASE ToolCall /\ ~StartCall
    BY <1>3, ToolCallSteps, PaidCall
  <1>4. CASE Finish
    BY <1>4, PaidOutside DEF Finish
  <1>5. CASE Deliver \/ Drop \/ Cancel \/ StopReading \/ UNCHANGED vars
    <2>1. UNCHANGED <<setup, pc, response, current, stats, total, attempt, ran, executions>>
      BY <1>5 DEF Deliver, Drop, Cancel, StopReading, vars
    <2> QED
      BY <2>1 DEF Paid, Counted, Executed, Busy, Tries, Called
  <1>6. CASE Resume
    <2>1. /\ pc' = "next" /\ setup' = setup /\ stats' = [u \in Tool |-> 0] /\ total' = 0
          /\ ran' = [u \in Tool |-> 0] /\ executions' = 0
      BY <1>6 DEF Resume
    <2>2. Counted(t)' = 0 /\ Executed(t)' = 0
      BY <2>1, PaidTypes DEF Counted, Executed
    <2>3. Busy(t)' = FALSE
      BY <2>1 DEF Busy
    <2>4. setup.toolLimit * (1 + setup.retries) \in Nat /\ 0 * (1 + setup.retries) = 0
      BY PaidTypes, Products
    <2>5. Within(setup.toolLimit, 1 + setup.retries, 0, 0, FALSE, Tries')
      BY <2>4 DEF Within
    <2> QED
      BY <2>1, <2>2, <2>3, <2>5 DEF Paid
  <1> QED
    BY <1>1, <1>2, <1>3, <1>4, <1>5, <1>6 DEF Next, Loop

(***************************************************************************)
(* ModelCallLimit (limits.go:42) and ToolCallLimit (limits.go:74) bound    *)
(* what is executed, for any limits, retries and tools, and whichever of   *)
(* ToolRetry and ToolCallLimit is around the other.                        *)
(***************************************************************************)
THEOREM LimitsAlwaysKept == Spec => []LimitsKept
  <1>1. Init => LimitInv
    <2> SUFFICES ASSUME Init PROVE LimitInv
      OBVIOUS
    <2>1. Types
      BY SetupTypes DEF Init, Types, InRound
    <2>2. ModelPaid /\ TriesLeft
      <3>1. pc = "next" /\ iteration = 0 /\ setup.modelLimit \in Nat
        BY SetupTypes DEF Init
      <3> QED
        BY <3>1 DEF ModelPaid, TriesLeft, InRound
    <2>3. ASSUME NEW t \in Charged PROVE Paid(t)
      <3>1. Counted(t) = 0 /\ Executed(t) = 0
        BY <2>1, PaidTypes DEF Init, Counted, Executed
      <3>2. Busy(t) = FALSE
        BY DEF Init, Busy
      <3>3. setup.toolLimit * (1 + setup.retries) \in Nat /\ 0 * (1 + setup.retries) = 0
        BY <2>1, PaidTypes, Products
      <3> QED
        BY <3>1, <3>2, <3>3 DEF Paid, Within
    <2> QED
      BY <2>1, <2>2, <2>3 DEF LimitInv
  <1>2. LimitInv /\ [Next]_vars => LimitInv'
    <2> SUFFICES ASSUME LimitInv, [Next]_vars PROVE LimitInv'
      OBVIOUS
    <2>1. Types'
      BY TypesKept DEF LimitInv
    <2>2. ModelPaid' /\ TriesLeft'
      BY <2>1, RoundsKept DEF LimitInv
    <2>3. ASSUME NEW t \in Charged PROVE Paid(t)'
      BY <2>1, PaidKept DEF LimitInv
    <2>4. setup' = setup
      BY DEF Next, Loop, ModelCall, Outcome, ToolCall, NextIteration, BeforeModel, BeforeModelFails,
             ModelAnswers, ModelFails, AfterModelFails, Answer, NoExecutor, StartRound, StartCall,
             Refuse, ToolReturns, ToolRejected, ToolFails, ToolAborts, Aborted, AwaitApproval,
             BackoffEnds, BackoffCut, Finish, Deliver, Drop, Cancel, StopReading, Resume, agent, vars
    <2> QED
      BY <2>1, <2>2, <2>3, <2>4 DEF LimitInv, Charged
  <1>3. LimitInv => LimitsKept
    <2> SUFFICES ASSUME LimitInv PROVE LimitsKept
      OBVIOUS
    <2>1. setup.toolLimit \in Nat /\ setup.retries \in Nat
      BY SetupTypes DEF LimitInv, Types
    <2>2. CASE setup.named = {}
      <3>1. Paid(NoTool)
        BY <2>2 DEF LimitInv, Charged
      <3>2. executions <= setup.toolLimit * (1 + setup.retries)
        BY <3>1 DEF Paid, Within, Executed
      <3> QED
        BY <2>2, <3>2 DEF LimitInv, ModelPaid, LimitsKept
    <2>3. CASE setup.named # {}
      <3>1. ASSUME NEW t \in setup.named PROVE ran[t] <= setup.toolLimit * (1 + setup.retries)
        <4>1. Paid(t)
          BY <2>3 DEF LimitInv, Charged
        <4>2. t # NoTool
          BY SetupTypes DEF LimitInv, Types
        <4> QED
          BY <4>1, <4>2 DEF Paid, Within, Executed
      <3> QED
        BY <2>3, <3>1 DEF LimitInv, ModelPaid, LimitsKept
    <2> QED
      BY <2>2, <2>3
  <1> QED
    BY <1>1, <1>2, <1>3, PTL DEF Spec

-----------------------------------------------------------------------------
(* SoundRequest. *)

Msg == [role : {"user", "assistant", "tool"}, round : Nat, n : Nat, intact : BOOLEAN]

\* The results of call i's round follow it.
Answers(ms, i) ==
    /\ i + ms[i].n <= Len(ms)
    /\ \A k \in 1..ms[i].n : ms[i + k].role = "tool" /\ ms[i + k].round = ms[i].round /\ ms[i + k].n = k

\* The message with the call that result i answers, no later than its last one.
Owned(ms, i) ==
    /\ ms[i].n >= 1 /\ i > ms[i].n
    /\ ms[i - ms[i].n].role = "assistant" /\ ms[i - ms[i].n].round = ms[i].round
    /\ ms[i].n <= ms[i - ms[i].n].n

Valid(ms) ==
    /\ ms \in Seq(Msg)
    /\ \A i \in 1..Len(ms) : ms[i].role = "assistant" => Answers(ms, i)
    /\ \A i \in 1..Len(ms) : ms[i].role = "tool" => Owned(ms, i)

\* Round r is at position p, with the first k of its results, and nothing else follows.
RoundAt(ms, p, r, calls, k) ==
    /\ p \in 1..Len(ms) /\ Len(ms) = p + k
    /\ ms[p] = Assistant(r, calls)
    /\ \A j \in 1..k : ms[p + j] = ToolResult(r, j)

\* A round in which calls are still being made: only its message waits for results.
OpenRound ==
    \E p \in 1..Len(messages) :
        /\ RoundAt(messages, p, iteration, Len(response), current - 1)
        /\ messages \in Seq(Msg)
        /\ \A i \in 1..Len(messages) : messages[i].role = "assistant" /\ i # p => Answers(messages, i)
        /\ \A i \in 1..Len(messages) : messages[i].role = "tool" => Owned(messages, i)

\* The round before this iteration is the last thing in the conversation.
LastRound(r) == \E p \in 1..Len(messages) : RoundAt(messages, p, r, Len(response), Len(response))

SoundInv ==
    /\ given \in Histories
    /\ pc \in {"next", "before", "model", "after"} => Valid(messages)
    /\ InRound => OpenRound
    /\ pc = "next" /\ iteration > 0 => LastRound(iteration)
    /\ pc = "before" => iteration > 0 /\ (iteration > 1 => LastRound(iteration - 1))
    /\ ResultsReachModel

Summary(ms, c) == <<User>> \o SubSeq(ms, c + 1, Len(ms))

\* Summarization finds its cut: the first clean one that keeps no more than it
\* is to keep (summarization.go:84).
LEMMA CutFound ==
    ASSUME NEW ms \in Seq(Msg), setup.keepRecent \in Nat, Len(ms) > setup.keepRecent
    PROVE  /\ Cut(ms) \in (Len(ms) - setup.keepRecent)..Len(ms) /\ Cut(ms) \in 0..Len(ms)
           /\ CleanCut(ms, Cut(ms))
           /\ \A b \in (Len(ms) - setup.keepRecent)..(Cut(ms) - 1) : ~CleanCut(ms, b)
  <1> DEFINE first == Len(ms) - setup.keepRecent
             T == {c \in first..Len(ms) : CleanCut(ms, c)}
  <1>1. Len(ms) \in Nat /\ first \in Nat /\ Len(ms) \in first..Len(ms)
    OBVIOUS
  <1>2. Len(ms) \in T
    BY <1>1 DEF CleanCut
  <1>3. T \in SUBSET Nat
    BY <1>1
  <1>4. PICK c \in T : \A b \in T : c <= b
    BY <1>2, <1>3, LeastNumber
  <1>5. c \in first..Len(ms) /\ CleanCut(ms, c)
    BY <1>4
  <1>6. ASSUME NEW b \in first..(c - 1) PROVE ~CleanCut(ms, b)
    <2>1. b \in first..Len(ms) /\ ~(c <= b)
      BY <1>1, <1>5
    <2> QED
      BY <1>4, <2>1
  <1>7. /\ Cut(ms) \in first..Len(ms) /\ CleanCut(ms, Cut(ms))
        /\ \A b \in first..(Cut(ms) - 1) : ~CleanCut(ms, b)
    BY <1>5, <1>6 DEF Cut
  <1>8. Cut(ms) \in 0..Len(ms)
    BY <1>1, <1>7
  <1> QED
    BY <1>7, <1>8

\* One message, and the tail.
LEMMA SummaryIs ==
    ASSUME NEW ms \in Seq(Msg), NEW c \in 0..Len(ms)
    PROVE  /\ Summary(ms, c) \in Seq(Msg) /\ Len(Summary(ms, c)) = 1 + (Len(ms) - c)
           /\ Summary(ms, c)[1] = User
           /\ \A j \in 1..Len(ms) - c : Summary(ms, c)[1 + j] = ms[c + j]
  <1> DEFINE t == SubSeq(ms, c + 1, Len(ms))
             u == <<User>>
  <1>1. User \in Msg
    BY DEF User, Msg
  <1>2. u \in Seq(Msg) /\ Len(u) = 1 /\ u[1] = User
    BY <1>1
  <1>3. /\ t \in Seq(Msg) /\ Len(t) = Len(ms) - c
        /\ \A j \in 1..Len(ms) - c : t[j] = ms[c + j]
    <2>1. \A i \in c + 1..Len(ms) : ms[i] \in Msg
      OBVIOUS
    <2>2. /\ t \in Seq(Msg) /\ Len(t) = IF c + 1 <= Len(ms) THEN Len(ms) - (c + 1) + 1 ELSE 0
          /\ \A j \in 1..Len(ms) - (c + 1) + 1 : t[j] = ms[c + 1 + j - 1]
      BY <2>1, SubSeqProperties
    <2>3. Len(ms) - (c + 1) + 1 = Len(ms) - c /\ (~(c + 1 <= Len(ms)) => Len(ms) - c = 0)
      OBVIOUS
    <2>4. \A j \in 1..Len(ms) - c : c + 1 + j - 1 = c + j
      OBVIOUS
    <2> QED
      BY <2>2, <2>3, <2>4
  <1> HIDE DEF t, u
  <1>4. /\ u \o t \in Seq(Msg) /\ Len(u \o t) = Len(u) + Len(t)
        /\ \A i \in 1..Len(u) + Len(t) : (u \o t)[i] = IF i <= Len(u) THEN u[i] ELSE t[i - Len(u)]
    BY <1>2, <1>3, ConcatProperties
  <1>5. Len(u \o t) = 1 + (Len(ms) - c)
    BY <1>2, <1>3, <1>4
  <1>6. (u \o t)[1] = User
    <2>1. 1 \in 1..Len(u) + Len(t)
      BY <1>2, <1>3
    <2> QED
      BY <1>2, <1>4, <2>1
  <1>7. ASSUME NEW j \in 1..Len(ms) - c PROVE (u \o t)[1 + j] = ms[c + j]
    <2>1. 1 + j \in 1..Len(u) + Len(t) /\ ~(1 + j <= Len(u)) /\ 1 + j - Len(u) = j
      BY <1>2, <1>3
    <2>2. (u \o t)[1 + j] = t[1 + j - Len(u)]
      BY <1>4, <2>1
    <2>3. t[1 + j - Len(u)] = t[j]
      BY <2>1
    <2> QED
      BY <1>3, <2>2, <2>3
  <1> QED
    BY <1>4, <1>5, <1>6, <1>7 DEF Summary, t, u

\* A clean cut leaves no result without its call (summarization.go:84).
LEMMA SummaryValid ==
    ASSUME NEW ms, Valid(ms), NEW c \in 0..Len(ms), CleanCut(ms, c)
    PROVE  Valid(Summary(ms, c))
  <1> DEFINE s == Summary(ms, c)
  <1>1. ms \in Seq(Msg) /\ Len(ms) \in Nat /\ c \in Nat
    BY DEF Valid
  <1>2. /\ s \in Seq(Msg) /\ Len(s) = 1 + (Len(ms) - c) /\ s[1] = User
        /\ \A j \in 1..Len(ms) - c : s[1 + j] = ms[c + j]
    BY <1>1, SummaryIs
  <1> HIDE DEF s
  <1>3. \A i \in 1..Len(ms) : ms[i].n \in Nat
    <2>1. \A i \in 1..Len(ms) : ms[i] \in Msg
      BY <1>1
    <2> QED
      BY <2>1 DEF Msg
  <1>4. s[1].role = "user"
    BY <1>2 DEF User
  <1>5. ASSUME NEW i \in 1..Len(s), s[i].role # "user"
        PROVE  /\ i - 1 \in 1..Len(ms) - c /\ c + (i - 1) \in 1..Len(ms)
               /\ s[i] = ms[c + (i - 1)]
    <2>1. i # 1
      BY <1>4, <1>5
    <2>2. i - 1 \in 1..Len(ms) - c /\ c + (i - 1) \in 1..Len(ms) /\ 1 + (i - 1) = i
      BY <1>1, <1>2, <2>1
    <2> QED
      BY <1>2, <2>2
  <1>6. ASSUME NEW i \in 1..Len(s), s[i].role = "assistant" PROVE Answers(s, i)
    <2> DEFINE j == c + (i - 1)
    <2>1. s[i].role # "user"
      BY <1>6
    <2>2. i - 1 \in 1..Len(ms) - c /\ j \in 1..Len(ms) /\ s[i] = ms[j]
      BY <1>5, <2>1
    <2>3. Answers(ms, j)
      BY <1>6, <2>2 DEF Valid
    <2>4. ms[j].n \in Nat
      BY <1>3, <2>2
    <2>5. j + ms[j].n <= Len(ms)
      BY <2>3 DEF Answers
    <2>6. i + s[i].n <= Len(s)
      BY <1>1, <1>2, <2>2, <2>4, <2>5
    <2>7. ASSUME NEW k \in 1..s[i].n PROVE s[i + k] = ms[j + k]
      <3>1. i - 1 + k \in 1..Len(ms) - c /\ 1 + (i - 1 + k) = i + k /\ c + (i - 1 + k) = j + k
        BY <1>1, <2>2, <2>4, <2>5
      <3> QED
        BY <1>2, <3>1
    <2> HIDE DEF j
    <2> QED
      BY <2>2, <2>3, <2>6, <2>7 DEF Answers
  <1>7. ASSUME NEW i \in 1..Len(s), s[i].role = "tool" PROVE Owned(s, i)
    <2> DEFINE j == c + (i - 1)
               n == ms[j].n
    <2>1. s[i].role # "user"
      BY <1>7
    <2>2. i - 1 \in 1..Len(ms) - c /\ j \in 1..Len(ms) /\ s[i] = ms[j]
      BY <1>5, <2>1
    <2>3. Owned(ms, j)
      BY <1>7, <2>2 DEF Valid
    <2>4. n \in Nat /\ n >= 1 /\ j > n
      BY <1>3, <2>2, <2>3 DEF Owned
    <2>5. j - n \in 1..Len(ms) /\ ms[j - n].role = "assistant"
      BY <1>1, <2>2, <2>3, <2>4 DEF Owned
    <2>6. Answers(ms, j - n)
      BY <2>5 DEF Valid
    <2>7. j - n >= c + 1
      <3> SUFFICES ASSUME ~(j - n >= c + 1) PROVE FALSE
        OBVIOUS
      <3> DEFINE k == c + 1 - (j - n)
      <3>1. k \in 1..n /\ (j - n) + k = c + 1 /\ c # Len(ms)
        BY <1>1, <2>2, <2>4, <2>5, SMTT(30)
      <3>2. n <= ms[j - n].n
        BY <2>3 DEF Owned
      <3>3. k \in 1..ms[j - n].n
        <4>1. ms[j - n].n \in Nat
          BY <1>3, <2>5
        <4>2. \A a, b, d \in Int : a \in 1..b /\ b <= d => a \in 1..d
          OBVIOUS
        <4>3. k \in Int /\ n \in Int /\ k \in 1..n
          BY <2>4, <3>1
        <4> HIDE DEF k, n
        <4> QED
          BY <3>2, <4>1, <4>2, <4>3
      <3>4. ms[(j - n) + k].role = "tool"
        BY <2>6, <3>3 DEF Answers
      <3>5. ms[c + 1].role = "tool"
        BY <3>1, <3>4
      <3> QED
        BY <3>1, <3>5 DEF CleanCut
    <2>8. /\ i - n - 1 \in 1..Len(ms) - c /\ 1 + (i - n - 1) = i - n /\ c + (i - n - 1) = j - n
          /\ i > n
      <3>1. \A l, a, b, d \in Int :
               a - 1 \in 1..l /\ (b + (a - 1)) - d >= b + 1 /\ d >= 1
               => /\ a - d - 1 \in 1..l /\ 1 + (a - d - 1) = a - d /\ b + (a - d - 1) = b + (a - 1) - d
                  /\ a > d
        OBVIOUS
      <3>2. Len(ms) - c \in Int /\ i \in Int /\ c \in Int /\ n \in Int /\ n >= 1
        BY <1>1, <2>2, <2>4
      <3> HIDE DEF n
      <3> QED
        BY <2>2, <2>7, <3>1, <3>2
    <2>9. s[i - n] = ms[j - n]
      BY <1>2, <2>8
    <2>10. s[i].n = n
      BY <2>2
    <2> HIDE DEF j, n
    <2>11. Owned(ms, j) /\ ms[j].n = n /\ s[i] = ms[j]
      BY <2>2, <2>3 DEF n
    <2> QED
      BY <2>8, <2>9, <2>10, <2>11 DEF Owned
  <1> QED
    BY <1>2, <1>6, <1>7 DEF Valid, s

\* Placeholders change nothing that a provider checks (context.go:66).
LEMMA EditedIs ==
    ASSUME NEW ms \in Seq(Msg)
    PROVE  /\ Edited(ms) \in Seq(Msg) /\ Len(Edited(ms)) = Len(ms)
           /\ \A i \in 1..Len(ms) :
                 /\ Edited(ms)[i].role = ms[i].role /\ Edited(ms)[i].round = ms[i].round
                 /\ Edited(ms)[i].n = ms[i].n
                 /\ ms[i].role # "tool" \/ ~Old(ms, i) => Edited(ms)[i] = ms[i]
  <1> DEFINE e(i) == IF ms[i].role = "tool" /\ Old(ms, i) THEN [ms[i] EXCEPT !.intact = FALSE] ELSE ms[i]
  <1>1. Len(ms) \in Nat
    OBVIOUS
  <1>2. ASSUME NEW i \in 1..Len(ms)
        PROVE  /\ e(i) \in Msg
               /\ e(i).role = ms[i].role /\ e(i).round = ms[i].round /\ e(i).n = ms[i].n
               /\ ms[i].role # "tool" \/ ~Old(ms, i) => e(i) = ms[i]
    <2>1. ms[i] \in Msg
      OBVIOUS
    <2> QED
      BY <2>1 DEF Msg
  <1>3. Edited(ms) = [i \in 1..Len(ms) |-> e(i)]
    BY DEF Edited
  <1> HIDE DEF e
  <1>4. Edited(ms) \in Seq(Msg) /\ Len(Edited(ms)) = Len(ms)
    BY <1>1, <1>2, <1>3, IsASeq
  <1>5. \A i \in 1..Len(ms) : Edited(ms)[i] = e(i)
    BY <1>3
  <1> QED
    BY <1>2, <1>4, <1>5

\* So the edited conversation is one a provider accepts too.
LEMMA EditedValid ==
    ASSUME NEW ms, Valid(ms)
    PROVE  Valid(Edited(ms))
  <1> DEFINE s == Edited(ms)
  <1>1. ms \in Seq(Msg)
    BY DEF Valid
  <1>2. /\ s \in Seq(Msg) /\ Len(s) = Len(ms)
        /\ \A i \in 1..Len(ms) : s[i].role = ms[i].role /\ s[i].round = ms[i].round /\ s[i].n = ms[i].n
    BY <1>1, EditedIs
  <1> HIDE DEF s
  <1>3. \A i \in 1..Len(ms) : ms[i].n \in Nat
    <2>1. \A i \in 1..Len(ms) : ms[i] \in Msg
      BY <1>1
    <2> QED
      BY <2>1 DEF Msg
  <1>4. ASSUME NEW i \in 1..Len(ms), ms[i].role = "assistant" PROVE Answers(s, i)
    <2>1. Answers(ms, i)
      BY <1>4 DEF Valid
    <2>2. i + ms[i].n <= Len(ms) /\ s[i].n = ms[i].n /\ s[i].round = ms[i].round
      BY <1>2, <2>1 DEF Answers
    <2>3. ASSUME NEW k \in 1..ms[i].n
          PROVE  s[i + k].role = "tool" /\ s[i + k].round = ms[i].round /\ s[i + k].n = k
      <3>1. i + k \in 1..Len(ms)
        BY <1>1, <1>3, <2>2
      <3> QED
        BY <1>2, <2>1, <3>1 DEF Answers
    <2> QED
      BY <1>2, <2>2, <2>3 DEF Answers
  <1>5. ASSUME NEW i \in 1..Len(ms), ms[i].role = "tool" PROVE Owned(s, i)
    <2>1. Owned(ms, i)
      BY <1>5 DEF Valid
    <2>2. i - ms[i].n \in 1..Len(ms)
      BY <1>1, <1>3, <2>1 DEF Owned
    <2> QED
      BY <1>2, <2>1, <2>2 DEF Owned
  <1> QED
    BY <1>2, <1>4, <1>5 DEF Valid, s

\* ContextEditing (context.go:66) leaves the results of the last round alone,
\* if it keeps as many.
LEMMA EditedRecent ==
    ASSUME NEW ms \in Seq(Msg), NEW p, NEW r, NEW k \in Nat, RoundAt(ms, p, r, k, k),
           setup.keepResults \in Nat, setup.keepResults >= k
    PROVE  RoundAt(Edited(ms), p, r, k, k)
  <1>1. Len(ms) \in Nat /\ p \in 1..Len(ms) /\ p \in Nat /\ Len(ms) = p + k
    BY DEF RoundAt
  <1>2. Edited(ms)[p] = ms[p]
    <2>1. ms[p].role # "tool"
      BY DEF RoundAt, Assistant
    <2> QED
      BY <1>1, <2>1, EditedIs
  <1>3. ASSUME NEW j \in 1..k PROVE Edited(ms)[p + j] = ms[p + j]
    <2>1. p + j \in 1..Len(ms) /\ p + j \in Int /\ Len(ms) \in Int /\ ~(p + j > Len(ms)) /\ Len(ms) - (p + j) + 1 <= k
      BY <1>1
    <2>2. IsFiniteSet((p + j)..Len(ms)) /\ Cardinality((p + j)..Len(ms)) = Len(ms) - (p + j) + 1
      BY <2>1, FS_Interval
    <2>3. ResultsFrom(ms, p + j) \in SUBSET ((p + j)..Len(ms))
      BY DEF ResultsFrom
    <2>4. /\ Cardinality(ResultsFrom(ms, p + j)) <= Cardinality((p + j)..Len(ms))
          /\ IsFiniteSet(ResultsFrom(ms, p + j))
      BY <2>2, <2>3, FS_Subset
    <2>5. Cardinality(ResultsFrom(ms, p + j)) \in Nat
      BY <2>4, FS_CardinalityType
    <2>6. ~(Cardinality(ResultsFrom(ms, p + j)) > setup.keepResults)
      BY <1>1, <2>1, <2>2, <2>4, <2>5
    <2> QED
      BY <2>1, <2>6, EditedIs DEF Old
  <1>4. Len(Edited(ms)) = Len(ms)
    BY EditedIs
  <1> QED
    BY <1>2, <1>3, <1>4 DEF RoundAt

\* Summarization (summarization.go:84) keeps the last round, if it keeps more
\* messages than the round has results.
LEMMA SummarizedRecent ==
    ASSUME NEW ms \in Seq(Msg), NEW p, NEW r, NEW k \in Nat, RoundAt(ms, p, r, k, k),
           setup.keepRecent \in Nat, setup.keepRecent > k
    PROVE  \E q \in 1..Len(Summarized(ms)) : RoundAt(Summarized(ms), q, r, k, k)
  <1>1. Len(ms) \in Nat /\ p \in 1..Len(ms) /\ p \in Nat /\ Len(ms) = p + k
    BY DEF RoundAt
  <1>2. CASE Len(ms) <= setup.keepRecent
    BY <1>2 DEF Summarized, RoundAt
  <1>3. CASE ~(Len(ms) <= setup.keepRecent)
    <2> DEFINE c == Cut(ms)
               s == Summary(ms, c)
               q == 1 + (p - c)
    <2>1. Len(ms) > setup.keepRecent
      BY <1>1, <1>3
    <2>2. /\ c \in (Len(ms) - setup.keepRecent)..Len(ms) /\ c \in 0..Len(ms)
          /\ \A b \in (Len(ms) - setup.keepRecent)..(c - 1) : ~CleanCut(ms, b)
      BY <2>1, CutFound
    <2>3. CleanCut(ms, p - 1)
      <3>1. ms[p].role # "tool" /\ (p - 1) + 1 = p
        BY <1>1 DEF RoundAt, Assistant
      <3> QED
        BY <3>1 DEF CleanCut
    <2> HIDE DEF c
    <2>4. c <= p - 1
      <3> SUFFICES ASSUME ~(c <= p - 1) PROVE FALSE
        OBVIOUS
      <3>1. p - 1 \in (Len(ms) - setup.keepRecent)..(c - 1)
        BY <1>1, <2>2
      <3> QED
        BY <2>2, <2>3, <3>1
    <2>5. /\ Len(s) = 1 + (Len(ms) - c)
          /\ \A j \in 1..Len(ms) - c : s[1 + j] = ms[c + j]
      BY <2>2, SummaryIs
    <2>6. q \in 1..Len(s) /\ Len(s) = q + k
      BY <1>1, <2>2, <2>4, <2>5, SMTT(30)
    <2>7. ASSUME NEW j \in 0..k PROVE s[q + j] = ms[p + j]
      <3>1. (p - c) + j \in 1..Len(ms) - c /\ 1 + ((p - c) + j) = q + j /\ c + ((p - c) + j) = p + j
        BY <1>1, <2>2, <2>4
      <3> QED
        BY <2>5, <3>1
    <2>8. s[q] = ms[p]
      <3>1. q + 0 = q /\ p + 0 = p /\ 0 \in 0..k
        BY <1>1, <2>2
      <3> QED
        BY <2>7, <3>1
    <2>9. \A j \in 1..k : s[q + j] = ms[p + j]
      BY <2>7
    <2> HIDE DEF q, s
    <2>10. RoundAt(s, q, r, k, k)
      BY <2>6, <2>8, <2>9 DEF RoundAt
    <2>11. Summarized(ms) = s
      BY <1>3 DEF Summarized, Summary, s, c
    <2> QED
      BY <2>6, <2>10, <2>11
  <1> QED
    BY <1>2, <1>3

\* What is added at the end leaves the rounds before it as they are.
LEMMA AppendKeeps ==
    ASSUME NEW ms \in Seq(Msg), NEW m \in Msg
    PROVE  /\ Append(ms, m) \in Seq(Msg) /\ Len(Append(ms, m)) = Len(ms) + 1
           /\ Append(ms, m)[Len(ms) + 1] = m
           /\ \A i \in 1..Len(ms) : /\ Append(ms, m)[i] = ms[i]
                                    /\ Answers(ms, i) => Answers(Append(ms, m), i)
                                    /\ Owned(ms, i) => Owned(Append(ms, m), i)
  <1> DEFINE s == Append(ms, m)
  <1>1. /\ s \in Seq(Msg) /\ Len(s) = Len(ms) + 1 /\ s[Len(ms) + 1] = m
        /\ \A i \in 1..Len(ms) : s[i] = ms[i]
    BY AppendProperties
  <1> HIDE DEF s
  <1>2. \A i \in 1..Len(ms) : ms[i].n \in Nat
    <2>1. \A i \in 1..Len(ms) : ms[i] \in Msg
      OBVIOUS
    <2> QED
      BY <2>1 DEF Msg
  <1>3. ASSUME NEW i \in 1..Len(ms), Answers(ms, i) PROVE Answers(s, i)
    <2>1. i + ms[i].n <= Len(ms) /\ s[i] = ms[i] /\ ms[i].n \in Nat
      BY <1>1, <1>2, <1>3 DEF Answers
    <2>2. i + ms[i].n <= Len(s)
      BY <1>1, <2>1
    <2>3. ASSUME NEW k \in 1..ms[i].n PROVE s[i + k] = ms[i + k]
      <3>1. i + k \in 1..Len(ms)
        BY <2>1
      <3> QED
        BY <1>1, <3>1
    <2> QED
      BY <1>3, <2>1, <2>2, <2>3 DEF Answers
  <1>4. ASSUME NEW i \in 1..Len(ms), Owned(ms, i) PROVE Owned(s, i)
    <2>1. i - ms[i].n \in 1..Len(ms)
      BY <1>2, <1>4 DEF Owned
    <2>2. s[i] = ms[i] /\ s[i - ms[i].n] = ms[i - ms[i].n]
      BY <1>1, <2>1
    <2> QED
      BY <1>4, <2>2 DEF Owned
  <1> QED
    BY <1>1, <1>3, <1>4 DEF s

\* What BeforeModel (agent.go:121) leaves of a conversation.
LEMMA BeforeModelSound ==
    ASSUME Types, SoundInv, BeforeModel
    PROVE  Valid(messages') /\ ResultsReachModel'
  <1>1. PICK edited \in {messages, Edited(messages)} : messages' \in {edited, Summarized(edited)}
    BY DEF BeforeModel
  <1>2. /\ pc = "before" /\ UNCHANGED <<setup, iteration, response>>
    BY DEF BeforeModel, Ready, agent
  <1>3. Valid(messages) /\ (iteration > 1 => LastRound(iteration - 1))
    BY <1>2 DEF SoundInv
  <1>4. setup.keepResults \in Nat /\ setup.keepRecent \in Nat
    BY SetupTypes DEF Types
  <1>5. Valid(edited)
    BY <1>1, <1>3, EditedValid
  <1>6. edited \in Seq(Msg) /\ messages \in Seq(Msg)
    BY <1>3, <1>5 DEF Valid
  <1>7. Valid(messages')
    <2>1. CASE messages' = edited
      BY <1>5, <2>1
    <2>2. CASE messages' = Summarized(edited) /\ Len(edited) <= setup.keepRecent
      BY <1>5, <2>2 DEF Summarized
    <2>3. CASE messages' = Summarized(edited) /\ ~(Len(edited) <= setup.keepRecent)
      <3>1. messages' = Summary(edited, Cut(edited))
        BY <2>3 DEF Summarized, Summary
      <3>2. Len(edited) > setup.keepRecent
        BY <1>4, <1>6, <2>3
      <3>3. Cut(edited) \in 0..Len(edited) /\ CleanCut(edited, Cut(edited))
        BY <1>4, <1>6, <3>2, CutFound
      <3> QED
        BY <1>5, <3>1, <3>3, SummaryValid
    <2> QED
      BY <1>1, <2>1, <2>2, <2>3
  <1>8. ResultsReachModel'
    <2> DEFINE k == Len(response)
    <2> SUFFICES ASSUME iteration > 1, setup.keepResults >= k, setup.keepRecent > k
                 PROVE  /\ Len(messages') > k
                        /\ \A i \in 1..k : messages'[Len(messages') - k + i] = ToolResult(iteration - 1, i)
      BY <1>2 DEF ResultsReachModel
    <2>1. k \in Nat
      BY DEF Types
    <2> HIDE DEF k
    <2>2. PICK p \in 1..Len(messages) : RoundAt(messages, p, iteration - 1, k, k)
      BY <1>3 DEF LastRound, k
    <2>3. RoundAt(edited, p, iteration - 1, k, k)
      BY <1>1, <1>4, <1>6, <2>1, <2>2, EditedRecent
    <2>4. \E q \in 1..Len(messages') : RoundAt(messages', q, iteration - 1, k, k)
      <3>1. CASE messages' = edited
        BY <2>3, <3>1 DEF RoundAt
      <3>2. CASE messages' = Summarized(edited)
        BY <1>4, <1>6, <2>1, <2>3, <3>2, SummarizedRecent
      <3> QED
        BY <1>1, <3>1, <3>2
    <2>5. PICK q \in 1..Len(messages') : RoundAt(messages', q, iteration - 1, k, k)
      BY <2>4
    <2>6. /\ Len(messages') = q + k /\ \A i \in 1..k : messages'[q + i] = ToolResult(iteration - 1, i)
      BY <2>5 DEF RoundAt
    <2>7. Len(messages') \in Nat
      BY <1>7 DEF Valid
    <2>8. Len(messages') > k /\ \A i \in 1..k : Len(messages') - k + i = q + i
      BY <2>1, <2>6, <2>7
    <2> QED
      BY <2>6, <2>8
  <1> QED
    BY <1>7, <1>8

\* A round begins with the model's message (agent.go:176).
LEMMA StartRoundSound ==
    ASSUME Types, SoundInv, StartRound
    PROVE  OpenRound'
  <1>1. /\ pc = "after" /\ messages' = Append(messages, Assistant(iteration, Len(response)))
        /\ current' = 1 /\ UNCHANGED <<iteration, response>>
    BY DEF StartRound, Ready
  <1>2. Valid(messages) /\ messages \in Seq(Msg) /\ Len(messages) \in Nat
    BY <1>1 DEF SoundInv, Valid
  <1> DEFINE m == Assistant(iteration, Len(response))
             p == Len(messages) + 1
  <1>3. m \in Msg /\ m.role = "assistant"
    BY DEF Types, Assistant, Msg
  <1>4. /\ messages' \in Seq(Msg) /\ Len(messages') = p /\ messages'[p] = m
        /\ \A i \in 1..Len(messages) : /\ messages'[i] = messages[i]
                                       /\ Answers(messages, i) => Answers(messages', i)
                                       /\ Owned(messages, i) => Owned(messages', i)
    BY <1>1, <1>2, <1>3, AppendKeeps
  <1>5. RoundAt(messages', p, iteration, Len(response), 0)
    BY <1>2, <1>4 DEF RoundAt
  <1>6. current' - 1 = 0
    BY <1>1
  <1>7. ASSUME NEW i \in 1..Len(messages'), i # p PROVE i \in 1..Len(messages)
    BY <1>2, <1>4, <1>7
  <1>8. \A i \in 1..Len(messages') : messages'[i].role = "assistant" /\ i # p => Answers(messages', i)
    BY <1>2, <1>4, <1>7 DEF Valid
  <1>9. ASSUME NEW i \in 1..Len(messages'), messages'[i].role = "tool" PROVE Owned(messages', i)
    <2>1. i # p
      BY <1>3, <1>4, <1>9
    <2> QED
      BY <1>2, <1>4, <1>7, <1>9, <2>1 DEF Valid
  <1>10. p \in 1..Len(messages')
    BY <1>2, <1>4
  <1> HIDE DEF p
  <1> QED
    BY <1>1, <1>4, <1>5, <1>6, <1>8, <1>9, <1>10 DEF OpenRound

\* And the result of each call follows, until they are all there (agent.go:189).
LEMMA ResultAdded ==
    ASSUME Types, SoundInv, InRound, RecordResult, UNCHANGED <<iteration, response>>
    PROVE  /\ current < Len(response) /\ current' = current + 1 => OpenRound'
           /\ ~(current < Len(response)) => Valid(messages') /\ LastRound(iteration)'
  <1> DEFINE calls == Len(response)
             m == ToolResult(iteration, current)
             l == Len(messages) + 1
  <1>1. current \in 1..calls /\ calls \in Nat /\ current \in Nat /\ iteration \in Nat
    BY DEF Types
  <1> HIDE DEF calls
  <1>2. PICK p \in 1..Len(messages) :
           /\ RoundAt(messages, p, iteration, calls, current - 1)
           /\ messages \in Seq(Msg)
           /\ \A i \in 1..Len(messages) : messages[i].role = "assistant" /\ i # p => Answers(messages, i)
           /\ \A i \in 1..Len(messages) : messages[i].role = "tool" => Owned(messages, i)
    BY DEF SoundInv, OpenRound, calls
  <1>3. /\ Len(messages) \in Nat /\ p \in Nat /\ p >= 1 /\ Len(messages) = p + (current - 1)
        /\ messages[p] = Assistant(iteration, calls)
        /\ \A j \in 1..current - 1 : messages[p + j] = ToolResult(iteration, j)
    BY <1>2 DEF RoundAt
  <1>4. l = p + current /\ p \in 1..l /\ l # p /\ l \in Nat
    BY <1>1, <1>3
  <1>5. m \in Msg /\ m.role = "tool" /\ m.n = current /\ m.round = iteration
    BY <1>1 DEF ToolResult, Msg
  <1>6. messages' = Append(messages, m)
    BY DEF RecordResult
  <1>7. /\ messages' \in Seq(Msg) /\ Len(messages') = l /\ messages'[l] = m
        /\ \A i \in 1..Len(messages) : /\ messages'[i] = messages[i]
                                       /\ Answers(messages, i) => Answers(messages', i)
                                       /\ Owned(messages, i) => Owned(messages', i)
    BY <1>2, <1>5, <1>6, AppendKeeps
  <1>8. \A i \in 1..l : i # l => i \in 1..Len(messages)
    BY <1>3
  <1>9. messages'[p] = Assistant(iteration, calls)
    BY <1>2, <1>3, <1>7
  <1>10. ASSUME NEW j \in 1..current PROVE messages'[p + j] = ToolResult(iteration, j)
    <2>1. CASE j = current
      BY <1>4, <1>7, <2>1
    <2>2. CASE j # current
      <3>1. j \in 1..current - 1 /\ p + j \in 1..Len(messages)
        BY <1>1, <1>3, <2>2
      <3> QED
        BY <1>3, <1>7, <3>1
    <2> QED
      BY <2>1, <2>2
  <1>11. RoundAt(messages', p, iteration, calls, current)
    BY <1>4, <1>7, <1>9, <1>10 DEF RoundAt
  <1>12. ASSUME NEW i \in 1..Len(messages'), messages'[i].role = "assistant", i # p PROVE Answers(messages', i)
    <2>1. i # l
      BY <1>5, <1>7, <1>12
    <2>2. i \in 1..Len(messages)
      BY <1>7, <1>8, <2>1
    <2> QED
      BY <1>2, <1>7, <1>12, <2>2
  <1>13. ASSUME NEW i \in 1..Len(messages'), messages'[i].role = "tool" PROVE Owned(messages', i)
    <2>1. CASE i = l
      <3>1. messages'[i].n = current /\ messages'[i].round = iteration /\ i - current = p /\ i > current
        BY <1>1, <1>3, <1>4, <1>5, <1>7, <2>1
      <3>2. messages'[p].role = "assistant" /\ messages'[p].round = iteration /\ messages'[p].n = calls
        BY <1>9 DEF Assistant
      <3>3. current >= 1 /\ current <= calls
        BY <1>1
      <3> HIDE DEF l
      <3> QED
        BY <3>1, <3>2, <3>3 DEF Owned
    <2>2. CASE i # l
      BY <1>2, <1>7, <1>8, <1>13, <2>2
    <2> QED
      BY <2>1, <2>2
  <1>14. ASSUME current < Len(response), current' = current + 1 PROVE OpenRound'
    <2>1. current' - 1 = current /\ p \in 1..Len(messages') /\ response' = response /\ iteration' = iteration
      BY <1>1, <1>4, <1>7, <1>14
    <2> QED
      BY <1>7, <1>11, <1>12, <1>13, <2>1 DEF OpenRound, calls
  <1>15. ASSUME ~(current < Len(response)) PROVE Valid(messages') /\ LastRound(iteration)'
    <2>1. current = calls
      BY <1>1, <1>15 DEF calls
    <2>2. p \in 1..Len(messages')
      BY <1>4, <1>7
    <2>3. LastRound(iteration)'
      BY <1>11, <2>1, <2>2 DEF LastRound, calls
    <2>4. Answers(messages', p)
      <3>1. messages'[p].n = calls /\ messages'[p].round = iteration /\ p + calls <= Len(messages')
        BY <1>4, <1>7, <1>9, <2>1 DEF Assistant
      <3>2. ASSUME NEW k \in 1..calls
            PROVE  messages'[p + k].role = "tool" /\ messages'[p + k].round = iteration /\ messages'[p + k].n = k
        <4>1. messages'[p + k] = ToolResult(iteration, k)
          BY <1>10, <2>1
        <4> QED
          BY <4>1 DEF ToolResult
      <3> QED
        BY <3>1, <3>2 DEF Answers
    <2>5. Valid(messages')
      BY <1>7, <1>12, <1>13, <2>4 DEF Valid
    <2> QED
      BY <2>3, <2>5
  <1> QED
    BY <1>14, <1>15

\* A caller's history is one a provider accepts.
LEMMA HistoriesValid == \A h \in Histories : Valid(h)
  <1> SUFFICES ASSUME NEW h \in Histories PROVE Valid(h)
    OBVIOUS
  <1>1. CASE h = <<User>>
    <2>1. User \in Msg
      BY DEF User, Msg
    <2>2. h \in Seq(Msg) /\ Len(h) = 1 /\ h[1].role = "user"
      BY <1>1, <2>1 DEF User
    <2> QED
      BY <2>2 DEF Valid
  <1>2. CASE h = <<User, Assistant(0, 1), ToolResult(0, 1), User>>
    <2>1. User \in Msg /\ Assistant(0, 1) \in Msg /\ ToolResult(0, 1) \in Msg
      BY DEF User, Assistant, ToolResult, Msg
    <2>2. h \in Seq(Msg) /\ Len(h) = 4 /\ h[1] = User /\ h[2] = Assistant(0, 1) /\ h[3] = ToolResult(0, 1) /\ h[4] = User
      BY <1>2, <2>1
    <2>3. h[1].role = "user" /\ h[2].role = "assistant" /\ h[3].role = "tool" /\ h[4].role = "user"
      BY <2>2 DEF User, Assistant, ToolResult
    <2>4. h[2].n = 1 /\ h[2].round = 0 /\ h[3].n = 1 /\ h[3].round = 0
      BY <2>2 DEF Assistant, ToolResult
    <2>5. Answers(h, 2)
      <3>1. ASSUME NEW k \in 1..1 PROVE h[2 + k].role = "tool" /\ h[2 + k].round = h[2].round /\ h[2 + k].n = k
        <4>1. k = 1 /\ 2 + k = 3
          OBVIOUS
        <4> QED
          BY <2>3, <2>4, <4>1
      <3> QED
        BY <2>2, <2>4, <3>1 DEF Answers
    <2>6. Owned(h, 3)
      <3>1. 3 - h[3].n = 2
        BY <2>4
      <3> QED
        BY <2>3, <2>4, <3>1 DEF Owned
    <2>7. \A i \in 1..Len(h) : i = 1 \/ i = 2 \/ i = 3 \/ i = 4
      BY <2>2
    <2> QED
      BY <2>2, <2>3, <2>5, <2>6, <2>7 DEF Valid
  <1> QED
    BY <1>1, <1>2 DEF Histories

\* A call that ends leaves its result behind (agent.go:189).
LEMMA CallEndsSound ==
    ASSUME Types, SoundInv, InRound, CallEnds, UNCHANGED <<setup, given, iteration, response>>
    PROVE  SoundInv'
  <1>1. given' \in Histories
    BY DEF SoundInv
  <1>2. iteration \in Nat
    BY DEF Types
  <1>3. RecordResult
    BY DEF CallEnds
  <1>4. CASE current < Len(response)
    <2>1. current' = current + 1 /\ pc' = "call"
      BY <1>4 DEF CallEnds
    <2>2. OpenRound'
      BY <1>3, <1>4, <2>1, ResultAdded
    <2> QED
      BY <1>1, <2>1, <2>2 DEF SoundInv, ResultsReachModel
  <1>5. CASE ~(current < Len(response))
    <2>1. pc' = "next"
      BY <1>5 DEF CallEnds
    <2>2. Valid(messages') /\ LastRound(iteration)'
      BY <1>3, <1>5, ResultAdded
    <2> QED
      BY <1>1, <2>1, <2>2 DEF SoundInv, ResultsReachModel, InRound
  <1> QED
    BY <1>4, <1>5

\* The run goes on with the same conversation.
LEMMA SoundSame ==
    ASSUME Types, SoundInv, UNCHANGED <<setup, given, messages, iteration, response>>,
           \/ UNCHANGED <<pc, current>>
           \/ pc = "model" /\ pc' = "after"
           \/ InRound /\ InRound' /\ current' = current
           \/ pc' \in {"returning", "returned"}
    PROVE  SoundInv'
  <1> USE DEF SoundInv, InRound, OpenRound, LastRound, ResultsReachModel
  <1>1. CASE UNCHANGED <<pc, current>>
    BY <1>1
  <1>2. CASE pc = "model" /\ pc' = "after"
    BY <1>2
  <1>3. CASE InRound /\ InRound' /\ current' = current
    BY <1>3
  <1>4. CASE pc' \in {"returning", "returned"}
    BY <1>4
  <1> QED
    BY <1>1, <1>2, <1>3, <1>4

\* Every step of a run keeps its conversation sound (agent.go, run).
LEMMA SoundKept == Types /\ SoundInv /\ [Next]_vars => SoundInv'
  <1> SUFFICES ASSUME Types, SoundInv, [Next]_vars PROVE SoundInv'
    OBVIOUS
  <1> USE DEF Ready, agent
  <1>1. CASE UNCHANGED vars
    BY <1>1, SoundSame DEF vars, conversation, calling
  <1>2. CASE NextIteration
    <2>1. UNCHANGED <<setup, given, messages, response>> /\ pc = "next" /\ iteration \in Nat
      BY <1>2 DEF NextIteration, Types
    <2>2. CASE iteration < MaxIterations
      <3>1. iteration' = iteration + 1 /\ pc' = "before"
        BY <1>2, <2>2 DEF NextIteration
      <3>2. iteration' > 0 /\ iteration' - 1 = iteration /\ (iteration' > 1 => iteration > 0)
        BY <2>1, <3>1
      <3>3. Valid(messages') /\ (iteration' > 1 => LastRound(iteration - 1)')
        BY <2>1, <3>2 DEF SoundInv, LastRound
      <3>4. ~InRound' /\ ResultsReachModel'
        BY <3>1 DEF InRound, ResultsReachModel
      <3> QED
        BY <2>1, <3>1, <3>2, <3>3, <3>4 DEF SoundInv
    <2>3. CASE ~(iteration < MaxIterations)
      BY <1>2, <2>1, <2>3, SoundSame DEF NextIteration, Return
    <2> QED
      BY <2>2, <2>3
  <1>3. CASE BeforeModel
    <2>1. Valid(messages') /\ ResultsReachModel'
      BY <1>3, BeforeModelSound
    <2>2. pc' = "model" /\ given' = given
      BY <1>3 DEF BeforeModel
    <2> QED
      BY <2>1, <2>2 DEF SoundInv, InRound
  <1>4. CASE BeforeModelFails
    <2>1. pc' = "returning" /\ given' = given
      BY <1>4 DEF BeforeModelFails, Return
    <2> QED
      BY <2>1 DEF SoundInv, InRound, ResultsReachModel
  <1>5. CASE ModelAnswers
    <2>1. pc = "model" /\ pc' = "after" /\ given' = given /\ messages' = messages
      BY <1>5 DEF ModelAnswers
    <2> QED
      BY <2>1 DEF SoundInv, InRound, ResultsReachModel
  <1>6. CASE ModelFails
    <2>1. /\ UNCHANGED <<setup, given, messages, iteration, response, current>>
          /\ UNCHANGED pc \/ pc' = "returning"
      BY <1>6 DEF ModelFails, Return, calling
    <2> QED
      BY <2>1, SoundSame
  <1>7. CASE AfterModelFails \/ Answer \/ NoExecutor
    BY <1>7, SoundSame DEF AfterModelFails, Answer, NoExecutor, Return, conversation
  <1>8. CASE StartRound
    <2>1. pc' = "call" /\ given' = given
      BY <1>8 DEF StartRound
    <2>2. OpenRound'
      BY <1>8, StartRoundSound
    <2> QED
      BY <2>1, <2>2 DEF SoundInv, ResultsReachModel
  <1>9. CASE StartCall
    BY <1>9, SoundSame DEF StartCall, InRound, conversation
  <1>10. CASE Refuse \/ ToolReturns \/ ToolRejected \/ ToolFails \/ BackoffCut
    <2>1. InRound /\ UNCHANGED <<setup, given, iteration, response>>
      BY <1>10 DEF Refuse, ToolReturns, ToolRejected, ToolFails, BackoffCut, InRound
    <2>2. CASE CallEnds
      BY <2>1, <2>2, CallEndsSound
    <2>3. CASE ~CallEnds
      <3>1. InRound' /\ UNCHANGED <<messages, current>>
        BY <1>10, <2>3 DEF Refuse, ToolReturns, ToolRejected, ToolFails, BackoffCut, AfterError, InRound
      <3> QED
        BY <2>1, <3>1, SoundSame
    <2> QED
      BY <2>2, <2>3
  <1>11. CASE ToolAborts \/ AwaitApproval
    BY <1>11, SoundSame DEF ToolAborts, AwaitApproval, Aborted, Return, conversation
  <1>12. CASE BackoffEnds
    BY <1>12, SoundSame DEF BackoffEnds, InRound, conversation
  <1>13. CASE Finish
    BY <1>13, SoundSame DEF Finish, conversation
  <1>14. CASE Deliver \/ Drop \/ Cancel \/ StopReading
    BY <1>14, SoundSame DEF Deliver, Drop, Cancel, StopReading, conversation, calling
  <1>15. CASE Resume
    <2>1. pc' = "next" /\ iteration' = 0 /\ messages' = given /\ given' = given
      BY <1>15 DEF Resume
    <2>2. given \in Histories /\ Valid(given)
      BY HistoriesValid DEF SoundInv
    <2> QED
      BY <2>1, <2>2 DEF SoundInv, InRound, ResultsReachModel
  <1> QED
    BY <1>1, <1>2, <1>3, <1>4, <1>5, <1>6, <1>7, <1>8, <1>9, <1>10, <1>11, <1>12, <1>13, <1>14, <1>15
       DEF Next, Loop, ModelCall, Outcome, ToolCall

(***************************************************************************)
(* Every conversation an agent sends (agent.go:139) has a result for each  *)
(* call and a call for each result, however often the middleware           *)
(* summarized it or cut results out of it, whatever failed, was refused or *)
(* was given up in between; and the model sees the last round whole when   *)
(* the middleware is to keep that much.                                    *)
(***************************************************************************)
THEOREM RequestsAlwaysSound == Spec => []SoundRequest
  <1>1. Init => Types /\ SoundInv
    <2> SUFFICES ASSUME Init PROVE Types /\ SoundInv
      OBVIOUS
    <2>1. Types
      BY SetupTypes DEF Init, Types, InRound
    <2>2. pc = "next" /\ iteration = 0 /\ messages = given /\ given \in Histories
      BY DEF Init
    <2>3. Valid(messages)
      BY <2>2, HistoriesValid
    <2> QED
      BY <2>1, <2>2, <2>3 DEF SoundInv, InRound, ResultsReachModel
  <1>2. Types /\ SoundInv /\ [Next]_vars => Types' /\ SoundInv'
    BY TypesKept, SoundKept
  <1>3. Types /\ SoundInv => SoundRequest
    <2> SUFFICES ASSUME SoundInv, pc = "model" PROVE CallsAnswered(messages) /\ ResultsOwned(messages)
      BY DEF SoundRequest, ValidRequest, SoundInv
    <2>1. Valid(messages)
      BY DEF SoundInv
    <2> QED
      BY <2>1 DEF Valid, Answers, Owned, CallsAnswered, ResultsOwned
  <1> QED
    BY <1>1, <1>2, <1>3, PTL DEF Spec

-----------------------------------------------------------------------------
(* EventsTellTheRun. *)

Sent == [kind : {"content", "tool_call", "tool_result", "done", "error"}, round : Nat, n : Nat]

\* emit hands over one event at a time, and the run waits for it.
OneAtATime ==
    /\ out = <<>> \/ \E e \in Sent : out = <<e>>
    /\ ~setup.streams => out = <<>>

\* The call being made was announced, and what is handed over ends it.
CallsPaired ==
    /\ pc = "exec" => out = <<>> \/ out = <<Event("tool_call")>>
    /\ pc = "sleep" => out = <<>>
    /\ pc \in {"exec", "sleep"} /\ out = <<>> /\ setup.streams /\ ~cancelled => seen = Event("tool_call")
    /\ out # <<>> /\ Head(out).kind = "tool_result" /\ ~cancelled =>
          seen = [Head(out) EXCEPT !.kind = "tool_call"]

\* The final event comes when the run has returned, and nothing after it.
EndsOnce ==
    /\ out # <<>> /\ Head(out).kind \in Final => pc = "returned"
    /\ seen.kind \in Final => pc = "returned" /\ out = <<>>
    /\ pc = "returned" => out = <<>> \/ out = <<FinalEvent>>
    /\ pc = "returned" /\ out = <<>> /\ setup.streams /\ ~cancelled => seen = FinalEvent

EventInv == OneAtATime /\ CallsPaired /\ EndsOnce

\* Events of a call, and the last one.
LEMMA EventTypes ==
    ASSUME Types
    PROVE  /\ Event("content") \in Sent /\ Event("tool_call") \in Sent /\ Event("tool_result") \in Sent
           /\ FinalEvent \in Sent /\ FinalEvent.kind \in Final
           /\ Event("tool_call") = [Event("tool_result") EXCEPT !.kind = "tool_call"]
           /\ \A kind : Event(kind).kind = kind
  <1>1. iteration \in Nat /\ current \in Nat
    BY DEF Types
  <1> QED
    BY <1>1 DEF Event, FinalEvent, Sent, Final

\* One event, and how it is taken (stream.go:104).
LEMMA OneEvent ==
    ASSUME NEW e \in Sent
    PROVE  <<e>> # <<>> /\ Head(<<e>>) = e /\ Tail(<<e>>) = <<>>
  <1>1. <<e>> \in Seq(Sent) /\ Len(<<e>>) = 1
    OBVIOUS
  <1>2. Tail(<<e>>) \in Seq(Sent) /\ Len(Tail(<<e>>)) = 0
    BY <1>1
  <1>3. Tail(<<e>>) = <<>>
    BY <1>2
  <1> QED
    BY <1>1, <1>3

\* A step that tells nothing.
LEMMA QuietKeeps ==
    ASSUME Types, EventInv, out = <<>>, out' = <<>>, pc # "returned", pc' # "returned",
           UNCHANGED <<setup, seen, cancelled>>,
           pc' \in {"exec", "sleep"} => pc \in {"exec", "sleep"} /\ UNCHANGED <<iteration, current>>
    PROVE  EventInv'
  <1>1. OneAtATime' /\ EndsOnce'
    BY DEF EventInv, OneAtATime, EndsOnce
  <1>2. CallsPaired'
    BY DEF EventInv, CallsPaired, Event
  <1> QED
    BY <1>1, <1>2 DEF EventInv

\* A step that tells of an event (stream.go:104).
LEMMA EmitKeeps ==
    ASSUME Types, EventInv, out = <<>>, pc # "returned", UNCHANGED <<setup, seen, cancelled>>,
           NEW e \in Sent, Emit(<<e>>),
           e.kind \in Final => pc' = "returned",
           pc' # "sleep",
           pc' = "exec" => e = Event("tool_call") /\ UNCHANGED <<iteration, current>>,
           pc' = "returned" => e = FinalEvent /\ UNCHANGED <<iteration, current, result>>,
           e.kind = "tool_result" => pc \in {"exec", "sleep"} /\ e = Event("tool_result")
    PROVE  EventInv'
  <1>1. out' = IF setup.streams THEN <<e>> ELSE <<>>
    BY DEF Emit
  <1>2. seen.kind \notin Final
    BY DEF EventInv, EndsOnce
  <1>3. <<e>> # <<>> /\ Head(<<e>>) = e
    BY OneEvent
  <1>4. OneAtATime'
    BY <1>1 DEF OneAtATime
  <1>5. pc' = "exec" => Event("tool_call")' = Event("tool_call")
    BY DEF Event
  <1>6. pc' = "returned" => FinalEvent' = FinalEvent
    BY DEF FinalEvent, Event
  <1>7. CASE setup.streams
    <2>1. out' = <<e>>
      BY <1>1, <1>7
    <2>2. e.kind = "tool_result" /\ ~cancelled => seen = [e EXCEPT !.kind = "tool_call"]
      BY <1>7, EventTypes DEF EventInv, CallsPaired
    <2>3. CallsPaired'
      BY <1>3, <1>5, <2>1, <2>2 DEF CallsPaired
    <2>4. EndsOnce'
      BY <1>2, <1>3, <1>6, <2>1 DEF EndsOnce
    <2> QED
      BY <1>4, <2>3, <2>4 DEF EventInv
  <1>8. CASE ~setup.streams
    <2>1. out' = <<>>
      BY <1>1, <1>8
    <2>2. CallsPaired' /\ EndsOnce'
      BY <1>2, <1>8, <2>1 DEF CallsPaired, EndsOnce
    <2> QED
      BY <1>4, <2>2 DEF EventInv
  <1> QED
    BY <1>7, <1>8

\* Which steps tell of what (agent.go, run; stream.go:64).
LEMMA EventKept == Types /\ EventInv /\ [Next]_vars => EventInv'
  <1> SUFFICES ASSUME Types, EventInv, [Next]_vars PROVE EventInv'
    OBVIOUS
  <1> USE DEF Ready, agent
  <1>1. CASE UNCHANGED vars
    BY <1>1 DEF vars, stream, conversation, calling, EventInv, OneAtATime, CallsPaired, EndsOnce, Event, FinalEvent
  <1>2. CASE NextIteration \/ BeforeModel \/ BeforeModelFails \/ AfterModelFails \/ Answer \/ NoExecutor \/ StartRound
    <2>1. /\ out = <<>> /\ out' = <<>> /\ pc # "returned" /\ pc' # "returned"
          /\ UNCHANGED <<setup, seen, cancelled>> /\ pc' \notin {"exec", "sleep"}
      BY <1>2 DEF NextIteration, BeforeModel, BeforeModelFails, AfterModelFails, Answer, NoExecutor, StartRound,
                  Return, stream
    <2> QED
      BY <2>1, QuietKeeps
  <1>3. CASE ModelAnswers \/ ModelFails
    <2>1. /\ out = <<>> /\ pc # "returned" /\ pc' \notin {"exec", "sleep", "returned"}
          /\ UNCHANGED <<setup, seen, cancelled>>
      BY <1>3 DEF ModelAnswers, ModelFails, Return
    <2>2. PICK text \in Text : Emit(text)
      BY <1>3 DEF ModelAnswers, ModelFails
    <2>3. CASE text = <<>>
      <3>1. out' = <<>>
        BY <2>2, <2>3 DEF Emit
      <3> QED
        BY <2>1, <3>1, QuietKeeps
    <2>4. CASE text = <<Event("content")>>
      <3>1. Emit(<<Event("content")>>) /\ Event("content") \in Sent /\ Event("content").kind = "content"
        BY <2>2, <2>4, EventTypes
      <3>2. "content" \notin Final /\ "content" # "tool_result"
        BY DEF Final
      <3> QED
        BY <2>1, <3>1, <3>2, EmitKeeps
    <2> QED
      BY <2>2, <2>3, <2>4 DEF Text
  <1>4. CASE StartCall
    <2>1. /\ out = <<>> /\ pc = "call" /\ pc' = "exec" /\ UNCHANGED <<setup, seen, cancelled, iteration, current>>
          /\ Emit(<<Event("tool_call")>>)
      BY <1>4 DEF StartCall, conversation
    <2>2. /\ Event("tool_call") \in Sent /\ Event("tool_call").kind \notin Final
          /\ Event("tool_call").kind # "tool_result"
      BY EventTypes DEF Final
    <2> QED
      BY <2>1, <2>2, EmitKeeps
  <1>5. CASE Refuse \/ ToolReturns \/ ToolRejected \/ ToolFails \/ BackoffCut \/ ToolAborts \/ AwaitApproval
    <2>1. /\ out = <<>> /\ pc \in {"exec", "sleep"} /\ UNCHANGED <<setup, seen, cancelled>>
          /\ \/ Emit(<<Event("tool_result")>>) /\ pc' \in {"call", "next", "returning"}
             \/ out' = out /\ pc' = "sleep" /\ UNCHANGED <<iteration, current>>
      BY <1>5 DEF Refuse, ToolReturns, ToolRejected, ToolFails, BackoffCut, ToolAborts, AwaitApproval,
                  Aborted, Return, AfterError, CallEnds
    <2>2. CASE Emit(<<Event("tool_result")>>) /\ pc' \in {"call", "next", "returning"}
      <3>1. Event("tool_result") \in Sent /\ Event("tool_result").kind \notin Final
        BY EventTypes DEF Final
      <3> QED
        BY <2>1, <2>2, <3>1, EmitKeeps
    <2>3. CASE out' = out /\ pc' = "sleep" /\ UNCHANGED <<iteration, current>>
      BY <2>1, <2>3, QuietKeeps
    <2> QED
      BY <2>1, <2>2, <2>3
  <1>6. CASE BackoffEnds
    BY <1>6, QuietKeeps DEF BackoffEnds, stream, conversation
  <1>7. CASE Finish
    <2>1. /\ out = <<>> /\ pc = "returning" /\ pc' = "returned" /\ Emit(<<FinalEvent>>)
          /\ UNCHANGED <<setup, seen, cancelled, iteration, current, result>>
      BY <1>7 DEF Finish, conversation, calling
    <2>2. FinalEvent \in Sent /\ FinalEvent.kind \in Final /\ FinalEvent.kind # "tool_result"
      BY EventTypes DEF Final
    <2> QED
      BY <2>1, <2>2, EmitKeeps
  <1>8. CASE Deliver
    <2>1. /\ out # <<>> /\ seen' = Head(out) /\ out' = Tail(out)
          /\ UNCHANGED <<setup, pc, iteration, current, result, cancelled>>
      BY <1>8 DEF Deliver, conversation, calling
    <2>2. PICK e \in Sent : out = <<e>>
      BY <2>1 DEF EventInv, OneAtATime
    <2>3. Head(out) = e /\ out' = <<>> /\ seen' = e
      BY <2>1, <2>2, OneEvent
    <2>4. Event("tool_call")' = Event("tool_call") /\ FinalEvent' = FinalEvent
      BY <2>1 DEF Event, FinalEvent
    <2>5. pc = "exec" => e = Event("tool_call")
      BY <2>1, <2>3, OneEvent, EventTypes DEF EventInv, CallsPaired
    <2>6. pc # "sleep"
      BY <2>1 DEF EventInv, CallsPaired
    <2>7. pc = "returned" => e = FinalEvent
      BY <2>1, <2>3, OneEvent, EventTypes DEF EventInv, EndsOnce
    <2>8. e.kind \in Final => pc = "returned"
      BY <2>1, <2>3 DEF EventInv, EndsOnce
    <2>9. OneAtATime'
      BY <2>3 DEF OneAtATime
    <2>10. CallsPaired'
      BY <2>1, <2>3, <2>4, <2>5, <2>6 DEF CallsPaired
    <2>11. EndsOnce'
      BY <2>1, <2>3, <2>4, <2>7, <2>8 DEF EndsOnce
    <2> QED
      BY <2>9, <2>10, <2>11 DEF EventInv
  <1>9. CASE Drop
    <2>1. /\ out # <<>> /\ out' = Tail(out) /\ cancelled
          /\ UNCHANGED <<setup, pc, iteration, current, result, cancelled, seen>>
      BY <1>9 DEF Drop, GivesUp, conversation, calling
    <2>2. out' = <<>>
      BY <2>1, OneEvent DEF EventInv, OneAtATime
    <2>3. seen.kind \notin Final
      BY <2>1 DEF EventInv, EndsOnce
    <2>4. OneAtATime' /\ CallsPaired' /\ EndsOnce'
      BY <2>1, <2>2, <2>3 DEF OneAtATime, CallsPaired, EndsOnce
    <2> QED
      BY <2>4 DEF EventInv
  <1>10. CASE Cancel \/ StopReading
    <2>1. /\ UNCHANGED <<setup, pc, iteration, current, result, out, seen>>
          /\ cancelled' = cancelled \/ cancelled'
      BY <1>10 DEF Cancel, StopReading, stream, conversation, calling
    <2>2. OneAtATime'
      BY <2>1 DEF EventInv, OneAtATime
    <2>3. CallsPaired' /\ EndsOnce'
      BY <2>1 DEF EventInv, CallsPaired, EndsOnce, Event, FinalEvent
    <2> QED
      BY <2>2, <2>3 DEF EventInv
  <1>11. CASE Resume
    <2>1. out' = <<>> /\ seen' = NoEvent /\ pc' = "next"
      BY <1>11 DEF Resume
    <2>2. NoEvent.kind \notin Final
      BY DEF NoEvent, Final
    <2> QED
      BY <2>1, <2>2 DEF EventInv, OneAtATime, CallsPaired, EndsOnce
  <1> QED
    BY <1>1, <1>2, <1>3, <1>4, <1>5, <1>6, <1>7, <1>8, <1>9, <1>10, <1>11
       DEF Next, Loop, ModelCall, Outcome, ToolCall

\* What the reader is told by one step (stream.go:104).
Tells ==
    seen' \notin {seen, NoEvent} =>
        /\ seen.kind \notin Final
        /\ seen'.kind \in Final => pc = "returned"
        /\ (seen'.kind = "tool_result" /\ ~cancelled) => seen = [seen' EXCEPT !.kind = "tool_call"]

\* Only the handing over of an event tells the reader something.
LEMMA OnlyDelivers ==
    ASSUME EventInv, [Next]_vars
    PROVE  Tells
  <1> SUFFICES ASSUME seen' # seen, seen' # NoEvent PROVE Tells
    BY DEF Tells
  <1>1. Deliver
    BY DEF Next, Loop, ModelCall, Outcome, ToolCall, NextIteration, BeforeModel, BeforeModelFails,
           ModelAnswers, ModelFails, AfterModelFails, Answer, NoExecutor, StartRound, StartCall,
           Refuse, ToolReturns, ToolRejected, ToolFails, ToolAborts, Aborted, AwaitApproval,
           BackoffEnds, BackoffCut, Finish, Drop, Cancel, StopReading, Resume, stream, vars
  <1>2. out # <<>> /\ seen' = Head(out)
    BY <1>1 DEF Deliver
  <1>3. seen.kind \notin Final
    BY <1>2 DEF EventInv, EndsOnce
  <1>4. seen'.kind \in Final => pc = "returned"
    BY <1>2 DEF EventInv, EndsOnce
  <1>5. seen'.kind = "tool_result" /\ ~cancelled => seen = [seen' EXCEPT !.kind = "tool_call"]
    BY <1>2 DEF EventInv, CallsPaired
  <1> QED
    BY <1>3, <1>4, <1>5 DEF Tells

(***************************************************************************)
(* A reader that stays is told of each call and then of its result, and    *)
(* last of how the run ended (stream.go:64), in whichever way the run goes *)
(* on or fails in between.                                                 *)
(***************************************************************************)
THEOREM EventsAlwaysTell == Spec => EventsTellTheRun
  <1>1. Init => Types /\ EventInv
    <2> SUFFICES ASSUME Init PROVE Types /\ EventInv
      OBVIOUS
    <2>1. Types
      BY SetupTypes DEF Init, Types, InRound
    <2>2. out = <<>> /\ pc = "next" /\ seen = NoEvent
      BY DEF Init
    <2>3. NoEvent.kind \notin Final
      BY DEF NoEvent, Final
    <2> QED
      BY <2>1, <2>2, <2>3 DEF EventInv, OneAtATime, CallsPaired, EndsOnce
  <1>2. Types /\ EventInv /\ [Next]_vars => Types' /\ EventInv'
    BY TypesKept, EventKept
  <1>3. EventInv /\ [Next]_vars => Tells
    BY OnlyDelivers
  <1>4. EventInv => (pc = "returned" /\ out = <<>> /\ setup.streams /\ ~cancelled => seen = FinalEvent)
    BY DEF EventInv, EndsOnce
  <1>5. Spec => [](Types /\ EventInv)
    BY <1>1, <1>2, PTL DEF Spec
  <1>6. Spec => [][Tells]_vars
    BY <1>3, <1>5, PTL DEF Spec
  <1>7. Spec => [](pc = "returned" /\ out = <<>> /\ setup.streams /\ ~cancelled => seen = FinalEvent)
    BY <1>4, <1>5, PTL
  <1> QED
    BY <1>6, <1>7, PTL DEF EventsTellTheRun, Tells

-----------------------------------------------------------------------------
(* The conversation memory. *)

Message == [role : Role, size : Size, id : Nat]

\* The loop that counts the tokens (memory.go:126) has a total after each of
\* its turns.
LEMMA TotalsExist ==
    ASSUME NEW msgs \in Seq(Message)
    PROVE  \E g : g = [n \in 0..Len(msgs) |-> IF n = 0 THEN 0 ELSE g[n - 1] + msgs[n].size]
  <1> DEFINE Upto(g, m) == g = [n \in 0..m |-> IF n = 0 THEN 0 ELSE g[n - 1] + msgs[n].size]
             Missing == {m \in Nat : ~ \E g : Upto(g, m)}
  <1>1. Upto([n \in 0..0 |-> 0], 0)
    OBVIOUS
  <1>2. ASSUME NEW m \in Nat, NEW g, Upto(g, m)
        PROVE  \E h : Upto(h, m + 1)
    <2> DEFINE h == [n \in 0..(m + 1) |-> IF n <= m THEN g[n] ELSE g[m] + msgs[m + 1].size]
    <2>1. ASSUME NEW n \in 0..(m + 1)
          PROVE  h[n] = IF n = 0 THEN 0 ELSE h[n - 1] + msgs[n].size
      <3>1. CASE n = 0
        BY <1>2, <3>1
      <3>2. CASE n # 0 /\ n <= m
        BY <1>2, <3>2
      <3>3. CASE n = m + 1
        BY <3>3
      <3> QED
        BY <3>1, <3>2, <3>3
    <2>2. Upto(h, m + 1)
      BY <2>1
    <2> QED
      BY <2>2
  <1>3. Missing = {}
    <2> SUFFICES ASSUME Missing # {} PROVE FALSE
      OBVIOUS
    <2> HIDE DEF Upto
    <2>1. PICK m \in Missing : \A k \in Missing : m <= k
      BY LeastNumber
    <2>2. m # 0
      BY <1>1
    <2>3. m - 1 \in Nat /\ m - 1 \notin Missing
      BY <2>1, <2>2
    <2>4. PICK g : Upto(g, m - 1)
      BY <2>3
    <2>5. \E h : Upto(h, (m - 1) + 1)
      BY <1>2, <2>3, <2>4
    <2> QED
      BY <2>1, <2>5
  <1>4. Len(msgs) \in Nat
    OBVIOUS
  <1> QED
    BY <1>3, <1>4

\* The estimate is a number, whatever the messages.
LEMMA TokenCountIsNumber ==
    ASSUME NEW msgs \in Seq(Message)
    PROVE  tokenCount(msgs) \in Nat
  <1> DEFINE Totals(g) == g = [n \in 0..Len(msgs) |-> IF n = 0 THEN 0 ELSE g[n - 1] + msgs[n].size]
             sum == CHOOSE g : Totals(g)
             Wrong == {n \in 0..Len(msgs) : sum[n] \notin Nat}
  <1>1. Totals(sum)
    <2>1. \E g : Totals(g)
      BY TotalsExist
    <2> HIDE DEF Totals
    <2> QED
      BY <2>1
  <1>2. tokenCount(msgs) = sum[Len(msgs)]
    BY DEF tokenCount
  <1> HIDE DEF sum
  <1>3. ASSUME NEW n \in 1..Len(msgs) PROVE msgs[n].size \in Nat
    <2>1. msgs[n] \in Message
      OBVIOUS
    <2> QED
      BY <2>1, MemoryAssumption DEF Message
  <1>4. sum[0] = 0 /\ \A n \in 1..Len(msgs) : sum[n] = sum[n - 1] + msgs[n].size
    BY <1>1
  <1>5. Wrong = {}
    <2> SUFFICES ASSUME Wrong # {} PROVE FALSE
      OBVIOUS
    <2>1. PICK m \in Wrong : \A k \in Wrong : m <= k
      <3>1. Wrong \in SUBSET Nat
        OBVIOUS
      <3> QED
        BY <3>1, LeastNumber
    <2>2. m \in 1..Len(msgs)
      BY <1>4
    <2>3. sum[m - 1] \in Nat
      BY <2>1, <2>2
    <2> QED
      BY <1>3, <1>4, <2>2, <2>3
  <1> QED
    BY <1>2, <1>5

-----------------------------------------------------------------------------
\* The system messages at the start (memory.go:160): as many as there are, and no more.
LEMMA SystemPrefix ==
    ASSUME NEW msgs \in Seq(Message)
    PROVE  /\ LeadingSystem(msgs) \in 0..Len(msgs)
           /\ \A i \in 1..LeadingSystem(msgs) : msgs[i].role = "system"
           /\ \A n \in 1..Len(msgs) : (\A i \in 1..n : msgs[i].role = "system") => n <= LeadingSystem(msgs)
  <1> DEFINE T == {0} \cup {n \in 1..Len(msgs) : \A i \in 1..n : msgs[i].role = "system"}
             U == {Len(msgs) - n : n \in T}
  <1>1. T \subseteq 0..Len(msgs) /\ 0 \in T
    OBVIOUS
  <1>2. U \in SUBSET Nat /\ U # {}
    BY <1>1
  <1>3. \E u \in U : \A v \in U : u <= v
    BY <1>2, LeastNumber
  <1>4. \E m \in T : \A n \in T : m >= n
    <2> HIDE DEF T
    <2>1. PICK m \in T : \A n \in T : Len(msgs) - m <= Len(msgs) - n
      BY <1>3
    <2>2. \A n \in T : m >= n
      BY <1>1, <2>1
    <2> QED
      BY <2>2
  <1>5. LeadingSystem(msgs) \in T /\ \A n \in T : LeadingSystem(msgs) >= n
    <2>1. LeadingSystem(msgs) = CHOOSE m \in T : \A n \in T : m >= n
      BY DEF LeadingSystem, Max
    <2> HIDE DEF T
    <2> QED
      BY <1>4, <2>1
  <1> QED
    BY <1>1, <1>5

\* removeOldest (memory.go:160) cuts a gap behind the leading system messages
\* and before the newest message.
LEMMA RemovalCutsGap ==
    ASSUME NEW msgs \in Seq(Message), msgs # <<>>, NEW n \in Nat
    PROVE  \E gap \in 0..n :
             LET kept == removeOldest(msgs, n)
                 L    == LeadingSystem(msgs)
             IN  /\ kept \in Seq(Message)
                 /\ Len(kept) = Len(msgs) - gap /\ Len(kept) >= 1
                 /\ L <= Len(kept)
                 /\ \A i \in 1..Len(kept) : kept[i] = IF i <= L THEN msgs[i] ELSE msgs[i + gap]
                 /\ gap # 0 => L < Len(kept)
                 /\ gap = n \/ Len(kept) <= L + 1
  <1> DEFINE L == LeadingSystem(msgs)
             gap == Removable(msgs, n)
             kept == removeOldest(msgs, n)
  <1>1. L \in 0..Len(msgs) /\ Len(msgs) \in Nat /\ Len(msgs) >= 1
    BY SystemPrefix
  <1>2. /\ gap \in 0..n /\ L + gap <= Len(msgs)
        /\ gap # 0 => L + gap < Len(msgs)
        /\ gap = n \/ gap = Len(msgs) - 1 - L \/ L = Len(msgs)
    BY <1>1 DEF Removable
  <1>3. kept = SubSeq(msgs, 1, L) \o SubSeq(msgs, L + 1 + gap, Len(msgs))
    BY DEF removeOldest
  <1> HIDE DEF L, gap, kept
  <1> DEFINE front == SubSeq(msgs, 1, L)
             back == SubSeq(msgs, L + 1 + gap, Len(msgs))
  <1>4. front \in Seq(Message) /\ Len(front) = L /\ \A i \in 1..L : front[i] = msgs[i]
    BY <1>1, SubSeqProperties
  <1>5. /\ back \in Seq(Message) /\ Len(back) = Len(msgs) - L - gap
        /\ \A i \in 1..Len(back) : back[i] = msgs[i + L + gap]
    BY <1>1, <1>2, SubSeqProperties
  <1> HIDE DEF front, back
  <1>6. kept = front \o back
    BY <1>3 DEF front, back
  <1>7. /\ kept \in Seq(Message) /\ Len(kept) = Len(msgs) - gap
        /\ \A i \in 1..Len(kept) : kept[i] = IF i <= L THEN front[i] ELSE back[i - L]
    BY <1>1, <1>2, <1>4, <1>5, <1>6
  <1>8. \A i \in 1..Len(kept) : kept[i] = IF i <= L THEN msgs[i] ELSE msgs[i + gap]
    <2> SUFFICES ASSUME NEW i \in 1..Len(kept)
                 PROVE  kept[i] = IF i <= L THEN msgs[i] ELSE msgs[i + gap]
      OBVIOUS
    <2>1. CASE i <= L
      BY <1>1, <1>4, <1>7, <2>1
    <2>2. CASE ~(i <= L)
      <3>1. i - L \in 1..Len(back) /\ (i - L) + L + gap = i + gap
        BY <1>1, <1>2, <1>5, <1>7, <2>2
      <3>2. kept[i] = back[i - L]
        BY <1>7, <2>2
      <3> QED
        BY <1>5, <2>2, <3>1, <3>2
    <2> QED
      BY <2>1, <2>2
  <1>9. Len(kept) >= 1 /\ L <= Len(kept) /\ (gap # 0 => L < Len(kept)) /\ (gap = n \/ Len(kept) <= L + 1)
    BY <1>1, <1>2, <1>7
  <1> QED
    BY <1>2, <1>7, <1>8, <1>9 DEF L, gap, kept

-----------------------------------------------------------------------------
\* Numbered in the order they were added, up to the newest.
Numbered(msgs, newest) ==
    /\ \A i, j \in 1..Len(msgs) : i < j => msgs[i].id < msgs[j].id
    /\ msgs[Len(msgs)].id = newest

\* As few messages as the limit asks for, or as can be.
FewEnough(msgs) ==
    MaxMessages > 0 => Len(msgs) <= MaxMessages \/ Len(msgs) <= LeadingSystem(msgs) + 1

\* Removing from the middle keeps the order and the newest message.
LEMMA RemovalKeepsNumbers ==
    ASSUME NEW msgs \in Seq(Message), msgs # <<>>, NEW n \in Nat, NEW k \in Nat, Numbered(msgs, k)
    PROVE  Numbered(removeOldest(msgs, n), k)
  <1> DEFINE kept == removeOldest(msgs, n)
             L == LeadingSystem(msgs)
  <1>1. PICK gap \in 0..n :
           /\ kept \in Seq(Message)
           /\ Len(kept) = Len(msgs) - gap /\ Len(kept) >= 1
           /\ L <= Len(kept)
           /\ \A i \in 1..Len(kept) : kept[i] = IF i <= L THEN msgs[i] ELSE msgs[i + gap]
           /\ gap # 0 => L < Len(kept)
    BY RemovalCutsGap
  <1> HIDE DEF kept, L
  <1>2. L \in 0..Len(msgs) /\ Len(msgs) \in Nat /\ Len(msgs) >= 1
    BY SystemPrefix DEF L
  <1> DEFINE at(i) == IF i <= L THEN i ELSE i + gap
  <1>3. \A i \in 1..Len(kept) : at(i) \in 1..Len(msgs) /\ kept[i] = msgs[at(i)]
    BY <1>1, <1>2
  <1>4. \A i, j \in 1..Len(kept) : i < j => at(i) < at(j)
    BY <1>1, <1>2
  <1>5. at(Len(kept)) = Len(msgs) /\ Len(kept) \in 1..Len(kept)
    BY <1>1, <1>2
  <1> HIDE DEF at
  <1>6. \A i, j \in 1..Len(kept) : i < j => kept[i].id < kept[j].id
    BY <1>3, <1>4 DEF Numbered
  <1>7. kept[Len(kept)].id = k
    BY <1>3, <1>5 DEF Numbered
  <1> QED
    BY <1>6, <1>7 DEF Numbered, kept

\* The leading system messages stay, so what was few enough still is.
LEMMA RemovalKeepsCount ==
    ASSUME NEW msgs \in Seq(Message), msgs # <<>>, NEW n \in Nat
    PROVE  LET kept == removeOldest(msgs, n)
           IN  /\ kept \in Seq(Message) /\ kept # <<>>
               /\ LeadingSystem(msgs) <= LeadingSystem(kept)
               /\ Len(kept) <= Len(msgs)
               /\ Len(kept) = Len(msgs) - n \/ Len(kept) <= LeadingSystem(kept) + 1
               /\ FewEnough(msgs) => FewEnough(kept)
  <1> DEFINE kept == removeOldest(msgs, n)
             L == LeadingSystem(msgs)
  <1>1. PICK gap \in 0..n :
           /\ kept \in Seq(Message)
           /\ Len(kept) = Len(msgs) - gap /\ Len(kept) >= 1
           /\ L <= Len(kept)
           /\ \A i \in 1..Len(kept) : kept[i] = IF i <= L THEN msgs[i] ELSE msgs[i + gap]
           /\ gap = n \/ Len(kept) <= L + 1
    BY RemovalCutsGap
  <1> HIDE DEF kept, L
  <1>2. L \in 0..Len(msgs) /\ \A i \in 1..L : msgs[i].role = "system"
    BY SystemPrefix DEF L
  <1>3. /\ LeadingSystem(kept) \in 0..Len(kept)
        /\ \A m \in 1..Len(kept) : (\A i \in 1..m : kept[i].role = "system") => m <= LeadingSystem(kept)
    BY <1>1, SystemPrefix
  <1>4. \A i \in 1..L : kept[i].role = "system"
    BY <1>1, <1>2
  <1>5. L <= LeadingSystem(kept)
    <2>1. CASE L = 0
      BY <1>3, <2>1
    <2>2. CASE L # 0
      BY <1>1, <1>2, <1>3, <1>4, <2>2
    <2> QED
      BY <2>1, <2>2
  <1>6. Len(kept) <= Len(msgs) /\ (Len(kept) = Len(msgs) - n \/ Len(kept) <= LeadingSystem(kept) + 1)
    <2>1. Len(kept) \in Nat /\ Len(msgs) \in Nat /\ L \in Nat /\ LeadingSystem(kept) \in Nat
      BY <1>1, <1>2, <1>3
    <2>2. Len(kept) <= Len(msgs)
      BY <1>1, <2>1
    <2>3. ASSUME gap # n PROVE Len(kept) <= LeadingSystem(kept) + 1
      <3>1. Len(kept) <= L + 1
        BY <1>1, <2>3
      <3> QED
        BY <1>5, <2>1, <3>1
    <2> QED
      BY <1>1, <2>2, <2>3
  <1>7. FewEnough(msgs) => FewEnough(kept)
    BY <1>1, <1>2, <1>3, <1>5, <1>6, MemoryAssumption DEF FewEnough, L
  <1>8. kept # <<>>
    BY <1>1
  <1> QED
    BY <1>1, <1>5, <1>6, <1>7, <1>8 DEF kept, L

\* Trimming by count (memory.go:141) reaches the limit, as far as it can.
LEMMA CountTrimReachesLimit ==
    ASSUME NEW msgs \in Seq(Message), msgs # <<>>, NEW k \in Nat, Numbered(msgs, k)
    PROVE  LET kept == TrimCount(msgs)
           IN  kept \in Seq(Message) /\ kept # <<>> /\ Numbered(kept, k) /\ FewEnough(kept)
  <1>1. CASE MaxMessages > 0 /\ Len(msgs) > MaxMessages
    <2> DEFINE n == Len(msgs) - MaxMessages
    <2>1. n \in Nat /\ MaxMessages \in Nat /\ Len(msgs) \in Nat
      BY <1>1, MemoryAssumption
    <2> HIDE DEF n
    <2> DEFINE kept == removeOldest(msgs, n)
    <2>2. TrimCount(msgs) = kept
      BY <1>1 DEF TrimCount, n
    <2>3. /\ kept \in Seq(Message) /\ kept # <<>>
          /\ Len(kept) = Len(msgs) - n \/ Len(kept) <= LeadingSystem(kept) + 1
      BY <2>1, RemovalKeepsCount
    <2>4. Numbered(kept, k)
      BY <2>1, RemovalKeepsNumbers
    <2> HIDE DEF kept
    <2>5. FewEnough(kept)
      <3>1. Len(msgs) - n = MaxMessages
        BY <2>1 DEF n
      <3> QED
        BY <2>1, <2>3, <3>1 DEF FewEnough
    <2> QED
      BY <2>2, <2>3, <2>4, <2>5
  <1>2. CASE ~(MaxMessages > 0 /\ Len(msgs) > MaxMessages)
    <2>1. TrimCount(msgs) = msgs
      BY <1>2 DEF TrimCount
    <2>2. FewEnough(msgs)
      BY <1>2, MemoryAssumption DEF FewEnough
    <2> QED
      BY <2>1, <2>2
  <1> QED
    BY <1>1, <1>2

-----------------------------------------------------------------------------
\* What began with system messages still does; all of it is there until a
\* message of another role comes.
PromptFirst(msgs, all) ==
    /\ \A n \in 1..Len(all) :
          (\A i \in 1..n : all[i].role = "system") => n <= Len(msgs) /\ msgs[n] = all[n]
    /\ (\A i \in 1..Len(all) : all[i].role = "system") => msgs = all

\* Removing what comes behind the leading system messages keeps the prompt.
LEMMA RemovalKeepsPrompt ==
    ASSUME NEW msgs \in Seq(Message), msgs # <<>>, NEW n \in Nat,
           NEW all \in Seq(Message), PromptFirst(msgs, all)
    PROVE  PromptFirst(removeOldest(msgs, n), all)
  <1> DEFINE kept == removeOldest(msgs, n)
             L == LeadingSystem(msgs)
  <1>1. PICK gap \in 0..n :
           /\ kept \in Seq(Message)
           /\ Len(kept) = Len(msgs) - gap /\ Len(kept) >= 1
           /\ L <= Len(kept)
           /\ \A i \in 1..Len(kept) : kept[i] = IF i <= L THEN msgs[i] ELSE msgs[i + gap]
           /\ gap # 0 => L < Len(kept)
    BY RemovalCutsGap
  <1>2. /\ L \in 0..Len(msgs)
        /\ \A m \in 1..Len(msgs) : (\A i \in 1..m : msgs[i].role = "system") => m <= L
    BY SystemPrefix
  <1> HIDE DEF kept, L
  <1>3. ASSUME NEW m \in 1..Len(all), \A i \in 1..m : all[i].role = "system"
        PROVE  m <= Len(kept) /\ kept[m] = all[m] /\ m <= L
    <2>1. \A i \in 1..m : i <= Len(msgs) /\ msgs[i] = all[i]
      <3> SUFFICES ASSUME NEW i \in 1..m PROVE i <= Len(msgs) /\ msgs[i] = all[i]
        OBVIOUS
      <3>1. i \in 1..Len(all) /\ \A j \in 1..i : all[j].role = "system"
        BY <1>3
      <3> QED
        BY <3>1 DEF PromptFirst
    <2>2. m \in 1..Len(msgs) /\ \A i \in 1..m : msgs[i].role = "system"
      BY <1>3, <2>1
    <2>3. m <= L
      BY <1>2, <2>2
    <2>4. m \in 1..Len(kept) /\ m \in 1..m
      BY <1>1, <1>2, <2>2, <2>3
    <2>5. kept[m] = msgs[m] /\ msgs[m] = all[m]
      BY <1>1, <2>1, <2>3, <2>4
    <2> QED
      BY <2>3, <2>4, <2>5
  <1>4. ASSUME \A i \in 1..Len(all) : all[i].role = "system"
        PROVE  kept = all
    <2>1. msgs = all
      BY <1>4 DEF PromptFirst
    <2>2. Len(msgs) \in 1..Len(all)
      BY <1>1, <2>1
    <2>3. Len(msgs) <= L /\ Len(kept) \in Nat
      BY <1>1, <1>3, <1>4, <2>1, <2>2
    <2>4. gap = 0 /\ Len(kept) = Len(all)
      BY <1>1, <1>2, <2>1, <2>3
    <2>5. \A i \in 1..Len(kept) : kept[i] = all[i]
      BY <1>1, <2>1, <2>4
    <2> QED
      BY <1>1, <2>4, <2>5
  <1> QED
    BY <1>3, <1>4 DEF PromptFirst, kept

\* Trimming by count is such a removal.
LEMMA CountTrimKeepsPrompt ==
    ASSUME NEW msgs \in Seq(Message), msgs # <<>>, NEW all \in Seq(Message), PromptFirst(msgs, all)
    PROVE  PromptFirst(TrimCount(msgs), all)
  <1>1. CASE MaxMessages > 0 /\ Len(msgs) > MaxMessages
    <2>1. Len(msgs) - MaxMessages \in Nat
      BY <1>1, MemoryAssumption
    <2> QED
      BY <1>1, <2>1, RemovalKeepsPrompt DEF TrimCount
  <1>2. CASE ~(MaxMessages > 0 /\ Len(msgs) > MaxMessages)
    BY <1>2 DEF TrimCount
  <1> QED
    BY <1>1, <1>2

\* A message added to both.
LEMMA AppendKeepsPrompt ==
    ASSUME NEW msgs \in Seq(Message), NEW all \in Seq(Message), NEW msg \in Message,
           PromptFirst(msgs, all)
    PROVE  PromptFirst(Append(msgs, msg), Append(all, msg))
  <1> DEFINE longer == Append(msgs, msg)
             whole == Append(all, msg)
  <1>1. /\ longer \in Seq(Message) /\ Len(longer) = Len(msgs) + 1
        /\ \A i \in 1..Len(msgs) : longer[i] = msgs[i]
    BY AppendProperties
  <1>2. /\ whole \in Seq(Message) /\ Len(whole) = Len(all) + 1
        /\ \A i \in 1..Len(all) : whole[i] = all[i]
    BY AppendProperties
  <1>3. msgs = all => longer = whole
    OBVIOUS
  <1> HIDE DEF longer, whole
  <1>4. ASSUME NEW n \in 1..Len(whole), \A i \in 1..n : whole[i].role = "system"
        PROVE  n <= Len(longer) /\ longer[n] = whole[n]
    <2>1. CASE n <= Len(all)
      <3>1. n \in 1..Len(all) /\ \A i \in 1..n : all[i].role = "system"
        BY <1>2, <1>4, <2>1
      <3>2. n <= Len(msgs) /\ msgs[n] = all[n]
        BY <3>1 DEF PromptFirst
      <3> QED
        BY <1>1, <1>2, <3>1, <3>2
    <2>2. CASE ~(n <= Len(all))
      <3>1. \A i \in 1..Len(all) : all[i].role = "system"
        BY <1>2, <1>4, <2>2
      <3>2. longer = whole
        BY <1>3, <3>1 DEF PromptFirst
      <3> QED
        BY <3>2
    <2> QED
      BY <2>1, <2>2
  <1>5. ASSUME \A i \in 1..Len(whole) : whole[i].role = "system"
        PROVE  longer = whole
    <2>1. \A i \in 1..Len(all) : all[i].role = "system"
      BY <1>2, <1>5
    <2> QED
      BY <1>3, <2>1 DEF PromptFirst
  <1> QED
    BY <1>4, <1>5 DEF PromptFirst, longer, whole

-----------------------------------------------------------------------------
MemoryTypeOK ==
    /\ remembered \in Seq(Message)
    /\ told \in Seq(Message)
    /\ adding \in BOOLEAN
    /\ added \in Nat

\* What every turn of the loop that trims by tokens finds and leaves.
Trimmed == remembered # <<>> => Numbered(remembered, added) /\ FewEnough(remembered)

\* The loop has run until nothing was to be removed.
LoopRanOut == IF adding THEN remembered # <<>> ELSE ~OverTokens

MemoryInv == MemoryTypeOK /\ Trimmed /\ LoopRanOut /\ PromptFirst(remembered, told)

\* The invariant, through Add with its loop, and Clear (memory.go:63).
THEOREM MemoryInvariant == MemorySpec => []MemoryInv
  <1>1. MemoryInit => MemoryInv
    <2> SUFFICES ASSUME MemoryInit PROVE MemoryInv
      OBVIOUS
    <2>1. remembered \in Seq(Message) /\ Len(remembered) = 0 /\ remembered = <<>> /\ ~adding
      BY DEF MemoryInit
    <2>2. adding \in BOOLEAN /\ added \in Nat
      BY DEF MemoryInit
    <2>3. ~OverTokens
      BY <2>1 DEF OverTokens
    <2>4. told \in Seq(Message) /\ remembered = told /\ Len(told) = 0
      BY DEF MemoryInit
    <2>5. PromptFirst(remembered, told)
      BY <2>4 DEF PromptFirst
    <2> QED
      BY <2>1, <2>2, <2>3, <2>4, <2>5 DEF MemoryInv, MemoryTypeOK, Trimmed, LoopRanOut
  <1>2. MemoryInv /\ [MemoryNext]_memoryVars => MemoryInv'
    <2> SUFFICES ASSUME MemoryInv, [MemoryNext]_memoryVars PROVE MemoryInv'
      OBVIOUS
    <2> USE DEF MemoryInv
    <2>1. CASE Add
      <3>1. PICK role \in Role, size \in Size :
               /\ ~adding /\ added' = added + 1 /\ adding' = TRUE
               /\ remembered' = TrimCount(Append(remembered, [role |-> role, size |-> size, id |-> added + 1]))
               /\ told' = Append(told, [role |-> role, size |-> size, id |-> added + 1])
        BY <2>1 DEF Add
      <3> DEFINE new == [role |-> role, size |-> size, id |-> added + 1]
                 longer == Append(remembered, new)
      <3>2. new \in Message /\ added + 1 \in Nat /\ new.id = added + 1
        BY DEF MemoryTypeOK, Message
      <3>3. /\ longer \in Seq(Message) /\ Len(longer) = Len(remembered) + 1 /\ longer # <<>>
            /\ longer[Len(longer)] = new
            /\ \A i \in 1..Len(remembered) : longer[i] = remembered[i]
        <4> HIDE DEF new
        <4> QED
          BY <3>2, AppendProperties DEF MemoryTypeOK
      <3> HIDE DEF new
      <3>4. Numbered(longer, added + 1)
        <4> HIDE DEF longer
        <4>1. \A i \in 1..Len(remembered) : remembered[i] \in Message /\ remembered[i].id <= added
          <5> SUFFICES ASSUME NEW i \in 1..Len(remembered)
                       PROVE  remembered[i] \in Message /\ remembered[i].id <= added
            OBVIOUS
          <5>1. remembered[i] \in Message /\ remembered[i].id \in Nat
            <6>1. remembered[i] \in Message
              BY DEF MemoryTypeOK
            <6> QED
              BY <6>1 DEF Message
          <5>2. Numbered(remembered, added) /\ Len(remembered) \in 1..Len(remembered)
            BY DEF Trimmed, MemoryTypeOK
          <5>3. i < Len(remembered) => remembered[i].id < added
            BY <5>2 DEF Numbered
          <5>4. i = Len(remembered) => remembered[i].id = added
            BY <5>2 DEF Numbered
          <5> QED
            BY <5>1, <5>3, <5>4 DEF MemoryTypeOK
        <4>2. ASSUME NEW i \in 1..Len(longer), NEW j \in 1..Len(longer), i < j
              PROVE  longer[i].id < longer[j].id
          <5>1. i \in 1..Len(remembered) /\ Len(remembered) \in Nat
            BY <3>3, <4>2 DEF MemoryTypeOK
          <5>2. CASE j = Len(longer)
            <6>1. longer[i].id <= added /\ longer[i].id \in Nat
              BY <3>3, <4>1, <5>1 DEF Message
            <6> QED
              BY <3>2, <3>3, <5>2, <6>1 DEF MemoryTypeOK
          <5>3. CASE j # Len(longer)
            <6>1. j \in 1..Len(remembered)
              BY <3>3, <5>1, <5>3
            <6>2. remembered[i].id < remembered[j].id
              <7>1. Numbered(remembered, added)
                BY <5>1 DEF Trimmed, MemoryTypeOK
              <7> QED
                BY <4>2, <5>1, <6>1, <7>1 DEF Numbered
            <6> QED
              BY <3>3, <5>1, <6>1, <6>2
          <5> QED
            BY <5>2, <5>3
        <4> QED
          BY <3>2, <3>3, <4>2 DEF Numbered
      <3>5. remembered' = TrimCount(longer) /\ told' = Append(told, new)
        BY <3>1 DEF new
      <3>7. PromptFirst(longer, told') /\ told' \in Seq(Message)
        BY <3>2, <3>5, AppendKeepsPrompt DEF MemoryTypeOK
      <3> HIDE DEF longer
      <3>8. PromptFirst(remembered', told')
        BY <3>3, <3>5, <3>7, CountTrimKeepsPrompt
      <3>6. /\ remembered' \in Seq(Message) /\ remembered' # <<>>
            /\ Numbered(remembered', added + 1) /\ FewEnough(remembered')
        BY <3>2, <3>3, <3>4, <3>5, CountTrimReachesLimit
      <3> QED
        BY <3>1, <3>2, <3>6, <3>7, <3>8 DEF MemoryTypeOK, Trimmed, LoopRanOut
    <2>2. CASE TrimTokens
      <3>1. remembered # <<>> /\ remembered \in Seq(Message) /\ added \in Nat /\ 1 \in Nat
        BY <2>2 DEF TrimTokens, LoopRanOut, MemoryTypeOK
      <3>2. Numbered(remembered, added) /\ FewEnough(remembered)
        BY <3>1 DEF Trimmed
      <3>3. remembered' = removeOldest(remembered, 1) /\ UNCHANGED <<adding, added, told>> /\ adding
        BY <2>2 DEF TrimTokens
      <3>4. remembered' \in Seq(Message) /\ remembered' # <<>> /\ FewEnough(remembered')
        BY <3>1, <3>2, <3>3, RemovalKeepsCount
      <3>5. Numbered(remembered', added)
        BY <3>1, <3>2, <3>3, RemovalKeepsNumbers
      <3>6. PromptFirst(remembered', told')
        BY <3>1, <3>3, RemovalKeepsPrompt DEF MemoryTypeOK
      <3> QED
        BY <3>3, <3>4, <3>5, <3>6 DEF MemoryTypeOK, Trimmed, LoopRanOut
    <2>3. CASE AddReturn
      BY <2>3 DEF AddReturn, MemoryTypeOK, Trimmed, LoopRanOut, OverTokens, PromptFirst
    <2>4. CASE Clear
      <3>1. remembered' \in Seq(Message) /\ Len(remembered') = 0 /\ remembered' = <<>> /\ ~adding /\ ~adding'
        BY <2>4 DEF Clear
      <3>2. told' \in Seq(Message) /\ told' = remembered' /\ Len(told') = 0
        BY <2>4 DEF Clear
      <3>3. PromptFirst(remembered', told')
        BY <3>2 DEF PromptFirst
      <3> QED
        BY <2>4, <3>1, <3>2, <3>3 DEF Clear, MemoryTypeOK, Trimmed, LoopRanOut, OverTokens
    <2>5. CASE UNCHANGED memoryVars
      BY <2>5 DEF memoryVars, MemoryTypeOK, Trimmed, LoopRanOut, OverTokens, PromptFirst
    <2> QED
      BY <2>1, <2>2, <2>3, <2>4, <2>5 DEF MemoryNext
  <1> QED
    BY <1>1, <1>2, PTL DEF MemorySpec

\* trim (memory.go:138) leaves a history within both limits, as far as they can
\* be kept, in order, with its newest message and with the system messages it
\* began with, whatever the limits and the messages.
THEOREM TrimAlwaysRight == MemorySpec => []TrimsRight
  <1>1. MemoryInv => TrimsRight
    <2> SUFFICES ASSUME MemoryInv PROVE TrimsRight
      OBVIOUS
    <2> USE DEF MemoryInv
    <2>1. WithinLimits
      <3> SUFFICES ASSUME ~adding, remembered # <<>>
                   PROVE  /\ MaxMessages > 0 =>
                               Len(remembered) <= Max({MaxMessages, LeadingSystem(remembered) + 1})
                          /\ MaxTokens > 0 => tokenCount(remembered) <= MaxTokens \/ Len(remembered) = 1
        BY DEF WithinLimits
      <3>1. /\ Len(remembered) \in Nat /\ Len(remembered) >= 1
            /\ LeadingSystem(remembered) \in Nat /\ MaxMessages \in Nat /\ MaxTokens \in Nat
        BY SystemPrefix, MemoryAssumption DEF MemoryTypeOK
      <3>2. tokenCount(remembered) \in Nat
        BY TokenCountIsNumber DEF MemoryTypeOK
      <3>3. MaxTokens > 0 => tokenCount(remembered) <= MaxTokens \/ Len(remembered) = 1
        <4> DEFINE count == tokenCount(remembered)
                   kept  == Len(remembered)
        <4>1. ~(MaxTokens > 0 /\ count > MaxTokens /\ kept > 1)
          BY Zenon DEF LoopRanOut, OverTokens
        <4>2. count \in Nat /\ kept \in Nat /\ kept >= 1 /\ MaxTokens \in Nat
          BY <3>1, <3>2
        <4> HIDE DEF count, kept
        <4>3. MaxTokens > 0 => count <= MaxTokens \/ kept = 1
          BY <4>1, <4>2
        <4> QED
          BY <4>3 DEF count, kept
      <3>4. ASSUME NEW a \in Nat, NEW b \in Nat
            PROVE  a <= Max({a, b}) /\ b <= Max({a, b})
        <4>1. \E m \in {a, b} : \A x \in {a, b} : m >= x
          OBVIOUS
        <4>2. Max({a, b}) \in {a, b} /\ \A x \in {a, b} : Max({a, b}) >= x
          BY <4>1 DEF Max
        <4> QED
          BY <4>2
      <3>5. LeadingSystem(remembered) + 1 \in Nat
        BY <3>1
      <3>6. /\ MaxMessages <= Max({MaxMessages, LeadingSystem(remembered) + 1})
            /\ LeadingSystem(remembered) + 1 <= Max({MaxMessages, LeadingSystem(remembered) + 1})
            /\ Max({MaxMessages, LeadingSystem(remembered) + 1}) \in Nat
        <4>1. Max({MaxMessages, LeadingSystem(remembered) + 1}) \in {MaxMessages, LeadingSystem(remembered) + 1}
          <5>1. \E m \in {MaxMessages, LeadingSystem(remembered) + 1} :
                   \A x \in {MaxMessages, LeadingSystem(remembered) + 1} : m >= x
            BY <3>1
          <5> QED
            BY <5>1 DEF Max
        <4> QED
          BY <3>1, <3>4, <3>5, <4>1
      <3>7. MaxMessages > 0 => Len(remembered) <= Max({MaxMessages, LeadingSystem(remembered) + 1})
        <4>1. FewEnough(remembered)
          BY DEF Trimmed
        <4> HIDE DEF MemoryInv
        <4> QED
          BY <3>1, <3>6, <4>1 DEF FewEnough
      <3> QED
        BY <3>3, <3>7
    <2>2. NewestKept
      <3>1. CASE remembered = <<>>
        <4>1. Len(remembered) = 0
          BY <3>1
        <4> QED
          BY <3>1, <4>1 DEF NewestKept, LoopRanOut
      <3>2. CASE remembered # <<>>
        BY <3>2 DEF NewestKept, Trimmed, Numbered
      <3> QED
        BY <3>1, <3>2
    <2>3. PromptKept
      BY DEF PromptKept, PromptFirst
    <2> QED
      BY <2>1, <2>2, <2>3 DEF TrimsRight
  <1> QED
    BY <1>1, MemoryInvariant, PTL
=============================================================================
