--------------------------- MODULE SuperstepProofs ---------------------------
(***************************************************************************)
(* Proofs about what one superstep of a graph run is made of: NodeExec,    *)
(* for any number of retries and every way a node can be added, and        *)
(* RunBranches, for any number of branches.                                *)
(*                                                                         *)
(* The invariant of a node's execution places the goroutines of all        *)
(* attempts relative to the current one: none has been started ahead of it *)
(* (NotStarted), and without a timeout all before it have failed and are   *)
(* over (OneAtATime).                                                      *)
(*                                                                         *)
(* AllOrError speaks of the end of a fan-out only.  Its invariant says     *)
(* what holds on the way there: a goroutine that is done has filled        *)
(* exactly one of its two slots (SlotsFilled), and a context is done for a *)
(* reason that the slots or the run's own context show                     *)
(* (CancelledForCause).                                                    *)
(***************************************************************************)
EXTENDS NodeExec, RunBranches, SequenceLemmas

ExecTypeOK ==
    /\ options \in Options
    /\ pc \in {"call", "wait", "sleep", "handler", "returned"}
    /\ attempt \in Attempt
    /\ body \in [Attempt -> {"none", "running", "answered"} \cup Outcomes]
    /\ expired \in BOOLEAN /\ cancelled \in BOOLEAN
    /\ slot \in {"none", "fresh", "used"}
    /\ late \in Nat
    /\ returned \in [kind : {"nothing", "recovered"} \cup Outcomes, from : Attempt]

NotStarted == \A a \in Attempt :
    (a > attempt \/ (a = attempt /\ pc = "call")) => body[a] = "none"

\* Without a timeout an attempt is over before anything else happens.
OneAtATime == ~options.timeout =>
    /\ \A a \in Attempt : a < attempt => body[a] = "failed"
    /\ pc \in {"sleep", "handler"} => body[attempt] = "failed"
    /\ pc = "returned" =>
         /\ body[attempt] \in Outcomes
         /\ body[attempt] = "interrupt" => returned = Returned("interrupt", attempt)

\* execNode returns once, for the attempt it is in.
ReturnsOnce ==
    /\ pc # "returned" => returned.kind = "nothing"
    /\ pc = "returned" =>
         /\ returned.from = attempt
         /\ returned.kind = "ok" => body[attempt] = "ok"
         /\ returned.kind = "recovered" => attempt = Retries

\* Where the retries stand.
RetriesLeft ==
    /\ pc = "sleep" => attempt < Retries
    /\ pc = "handler" => attempt = Retries

\* An attempt started in a cancelled run is the last.
LateIsLast ==
    /\ late <= 1
    /\ late # 0 => cancelled /\ pc \in {"wait", "handler", "returned"}

ExecInv == ExecTypeOK /\ NotStarted /\ OneAtATime /\ ReturnsOnce /\ RetriesLeft /\ LateIsLast

-----------------------------------------------------------------------------
\* What follows an attempt that ended with an error (node.go:95).
LEMMA AfterErrorKeepsInv ==
    ASSUME ExecInv, pc = "wait", NEW err \in {"failed", "interrupt"}, AfterError(err),
           err = "interrupt" \/ ~options.timeout => body[attempt] = err,
           UNCHANGED <<options, attempt, body, expired, cancelled, slot, late>>
    PROVE  ExecInv'
  <1> USE DEF ExecInv
  <1>1. /\ pc' \in {"sleep", "handler", "returned"}
        /\ pc' # "returned" => returned' = returned /\ err = "failed"
        /\ pc' = "returned" => returned' = Returned(err, attempt)
        /\ pc' = "sleep" => attempt < Retries /\ ~cancelled
        /\ pc' = "handler" => attempt >= Retries
    BY NodeAssumption DEF AfterError, TriesAgain, Handles, ExecTypeOK, Attempt
  <1>2. attempt \in Attempt /\ attempt \in 0..Retries /\ Retries \in Nat
    BY NodeAssumption DEF ExecTypeOK, Attempt
  <1>3. ExecTypeOK'
    BY <1>1, <1>2 DEF ExecTypeOK, Returned, Outcomes
  <1>4. NotStarted'
    BY <1>1 DEF NotStarted
  <1>5. OneAtATime'
    BY <1>1, <1>2 DEF OneAtATime, Outcomes
  <1>6. ReturnsOnce'
    BY <1>1, <1>2 DEF ReturnsOnce, Returned
  <1>7. RetriesLeft'
    BY <1>1, <1>2 DEF RetriesLeft
  <1>8. LateIsLast'
    BY <1>1 DEF LateIsLast
  <1> QED
    BY <1>3, <1>4, <1>5, <1>6, <1>7, <1>8

\* What the node function of an attempt does, abandoned or not, cannot touch
\* what execNode has decided (node.go:127).
LEMMA BodyKeepsInv ==
    ASSUME ExecInv, NEW a \in Attempt, BodyAsks(a) \/ BodyReturns(a)
    PROVE  ExecInv'
  <1> USE DEF ExecInv
  <1>1. PICK o \in {"answered"} \cup Outcomes :
           /\ Live(a) /\ body' = [body EXCEPT ![a] = o]
           /\ slot' \in {slot, "used"}
           /\ UNCHANGED <<options, pc, attempt, expired, cancelled, late, returned>>
    <2>1. CASE BodyAsks(a)
      BY <2>1 DEF BodyAsks, Live, Outcomes
    <2>2. CASE BodyReturns(a)
      BY <2>2 DEF BodyReturns, Outcomes
    <2> QED
      BY <2>1, <2>2
  <1>2. a <= attempt /\ (pc = "call" => a # attempt) /\ attempt \in 0..Retries /\ a \in 0..Retries
    BY <1>1, NodeAssumption DEF NotStarted, Live, ExecTypeOK, Attempt
  <1>3. ~options.timeout => a = attempt /\ pc = "wait"
    BY <1>1, <1>2, NodeAssumption DEF OneAtATime, Live, ExecTypeOK, Outcomes
  <1>4. ExecTypeOK'
    BY <1>1 DEF ExecTypeOK
  <1>5. NotStarted'
    BY <1>1, <1>2 DEF NotStarted, ExecTypeOK, Attempt
  <1>6. OneAtATime'
    BY <1>1, <1>3, NodeAssumption DEF OneAtATime, ExecTypeOK, Attempt
  <1>7. ReturnsOnce'
    BY <1>1 DEF ReturnsOnce, ExecTypeOK, Live
  <1>8. RetriesLeft' /\ LateIsLast'
    BY <1>1 DEF RetriesLeft, LateIsLast
  <1> QED
    BY <1>4, <1>5, <1>6, <1>7, <1>8

\* The invariant, through every attempt of an execution (node.go:81).
THEOREM ExecInvariant == Spec => []ExecInv
  <1>1. Init => ExecInv
    <2> SUFFICES ASSUME Init PROVE ExecInv
      OBVIOUS
    <2>1. expired \in BOOLEAN /\ cancelled \in BOOLEAN
      BY DEF Init
    <2>2. 0 \in Attempt /\ Attempt \subseteq Nat
      BY NodeAssumption DEF Attempt
    <2>3. ExecTypeOK
      <3>1. slot \in {"none", "fresh", "used"}
        BY DEF Init
      <3>2. returned \in [kind : {"nothing", "recovered"} \cup Outcomes, from : Attempt]
        BY <2>2 DEF Init, Returned
      <3>3. body \in [Attempt -> {"none", "running", "answered"} \cup Outcomes]
        BY DEF Init
      <3> QED
        BY <2>1, <2>2, <3>1, <3>2, <3>3 DEF Init, ExecTypeOK
    <2>4. NotStarted /\ OneAtATime /\ ReturnsOnce /\ RetriesLeft /\ LateIsLast
      BY <2>2 DEF Init, NotStarted, OneAtATime, ReturnsOnce, RetriesLeft, LateIsLast, Returned
    <2> QED
      BY <2>3, <2>4 DEF ExecInv
  <1>2. ExecInv /\ [Next]_vars => ExecInv'
    <2> SUFFICES ASSUME ExecInv, [Next]_vars PROVE ExecInv'
      OBVIOUS
    <2> USE DEF ExecInv
    <2>1. attempt \in 0..Retries /\ Retries \in Nat
      BY NodeAssumption DEF ExecTypeOK, Attempt
    <2>2. CASE StartAttempt
      <3>1. ExecTypeOK'
        <4>1. expired' \in BOOLEAN /\ cancelled' \in BOOLEAN
          BY <2>2 DEF StartAttempt, ExecTypeOK
        <4>2. late' \in Nat
          BY <2>2 DEF StartAttempt, ExecTypeOK
        <4>3. body' \in [Attempt -> {"none", "running", "answered"} \cup Outcomes]
          BY <2>2 DEF StartAttempt, ExecTypeOK
        <4> QED
          BY <2>2, <4>1, <4>2, <4>3 DEF StartAttempt, ExecTypeOK
      <3>2. NotStarted'
        BY <2>1, <2>2 DEF StartAttempt, NotStarted, ExecTypeOK, Attempt
      <3>3. OneAtATime'
        BY <2>1, <2>2 DEF StartAttempt, OneAtATime, ExecTypeOK, Attempt
      <3>4. ReturnsOnce' /\ RetriesLeft'
        BY <2>2 DEF StartAttempt, ReturnsOnce, RetriesLeft
      <3>5. LateIsLast'
        BY <2>2 DEF StartAttempt, LateIsLast, ExecTypeOK
      <3> QED
        BY <3>1, <3>2, <3>3, <3>4, <3>5
    <2>3. CASE TakeResult
      <3>1. /\ pc = "wait" /\ body[attempt] \in Outcomes
            /\ IF body[attempt] = "ok"
               THEN pc' = "returned" /\ returned' = Returned("ok", attempt)
               ELSE AfterError(body[attempt])
            /\ UNCHANGED <<options, attempt, body, expired, cancelled, slot, late>>
        BY <2>3 DEF TakeResult, Channel
      <3>2. CASE body[attempt] = "ok"
        <4>1. pc' = "returned" /\ returned' = Returned("ok", attempt)
          BY <3>1, <3>2
        <4>2. ExecTypeOK'
          BY <3>1, <4>1 DEF ExecTypeOK, Returned, Outcomes
        <4>3. NotStarted' /\ RetriesLeft' /\ LateIsLast'
          BY <3>1, <4>1 DEF NotStarted, RetriesLeft, LateIsLast
        <4>4. OneAtATime' /\ ReturnsOnce'
          BY <3>1, <3>2, <4>1 DEF OneAtATime, ReturnsOnce, Returned
        <4> QED
          BY <4>2, <4>3, <4>4
      <3>3. CASE body[attempt] # "ok"
        BY <3>1, <3>3, AfterErrorKeepsInv DEF Outcomes
      <3> QED
        BY <3>2, <3>3
    <2>4. CASE GiveUp
      <3>1. /\ pc = "wait" /\ options.timeout /\ AfterError("failed")
            /\ UNCHANGED <<options, attempt, body, expired, cancelled, slot, late>>
        BY <2>4 DEF GiveUp
      <3> QED
        BY <3>1, AfterErrorKeepsInv
    <2>5. CASE BackoffEnds
      <3>1. attempt < Retries /\ pc = "sleep" /\ pc' = "call" /\ attempt' = attempt + 1
        BY <2>5 DEF BackoffEnds, RetriesLeft
      <3>2. ExecTypeOK'
        BY <2>1, <2>5, <3>1 DEF BackoffEnds, ExecTypeOK, Attempt
      <3>3. NotStarted'
        BY <2>1, <2>5, <3>1 DEF BackoffEnds, NotStarted, Attempt
      <3>4. OneAtATime'
        BY <2>1, <2>5, <3>1 DEF BackoffEnds, OneAtATime, Attempt
      <3>5. ReturnsOnce' /\ RetriesLeft' /\ LateIsLast'
        BY <2>5, <3>1 DEF BackoffEnds, ReturnsOnce, RetriesLeft, LateIsLast
      <3> QED
        BY <3>2, <3>3, <3>4, <3>5
    <2>6. CASE BackoffCut
      <3>1. ExecTypeOK'
        BY <2>6 DEF BackoffCut, ExecTypeOK, Returned, Outcomes
      <3>2. NotStarted' /\ RetriesLeft' /\ LateIsLast'
        BY <2>6 DEF BackoffCut, NotStarted, RetriesLeft, LateIsLast
      <3>3. OneAtATime' /\ ReturnsOnce'
        BY <2>6 DEF BackoffCut, OneAtATime, ReturnsOnce, Returned, Outcomes
      <3> QED
        BY <3>1, <3>2, <3>3
    <2>7. CASE HandlerReturns
      <3>1. PICK kind \in {"recovered", "failed"} :
               /\ pc = "handler" /\ pc' = "returned" /\ returned' = Returned(kind, attempt)
               /\ UNCHANGED <<options, attempt, body, expired, cancelled, slot, late>>
        BY <2>7 DEF HandlerReturns
      <3>2. ExecTypeOK'
        BY <3>1 DEF ExecTypeOK, Returned, Outcomes
      <3>3. NotStarted' /\ RetriesLeft' /\ LateIsLast'
        BY <3>1 DEF NotStarted, RetriesLeft, LateIsLast
      <3>4. OneAtATime' /\ ReturnsOnce'
        BY <3>1 DEF OneAtATime, ReturnsOnce, RetriesLeft, Returned, Outcomes
      <3> QED
        BY <3>2, <3>3, <3>4
    <2>8. CASE Deadline \/ Cancel
      <3>1. /\ UNCHANGED <<options, pc, attempt, body, slot, late, returned>>
            /\ expired' \in BOOLEAN /\ cancelled' \in BOOLEAN /\ (cancelled => cancelled')
        BY <2>8 DEF Deadline, Cancel, ExecTypeOK
      <3>2. ExecTypeOK' /\ NotStarted' /\ OneAtATime' /\ ReturnsOnce' /\ RetriesLeft'
        BY <3>1 DEF ExecTypeOK, NotStarted, OneAtATime, ReturnsOnce, RetriesLeft
      <3>3. LateIsLast'
        BY <3>1 DEF LateIsLast
      <3> QED
        BY <3>2, <3>3
    <2>9. CASE Body
      BY <2>9, BodyKeepsInv DEF Body
    <2>10. CASE UNCHANGED vars
      BY <2>10 DEF vars, ExecTypeOK, NotStarted, OneAtATime, ReturnsOnce, RetriesLeft, LateIsLast
    <2> QED
      BY <2>2, <2>3, <2>4, <2>5, <2>6, <2>7, <2>8, <2>9, <2>10 DEF Next, ExecNode
  <1> QED
    BY <1>1, <1>2, PTL DEF Spec

\* Whatever abandoned attempts do, the last attempt decides (node.go:36), and
\* neither an interrupt nor the handler's place behind the retries is lost.
THEOREM LastAttemptAlwaysDecides == Spec => []LastAttemptDecides
  <1>1. ExecInv => LastAttemptDecides
    <2> SUFFICES ASSUME ExecInv PROVE LastAttemptDecides
      OBVIOUS
    <2> USE DEF ExecInv
    <2>1. StaleResultDiscarded
      BY DEF StaleResultDiscarded, ReturnsOnce
    <2>2. InterruptIsFinal
      <3> SUFFICES ASSUME NEW a \in Attempt, body[a] = "interrupt", ~options.timeout
                   PROVE  /\ a = attempt
                          /\ pc = "wait" \/ (pc = "returned" /\ returned = Returned("interrupt", a))
        BY DEF InterruptIsFinal
      <3>1. a \in 0..Retries /\ attempt \in 0..Retries /\ Retries \in Nat
        BY NodeAssumption DEF ExecTypeOK, Attempt
      <3>2. a = attempt /\ pc # "call"
        BY <3>1 DEF NotStarted, OneAtATime
      <3> QED
        BY <3>2 DEF ExecTypeOK, OneAtATime
    <2>3. HandlerRunsLast
      BY DEF HandlerRunsLast, ReturnsOnce, RetriesLeft
    <2> QED
      BY <2>1, <2>2, <2>3 DEF LastAttemptDecides
  <1> QED
    BY <1>1, ExecInvariant, PTL

\* At most one attempt is started in a cancelled run (node.go:44).
THEOREM CancelEndsRetries == Spec => []CancelStopsRetries
  <1>1. ExecInv => CancelStopsRetries
    BY DEF ExecInv, LateIsLast, CancelStopsRetries
  <1> QED
    BY <1>1, ExecInvariant, PTL

-----------------------------------------------------------------------------
(* The fan-out. *)

FanTypeOK ==
    /\ phase \in {"spawn", "join", "returned"}
    /\ spawned \in 0..Branches
    /\ branch \in [Branch -> {"none", "running", "done"}]
    /\ endless \in SUBSET Branch
    /\ stopping \in BOOLEAN /\ parent \in BOOLEAN
    /\ results \in SUBSET Branch
    /\ errs \in [Branch -> {"nil", "failure", "interrupt", "cancelled"}]
    /\ first \in 0..Branches

\* results[i] and errs[i] are written by goroutine i, one of them, at its end.
SlotsFilled == \A i \in Branch :
    /\ branch[i] = "done" <=> i \in results \/ errs[i] # "nil"
    /\ i \in results => errs[i] = "nil"

\* Goroutines are started in branch order.
SpawnedInOrder == \A i \in Branch : branch[i] # "none" <=> i <= spawned

\* Behind a context that is done is a branch that failed or asked, or the run.
CancelledForCause ==
    /\ stopping => parent \/ Causes # {}
    /\ \A i \in Branch : errs[i] = "cancelled" => stopping

\* After the barrier: the scan is over.
Scanned == phase = "returned" => AllDone /\ reported = LowestFailed

FanInv == FanTypeOK /\ SpawnedInOrder /\ SlotsFilled /\ CancelledForCause /\ Scanned

-----------------------------------------------------------------------------
\* The scan returns a branch that failed, if there is one, and else none.
LEMMA ScanFinds == LowestFailed # 0 => LowestFailed \in Failed
  <1> SUFFICES ASSUME Failed # {} PROVE LowestFailed \in Failed
    BY DEF LowestFailed
  <1>1. Failed \in SUBSET Nat
    BY BranchAssumption DEF Failed, Branch
  <1>2. \E i \in Failed : \A j \in Failed : i <= j
    BY <1>1, LeastNumber
  <1> QED
    BY <1>2 DEF LowestFailed

\* And none only when no branch failed.
LEMMA ScanMissesNone == LowestFailed = 0 => Failed = {}
  <1> SUFFICES ASSUME Failed # {}, LowestFailed = 0 PROVE FALSE
    OBVIOUS
  <1>1. Failed \in SUBSET Nat /\ 0 \notin Failed
    BY BranchAssumption DEF Failed, Branch
  <1>2. \E i \in Failed : \A j \in Failed : i <= j
    BY <1>1, LeastNumber
  <1>3. LowestFailed \in Failed
    BY <1>2 DEF LowestFailed
  <1> QED
    BY <1>1, <1>3

-----------------------------------------------------------------------------
\* What a goroutine that ends without an error (graph.go:583) leaves.
LEMMA SucceedKeepsInv ==
    ASSUME FanInv, NEW i \in Branch, Succeed(i)
    PROVE  FanInv'
  <1> USE DEF FanInv
  <1>1. FanTypeOK'
    BY DEF FanTypeOK, Succeed
  <1>2. SlotsFilled'
    BY DEF FanTypeOK, Succeed, SlotsFilled
  <1>3. SpawnedInOrder'
    BY DEF FanTypeOK, Succeed, SpawnedInOrder
  <1>4. CancelledForCause'
    BY DEF FanTypeOK, Succeed, CancelledForCause, Causes
  <1>5. Scanned'
    <2>1. phase # "returned"
      BY DEF Scanned, AllDone, Succeed, FanTypeOK
    <2> QED
      BY <2>1 DEF Scanned, Succeed
  <1> QED
    BY <1>1, <1>2, <1>4, <1>5, <1>3

\* What one that fails leaves: its error, and a context that is done.
LEMMA FailKeepsInv ==
    ASSUME FanInv, NEW i \in Branch, FailWith(i)
    PROVE  FanInv'
  <1> USE DEF FanInv
  <1>1. PICK e \in Errors(i) :
           /\ branch[i] = "running"
           /\ branch' = [branch EXCEPT ![i] = "done"]
           /\ errs' = [errs EXCEPT ![i] = e]
           /\ first' = IF first = 0 THEN i ELSE first
           /\ stopping' = TRUE
           /\ UNCHANGED <<phase, spawned, endless, parent, results, reported>>
    BY DEF FailWith, CancelSiblings
  <1>2. e \in {"failure", "interrupt", "cancelled"} /\ (e = "cancelled" => stopping)
    BY DEF Errors
  <1>3. errs[i] = "nil" /\ i \notin results /\ phase # "returned"
    BY <1>1 DEF SlotsFilled, Scanned, AllDone, FanTypeOK
  <1>4. FanTypeOK'
    BY <1>1, <1>2, BranchAssumption DEF FanTypeOK, Branch
  <1>5. SlotsFilled'
    BY <1>1, <1>2, <1>3 DEF FanTypeOK, SlotsFilled
  <1>6. SpawnedInOrder'
    BY <1>1 DEF FanTypeOK, SpawnedInOrder
  <1>7. CancelledForCause'
    <2>1. ASSUME NEW j \in Causes PROVE j \in Causes'
      BY <1>1, <1>3 DEF Causes, FanTypeOK
    <2>2. CASE e = "cancelled"
      BY <1>1, <1>2, <2>1, <2>2 DEF CancelledForCause
    <2>3. CASE e # "cancelled"
      <3>1. i \in Causes'
        BY <1>1, <1>2, <2>3 DEF Causes, FanTypeOK
      <3> QED
        BY <1>1, <3>1 DEF CancelledForCause
    <2> QED
      BY <2>2, <2>3
  <1>8. Scanned'
    BY <1>1, <1>3 DEF Scanned
  <1> QED
    BY <1>4, <1>5, <1>7, <1>8, <1>6

\* The invariant, through the fan-out's own steps (graph.go:571).
THEOREM FanOutInvariant == FanSpec => []FanInv
  <1>1. FanInit => FanInv
    <2> SUFFICES ASSUME FanInit PROVE FanInv
      OBVIOUS
    <2>1. FanTypeOK
      <3>1. stopping \in BOOLEAN /\ parent \in BOOLEAN
        BY DEF FanInit
      <3>2. 0 \in 0..Branches
        BY BranchAssumption
      <3> QED
        BY <3>1, <3>2 DEF FanInit, FanTypeOK
    <2>2. SpawnedInOrder /\ SlotsFilled
      BY BranchAssumption DEF FanInit, SpawnedInOrder, SlotsFilled, Branch
    <2>3. CancelledForCause
      BY DEF FanInit, CancelledForCause
    <2>4. Scanned
      BY DEF FanInit, Scanned
    <2> QED
      BY <2>1, <2>2, <2>3, <2>4 DEF FanInv
  <1>2. FanInv /\ [FanNext]_fanVars => FanInv'
    <2> SUFFICES ASSUME FanInv, [FanNext]_fanVars PROVE FanInv'
      OBVIOUS
    <2> USE DEF FanInv
    <2>1. CASE Spawn
      <3>1. spawned + 1 \in Branch /\ spawned' \in 0..Branches
        BY <2>1, BranchAssumption DEF Spawn, FanTypeOK, Branch
      <3>2. branch[spawned + 1] = "none"
        BY <3>1, BranchAssumption DEF SpawnedInOrder, FanTypeOK, Branch
      <3> QED
        BY <2>1, <3>1, <3>2, BranchAssumption
        DEF Spawn, FanTypeOK, SpawnedInOrder, SlotsFilled, CancelledForCause, Scanned, Causes, Branch
    <2>2. CASE Wait
      BY <2>2 DEF Wait, FanTypeOK, SpawnedInOrder, SlotsFilled, CancelledForCause, Scanned, Causes
    <2>3. CASE Return
      BY <2>3 DEF Return, FanTypeOK, SpawnedInOrder, SlotsFilled, CancelledForCause, Scanned, Causes, AllDone,
                  LowestFailed, Failed
    <2>4. CASE CancelRun
      BY <2>4 DEF CancelRun, FanTypeOK, SpawnedInOrder, SlotsFilled, CancelledForCause, Scanned
    <2>5. ASSUME NEW i \in Branch, BranchStep(i) PROVE FanInv'
      BY <2>5, SucceedKeepsInv, FailKeepsInv DEF BranchStep
    <2>6. CASE UNCHANGED fanVars
      BY <2>6 DEF fanVars, FanTypeOK, SpawnedInOrder, SlotsFilled, CancelledForCause, Scanned, Causes, AllDone,
                  LowestFailed, Failed
    <2> QED
      BY <2>1, <2>2, <2>3, <2>4, <2>5, <2>6 DEF FanNext
  <1> QED
    BY <1>1, <1>2, PTL DEF FanSpec

\* A fan-out of any width is all or nothing, and an error it returns has a
\* cause (graph.go:440, graph.go:590).
THEOREM FanOutAllOrError == FanSpec => []AllOrError
  <1>1. FanInv => AllOrError
    <2> SUFFICES ASSUME FanInv, phase = "returned"
                 PROVE  /\ reported = 0 => results = Branch /\ Failed = {}
                        /\ reported # 0 => reported \in Failed /\ (parent \/ Causes # {})
                        /\ AllDone
      BY DEF AllOrError, AllDone
    <2>1. AllDone /\ reported = LowestFailed
      BY DEF FanInv, Scanned
    <2>2. reported = 0 => Failed = {}
      BY <2>1, ScanMissesNone
    <2>3. Failed = {} => results = Branch
      BY <2>1 DEF FanInv, FanTypeOK, SlotsFilled, Failed, AllDone
    <2>4. ASSUME reported # 0 PROVE reported \in Failed /\ (parent \/ Causes # {})
      <3>1. reported \in Failed
        BY <2>1, <2>4, ScanFinds
      <3>2. errs[reported] # "cancelled" => reported \in Causes
        BY <3>1 DEF Failed, Causes, FanInv, FanTypeOK
      <3>3. errs[reported] = "cancelled" => parent \/ Causes # {}
        BY <3>1 DEF Failed, FanInv, CancelledForCause
      <3> QED
        BY <3>1, <3>2, <3>3
    <2> QED
      BY <2>1, <2>2, <2>3, <2>4
  <1> QED
    BY <1>1, FanOutInvariant, PTL
==============================================================================
