---------------------------- MODULE RunBranches -----------------------------
(***************************************************************************)
(* The fan-out of the graph engine (src/graph/graph.go, runBranches): one  *)
(* goroutine for each branch under a context of their own, a WaitGroup as  *)
(* the barrier, and the scan of the errors after it.  Module GraphRun      *)
(* takes the whole of it as one step.                                      *)
(*                                                                         *)
(* A branch's node either comes to its own end, or only stops when its     *)
(* context is done; a node may also ignore its context.                    *)
(***************************************************************************)
EXTENDS Naturals

CONSTANT Branches   \* len(sends)

ASSUME BranchAssumption == Branches \in Nat

Branch == 1..Branches

VARIABLES
    phase,      \* "spawn", "join" or "returned"
    spawned,    \* goroutines started, in branch order
    branch,     \* what each goroutine is doing
    endless,    \* branches whose node waits for its context
    stopping,   \* the branches' context is done
    parent,     \* the run's context is done
    results,    \* results: the branches whose slot is filled
    errs,       \* errs: the kind of error of each branch, "nil" for none
    first,      \* the branch that failed first, 0 while none has
    reported    \* the branch whose error is returned, 0 for none

fanVars == <<phase, spawned, branch, endless, stopping, parent, results, errs, first, reported>>

-----------------------------------------------------------------------------
Spawn ==
    /\ phase = "spawn" /\ spawned < Branches
    /\ spawned' = spawned + 1
    /\ branch' = [branch EXCEPT ![spawned + 1] = "running"]
    /\ UNCHANGED <<phase, endless, stopping, parent, results, errs, first, reported>>

\* All started: wait for them.
Wait ==
    /\ phase = "spawn" /\ spawned = Branches
    /\ phase' = "join"
    /\ UNCHANGED <<spawned, branch, endless, stopping, parent, results, errs, first, reported>>

Succeed(i) ==
    /\ branch[i] = "running" /\ i \notin endless
    /\ branch' = [branch EXCEPT ![i] = "done"]
    /\ results' = results \cup {i}
    /\ UNCHANGED <<phase, spawned, endless, stopping, parent, errs, first, reported>>

\* The errors execNode can return: the node's own, an interrupt, or the
\* context's once it is done.
Errors(i) == (IF i \in endless THEN {} ELSE {"failure", "interrupt"})
             \cup (IF stopping THEN {"cancelled"} ELSE {})

KeepsSiblings == UNCHANGED stopping

CancelSiblings == stopping' = TRUE

\* errs[i] = e; cancel().
FailWith(i) == \E e \in Errors(i) :
    /\ branch[i] = "running"
    /\ branch' = [branch EXCEPT ![i] = "done"]
    /\ errs' = [errs EXCEPT ![i] = e]
    /\ first' = IF first = 0 THEN i ELSE first
    /\ CancelSiblings
    /\ UNCHANGED <<phase, spawned, endless, parent, results, reported>>

\* The run's context is cancelled, and with it the branches'.
CancelRun ==
    /\ ~parent /\ phase # "returned"
    /\ parent' = TRUE /\ stopping' = TRUE
    /\ UNCHANGED <<phase, spawned, branch, endless, results, errs, first, reported>>

FirstDone == \E i \in Branch : branch[i] = "done"

\* wg.Wait: no goroutine is left.
AllDone == \A i \in Branch : branch[i] = "done"

Failed == {i \in Branch : errs[i] # "nil"}

\* The scan after the barrier: the first error in branch order.
LowestFailed == IF Failed = {} THEN 0 ELSE CHOOSE i \in Failed : \A j \in Failed : i <= j

Return ==
    /\ phase = "join" /\ AllDone
    /\ phase' = "returned"
    /\ reported' = LowestFailed
    /\ UNCHANGED <<spawned, branch, endless, stopping, parent, results, errs, first>>

-----------------------------------------------------------------------------
FanInit ==
    /\ phase = "spawn" /\ spawned = 0
    /\ branch = [i \in Branch |-> "none"]
    /\ endless \in SUBSET Branch
    /\ stopping = FALSE /\ parent = FALSE
    /\ results = {} /\ errs = [i \in Branch |-> "nil"]
    /\ first = 0 /\ reported = 0

BranchStep(i) == Succeed(i) \/ FailWith(i)

FanNext == Spawn \/ Wait \/ Return \/ CancelRun \/ \E i \in Branch : BranchStep(i)

FanSpec == FanInit /\ [][FanNext]_fanVars

\* The goroutines run: a node comes to its end, or stops once its context is
\* done.  Nobody has to cancel the run.
FanFairSpec == /\ FanSpec /\ WF_fanVars(Spawn \/ Wait \/ Return)
               /\ \A i \in Branch : WF_fanVars(BranchStep(i))

-----------------------------------------------------------------------------
(* Properties. *)

Causes == {i \in Branch : errs[i] \in {"failure", "interrupt"}}

\* Success means every branch's result is there, and a branch that failed is
\* never passed over: the loop goes on (graph.go:440) only with all of them.
\* Cancellation errors alone never fail a fan-out: behind them is a branch
\* that failed or asked, or the run's own cancellation.
AllOrError ==
    phase = "returned" =>
      /\ reported = 0 => results = Branch /\ Failed = {}
      /\ reported # 0 => reported \in Failed /\ (parent \/ Causes # {})
      /\ \A i \in Branch : branch[i] = "done"

\* "If any branch fails, the remaining branches are cancelled": the fan-out
\* returns even when every other branch waits for its context (graph.go:579).
FailureEndsFanOut == (first # 0) ~> (phase = "returned")

=============================================================================
