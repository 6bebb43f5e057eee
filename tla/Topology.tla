------------------------------ MODULE Topology ------------------------------
(***************************************************************************)
(* The structure of a compiled graph (src/graph/graph.go, type Graph): the *)
(* registered nodes, their edges, routers and fan-outs, the error handlers *)
(* given with AddNodeWithOptions, and what one superstep of the run loop   *)
(* may turn a position into.  A Graph is never mutated by Run, Resume or   *)
(* Stream, so all of it is CONSTANT.                                       *)
(*                                                                         *)
(* User code (node functions, routers, fan functions, handlers) is left    *)
(* open: a router is the set of names it may return, a fan function the    *)
(* set of branch lists it may return.  The user's state type S is the      *)
(* record of the executions the state has been computed from, which is     *)
(* what lets a lost, repeated or reordered execution be seen.              *)
(***************************************************************************)
EXTENDS Naturals, Sequences

CONSTANTS
    Node,        \* names registered with AddNode / AddNodeWithOptions
    Name,        \* every name an edge, router or handler may produce
    END,         \* the reserved name that ends a run
    NoNext,      \* the "" of an error handler: follow the node's own edges
    Entry,       \* SetEntryPoint
    Edge,        \* AddEdge: a function from some nodes to a name
    Route,       \* AddConditionalEdge: from some nodes to the router's range
    Fan,         \* AddFanOut: from some nodes to the fan function's range
    Join,        \* AddFanOut: from the nodes of Fan to the join node
    Override,    \* WithErrorHandler: from some nodes to the handler's nexts
    MaxSteps     \* WithMaxSteps

ASSUME NameAssumption ==
    /\ Node \subseteq Name
    /\ END \in Name \ Node
    /\ NoNext \notin Name
    /\ Entry \in Node

ASSUME EdgeAssumption ==
    /\ DOMAIN Edge \subseteq Node
    /\ \A n \in DOMAIN Edge : Edge[n] \in Name
    /\ DOMAIN Route \subseteq Node
    /\ \A n \in DOMAIN Route : Route[n] \subseteq Name
    /\ DOMAIN Override \subseteq Node
    /\ \A n \in DOMAIN Override : Override[n] \subseteq Name \cup {NoNext}

ASSUME FanAssumption ==
    /\ DOMAIN Fan \subseteq Node
    /\ \A n \in DOMAIN Fan : Fan[n] \subseteq Seq(Name)
    /\ DOMAIN Join = DOMAIN Fan
    /\ \A n \in DOMAIN Join : Join[n] \in Name

ASSUME BudgetAssumption == MaxSteps \in Nat

(***************************************************************************)
(* One execution of a node, and how its output came about: returned by the *)
(* node function, by its error handler, or by a fan-out branch.            *)
(***************************************************************************)
Execution == [node : Name, by : {"node", "handler", "branch"}]

Exec(n, by) == [node |-> n, by |-> by]

State == Seq(Execution)

\* A place in a run: the next node and the state going into it.
Position == [node : Name, state : State]

Place(n, s) == [node |-> n, state |-> s]

Start == Place(Entry, <<>>)

(***************************************************************************)
(* reduceFanOut with a reducer that merges every branch result, in branch  *)
(* order, into the state the fan-out started from.                         *)
(***************************************************************************)
BranchRuns(sends) == [i \in 1..Len(sends) |-> Exec(sends[i], "branch")]

Reduced(s, sends) == s \o BranchRuns(sends)

\* planFanOut: every branch target must be a registered node.
Planned(sends) == \A i \in 1..Len(sends) : sends[i] \in Node

\* The names the node's own edges lead to; a router hides a plain edge.
EdgesOf(n) ==
    IF n \in DOMAIN Route THEN Route[n]
    ELSE IF n \in DOMAIN Edge THEN {Edge[n]} ELSE {}

(***************************************************************************)
(* The positions the loop may reach from a node whose output is s.  A      *)
(* fan-out takes precedence over the node's edges, and its branches have   *)
(* to fit in the step budget.                                              *)
(***************************************************************************)
Routed(n, s) ==
    IF n \in DOMAIN Fan
    THEN {Place(Join[n], Reduced(s, sends)) :
             sends \in {x \in Fan[n] : Planned(x) /\ Len(s) + Len(x) <= MaxSteps}}
    ELSE {Place(m, s) : m \in EdgesOf(n)}

OverridesOf(n) == IF n \in DOMAIN Override THEN Override[n] ELSE {}

\* One superstep from position p, seen as a whole.
Supersteps(p) ==
    IF p.node \in Node /\ Len(p.state) < MaxSteps
    THEN Routed(p.node, Append(p.state, Exec(p.node, "node")))
         \cup {Place(m, Append(p.state, Exec(p.node, "handler"))) :
                  m \in OverridesOf(p.node) \ {NoNext}}
         \cup (IF NoNext \in OverridesOf(p.node)
               THEN Routed(p.node, Append(p.state, Exec(p.node, "handler")))
               ELSE {})
    ELSE {}
=============================================================================
