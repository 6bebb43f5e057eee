----------------------------- MODULE GraphWalk ------------------------------
(***************************************************************************)
(* What durable execution promises (src/docs/durable-execution.md): however*)
(* often a thread is crashed, paused, drained, cancelled and resumed, its  *)
(* stored progress is that of one uninterrupted walk over the graph, each  *)
(* superstep taken once and built on the state of the one before it.       *)
(***************************************************************************)
EXTENDS Topology

VARIABLE at   \* the position the thread's stored progress stands at

Init == at = Start

Superstep == at' \in Supersteps(at)

Spec == Init /\ [][Superstep]_at
=============================================================================
