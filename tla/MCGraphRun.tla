---------------------------- MODULE MCGraphRun ------------------------------
(***************************************************************************)
(* A graph with every kind of edge: "fix" asks a human and has an error    *)
(* handler that goes on to END or follows the edge to "plan"; "plan" fans  *)
(* out to workers, or to a node that asks, and joins at the review,        *)
(* which asks too and routes on.                                           *)
(***************************************************************************)
EXTENDS GraphRun, TLC

CONSTANTS plan, work, review, fix, ghost

Nodes == {plan, work, review, fix}
Names == Nodes \cup {END, ghost}

Edges     == fix :> plan
Routes    == review :> {fix, work, ghost, END}
Fans      == plan :> {<<>>, <<work, work>>, <<review>>, <<fix>>, <<work, ghost>>}
Joins     == plan :> review
Overrides == fix :> {NoNext, END}

Questions == [n \in Nodes |-> IF n \in {fix, review} THEN 1 ELSE 0]
=============================================================================
