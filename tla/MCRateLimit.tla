---------------------------- MODULE MCRateLimit -----------------------------
(* Requests are interchangeable.                                           *)
EXTENDS RateLimit, TLC

Symmetry == Permutations(Waiter)
=============================================================================
