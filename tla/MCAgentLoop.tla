---------------------------- MODULE MCAgentLoop -----------------------------
(***************************************************************************)
(* Agents with the middleware in the combinations that meet: limits inside *)
(* and outside of retries, and both ways of cutting the history, each      *)
(* keeping less than a round or a whole one.                               *)
(***************************************************************************)
EXTENDS AgentLoop

CONSTANTS a, b

Far == 99

Plain == [tools |-> {a}, executor |-> TRUE, fallbacks |-> 0, streams |-> FALSE,
          modelLimit |-> Far, fails |-> FALSE, toolLimit |-> Far, named |-> {},
          retries |-> 0, retryOutside |-> FALSE, keepResults |-> Far, keepRecent |-> Far,
          awaits |-> {}]

Agents == {
    [Plain EXCEPT !.executor = FALSE, !.fallbacks = 1],
    [Plain EXCEPT !.retries = 1, !.toolLimit = 2, !.modelLimit = 2, !.fails = TRUE],
    [Plain EXCEPT !.tools = {a, b}, !.retries = 1, !.toolLimit = 1, !.named = {a}],
    [Plain EXCEPT !.retries = 1, !.retryOutside = TRUE, !.toolLimit = 1],
    [Plain EXCEPT !.keepResults = 1, !.keepRecent = 2],
    [Plain EXCEPT !.keepResults = 2, !.keepRecent = 3],
    [Plain EXCEPT !.keepRecent = 0, !.modelLimit = 2],
    [Plain EXCEPT !.streams = TRUE, !.toolLimit = 2, !.fallbacks = 1],
    [Plain EXCEPT !.tools = {a, b}, !.awaits = {a, b}, !.retries = 1]}
=============================================================================
