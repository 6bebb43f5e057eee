------------------------------- MODULE MCHttp --------------------------------
EXTENDS MCPHttp

CONSTANTS c1, c2

\* The server asks two questions in the calls of one process.
SomeQuestions == [p \in Procs |-> IF p = c1 THEN 2 ELSE 0]
=============================================================================
