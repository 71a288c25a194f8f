--------------------------- MODULE MCMcpAdmission ---------------------------
(* Instances of McpAdmission for TLC. *)
EXTENDS McpAdmission, TLC

CONSTANTS a, b, agent, forged

\* An agent, a caller with a token nobody issued, and one without a token.
People == {[ip |-> a, token |-> agent], [ip |-> b, token |-> forged],
           [ip |-> b, token |-> NoToken]}

Symmetry == Permutations(Calls)
=============================================================================
