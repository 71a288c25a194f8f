----------------------------- MODULE MCDecision -----------------------------
(* Decision for TLC: requests are interchangeable. *)
EXTENDS Decision, TLC

Symmetry == Permutations(Requests)
=============================================================================
