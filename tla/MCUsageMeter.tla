---------------------------- MODULE MCUsageMeter ----------------------------
(* UsageMeter for TLC.  Transactions, clients, jobs and ideas are           *)
(* interchangeable.                                                        *)
EXTENDS UsageMeter, TLC

Symmetry == Permutations(Txs) \cup Permutations(Clients) \cup Permutations(Jobs)
              \cup Permutations(Ideas)
=============================================================================
