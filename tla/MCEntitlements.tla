--------------------------- MODULE MCEntitlements ---------------------------
(* Entitlements for TLC.  Requests, stores and external ids are            *)
(* interchangeable.                                                        *)
EXTENDS Entitlements, TLC

Symmetry == Permutations(Requests) \cup Permutations(Stores) \cup Permutations(Exts)
              \cup Permutations(Rows)
=============================================================================
