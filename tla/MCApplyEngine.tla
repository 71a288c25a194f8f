--------------------------- MODULE MCApplyEngine ---------------------------
(* ApplyEngine for TLC.  Runners and askers are interchangeable.           *)
EXTENDS ApplyEngineImpl, TLC

GooglePause == {[repeatable |-> TRUE, rereads |-> TRUE, creatives |-> {}]}
MetaBid == {[repeatable |-> FALSE, rereads |-> FALSE, creatives |-> {}]}

Symmetry == Permutations(Runners) \cup Permutations(Askers)
=============================================================================
