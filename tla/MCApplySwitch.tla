--------------------------- MODULE MCApplySwitch ---------------------------
(* ApplySwitch for TLC: what a recommendation may propose, in two requests. *)
EXTENDS ApplySwitch, TLC

GoogleBids == [repeatable |-> FALSE, rereads |-> TRUE, creatives |-> {}]
MetaBids == [repeatable |-> FALSE, rereads |-> FALSE, creatives |-> {}]
MetaCreate == [repeatable |-> FALSE, rereads |-> FALSE, creatives |-> {1}]

WritePlans == {GoogleBids, MetaBids, MetaCreate}

Symmetry == Permutations(Runners) \cup Permutations(Askers)
=============================================================================
