---------------------------- MODULE MCAccountSync ----------------------------
(* AccountSync for TLC: syncs of one account are interchangeable.          *)
EXTENDS AccountSync, TLC

Symmetry == Permutations(Syncs)
=============================================================================
