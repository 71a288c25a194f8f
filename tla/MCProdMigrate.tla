--------------------------- MODULE MCProdMigrate ---------------------------
(* Checkouts and databases for ProdMigrate. *)
EXTENDS ProdMigrate, TLC

Symmetry == Permutations(Runs)

M(when, hash) == [when |-> when, hash |-> hash, listed |-> hash]
L(when, hash) == [when |-> when, hash |-> hash]

\* The release, the one before it, a branch, a bundle out of order and one whose
\* artifact was edited.
Checkouts ==
  {<<M(1, "a"), M(2, "b"), M(3, "c")>>, <<M(1, "a"), M(2, "b")>>, <<M(1, "a"), M(2, "x")>>,
   <<M(2, "b"), M(1, "a")>>, <<M(1, "a"), [M(2, "b") EXCEPT !.hash = "x"]>>}

\* New and current databases, and ledgers somebody has changed by hand: a row twice,
\* a gap, an unknown row.
Databases ==
  {<<>>, <<L(1, "a")>>, <<L(1, "a"), L(1, "a")>>, <<L(2, "b")>>, <<L(1, "a"), L(7, "b")>>}
=============================================================================
