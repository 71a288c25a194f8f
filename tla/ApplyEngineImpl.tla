-------------------------- MODULE ApplyEngineImpl --------------------------
(* ApplyEngine read as ApplyPromise and as JobLife.                        *)
EXTENDS ApplyEngine

\* The row without its outcome.
Row == [status |-> job.status, claim |-> job.claim, draws |-> job.attempts,
        stale |-> job.error = "stale_applying"]

\* The claims within their lease.
Live == {c \in Claims : age[c] < Lease}

Promise == INSTANCE ApplyPromise WITH MaxDraws <- MaxAttempts, row <- Row, live <- Live

\* Claims, crashes, late settles, requeues and time together never move the row
\* in a way the promise does not allow: no second holder, no close of a claim
\* within its lease, no way back from succeeded.
ImplementsPromise == Promise!PromiseSpec

\* A run whose write is in the row and not in the client's audit yet.
Due(r) == runner[r].pc = "client_audit" /\ runner[r].wrote = "yes"

WriteDue == \E r \in Runners : Due(r)

Life == INSTANCE JobLife WITH
  status <- job.status, stale <- job.error = "stale_applying",
  approved <- AuthorizationStillApplies, open <- ~Blocked,
  executed <- auth.executedBy, due <- WriteDue

\* Under all its interleavings the engine lives by what the routes count on: a run
\* starts only on an approval, only a write makes a withdrawn run succeed, and
\* each write is stamped or lost once.
LivesAsPromised == Life!LifeSpec
=============================================================================
