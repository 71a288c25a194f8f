---------------------------- MODULE ApplyPromise ----------------------------
(***************************************************************************)
(* What runApplyJob, closeApplyingJob and requeueFailedApplyJob promise    *)
(* about the one apply_jobs row, whoever calls them: the row's life and    *)
(* the leases that are running.  ApplyEngine implements it; ApplyDelivery  *)
(* builds the worker function and the routes on it.                        *)
(***************************************************************************)
EXTENDS Naturals

CONSTANT MaxDraws    \* bound on claims of the row

ASSUME DrawsAssumption == MaxDraws \in Nat \ {0}

VARIABLES
  row,    \* status, claim (0: none), number of claims drawn, closed as stale
  live    \* claims whose lease is running

promiseVars == <<row, live>>

Draws == 1..MaxDraws

PromiseInit ==
  /\ row = [status |-> "queued", claim |-> 0, draws |-> 0, stale |-> FALSE]
  /\ live = {}

\* A queued row becomes the next claim's, and the claim's lease starts.
Draw ==
  /\ row.status = "queued"
  /\ row.draws < MaxDraws
  /\ row' = [status |-> "applying", claim |-> row.draws + 1, draws |-> row.draws + 1,
             stale |-> FALSE]
  /\ live' = live \cup {row.draws + 1}

\* The claim is closed in the transaction that drew it.
DrawClosed ==
  /\ row.status = "queued"
  /\ row.draws < MaxDraws
  /\ \E s \in {"failed", "succeeded"} :
       row' = [status |-> s, claim |-> 0, draws |-> row.draws + 1, stale |-> FALSE]
  /\ UNCHANGED live

Lapse(cs) ==
  /\ cs # {} /\ cs \subseteq live
  /\ live' = live \ cs
  /\ UNCHANGED row

Lapsed == row.status = "applying" /\ row.claim \notin live

\* Only a claim whose lease has run out is closed as stale; it keeps its name.
CloseLapsed ==
  /\ Lapsed
  /\ row' = [status |-> "failed", claim |-> row.claim, draws |-> row.draws, stale |-> TRUE]
  /\ UNCHANGED live

\* A run finishes the row it holds, or one that was closed as stale meanwhile.
MayFinish(c) ==
  \/ row.status = "applying" /\ row.claim = c
  \/ row.status = "failed" /\ row.stale

Finish(c) ==
  /\ MayFinish(c)
  /\ \E s \in {"failed", "succeeded"} :
       row' = [status |-> s, claim |-> 0, draws |-> row.draws, stale |-> FALSE]
  /\ UNCHANGED live

Reopen ==
  /\ row.status = "failed"
  /\ row' = [status |-> "queued", claim |-> row.claim, draws |-> row.draws, stale |-> FALSE]
  /\ UNCHANGED live

PromiseNext ==
  \/ Draw \/ DrawClosed \/ CloseLapsed \/ Reopen
  \/ \E c \in Draws : Finish(c)
  \/ \E cs \in SUBSET live : Lapse(cs)

PromiseSpec == PromiseInit /\ [][PromiseNext]_promiseVars

PromiseTypeOK ==
  /\ row \in [status : {"queued", "applying", "failed", "succeeded"},
              claim : 0..MaxDraws, draws : 0..MaxDraws, stale : BOOLEAN]
  /\ live \subseteq Draws
=============================================================================
