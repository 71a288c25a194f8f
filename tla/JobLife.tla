------------------------------ MODULE JobLife ------------------------------
(***************************************************************************)
(* One apply job next to the approval it rests on, as the routes and the   *)
(* worker may count on it: when a run may start, what its end may say, and *)
(* when the recommendation counts as executed.  ApplyEngine implements it  *)
(* by claims, leases and requests to a platform, Decision by everybody who *)
(* decides on the recommendation; each leaves to the other what it does    *)
(* not model itself.                                                       *)
(***************************************************************************)

VARIABLES
  status,    \* of the job: none, queued, applying, succeeded, failed
  stale,     \* it was closed without its run
  approved,  \* its authorization and its recommendation still allow a run
  open,      \* so do the settings of the workspace and of the account
  executed,  \* who executed the recommendation, as its row says
  due        \* a write is recorded that the recommendation does not show yet

lifeVars == <<status, stale, approved, open, executed, due>>

LifeInit ==
  /\ status \in {"none", "queued"}
  /\ stale = FALSE
  /\ approved \in BOOLEAN
  /\ open = TRUE
  /\ executed = "nobody"
  /\ due = FALSE

\* The approval may be gone before the job is there.
Enqueue ==
  /\ status = "none"
  /\ status' = "queued"
  /\ executed = "human" => ~approved'
  /\ UNCHANGED <<stale, open, executed, due>>

\* Only what is approved and open reaches a run, or is finished without one.
Take ==
  /\ status = "queued"
  /\ status' = "failed" \/ (status' \in {"applying", "succeeded"} /\ approved /\ open)
  /\ UNCHANGED <<stale, approved, open, executed, due>>

Abandon ==
  /\ status = "applying"
  /\ status' = "failed"
  /\ stale' = TRUE
  /\ UNCHANGED <<approved, open, executed, due>>

Unsettled == status = "applying" \/ (status = "failed" /\ stale)

\* A write counts, whatever became of the approval meanwhile; a run without one
\* succeeds only if it is still approved.
Finish(wrote) ==
  /\ Unsettled
  /\ \/ status' = "succeeded" /\ (wrote \/ approved)
     \/ status' = "failed" /\ ~wrote
  /\ stale' = FALSE
  /\ due' = wrote
  /\ UNCHANGED <<approved, open, executed>>

Reopen ==
  /\ status = "failed"
  /\ status' = "queued"
  /\ stale' = FALSE
  /\ UNCHANGED <<approved, open, executed, due>>

Show ==
  /\ due
  /\ due' = FALSE
  /\ executed' \in {executed, "cerevex_apply"}
  /\ UNCHANGED <<status, stale, approved, open>>

\* Nothing brings an approval back.
Withdraw ==
  /\ approved
  /\ approved' = FALSE
  /\ UNCHANGED <<status, stale, open, executed, due>>

DoByHand ==
  /\ executed = "nobody"
  /\ executed' = "human"
  /\ approved' = FALSE
  /\ UNCHANGED <<status, stale, open, due>>

Switch ==
  /\ open' = ~open
  /\ UNCHANGED <<status, stale, approved, executed, due>>

LifeNext ==
  \/ Enqueue \/ Take \/ Abandon \/ Reopen \/ Show
  \/ \E wrote \in BOOLEAN : Finish(wrote)
  \/ Withdraw \/ DoByHand \/ Switch

LifeSpec == LifeInit /\ [][LifeNext]_lifeVars
=============================================================================
