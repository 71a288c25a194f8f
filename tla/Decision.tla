------------------------------ MODULE Decision ------------------------------
(***************************************************************************)
(* One recommendation of an ad account and everybody who decides on it: the *)
(* decide route (src/apps/ads/api/src/audits.ts), which looks at an         *)
(* unlocked row and then runs a transaction of its own for the decision,    *)
(* the job and the lifecycle stamp; the apply route; and the worker.        *)
(* Each transaction that locks the row is one action.  How a run works, and *)
(* what may be requeued, is ApplyEngine's: here a run is claimed, ends and  *)
(* is stamped.                                                              *)
(***************************************************************************)
EXTENDS Naturals, Sequences

CONSTANTS Requests \* requests that may be under way at once

VARIABLES
  rec,   \* the row: status, and of approval_json what the routes read
  auths, \* its authorizations, oldest first
  job,   \* its apply job, which its key makes unique
  gate,  \* the workspace's switch and the account's freeze, as one
  at,    \* where each request is, and what it is for
  rows   \* history: mark_done and rolled_back rows of the client's audit log

vars == <<rec, auths, job, gate, at, rows>>

Noes == {"denied", "snoozed"}
Idle == [pc |-> "idle", act |-> "none"]

Init ==
  /\ rec = [status |-> "proposed", approval |-> "none", executed |-> "no", rolledBack |-> FALSE]
  /\ auths = <<>>
  /\ job = [state |-> "none", auth |-> 0, stale |-> FALSE, stamp |-> FALSE]
  /\ gate = "open"
  /\ at = [p \in Requests |-> Idle]
  /\ rows = [done |-> 0, rolled |-> 0]

GoTo(p, pc) == at' = [at EXCEPT ![p].pc = pc]
Leave(p) == at' = [at EXCEPT ![p] = Idle]

\* The workspace or the account is changed by an owner.
SetGate ==
  /\ gate' = IF gate = "open" THEN "shut" ELSE "open"
  /\ UNCHANGED <<rec, auths, job, at, rows>>

-----------------------------------------------------------------------------
(* The routes' looks at the unlocked row.                                   *)

\* Seeded fault: anything may be rolled back.
LooksFitAnyRollback(act) ==
  CASE act = "authorize" -> rec.status = "proposed" /\ gate = "open"
    [] act = "mark_done" -> rec.executed = "no" /\ rec.approval = "approved"
    [] act = "rollback" -> ~rec.rolledBack
    [] OTHER -> TRUE

LooksFit(act) ==
  CASE act = "authorize" -> rec.status = "proposed" /\ gate = "open"
    [] act = "mark_done" -> rec.executed = "no" /\ rec.approval = "approved"
    [] act = "rollback" -> ~rec.rolledBack /\ rec.executed # "no"
    [] OTHER -> TRUE

Decisions == {"authorize", "deny", "snooze"}
Stamps == {"mark_done", "rollback"}

Decide(p, act) ==
  /\ at[p] = Idle
  /\ LooksFit(act)
  /\ at' = [at EXCEPT ![p] = [pc |-> IF act \in Stamps THEN "stamp" ELSE "commit", act |-> act]]
  /\ UNCHANGED <<rec, auths, job, gate, rows>>

LatestAuthorization == Len(auths)

Usable(i) == i # 0 /\ auths[i] = "live"

\* A person asks to apply, or to requeue, what is approved.
PostApply(p, act) ==
  /\ at[p] = Idle
  /\ rec.executed = "no"
  /\ gate = "open"
  /\ Usable(LatestAuthorization)
  /\ at' = [at EXCEPT ![p] = [pc |-> "queue", act |-> act]]
  /\ UNCHANGED <<rec, auths, job, gate, rows>>

-----------------------------------------------------------------------------
(* The decision, under the lock of the row.                                 *)

\* Seeded fault: what was approved may be approved again.
CanDecideAgain(act) == rec.status \in {"proposed", "authorized"}

\* Seeded fault: a deny overwrites a snooze.
CanDecideAfterNo(act) ==
  rec.status = "proposed" \/ (act # "authorize" /\ rec.status # "denied")

CanDecide(act) ==
  rec.status = "proposed" \/ (act # "authorize" /\ rec.status = "authorized")

\* Seeded fault: only the newest authorization that still runs is revoked.
RevokedLive == [i \in DOMAIN auths |-> IF auths[i] = "live" THEN "revoked" ELSE auths[i]]

\* Seeded fault: the authorization is left alone.
RevokedNone == auths

\* Every authorization of the recommendation that is not revoked yet.
Revoked == [i \in DOMAIN auths |-> "revoked"]

Approve(p) ==
  /\ gate = "open"
  /\ auths' = Append(auths, "live")
  /\ rec' = [rec EXCEPT !.status = "authorized", !.approval = "approved"]
  /\ GoTo(p, "queue")

\* A snooze leaves approval_json as it is.
SayNo(p) ==
  /\ auths' = Revoked
  /\ rec' = IF at[p].act = "deny" THEN [rec EXCEPT !.status = "denied", !.approval = "rejected"]
            ELSE [rec EXCEPT !.status = "snoozed"]
  /\ Leave(p)

Commit(p) ==
  /\ at[p].pc = "commit"
  /\ CanDecide(at[p].act)
  /\ IF at[p].act = "authorize" THEN Approve(p) ELSE SayNo(p)
  /\ UNCHANGED <<job, gate, rows>>

Refuse(p) ==
  /\ at[p].pc = "commit"
  /\ ~CanDecide(at[p].act) \/ (at[p].act = "authorize" /\ gate # "open")
  /\ Leave(p)
  /\ UNCHANGED <<rec, auths, job, gate, rows>>

-----------------------------------------------------------------------------
(* The job, in a transaction of its own.                                    *)

\* One job per recommendation: a second insert finds the first.
Queue(p) ==
  /\ at[p].pc = "queue"
  /\ job' = IF job.state = "none"
            THEN [state |-> "queued", auth |-> LatestAuthorization,
                  stale |-> FALSE, stamp |-> FALSE]
            ELSE job
  /\ IF at[p].act = "requeue" THEN GoTo(p, "requeue") ELSE Leave(p)
  /\ UNCHANGED <<rec, auths, gate, rows>>

\* A failed job is queued again where ApplyEngine's rules allow it.
Requeue(p) ==
  /\ at[p].pc = "requeue"
  /\ job' \in IF job.state = "failed"
              THEN {job, [job EXCEPT !.state = "queued", !.stale = FALSE]} ELSE {job}
  /\ Leave(p)
  /\ UNCHANGED <<rec, auths, gate, rows>>

\* The account cannot be written, which leaves a decision without a job; or the
\* request dies between two transactions.
GiveUp(p) ==
  /\ at[p] # Idle
  /\ Leave(p)
  /\ UNCHANGED <<rec, auths, job, gate, rows>>

-----------------------------------------------------------------------------
(* The lifecycle stamps, under the lock of the row.                         *)

Repeats(act) == IF act = "mark_done" THEN rec.executed # "no" ELSE rec.rolledBack

MarkDone ==
  /\ rec' = [rec EXCEPT !.executed = "human"]
  /\ auths' = Revoked
  /\ rows' = [rows EXCEPT !.done = @ + 1]

RollBack ==
  /\ rec' = [rec EXCEPT !.rolledBack = TRUE]
  /\ rows' = [rows EXCEPT !.rolled = @ + 1]
  /\ UNCHANGED auths

Stamp(p) ==
  /\ at[p].pc = "stamp"
  /\ IF Repeats(at[p].act) THEN UNCHANGED <<rec, auths, rows>>
     ELSE IF at[p].act = "mark_done" THEN MarkDone ELSE RollBack
  /\ Leave(p)
  /\ UNCHANGED <<job, gate>>

-----------------------------------------------------------------------------
(* The worker.                                                              *)

StillApplies == Usable(job.auth) /\ rec.status = "authorized"

\* The claim asks for the authorization and the switch, not for the stamp.  It
\* may also finish the job: a recommend-only one as succeeded, any as failed.
Claim ==
  /\ job.state = "queued"
  /\ \E s \in {"failed"} \cup IF StillApplies /\ gate = "open" THEN {"applying", "succeeded"} ELSE {} :
       job' = [job EXCEPT !.state = s]
  /\ UNCHANGED <<rec, auths, gate, at, rows>>

\* The worker died or is late: its claim is closed.
CloseStale ==
  /\ job.state = "applying"
  /\ job' = [job EXCEPT !.state = "failed", !.stale = TRUE]
  /\ UNCHANGED <<rec, auths, gate, at, rows>>

\* A worker that comes late overwrites the close.
CanSettle == job.state = "applying" \/ (job.state = "failed" /\ job.stale)

\* A run that wrote counts as succeeded whatever was decided meanwhile.
Settle(wrote) ==
  /\ CanSettle
  /\ \E s \in IF wrote THEN {"succeeded"}
             ELSE IF StillApplies THEN {"succeeded", "failed"} ELSE {"failed"} :
       job' = [job EXCEPT !.state = s, !.stale = FALSE, !.stamp = wrote]
  /\ UNCHANGED <<rec, auths, gate, at, rows>>

\* After the settle, and whatever a person stamped meanwhile.
StampApplied ==
  /\ job.stamp
  /\ job' = [job EXCEPT !.stamp = FALSE]
  /\ rec' = [rec EXCEPT !.executed = "apply"]
  /\ UNCHANGED <<auths, gate, at, rows>>

StampLost ==
  /\ job.stamp
  /\ job' = [job EXCEPT !.stamp = FALSE]
  /\ UNCHANGED <<rec, auths, gate, at, rows>>

\* Seven days.
Expire ==
  /\ \E i \in DOMAIN auths :
       /\ auths[i] = "live"
       /\ auths' = [auths EXCEPT ![i] = "lapsed"]
  /\ UNCHANGED <<rec, job, gate, at, rows>>

Request(p) ==
  \/ \E act \in Decisions \cup Stamps : Decide(p, act)
  \/ \E act \in {"apply", "requeue"} : PostApply(p, act)
  \/ Commit(p) \/ Refuse(p) \/ Queue(p) \/ Requeue(p) \/ Stamp(p) \/ GiveUp(p)

Worker ==
  \/ Claim \/ CloseStale \/ StampApplied \/ StampLost
  \/ \E wrote \in BOOLEAN : Settle(wrote)

Next == (\E p \in Requests : Request(p)) \/ Worker \/ SetGate \/ Expire

Spec == Init /\ [][Next]_vars

-----------------------------------------------------------------------------
(* Properties.                                                             *)

RecType == [status : {"proposed", "authorized"} \cup Noes,
            approval : {"none", "approved", "rejected"},
            executed : {"no", "human", "apply"}, rolledBack : BOOLEAN]

Places == {"idle", "commit", "stamp", "queue", "requeue"}

\* Every variable holds what it may, a job belongs to an authorization, and
\* there is none to belong to before somebody approved (audit.ts:703-742).
TypeOK ==
  /\ rec \in RecType
  /\ auths \in Seq({"live", "lapsed", "revoked"})
  /\ job \in [state : {"none", "queued", "applying", "succeeded", "failed"},
              auth : Nat, stale : BOOLEAN, stamp : BOOLEAN]
  /\ gate \in {"open", "shut"}
  /\ at \in [Requests -> [pc : Places, act : Decisions \cup Stamps \cup {"apply", "requeue", "none"}]]
  /\ rows \in [done : Nat, rolled : Nat]
  /\ job.auth \in IF job.state = "none" THEN {0} ELSE 1 .. Len(auths)

\* However many people press at once, one of them approves: there is never a
\* second authorization, and none on what nobody approved (audit.ts:543-547).
ApprovedOnce ==
  /\ Len(auths) <= 1
  /\ rec.status = "proposed" => auths = <<>>

\* After a deny or a snooze has committed nothing is left that a claim would take,
\* not even what only lapsed (audit.ts:624-629).
NoLeavesNothing == rec.status \in Noes => \A i \in DOMAIN auths : auths[i] = "revoked"

\* The first deny or snooze stays: no request that looked earlier, approves or
\* denies again overwrites it (audit.ts:543-545).
FirstNoWins == [][rec.status \in Noes => rec'.status = rec.status]_vars

\* What is rolled back was executed, and what was executed had been authorized at
\* some time, although the routes look at an unlocked row (audits.ts:445-460) and a
\* deny may have committed since; and two requests that both saw an unstamped row
\* write one row between them (rec-lifecycle.ts:305-306).
StampsInOrder ==
  /\ rows.done <= 1 /\ rows.rolled <= 1
  /\ rec.rolledBack => rec.executed # "no"
  /\ rec.executed # "no" => auths # <<>> /\ rec.approval # "none"

\* The worker starts nothing after a person marked the recommendation done or said
\* no to it: the claim does not read the stamp, the stamp revokes what the claim
\* reads (rec-lifecycle.ts:317-325, apply.ts:273-286).
NothingStartsAfter ==
  [][job.state # "applying" /\ job'.state = "applying"
       => rec.executed # "human" /\ rec.status \notin Noes]_vars

-----------------------------------------------------------------------------
(* The job and its approval, as the engine sees them.                      *)

Executed == CASE rec.executed = "no" -> "nobody"
              [] rec.executed = "human" -> "human"
              [] OTHER -> "cerevex_apply"

Life == INSTANCE JobLife WITH
  status <- job.state, stale <- job.stale, approved <- StillApplies,
  open <- gate = "open", executed <- Executed, due <- job.stamp

\* Whatever people press around it, the job lives as the engine has it live: a run
\* starts only on an approval, a write of a withdrawn or abandoned run still
\* counts, and no stamp, no or expiry ever gives an approval back
\* (apply.ts:273-286, 1102-1246; rec-lifecycle.ts:317-325).
LivesAsPromised == Life!LifeSpec
=============================================================================
