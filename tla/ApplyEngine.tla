---------------------------- MODULE ApplyEngine ----------------------------
(***************************************************************************)
(* One apply job of the ads engine, src/apps/ads/shared/src/apply.ts.      *)
(*                                                                         *)
(* A person authorizes a recommendation; its one apply_jobs row (unique    *)
(* idempotency key) is then run by worker steps, inline HTTP calls and     *)
(* retries, which are all just runners here: each calls runApplyJob, that  *)
(* is claim, execute, settle, with other runners, people and the clock in  *)
(* between.  Every action is one database transaction or one platform      *)
(* event.  A runner may crash between any two of them.                     *)
(*                                                                         *)
(* Time is counted in ticks of one platform call budget (30 s).  A claim   *)
(* is named by the attempt number that drew its claimToken, and claimedAt  *)
(* and claimToken, which the code always writes together, are the field    *)
(* job.claim (0: neither is there).                                        *)
(*                                                                         *)
(* What a run sends are the platform requests of the mutations, in order.  *)
(* A mutation is one request, but a Meta create_ad is two: the creative,   *)
(* then the paused ad that shows it.                                       *)
(***************************************************************************)
EXTENDS Naturals, FiniteSets

CONSTANTS
  Runners,        \* concurrent callers of runApplyJob
  Askers,         \* owners asking /apply for a requeue at the same time
  RequestCount,   \* number of platform requests of the proposed mutations
  Plans,          \* what the recommendations may propose
  MaxAttempts,    \* bound on claims
  Lease,          \* APPLYING_LEASE_MS
  Call,           \* PLATFORM_WRITE_TIMEOUT_MS
  MaxInFlight     \* longest a sent request may take to land at the platform

ASSUME SizesAssumption ==
  /\ RequestCount \in Nat \ {0}
  /\ MaxAttempts \in Nat \ {0}

Claims == 1..MaxAttempts
Requests == 1..RequestCount

\* What a recommendation proposes: whether every mutation is a pause, whether the
\* account is a live Google one, whose writes look at the switch again (Meta and
\* mock do not), and which requests are Meta creatives, each followed by its ad.
ASSUME PlansAssumption ==
  \A p \in Plans :
    /\ p \in [repeatable : BOOLEAN, rereads : BOOLEAN, creatives : SUBSET Requests]
    /\ \A m \in p.creatives : m + 1 \in Requests \ p.creatives
    /\ p.creatives # {} => ~p.repeatable /\ ~p.rereads

\* The platform finishes a request within two call budgets of its sending:
\* the one the runner waits and the one requeue leaves after the lease.
ASSUME TimingAssumption ==
  /\ Lease \in Nat
  /\ Call \in Nat \ {0}
  /\ Call < Lease
  /\ MaxInFlight \in Nat
  /\ MaxInFlight <= 2 * Call

VARIABLES
  job,      \* the apply_jobs row
  auth,     \* authorization and recommendation it depends on, with its plan
  ws,       \* what the workspace and account settings allow
  runner,   \* [Runners -> state of one runApplyJob call]
  asker,    \* [Askers -> state of one requeue request]
  wire,     \* requests sent to the platform, not yet resolved
  landed,   \* <<claim, request>> pairs the platform carried out
  audited,  \* claims whose write has an audit_log row saying sent
  age       \* ticks since each claim's claimedAt, up to Quiet

vars == <<job, auth, ws, runner, asker, wire, landed, audited, age>>

Quiet == Lease + Call
Writes == {"absent", "no", "yes", "unknown"}
Errors == {"none", "failed", "meta_token_expired", "stale_applying",
           "blocked", "authorization_revoked", "revoked_after_write"}

\* A run that stands at pc with its claim and has not executed anything.
RunAt(pc, claim) == [pc |-> pc, claim |-> claim, left |-> 0, req |-> 0,
                     wrote |-> "no", failed |-> "none"]
Idle == RunAt("idle", 0)

Settings == {"open", "killed", "frozen", "recommend_only"}

\* The kill switch (or a live-write capability that is off) and the account
\* freeze make the apply gate refuse.
Blocked == ws \in {"killed", "frozen"}

Repeatable == auth.plan.repeatable
RereadsSwitch == auth.plan.rereads
Creatives == auth.plan.creatives

NoRequest == [pc |-> "idle", claim |-> 0, writes |-> "absent"]

Init ==
  /\ job = [status |-> "queued", error |-> "none", writes |-> "absent",
            claim |-> 0, attempts |-> 0, evidence |-> "absent"]
  /\ auth \in [live : {TRUE}, rec : {"authorized"}, executedBy : {"nobody"}, plan : Plans]
  /\ ws = "open"
  /\ runner = [r \in Runners |-> Idle]
  /\ asker = [q \in Askers |-> NoRequest]
  /\ wire = {}
  /\ landed = {}
  /\ audited = {}
  /\ age = [c \in Claims |-> Quiet]

-----------------------------------------------------------------------------
(* What the code decides from the row, the clock and the approval.         *)

\* Not revoked, not expired, and the recommendation is still authorized.
AuthorizationStillApplies == auth.live /\ auth.rec = "authorized"

LeaseExpired(c) == age[c] >= Lease

\* This claim is still the applying row and its lease has not run out.
ClaimStillHeld(c) ==
  /\ job.status = "applying"
  /\ job.claim = c
  /\ ~LeaseExpired(c)

LeaseRemaining(c) == IF age[c] < Lease THEN Lease - age[c] ELSE 0

\* Seeded fault: no call budget is held back.
ExecuteDeadlineFull(remaining) == remaining

\* Ticks a runner may still start calls in, from the lease that is left.
ExecuteDeadline(remaining) == IF remaining > Call THEN remaining - Call ELSE 0

\* A confirmed write wins over an unconfirmed one.
OutcomeWrites(sofar, outcome) == IF sofar = "yes" THEN "yes" ELSE outcome

\* Seeded fault: an unconfirmed write is recorded as no write.
SettledRowForgetsUnknown(x) ==
  [status |-> IF x.wrote = "yes" \/ x.failed = "none" THEN "succeeded" ELSE "failed",
   error |-> x.failed, writes |-> IF x.wrote = "unknown" THEN "no" ELSE x.wrote,
   claim |-> 0, attempts |-> job.attempts, evidence |-> job.evidence]

\* The row settleApplyJob saves for execution x.  The new response carries
\* neither claimedAt nor claimToken.
SettledRow(x) ==
  LET revoked == ~AuthorizationStillApplies
      done == x.wrote = "yes" \/ (~revoked /\ x.failed = "none")
  IN [status |-> IF done THEN "succeeded" ELSE "failed",
      error |-> IF ~revoked THEN x.failed
                ELSE IF x.wrote = "yes" THEN "revoked_after_write"
                ELSE "authorization_revoked",
      writes |-> x.wrote, claim |-> 0,
      attempts |-> job.attempts, evidence |-> job.evidence]

SameClaim(c) == job.status = "applying" /\ job.claim = c

\* Seeded fault: a late run overwrites any failure.
SupersededCloseAny == job.status = "failed"

\* settleApplyJob also overwrites a stale close.
SupersededClose == job.status = "failed" /\ job.error = "stale_applying"

-----------------------------------------------------------------------------
(* claimApplyJob: one conditional update, then the checks, in one          *)
(* transaction.                                                            *)

Claimable == job.status = "queued" /\ job.attempts < MaxAttempts

\* Row of a claim that the transaction itself closes without a platform call.
ClosedByClaim(status, error) ==
  [status |-> status, error |-> error, writes |-> "no", claim |-> 0,
   attempts |-> job.attempts + 1, evidence |-> job.evidence]

ClaimRefused(r) ==
  /\ runner[r].pc = "idle"
  /\ Claimable
  /\ ~AuthorizationStillApplies \/ Blocked
  /\ job' = ClosedByClaim("failed", IF AuthorizationStillApplies
                                    THEN "blocked" ELSE "authorization_revoked")
  /\ UNCHANGED <<auth, ws, runner, asker, wire, landed, audited, age>>

\* Recommend-only settings finish the job as succeeded, with no write.
ClaimStoppedBeforePlatform(r) ==
  /\ runner[r].pc = "idle"
  /\ Claimable
  /\ AuthorizationStillApplies
  /\ ws = "recommend_only"
  /\ job' = ClosedByClaim("succeeded", "none")
  /\ UNCHANGED <<auth, ws, runner, asker, wire, landed, audited, age>>

ClaimRun(r) ==
  /\ runner[r].pc = "idle"
  /\ Claimable
  /\ AuthorizationStillApplies
  /\ ws = "open"
  /\ LET c == job.attempts + 1 IN
       /\ job' = [status |-> "applying", error |-> "none", writes |-> "absent",
                   claim |-> c, attempts |-> c, evidence |-> job.evidence]
       /\ age' = [age EXCEPT ![c] = 0]
       /\ runner' = [runner EXCEPT ![r] = RunAt("claimed", c)]
  /\ UNCHANGED <<auth, ws, asker, wire, landed, audited>>

\* No row to claim: an applying row past its lease is going to be closed.  A
\* live one, or a finished one, is only reported and changes nothing.
SeeExpired(r) ==
  /\ runner[r].pc = "idle"
  /\ job.status = "applying"
  /\ LeaseExpired(job.claim)
  /\ runner' = [runner EXCEPT ![r] = RunAt("close", job.claim)]
  /\ UNCHANGED <<job, auth, ws, asker, wire, landed, audited, age>>

-----------------------------------------------------------------------------
(* closeStaleApplying: a conditional update on the token that was read,    *)
(* then the audit rows, which are not part of the same transaction.        *)

\* Seeded fault: the update does not compare the token.
StillTheClaimReadAny(r) == job.status = "applying"

StillTheClaimRead(r) == job.status = "applying" /\ job.claim = runner[r].claim

CloseStale(r) ==
  /\ runner[r].pc = "close"
  /\ StillTheClaimRead(r)
  /\ job' = [job EXCEPT !.status = "failed", !.error = "stale_applying",
                        !.writes = "unknown"]
  /\ runner' = [runner EXCEPT ![r].pc = "close_audit"]
  /\ UNCHANGED <<auth, ws, asker, wire, landed, audited, age>>

CloseMissed(r) ==
  /\ runner[r].pc = "close"
  /\ ~StillTheClaimRead(r)
  /\ runner' = [runner EXCEPT ![r] = Idle]
  /\ UNCHANGED <<job, auth, ws, asker, wire, landed, audited, age>>

CloseAudit(r) ==
  /\ runner[r].pc = "close_audit"
  /\ audited' = audited \cup {runner[r].claim}
  /\ runner' = [runner EXCEPT ![r] = Idle]
  /\ UNCHANGED <<job, auth, ws, asker, wire, landed, age>>

-----------------------------------------------------------------------------
(* executePrepared: the mutations in order, with the claim and the time    *)
(* checked before each one, and the time alone before an ad whose creative *)
(* has been made.                                                          *)

\* The deadline comes from the lease left now, not from the claim's start.
BeginExecute(r) ==
  /\ runner[r].pc = "claimed"
  /\ LET c == runner[r].claim IN
       runner' = [runner EXCEPT ![r] =
         [pc |-> "loop", claim |-> c, left |-> ExecuteDeadline(LeaseRemaining(c)),
          req |-> 1, wrote |-> "no", failed |-> "none"]]
  /\ UNCHANGED <<job, auth, ws, asker, wire, landed, audited, age>>

\* Leave the loop for settleApplyJob with this write result and failure.
LeaveLoop(r, wrote, failed) ==
  runner' = [runner EXCEPT ![r] =
    [pc |-> "settle", claim |-> runner[r].claim, left |-> 0, req |-> 0,
     wrote |-> wrote, failed |-> failed]]

FinishLoop(r) ==
  /\ runner[r].pc = "loop"
  /\ runner[r].req > RequestCount
  /\ LeaveLoop(r, runner[r].wrote, "none")
  /\ UNCHANGED <<job, auth, ws, asker, wire, landed, audited, age>>

\* No budget for another call: at the top of the loop, after the claim check,
\* or, as ApplyCallBudgetError, right before the request would be sent.
SkipDeadline(r) ==
  /\ \/ runner[r].pc = "loop" /\ runner[r].req <= RequestCount
     \/ runner[r].pc \in {"armed", "cleared"}
  /\ runner[r].left = 0
  /\ LeaveLoop(r, runner[r].wrote, "failed")
  /\ UNCHANGED <<job, auth, ws, asker, wire, landed, audited, age>>

\* The top of the loop: there is budget for the next mutation.
StartMutation(r) ==
  /\ runner[r].pc = "loop"
  /\ runner[r].req <= RequestCount
  /\ runner[r].left > 0
  /\ runner' = [runner EXCEPT ![r].pc = "check"]
  /\ UNCHANGED <<job, auth, ws, asker, wire, landed, audited, age>>

HoldClaim(r) ==
  /\ runner[r].pc = "check"
  /\ ClaimStillHeld(runner[r].claim)
  /\ runner' = [runner EXCEPT ![r].pc = "armed"]
  /\ UNCHANGED <<job, auth, ws, asker, wire, landed, audited, age>>

LoseClaim(r) ==
  /\ runner[r].pc = "check"
  /\ ~ClaimStillHeld(runner[r].claim)
  /\ LeaveLoop(r, runner[r].wrote, "failed")
  /\ UNCHANGED <<job, auth, ws, asker, wire, landed, audited, age>>

\* The target already has the state the mutation asks for.
AlreadyApplied(m) == Repeatable /\ \E c \in Claims : <<c, m>> \in landed

\* The run has made a creative and comes to the ad that is to show it.
Midway(r) == \E m \in Creatives : runner[r].req = m + 1

\* How many requests the mutation that begins with request m has.
SizeOf(m) == IF m \in Creatives THEN 2 ELSE 1

\* A mutation for another platform, of a family that is off, or already applied
\* is passed over with all its requests; the loop goes on.
SkipMutation(r) ==
  /\ runner[r].pc \in {"check", "armed", "cleared"}
  /\ ~Midway(r)
  /\ runner' = [runner EXCEPT ![r].pc = "loop", ![r].req = @ + SizeOf(runner[r].req)]
  /\ UNCHANGED <<job, auth, ws, asker, wire, landed, audited, age>>

\* How a refusal is recorded.  Only Meta's "token expired" has a code of its own.
Refusals == IF RereadsSwitch THEN {"failed"} ELSE {"failed", "meta_token_expired"}

\* The write is refused before it is sent: no credentials, a refused token, a
\* live read that does not confirm the target, Google's re-read of the switch.
RefuseWrite(r) ==
  /\ runner[r].pc \in {"armed", "cleared"}
  /\ ~Midway(r)
  /\ \E f \in Refusals : LeaveLoop(r, runner[r].wrote, f)
  /\ UNCHANGED <<job, auth, ws, asker, wire, landed, audited, age>>

\* Seeded fault: the re-read looks at nothing.
SwitchStillOffBlind == TRUE

\* What Google's re-read looks at: the switch, and not the account freeze.
SwitchStillOff == ws # "killed"

RereadSwitch(r) ==
  /\ runner[r].pc = "armed"
  /\ RereadsSwitch
  /\ SwitchStillOff
  /\ runner' = [runner EXCEPT ![r].pc = "cleared"]
  /\ UNCHANGED <<job, auth, ws, asker, wire, landed, audited, age>>

\* Seeded fault: the budget is not looked at again before the call.
MayStillWriteLate(r) == runner[r].pc = IF RereadsSwitch THEN "cleared" ELSE "armed"

\* The last check before the request leaves, in the connector: the budget.
MayStillWrite(r) ==
  /\ runner[r].pc = IF RereadsSwitch THEN "cleared" ELSE "armed"
  /\ runner[r].left > 0

SendWrite(r) ==
  /\ MayStillWrite(r)
  /\ ~AlreadyApplied(runner[r].req)
  /\ wire' = wire \cup {[claim |-> runner[r].claim, req |-> runner[r].req,
                         life |-> MaxInFlight]}
  /\ runner' = [runner EXCEPT ![r].pc = "sent"]
  /\ UNCHANGED <<job, auth, ws, asker, landed, audited, age>>

Pending(r) == \E w \in wire : w.claim = runner[r].claim /\ w.req = runner[r].req
HasLanded(r) == <<runner[r].claim, runner[r].req>> \in landed

\* The request is carried out.  A creative has no outcome: the connector goes on to
\* the ad, with no look at the claim.  Any other ends its mutation, which wrote.
Confirm(r) ==
  /\ runner[r].pc = "sent"
  /\ HasLanded(r) /\ ~Pending(r)
  /\ runner' =
       IF runner[r].req \in Creatives
       THEN [runner EXCEPT ![r].pc = "armed", ![r].req = @ + 1]
       ELSE [runner EXCEPT ![r].pc = "loop", ![r].req = @ + 1, ![r].wrote = "yes"]
  /\ UNCHANGED <<job, auth, ws, asker, wire, landed, audited, age>>

\* A readable refusal (4xx): this request wrote nothing, and its mutation counts as
\* no write, also when the creative before it was made.
Rejected(r) ==
  /\ runner[r].pc = "sent"
  /\ ~HasLanded(r) /\ ~Pending(r)
  /\ \E f \in Refusals : LeaveLoop(r, runner[r].wrote, f)
  /\ UNCHANGED <<job, auth, ws, asker, wire, landed, audited, age>>

\* Seeded fault: an aborted call counts as no write.
UnconfirmedAsFailed(r) ==
  /\ runner[r].pc = "sent"
  /\ LeaveLoop(r, runner[r].wrote, "failed")
  /\ UNCHANGED <<job, auth, ws, asker, wire, landed, audited, age>>

\* Timeout, abort, dropped connection, 5xx or unreadable body: the request may
\* have landed, may still land, or may not.
Unconfirmed(r) ==
  /\ runner[r].pc = "sent"
  /\ LeaveLoop(r, OutcomeWrites(runner[r].wrote, "unknown"), "failed")
  /\ UNCHANGED <<job, auth, ws, asker, wire, landed, audited, age>>

-----------------------------------------------------------------------------
(* settleApplyJob, in one transaction, and the audit writes after it.      *)

\* The claim is someone else's now: the row stays, a sent write is audited.
SettleLost(r) ==
  /\ runner[r].pc = "settle"
  /\ ~SameClaim(runner[r].claim) /\ ~SupersededClose
  /\ audited' = IF runner[r].wrote = "no" THEN audited
                ELSE audited \cup {runner[r].claim}
  /\ runner' = [runner EXCEPT ![r] = Idle]
  /\ UNCHANGED <<job, auth, ws, asker, wire, landed, age>>

\* Still its own claim, or a stale close to overwrite.  A revoked or superseded
\* outcome is audited in the transaction, any other by the caller later.
Settle(r) ==
  /\ runner[r].pc = "settle"
  /\ SameClaim(runner[r].claim) \/ SupersededClose
  /\ job' = SettledRow(runner[r])
  /\ audited' = IF runner[r].wrote # "no"
                   /\ (SupersededClose \/ ~AuthorizationStillApplies)
                THEN audited \cup {runner[r].claim} ELSE audited
  /\ runner' = [runner EXCEPT ![r].pc = "client_audit", ![r].failed = "none"]
  /\ UNCHANGED <<auth, ws, asker, wire, landed, age>>

\* Only a client-audit row of kind "applied" stamps approval.executed_at.
ExecutedBy(r) == IF runner[r].wrote = "yes" THEN "cerevex_apply" ELSE auth.executedBy

ClientAudit(r) ==
  /\ runner[r].pc = "client_audit"
  /\ auth' = [auth EXCEPT !.executedBy = ExecutedBy(r)]
  /\ runner' = [runner EXCEPT ![r].pc = "caller_audit"]
  /\ UNCHANGED <<job, ws, asker, wire, landed, audited, age>>

\* The worker step or the route that called runApplyJob records the outcome.
CallerAudit(r) ==
  /\ runner[r].pc = "caller_audit"
  /\ audited' = IF runner[r].wrote = "no" THEN audited
                ELSE audited \cup {runner[r].claim}
  /\ runner' = [runner EXCEPT ![r] = Idle]
  /\ UNCHANGED <<job, auth, ws, asker, wire, landed, age>>

\* The process ends between any two steps; what it sent stays sent.
Crash(r) ==
  /\ runner[r].pc # "idle"
  /\ runner' = [runner EXCEPT ![r] = Idle]
  /\ UNCHANGED <<job, auth, ws, asker, wire, landed, audited, age>>

-----------------------------------------------------------------------------
(* requeueFailedApplyJob behind POST /recommendations/:id/apply.           *)

\* Seeded fault: an unknown write is requeued like a failed one.
NeedsReconcileOnlyYes(writes) == writes = "yes"

NeedsReconcile(writes) == writes \in {"yes", "unknown"}

\* What the route asks for before it reads the row.
RequeueGate == auth.executedBy = "nobody" /\ auth.live /\ ~Blocked

RequeueRead(q) ==
  /\ asker[q].pc = "idle"
  /\ RequeueGate
  /\ job.status = "failed"
  /\ job.error # "meta_token_expired"
  /\ asker' = [asker EXCEPT ![q] =
       [pc |-> IF NeedsReconcile(job.writes) THEN "reconcile" ELSE "decided",
        claim |-> job.claim, writes |-> job.writes]]
  /\ UNCHANGED <<job, auth, ws, runner, wire, landed, audited, age>>

\* Seeded fault: the wait is the lease alone.
PriorClaimQuietEarly(c) == c # 0 /\ age[c] >= Lease

\* The lease and one whole call budget have passed since claimedAt.
PriorClaimQuiet(c) == c # 0 /\ age[c] >= Quiet

\* reconciledRequeueDecision: only pauses, quiet, and none of them landed.
RequeueReconcile(q) ==
  /\ asker[q].pc = "reconcile"
  /\ Repeatable
  /\ PriorClaimQuiet(asker[q].claim)
  /\ \A m \in Requests : ~AlreadyApplied(m)
  /\ asker' = [asker EXCEPT ![q].pc = "decided"]
  /\ UNCHANGED <<job, auth, ws, runner, wire, landed, audited, age>>

\* A caller without reconciled, a landed pause, a claim that is not quiet, or a
\* live read that fails: the request is refused.
RequeueRefused(q) ==
  /\ asker[q].pc = "reconcile"
  /\ asker' = [asker EXCEPT ![q] = NoRequest]
  /\ UNCHANGED <<job, auth, ws, runner, wire, landed, audited, age>>

OpenToRequeue(q) == job.status = "failed"

\* The conditional update compares the status only; response stays, and a copy
\* of the response that was read goes to requeueEvidence.
RequeueUpdate(q) ==
  /\ asker[q].pc = "decided"
  /\ OpenToRequeue(q)
  /\ job' = [job EXCEPT !.status = "queued", !.error = "none",
                        !.evidence = asker[q].writes]
  /\ asker' = [asker EXCEPT ![q] = NoRequest]
  /\ UNCHANGED <<auth, ws, runner, wire, landed, audited, age>>

RequeueMissed(q) ==
  /\ asker[q].pc = "decided"
  /\ ~OpenToRequeue(q)
  /\ asker' = [asker EXCEPT ![q] = NoRequest]
  /\ UNCHANGED <<job, auth, ws, runner, wire, landed, audited, age>>

-----------------------------------------------------------------------------
(* The people, the settings, the platform and the clock.                   *)

\* Deny or snooze an authorized recommendation: every authorization is revoked.
Deny ==
  /\ auth.rec = "authorized"
  /\ auth' = [auth EXCEPT !.rec = "closed", !.live = FALSE]
  /\ UNCHANGED <<job, ws, runner, asker, wire, landed, audited, age>>

\* mark_done revokes too, but leaves the recommendation authorized.
MarkDone ==
  /\ auth.executedBy = "nobody"
  /\ auth' = [auth EXCEPT !.executedBy = "human", !.live = FALSE]
  /\ UNCHANGED <<job, ws, runner, asker, wire, landed, audited, age>>

Expire ==
  /\ auth.live
  /\ auth' = [auth EXCEPT !.live = FALSE]
  /\ UNCHANGED <<job, ws, runner, asker, wire, landed, audited, age>>

\* An owner flips the kill switch, a freeze or a capability; an apply capability
\* may leave the module recommend-only.
SetWorkspace(x) ==
  /\ ws # x
  /\ ws' = x
  /\ UNCHANGED <<job, auth, runner, asker, wire, landed, audited, age>>

Land(w) ==
  /\ wire' = wire \ {w}
  /\ landed' = landed \cup {<<w.claim, w.req>>}
  /\ UNCHANGED <<job, auth, ws, runner, asker, audited, age>>

Drop(w) ==
  /\ wire' = wire \ {w}
  /\ UNCHANGED <<job, auth, ws, runner, asker, landed, audited, age>>

\* One call budget passes.  It waits for requests at the end of their life.
Tick ==
  /\ \A w \in wire : w.life > 0
  /\ age' = [c \in Claims |-> IF age[c] < Quiet THEN age[c] + 1 ELSE Quiet]
  /\ runner' = [r \in Runners |->
       [runner[r] EXCEPT !.left = IF @ > 0 THEN @ - 1 ELSE 0]]
  /\ wire' = {[w EXCEPT !.life = @ - 1] : w \in wire}
  /\ UNCHANGED <<job, auth, ws, asker, landed, audited>>

Claim(r) == ClaimRefused(r) \/ ClaimStoppedBeforePlatform(r) \/ ClaimRun(r) \/ SeeExpired(r)
Close(r) == CloseStale(r) \/ CloseMissed(r) \/ CloseAudit(r)
Execute(r) ==
  \/ BeginExecute(r) \/ FinishLoop(r) \/ SkipDeadline(r) \/ StartMutation(r) \/ HoldClaim(r)
  \/ LoseClaim(r) \/ SkipMutation(r) \/ RefuseWrite(r) \/ RereadSwitch(r)
  \/ SendWrite(r) \/ Confirm(r) \/ Rejected(r) \/ Unconfirmed(r)
Settling(r) == SettleLost(r) \/ Settle(r) \/ ClientAudit(r) \/ CallerAudit(r)
Requeue(q) ==
  \/ RequeueRead(q) \/ RequeueReconcile(q) \/ RequeueRefused(q)
  \/ RequeueUpdate(q) \/ RequeueMissed(q)
People == Deny \/ MarkDone \/ Expire \/ \E x \in Settings : SetWorkspace(x)
Platform == \E w \in wire : Land(w) \/ Drop(w)

Next ==
  \/ \E r \in Runners : Claim(r) \/ Close(r) \/ Execute(r) \/ Settling(r) \/ Crash(r)
  \/ \E q \in Askers : Requeue(q)
  \/ People
  \/ Platform
  \/ Tick

Spec == Init /\ [][Next]_vars

-----------------------------------------------------------------------------
(* Properties.                                                             *)

RowOK ==
  job \in [status : {"queued", "applying", "failed", "succeeded"}, error : Errors,
           writes : Writes, claim : 0..MaxAttempts, attempts : 0..MaxAttempts,
           evidence : Writes]

RunState ==
  [pc : {"idle", "claimed", "loop", "check", "armed", "cleared", "sent", "settle",
         "client_audit", "caller_audit", "close", "close_audit"},
   claim : 0..MaxAttempts, left : 0..Lease, req : 0..(RequestCount + 1),
   wrote : {"no", "yes", "unknown"}, failed : {"none", "failed", "meta_token_expired"}]

ApprovalState == [live : BOOLEAN, rec : {"authorized", "closed"},
                  executedBy : {"nobody", "human", "cerevex_apply"}, plan : Plans]

RunnersOK == runner \in [Runners -> RunState]

\* Every variable keeps the shape the database columns and the code give it,
\* and only live claims are named by runners and requests.
TypeOK ==
  /\ RowOK
  /\ auth \in ApprovalState
  /\ ws \in Settings
  /\ RunnersOK
  /\ asker \in [Askers -> [pc : {"idle", "reconcile", "decided"},
                           claim : 0..MaxAttempts, writes : Writes]]
  /\ wire \subseteq [claim : Claims, req : Requests, life : 0..MaxInFlight]
  /\ landed \subseteq Claims \X Requests
  /\ audited \subseteq Claims
  /\ age \in [Claims -> 0..Quiet]

\* When requeue calls a prior claim quiet, none of that claim's platform calls
\* can still be under way (priorClaimQuiet, the 90 s execute deadline and the
\* call margin together).
QuietClaimHasNoCall == \A w \in wire : age[w.claim] < Quiet

\* A request leaves only while its claim is the live applying row: the window
\* executePrepared's comment leaves between the claim check and the platform
\* call never lets a closed or replaced claim start a write.
OnlyHolderSends ==
  [][\A w \in wire' : (\A v \in wire : v.claim # w.claim \/ v.req # w.req)
        => job.status = "applying" /\ job.claim = w.claim]_vars

\* Two claims of the job never have platform calls under way together.
OneClaimOnTheWire == \A v, w \in wire : v.claim = w.claim

\* Once a pause, a bid or an ad has been carried out under a claim, nothing at all
\* is carried out under a later one: no ad is made twice, and no bid or budget is
\* moved again by the run of a row that was requeued.  A creative alone is not
\* counted: one whose ad was refused is made again by the next run.
NoRepeatedWrite ==
  \A p, q \in landed : p[2] \notin Creatives => q[1] <= p[1]

\* A row that an owner may requeue without reconciling, or that already waits to
\* run again, hides no write: if it says "no", nothing of any claim is on the
\* wire, and nothing has been carried out but creatives whose ad was refused.
NoMeansNothingSent ==
  job.status \in {"failed", "queued"} /\ job.writes = "no" =>
    wire = {} /\ \A p \in landed : p[2] \in Creatives

\* A write the platform carried out is never forgotten, unless it is a creative: a
\* runner still has to settle it or to audit its stale close, or the row is still
\* its claim, or the row or its evidence says a write may have happened, or the
\* audit log does.
LandedIsKnown ==
  \A p \in landed : p[2] \notin Creatives =>
    \/ \E r \in Runners : runner[r].claim = p[1]
    \/ job.status = "applying" /\ job.claim = p[1]
    \/ job.writes \in {"yes", "unknown"}
    \/ job.evidence = "unknown"
    \/ p[1] \in audited

\* An owner's requeue of a row that may have written rests on a proof: from its
\* platform read on, none of that claim's writes has landed or can still land,
\* however long the conditional update is delayed.
ReconciledIsProof ==
  \A q \in Askers :
    asker[q].pc = "decided" /\ asker[q].writes \in {"yes", "unknown"} =>
      /\ \A m \in Requests : <<asker[q].claim, m>> \notin landed
      /\ \A w \in wire : w.claim # asker[q].claim

\* approval.executed_at is stamped by the engine only after a real write.
ExecutedMeansLanded == auth.executedBy = "cerevex_apply" => landed # {}
=============================================================================
