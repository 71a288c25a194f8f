# Verification of Cerevex in TLA+

Cerevex runs advertising and SEO work for clients: an ads API and worker that
audit ad accounts, let a person approve a recommendation and then carry it out
on Meta or Google; an SEO pipeline that drafts and publishes content; an MCP
service for agents; a console.  This directory holds TLA+ models of its core,
the TLC configurations that check them on small instances, and TLAPS proofs of
what they promise for every instance.

Paths below are relative to the repository; `apply.ts` is
`src/apps/ads/shared/src/apply.ts`.

## 1. Inventory

| Component | State | Operations | What is hard | What makes it correct |
|---|---|---|---|---|
| Apply engine (`apply.ts`) | `apply_jobs` row: status, attempts, response with `claimedAt`, `claimToken`, `writes`; `audit_log`, client audit | `runApplyJob` = claim, execute, settle; stale close; requeue | several callers at once, a lease on the database clock, platform answers that are late or missing, crashes | nothing carried out again under a later claim; a write that happened is never forgotten; a requeue rests on proof |
| Mutation execution (`mutate.ts`, `connectors/*`) | platform objects, local mock tables | reads and writes with a call budget | timeouts, refused tokens, switch turned on in the middle | a write leaves only when it is still allowed |
| Apply delivery (`audits.ts` routes, `inngest.ts`, `src/jobs/ads/shared/src/handlers.ts`) | event queue with event ids, memoised steps | approve, apply, requeue, `handleApplyRequested` | step retries, dropped and duplicate events, lease wait | every outcome audited once; a watched claim ends |
| Decisions and lifecycle (`audit.ts`, `rec-lifecycle.ts`) | recommendation, authorizations, approval JSON, stamps | approve, deny, snooze, queue the job, mark_done, roll back | two people deciding; a deny against a running job; looks at an unlocked row | one approval; the first no stays; nothing starts after a no or a stamp |
| Workspace safety (`PATCH /workspace`) | kill switch, freeze, capabilities | owner toggles | toggled while jobs run | no new write once on |
| Account sync and tokens (`sync.ts`, `meta-token.ts`, `google-token.ts`) | connection status, last error, stored tokens | sync, refresh, reconnect, disconnect | slow syncs crossing a reconnect or disconnect; two refreshes | a rejected token is not reported as connected |
| SEO workflow (`src/jobs/seo`, the console's job and review pages) | `jobs` row, settings of the store, memoised steps, approvals | draft, wait for a decision, publish, send again | replays that read the settings anew, retried publications, approval against timeout | published only after an approval; a retried page is found; every run ends |
| MCP service (`src/apps/mcp/src`) and `mcp-identities.ts` | two token buckets, waiting and verified sets, windows, cached switch | admit, look up, refuse, give back, revoke | calls that cross between two awaits; cached answers | bounds hold; a waiting caller is remembered; a revoked token is refused |
| Production migrations (`prod-migrate.ts`) | ledger, schema, advisory lock | dry run, apply | other runs of other checkouts; deaths; a lost COMMIT answer | ledger equals schema; nothing twice or out of order; true reports |
| Plans and limits (`entitlements.ts`, `sites.ts`, `connect.ts`, triggers of `0006_plan_entitlements.sql`) | plan, linked site, locations, accounts of a client | link, turn on and off, connect, change plan, disconnect, sync | a decision on rows that others write, some of them without the client's lock | limits hold; the linked site's location is on |
| Monthly usage (`usage.ts`, `grok-creatives.ts`, `brain/src/lib/db/jobs.ts`) | counters, events, row and advisory locks | save an idea, count a job, ask for room | retries, month ends, four kinds of transaction locking the same rows | counter equals events; room is kept; no deadlock |
| Audit run (`audit.ts`) | run status, findings, recommendations | `runAuditRun` | not one transaction, may be run twice | no duplicates, no lost recommendation |
| Revert (`revert.ts`) | apply history | undo a change | a second writer to the platform | no revert of a later change |
| Skill ingest, rules, reports, pages, contracts | none of their own that interleaves | pure functions, single inserts, pages | - | - |

How they interact: a route creates the job in the decision's transaction and
either calls `runApplyJob` itself ("inline") or sends an event; the worker
calls `runApplyJob` in a memoised step.  All callers meet only in the
`apply_jobs` row (conditional updates and row locks) and on the platform.
People change the authorization and the switches at any time, and the engine
reads them inside its claim and settle transactions.  Syncs and applies share
an account's tokens and its status.  Agents reach the ads API through the MCP
service, which asks it who they are and whether the connector is on.  The
console creates SEO jobs, whose function reads the store's settings and counts
in the client's month; a client's plan limits what it may connect and link.
All of it lives in one database, which the migrate command changes.
`PROJECT.json` lists the hazards with their lines.

## 2. Plan

Done, in this order: `ApplyPromise`, `ApplyEngine`, their refinement and
proofs; `ApplyDelivery` on top of the promise and its proofs; `AccountSync`; `SeoJob`;
`McpAdmission`; `Decision`; `ProdMigrate`; `Entitlements`; `UsageMeter`; then `TenantRows`
and `JobLife`, which `Entitlements`, and `ApplyEngine` and `Decision`, implement.

Left:

1. `AuditRun`: `runAuditRun` row by row with retries and overlapping attempts.
2. `McpSubmit`: a submitted recommendation and its deduplication.
3. `Revert`: a second writer beside the engine, which needs before and after values.

Theorems still open: that `UsageMeter` implements a ledger whose transactions act at
one instant, as `Entitlements` implements `TenantRows`; and such a specification for
`ProdMigrate` (a database that takes whole migrations only).

## 3. Modules

| Module | Role |
|---|---|
| `ApplyPromise` | abstract specification: the life of one row and of the leases on it |
| `ApplyEngine` | `apply.ts` and the part of `mutate.ts` and the connectors that decide whether and when a write leaves |
| `JobLife` | abstract specification: one job next to its approval, what engine and decisions count on of each other |
| `ApplyEngineImpl` | the refinement mappings from engine to promise and to job life |
| `ApplyDelivery` | worker, inline requests, event queue and requeue route, built on `ApplyPromise` |
| `AccountSync` | `sync.ts`, `meta-token.ts`, `google-token.ts`, `storeTokens`, connect and disconnect, for one account |
| `SeoJob` | `src/jobs/seo/src/functions/job.ts` and the people at the console |
| `McpAdmission` | `app.ts`, `limiter.ts`, `kill-switch-cache.ts` of the MCP service |
| `Decision` | every transaction on one recommendation |
| `ProdMigrate` | the production migrate command |
| `TenantRows` | abstract specification: a client's locations, plan and accounts, changed in one step each |
| `Entitlements` | plan limits: decisions, triggers and their callers |
| `UsageMeter` | the transactions of the monthly count, with their locks |
| `ApplySwitch` | the engine with a monitor that counts requests since the kill switch was turned on |
| `...Proofs` | TLAPS proofs of the module of that name; `ApplyProofs` of `ApplyEngine`, `ApplyEngineImpl`, `ApplySwitch` and `ApplyDelivery` |
| `MC...` | instances for TLC |

### ApplyEngine

One row, any number of `Runners` (a worker step, a retry of it and an inline
request are all the same caller of `runApplyJob`) and `Askers` (owners who post
`requeue`).  Each action is one database transaction, or one platform event, so
everything may happen between two of them, a `Crash` included.

| Variable | In the code |
|---|---|
| `job` | the row; `claim` is `claimToken` together with `claimedAt`, named by the attempt that drew it; `writes` is `response.writes`; `evidence` is `writes` in `request.requeueEvidence` |
| `auth` | `revokedAt`/`expiresAt` of the authorization (`live`), recommendation status, `approval.executed_by`; `plan` is what the recommendation proposes, which nothing changes |
| `ws` | what the gate reads: open, killed (switch, or a live-write capability that is off), frozen, recommend-only |
| `runner` | local state of one `runApplyJob` call: where it is, its claim, ticks left to its deadline, request, outcome so far |
| `asker` | what `requeueFailedApplyJob` read |
| `wire`, `landed` | requests the platform has and has carried out (external) |
| `audited` | claims with an audit row that says a write was sent |
| `age` | time since each claim's `claimedAt` |

Actions follow the functions: `ClaimRefused`, `ClaimStoppedBeforePlatform`,
`ClaimRun` and `SeeExpired` are the outcomes of `claimApplyJob`; `CloseStale`,
`CloseMissed`, `CloseAudit` the steps of `closeStaleApplying`; `BeginExecute`
to `Unconfirmed` the loop of `executePrepared` with each check as a step of its
own, since that is where other callers come between; `SettleLost` and `Settle`
the transaction of `settleApplyJob`, `ClientAudit` and `CallerAudit` the writes
after it; `RequeueRead` to `RequeueMissed` the read, the reconciling reads and
the conditional update of `requeueFailedApplyJob`.  A response that only
reports the row (`storedRun`) changes nothing and is no action.

What a run goes through are requests to the platform, not mutations: a mutation is
one, but a Meta `create_ad` is two, the creative (`meta.ts:683`) and the ad that
shows it (`meta.ts:695`).  `Plans` holds what may be proposed: whether all of it
is pauses (`repeatable`), whether the writes re-read the switch (`rereads`, a
live Google account), and which requests are `creatives`.  Between a creative and its
ad (`Midway`) the code looks at the time only, neither at the claim nor at the switch, and
keeps no outcome (`Confirm`); a refusal of the ad, or the end of the time,
leaves the mutation recorded as no write.  On Google a plan is pauses or bids, since the code
refuses the rest (`mutate.ts:337`, `:612`, `google.ts:654`).

Time is counted in call budgets (`PLATFORM_WRITE_TIMEOUT_MS`, 30 s); the lease
of 120 s is 4 of them.  `Tick` ages every claim and shortens every deadline at
once: the code computes both from the lease that is left.  `Tick` waits for
requests whose life has ended, which is the assumption that the platform
finishes a request within `MaxInFlight` ticks (`TimingAssumption`: two budgets,
the one the runner waits and the one `priorClaimQuiet` leaves).  The margin of
one second in `platformCallBudgetMs` only makes a deadline earlier and is part of
the rounding.  A reading of the clock and what is decided by it are one step: a
process that is stopped between the lease read and the deadline
(`apply.ts:998-999`), or between the last budget check and the request
(`write-timeout.ts:59`), is outside the model, as it is outside the bounds the
code computes.

The Google switch re-read (`googleWriteStillAllowed`) is an action before the
write; what may happen between it and the request is not excluded.

### ApplyDelivery

It does not look inside the engine: row and leases are `ApplyPromise`'s, every
change of them a step of it, and the proof that the engine implements the
promise is what makes this sound.  `run` is where the worker function and each
inline request stand.  A worker step may break after its effects and before its
result is memoised (`Breaks`) and is then run again from its start, up to
`Retries` times; then the function is `dead`.  `bus` is the event: waiting, and
whether its id is remembered (`ads-apply-<jobId>` and the function's
`idempotency` both drop a repeated one for a day; `ForgetEvent` is the day
passing).

### AccountSync

One row of `ad_accounts` and everybody who writes it: `Syncs` (calls of
`runAdAccountSync`), `Applies` (`executeMutation` refreshes the same tokens
before a live write), and owners who connect and disconnect.  `Google` chooses
the platform, since the two answer and are checked differently.  Syncs of one
account do overlap: `account-sync` and the older per-platform functions each
run one at a time, but each counts for itself, and the stub functions call the
same code with no limit (`handlers.ts:38-41`).

| Variable | In the code |
|---|---|
| `account` | `connectionStatus` and `lastError`; of the error only whether there is one and whether it is the platform's "tokens were rejected" |
| `stored` | whether `oauth_credentials` has a row for the account |
| `pulls`, `audits` | pulls written, `reconnect_required` audit rows, counted modulo 2, which tells "one" from "none" in a step |
| `at` | where each call is, the status its sync found (`previousStatus`), and a history bit, `late`: the call had passed its look at the account when the account was marked `needs_reconnect` |

`SyncStart` is the read and `SyncMark` or `SyncMarkRefused` the conditional
update after it, so that anything may happen in between.  `FreshRefused`,
`FreshRead`, `Refresh`, `Reject` and the three `Store...` actions are
`ensureFreshPlatformTokens` and `storeTokens`; `Refresh`, `Pull`, `Mutate` and
`UseFailed` are the platform's answers, by class.  The classes that are handled
alike are one place: `later` is Google's retry-later and Meta's failed refresh,
`denied` a missing Meta permission and a wrong Google OAuth setup.  After a
`Crash` a sync is `dead` until its step is run again; an apply's or an owner's
request is over.  Retries are not bounded: `dead` says that a retry may come.

### SeoJob

A durable function: the platform calls it again and again, finished steps
answer from their recorded results, and only what is outside of a step runs
each time.  One `Request` is one such call; it goes through the code up to the
next step it has to do.  `config` is read at two places outside of any step
(`job.ts:420`, `job.ts:508`), so a request remembers in `sees` what it read, and
a later request may read otherwise, or fail to read.

An answer is any status: `/api/approve` passes its body on (`route.ts:15-18`), and
the function closes the job on `Closing`, ends it on an answer without a status
(`blank`) like on a timeout, and goes on with all others (`Passing`; `other` stands for those it does
not know).  The draft page offers four of them.  A page is looked for on the
site if its draft has a handle (`publisher.ts:140`); a reviewer who edits the draft
may change or drop it (`Handles`).

| Variable | In the code |
|---|---|
| `work` | what the job is: kind of content, whether its draft has a handle, where the store lives, whether it comes from search, whether it names a resource |
| `status` | `jobs.status` |
| `config` | the store's `requireApproval` and search gate |
| `run` | of each run of the function: steps that are done or failed for good, the decision it heard, what `publish` answered, tries, what the current request has read; `read` is history: the lax settings its requests found |
| `sent`, `unwritten` | decisions sent, and the statuses the page writes after it has sent one |
| `approvals` | rows of `approvals`, by run |
| `made`, `changed`, `blind` | history of the site: resources made, runs that wrote, swallowed errors of a lookup or update |

A step that throws is tried again up to `Retries` times and then, unless the code
catches it, ends the run (`Fragile` bounds which steps do so).  `WaitEnds` is the
one-day timeout.  A job that is sent again from its page is a second run of the
same row, without the source (`page.tsx:30`).

### McpAdmission

A JavaScript handler runs without interruption between two awaits, so an action
is the handler from one await to the next: `Arrive` up to the read of the switch,
then body, lookup and answer.  What a call holds is in `call`; `lookups` and
`denials` are the two buckets; `waiting` is the set of refused callers in its
order.  `cached` and `pending` are the remembered switch and the read that is
under way and shared.  `count` and `since` are history for the properties.  A
bad origin, which the code refuses before it awaits the switch, here waits for
it: more orders than the code has, of the same charges.

### Decision

One recommendation row.  The routes look at an unlocked row and then run
transactions that lock it: `at` says where each request is between them.
Every transaction that locks the row is one action.  `rec` holds the status and
what the routes read of `approval_json`; `auths` the authorizations; `job` the
job, unique by its key; `gate` the switch and the freeze.  The worker's claim,
end and stamp are single steps here: what happens inside is `ApplyEngine`'s.  A claim
may end the job without a run (a capability that is recommend-only, a reason to
refuse), and a settle may come after its claim was closed.

`JobLife` is what ties the two together.  It has the job's status, whether its
authorization still applies, who executed the recommendation and whether a write
is still to be shown on it; claims, leases and requests to the platform are left to
the engine, people to `Decision`.  Both map onto it, so neither assumes of the job
what the other does not keep.

### ProdMigrate

Any number of invocations, each with the bundle of its checkout.  An invocation
lists the ledger and then, for each pending migration, begins a transaction,
takes the advisory lock, reads the ledger again, runs the statements one by one,
inserts the row and commits.  `ledger` and `schema` are what is committed; what a
transaction has done so far is in `run`, so a rollback is its end.  `Die` leaves
an open session that still holds the lock (`orphan`) until the server notices
(`Reap`); the answer to COMMIT may be lost.  `report` is what the run prints.

### Entitlements

A request looks at rows without a lock (`Ask...`, `EnsureSite`, `Adopt`), then runs
`LockTenant`, `Decide`, `Write`, `Commit`.  The decisions are those of
`packages/contracts`; the triggers are evaluated again in `Write`.  `Disconnect`,
`SyncStatus` and `SyncNames` write account rows without the client's lock.

| Variable | In the code |
|---|---|
| `client` | `plan`, `site_id`, and the site the client was made for |
| `active` | `os.locations` that are active |
| `account` | `os.ad_accounts` of one platform: external id (or `pending`) and status |
| `req` | where each request is, what it read under the lock |

### UsageMeter

A step is one statement.  `Wanted` says which locks it takes: advisory locks of
a month and of a store, the unique index entries and counter rows it writes, and
the client row in the mode PostgreSQL takes for a foreign key (share), for `FOR NO
KEY UPDATE` (row) and for a change of `site_id` (key).  `Runs` waits while another
transaction has a lock that clashes.  The month is the one in which the transaction
began, since `now()` does not move within it.

| Variable | In the code |
|---|---|
| `events`, `used` | `os.usage_events`, `os.usage_counters` |
| `site`, `on` | the client that has the store as its site, and those that have its location on |
| `month` | the Eastern month of the database clock |
| `tx`, `held` | each transaction: its next statement, what it has read; its locks |

## 4. Runs

| Run | Instance | Shows |
|---|---|---|
| `apply_create` | 2 requests: bids on Google, bids on Meta, or one Meta ad; 3 runners, 2 claims, 1 owner, lease of 3 | one claim on the wire; nothing carried out again after a bid or an ad was; a row that says "no" hides no bid and no ad; none that landed is forgotten; on Google at most one request after the switch is turned on; only the holder sends |
| `apply_pause` | a pause on Google, 2 runners, 2 owners, 2 claims, lease of 3 | `priorClaimQuiet` means no call is left; a reconciled requeue stays justified until its update; the engine implements `ApplyPromise` and `JobLife` |
| `apply_delivery` | worker, 1 inline request, 2 claims, 1 retry | one auditor per outcome; a claim the worker watches does not stay applying |
| `two_owners` | Meta, 1 bid, 2 owners | a disagreement, section 6 |
| `account_sync` | Meta, 2 overlapping syncs, 1 apply, owners, a server without setup, `sync.live` off | rejected tokens are not used and who may clear a rejection; a disconnected account is left alone; one audit per rejection; `syncing` without an error is attended |
| `seo_job` | 1 run, three kinds of job, every answer, 1 retry, settings that change, four steps that may fail for good | nothing is published before an answer that closes nothing, or a read that none is needed, nor without its row; a search job writes only after it read the gate as open |
| `seo_resend` | the first run and a second one of the same page, with a handle or without | a page with a handle is made once unless an error was swallowed; every run ends |
| `mcp_admission` | 2 calls at once of 4; an agent, a forged token, a caller without one; buckets of 2 and 1, one waiting caller | held, spent and left add up and slots are paid; revoked and tripped are refused; a waiter is remembered |
| `decision` | 3 requests at once and the worker | one approval, the first no stays, one stamp of each kind in order; decisions and worker implement `JobLife` |
| `migrate` | 3 runs, five checkouts, five databases, 2 statements | ledger and schema agree; every row extends one bundle; reports are true |
| `entitlements` | 2 requests, 2 clients (one made for a site), 2 sites, 2 rows and 2 ids | limits hold; the linked site's location is on; requests implement `TenantRows` |
| `usage` | 2 transactions, 2 clients with a limit of one, 1 job, 2 ideas, 2 months | counters agree with events; room is kept; no circle |

The type invariant of every module is proved (section 5) and not listed in a run.

Bounds.  `MaxAttempts` and `MaxDraws` bound claims in the guards of a claim (in
`ApplyDelivery`, of a requeue): two claims give an old and a new one, three, in
`two_owners`, let a late caller of the first meet the third.  Two runners are one
that is late and one that is not; the third of `apply_create` may close the claim of
one while another settles.  Two requests give a partly written job, or a creative
without its ad.  The lease of 4 leaves three ticks of deadline; 3 leaves two and is used
where the runs are large.  `apply_create` has one owner because two can double a write
(section 6); `apply_pause` does not check `NoMeansNothingSent` because a late settle
breaks it.  Four theorems (section 5) have as their hypotheses that one owner asks and that no plan
is of pauses alone; the others have neither.

`AccountSync` needs no bounds besides the number of callers: its counters are
parities.  Two syncs and an apply give, of each pair of calls, one that was
under way and one that looks later.  Google has no run; the proofs are about both
platforms.

`SeoJob`: `Retries` bounds the tries of a step, and `MaxEvents` the decisions that are
sent, one, which may come before, in or after the wait.  `Works` are kinds of job that take different ways
through the code; `seo_resend` has those for which two runs matter, pages, one of which is not found again.
`McpAdmission`: `MaxCalls` and `MaxRefills` bound calls and refills; buckets of two
and one and a map of one address are full after two calls.  `Decision` has no bound
but its requests: three are two that decide at once and one that stamps or queues.
`ProdMigrate`: five checkouts (a release, the one before it, a branch, one out of
order, one whose artifact was edited) against a new and a current database and three
ledgers changed by hand (a row twice, a gap, an unknown row).
`Entitlements`: of two requests, one looks before and one after the other's commit;
plans change and accounts connect for one client only.
`UsageMeter`: `LastMonth` is two so that a month ends once; three transactions at
a time are too many states for TLC, and longer circles are excluded by the proof.

Runners, owners, syncs, requests, transactions and the like are interchangeable, so
TLC uses symmetry, except in `ApplyDelivery` and `SeoJob`, which have liveness
properties.  Deadlock is checked wherever the system goes on for ever.
`ApplyDelivery`, `SeoJob` and `ProdMigrate` come to an end when all that was asked
is done, so their runs do not check it.

Fairness.  Most specifications have none: their properties are safety.
`ApplyDelivery` assumes weak fairness of the worker (the event platform starts
a waiting event, runs steps, resumes sleeps) and of leases running out (the
clock).  `SeoJob` assumes weak fairness of a run's requests (the same platform)
and of the end of its wait (a timeout of one day).  Nothing is assumed of HTTP
requests, of people or of a step succeeding: a step may break at each try.
`WatchedClaimEnds` therefore allows that the function itself died.

Mutants.  For each property of a passing run the module holds a seeded fault, marked
as such, that replaces one operator by what a plausible mistake would make of it;
TLC finds the property violated.  Two checks in the code turned out to be
covered by others: without the lease test in `claimStillHeld`, `OnlyHolderSends`
still holds, because the deadline already ends before the lease; and with a
full-lease deadline a request still leaves only under its claim, but
`QuietClaimHasNoCall` fails.

## 5. Proofs

`ApplyProofs` proves of the engine, for all `Runners`, `Askers`, `RequestCount`,
`MaxAttempts` and `Plans`, from `SizesAssumption`, `PlansAssumption` (a creative is
followed by its ad, on a platform that does not re-read the switch) and
`TimingAssumption` (a call is shorter than the lease; a request lives at most two
call budgets):

- `TypeCorrect`, `QuietIsSafe`, `RequeueIsProven`, `ExecutedIsReal` (invariants),
- `HolderSends` (an action property).

None of them is inductive alone.  The invariant `IInv` (theorem `Invariance`)
adds: a runner that executes holds a claim that was drawn; its deadline plus one
call budget fits in what is left of its lease, which is what
`applyExecuteDeadlineAt` is for; no two runners execute one claim; a request is not older
than its life allows, so that after the quiet time none of the claim is left;
while a claim is young no one can have closed its row, so a runner with time
left is the holder; a decided asker's claim is quiet and was found not landed.
The proof has one lemma per action or group of similar actions and is put
together in `NextKeeps`; TLC checked `IInv` first on the pause instance.

A job that is not of pauses alone and whose requeues one owner asks for
(`NeverRepeatable`, `OneOwner`) has a second invariant, `OneInv`, on top of `IInv`: a requeue that goes ahead
still sees the row it read (`RowIsRead`); only the last claim has a run, until
its row is settled (`LatestRuns`); what was sent is the last claim's, and nothing
was where the row says no (`LatestSent`), but for creatives that are made; a run that
would say no has sent nothing else but what it waits for (`CleanRun`).  From it follow `OneClaimSends`,
`NoDoubleWrite`, `NoIsTrue` and `LandedStaysKnown`, for any number of runners,
requests and claims, creatives anywhere among them, and for a late or lost answer to
any request.  A made creative whose ad was refused is excepted by name, in the
properties and not in the model, because the code forgets it (section 6).  The run
`two_owners` shows that `OneOwner` cannot be left out; `LandedIsKnown` fails there, and
on the instance of `apply_pause`, as well.

`OneSendOnly`, of `ApplySwitch`: if the writes of the job re-read the switch
(`RereadsSwitch`, part of the plan and not a hypothesis), at most one run at a time is past its re-read with time left
(`OneReady`, from `Holder` and `OwnClaims`), and none comes to be while the switch
is on, so that the count is at most one and then nobody is left (`OneLeft`).

`Implementation` of the same module says that the engine keeps `ApplyPromise`:
the engine's initial state maps to the promise's and each step to a promise step
or a stutter, using
`Invariance` for the stale close (only a lapsed claim is closed, although the
code compares the token and not the lease at the update).

`EngineKeepsLife`: the engine implements `JobLife`.  `LifeOK` adds to `IInv` that a run
whose write is still to be shown has it in the row already, that only one has, and
that only a failed row was closed as stale: otherwise a second settle could make a job
that has written fail.

Of `ApplyDelivery` the module proves `DeliveryTypes`, `OneAuthor` and
`DeliveryKeepsPromise`, for any number of inline requests, claims and retries.  A
claim's authors are those who wrote its audit row and those who are about to; `DInv`
says that there is at most one and that a claim that is still applying, or not drawn,
has none (`AuthorsOK`).  That a step broken after its effects becomes no second author
rests on `ShouldRecord`: the retried step finds a row that is over and gets it as a
replay.  `DeliveryKeepsPromise` needs the types only: every step of
the delivery is one step of the row, or the clock's, or none.  Together with
`Implementation` it says that the delivery rests on nothing the engine does not keep.

`AccountSyncProofs` proves every property its run checks, for any
number of syncs and applies and for both platforms, from `CallersAssumption`
(the callers' sets are disjoint) alone, whatever blocks a sync.  The invariant
(`Invariance`) adds to the types: what each kind of call can be doing
(`Roles`); that of an account that needs a reconnect, every call that got past
its look is late (`LateCalls`), which is what makes `needs_reconnect` hold
against later syncs; and that nobody leaves an error on a disconnected account
(`DisconnectedIsBare`).  `StepKinds` reduces a step to five kinds of change of
the row, from which the three action properties follow.  `ReconnectAgrees` is
more than a side condition: Meta's test for "already noted" asks both columns
and Google's either one, and `OneAudit` needs them to be the same test.

`SeoJobProofs`, from `SeoAssumption` (sets and bounds are of their kinds):
`TypeCorrect`, `ApprovalFirst`, `RowFirst`, `GateFirst`, `CopiesAreCounted`, for any
number of runs of the job, with no use of the fairness `RunEnds` needs.  `SInv`
adds to the types: what a request has read of the settings is in its run's history
(`Sees`); a run that writes or has written was cleared to (`Cleared`); its rows say
what it heard (`Recorded`), which stays because only a run that has heard nothing
waits; a run on its way to the site has not had its publication recorded; and a
run about to create a page that can be found again has no more copies than errors
(`Copies`).

`McpAdmissionProofs`, from `McpAssumption` (sizes are numbers, calls are finitely
many): `TypeCorrect`, `BucketsCorrect` (both ledgers), `RevokedCorrect`,
`TrippedCorrect`, `WaiterCorrect`.  The two ledgers are inductive once the types
are known, by the cardinality of the calls that hold a token; `Refused` adds that
a call which is late or dark has not been told otherwise, and that an answer under
way cannot be of an earlier switch; `Lined` adds that waiting callers differ and
that each has seen the younger ones come, so that a full set has as many (`FullSet`,
by an injection).

`DecisionProofs`, without any assumption: `ApprovedOnceCorrect`,
`NoLeavesNothingCorrect`, `StampsCorrect` (with the types and one stamp of each
kind), `FirstNoCorrect`, `NothingStartsCorrect`, `DecisionKeepsLife`.
`NothingStartsAfter` is in no run: `LivesAsPromised`, which the run
checks, says more.  `Inv` adds that what a request saw
at its look still holds when it stamps or queues (`LookHolds`), although the row was not
locked: approvals and stamps are never taken back.  `DecisionKeepsLife`, that the module
implements `JobLife`, uses `JobOK` (what was closed as stale is failed) and
`DoneLeavesNothing` (a person's stamp leaves no authorization that a claim would take).
Stating it showed two things an earlier form of `Decision` left out, a settle after a
stale close and a claim that ends the job without a run.

`ProdMigrateProofs`, from `ProdMigrateAssumption` (bundles and ledgers are
sequences of rows): `TypeCorrect`, `SchemaCorrect`, `WritesCorrect`,
`ReportsCorrect`.  `IInv` adds that the lock has one holder, that what a run has passed is
recorded and that, from the second reading on, its migration is the next one of a
ledger without drift (`Good`), and that no two runs claim one migration (`Apart`).
That the ledger does not move under the holder is what ties them together.

`EntitlementsProofs`, from `TenantAssumption`: `TypeCorrect`, `LimitsCorrect`,
`OneClientPerSiteCorrect`, `LinkedIsActiveCorrect`.  `IInv` adds: what was read under the
lock is still so (`LockOK`); a client that is not made has nothing (`UnmadeOK`);
what was written and not committed still fits (`FitsOK`), whatever syncs and disconnects
did meanwhile; a site that is being written is nobody else's (`SitesOK`).
`AtOnceCorrect` says that the requests implement `TenantRows`: although a request reads,
decides and writes in steps and a sync writes without the lock, each commit is one
change judged on the rows as they are.  `JudgedOK` carries what a request found up to
its commit: the site it replaces is the one linked, what it turns off is still on, no
other row has the id it connects.  Which row a connect writes is left open in
`TenantRows`, because a sync may have given that row another id since (section 6).

`UsageMeterProofs`, from `MeterAssumption`: `TypeCorrect`, `CountersCorrect`,
`RoomCorrect`, `CircleCorrect`.  `IInv` adds: the locks a transaction has
are those of the statements it has passed (`Fine`); locks of two transactions do not
clash; an event to be inserted is not there (`FreshOK`); events are finitely
many.  Circles are excluded by a rank: who is waited for is always further along
(`WaitsUp`).

`ReconnectAgrees`, `ExecutedMeansLanded`, `OneClientPerSite`, `NothingStartsAfter` and the type
invariants are proved and in no run.  Only model-checked: the two liveness properties,
`WatchedClaimEnds` and `RunEnds`.  Liveness under fairness and `ENABLED` are out of the prover's reach, as are induction over
data and RECURSIVE operators; the modules use no recursion.

## 6. Where code and text disagree, and behaviour to know

**Two owners** (`two_owners`).  The requeue's update at `apply.ts:614`
compares the status only; the row may have run and failed as unknown since
it was read.  The comment at `apply.ts:574` says such a row stays closed.

Found while modelling and without a run of its own:

*Apply.*  A late settle overwrites a stale close without comparing the token
(`apply.ts:1117`), so that with a pause or with two owners a later "unknown" becomes "no"
(the comment at `apply.ts:383` says otherwise).  Only Google writes read the switch
again (`mutate.ts:316`).  A Meta ad whose creative was made (`meta.ts:683`) and which is
then refused, or out of time (`meta.ts:695`), is recorded as no write
(`apply.ts:1063-1083`): the row may be requeued without a look at the platform, although
`apply.ts:574` keeps a confirmed write closed, and each such run leaves one more creative,
which row, evidence and audit all count as no write.  `NoRepeatedWrite`, `NoMeansNothingSent` and
`LandedIsKnown` except these creatives and are false without it.  An unknown row can not be reconciled: `settle` drops
`claimedAt` (`apply.ts:1262`), so `priorClaimQuiet` refuses, while the route asks
for a reconciled read (`audits.ts:819`).  A requeue's event repeats the id of the first one
(`inngest.ts:65`) and may be dropped, while the route answers that the worker
will run it (`audits.ts:863`).  A recheck step that draws a new claim and dies is
followed by a close with the older token (`handlers.ts:86`); `WatchedClaimEnds`
says which claims are covered.

*Accounts.*  A sync that finds `sync.live` off writes back the status it read
(`sync.ts:144`), and that may be the `syncing` of another sync, or of its own first try
that died.  Nobody then works on it until the next sync.  `meta-live-or-loud.test.ts:227`
expects of a sync that is alone that the account is not left at `syncing`.  Such a
`syncing` has an error beside it, by which `SyncingIsAttended` tells it from others.
A refresh (`meta-token.ts:122`) or
connect (`connect.ts:109`) under way stores tokens after the disconnect deleted
them.  A call that loaded its tokens before a new connect marks the new
connection as rejected (`meta-token.ts:103`).  Of two refreshes the older token
may be stored last (`credentials.ts:31`).

*Decisions.*  mark_done looks for an approval on an unlocked row, and a snooze
leaves the approval in place.  The worker's stamp overwrites a person's.  A crash
between a decision and its job leaves an approval without a job until someone posts apply.

*SEO.*  A run that is rejected or snoozed is published all the same if a replay after
the answer reads `requireApproval` as off, because it was turned off in between, or was
off before and could not be read when the wait began: `job.ts:444` puts "approved" in
place of what was heard.  The page says that nothing is published until it is approved
(`review/page.tsx:45`) and that dismissed and snoozed drafts never change the site
(`:52`).  A status the function does not know publishes too (`job.ts:492`).
`NothingBeforeApproval` says what is left of the promise.  A page without a handle is
made anew by each retry of its publication (`publisher.ts:140`), as collections and
articles are.  The gate is read before the step that writes, and not again in it.
A job that is sent again has lost its source and does not ask
the search gate (`gsc-copy.ts:35` says the gate covers every write).  A run may
end as failed although a collection was created, and the draft page may write
its status over a later one.

*MCP.*  An outage of the ads API is taken for a bad token and charged as one
(`app.ts:456`).  A clear answer of the switch is used for its five seconds after the switch was tripped.

*Migrations.*  Two overlapping runs take turns, migration by migration, where
`src/apps/ads/README.md:112` says that the second applies nothing or refuses.  A
lost answer to COMMIT is reported as "rolled back".  On a failure the
command prints that nothing was applied even if earlier migrations were.

*Plans.*  A client that is looked up without a site may be linked elsewhere
before it is adopted, and loses that link (`sites.ts:87-95`).  The look for another
client at `sites.ts:230` may be old; only the unique index refuses then, as a
server error.  A connect overwrites the id a sync has just stored, under the paid plan.  A batch that is
refused half way leaves the accounts before it connected.  The location of the
site a client was made for may stay off, or come on beside a later one (`LinkedIsActive` leaves that site out); a store may be
on for two clients.

*Usage.*  Events are unique for a client: a retry after the store moved counts
for both clients (`jobs.ts:11` says it cannot double).  A count that failed is
not tried again.  Nothing outside of the tests calls `assertWithinCap`.

*Audit runs.*  A failed attempt overwrites `summaryJson`, so that the retry
audits all accounts; the retry deletes recommendations, approved ones too;
overlapping attempts duplicate rows; and a run that completed is marked
failed if its audit log row cannot be inserted.

## 7. Not modelled

- Apply and accounts: the contents of mutations and outcomes, error texts and redaction;
  the mock tables; which of several tokens is stored and used; the OAuth exchange.
- `SeoJob`: the functions for WordPress jobs and for search syncs; the writing itself,
  and its revision loop; retries of steps that only write a status.
- `McpAdmission`: the environment's kill switch; eviction from the large maps (256
  and 4096 entries) and the limit on the map of failed lookups; windows
  age as a whole; the buffer of denied audits; the tools behind the door.
- `Decision`: recommendations that only record a decision, service principals, the
  allowlist.
- `ProdMigrate`: the checks of host names and of SQL text, the numbering of files, the
  local command, restoring a database.  Isolation is READ COMMITTED; a COMMIT
  that lands after its process gave up is ordered before the report.
- `Entitlements`: views, renaming, several platforms at a time, other reasons to freeze
  an account.  Two links that swap their sites wait for each other in the unique index;
  PostgreSQL ends one of them, which is `GiveUp` here.
- `UsageMeter`: the views; a limit that changes (a plan is read once, under the client's lock
  or in the same statement).
- Rules, reports, pages, contracts: pure functions and presentation without state
  that interleaves.  Skill ingest: single inserts after checks of their content.
- `AuditRun`, `McpSubmit`, `Revert`: planned (section 2).
