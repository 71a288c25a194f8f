---------------------------- MODULE ApplyProofs ----------------------------
(***************************************************************************)
(* Theorems of ApplyEngine for any number of runners, owners, requests     *)
(* and claims, and any lease and call budget the assumptions allow; at the *)
(* end, of ApplyDelivery for any number of requests, claims and retries.   *)
(*                                                                         *)
(* The argument is about time.  A claim's age and the call budget a runner *)
(* has left add up to at most Lease - Call (Budget), so a runner that may  *)
(* still send holds a claim whose lease has not run out; only an expired   *)
(* claim is taken from its row (Expired), so that runner's claim is still  *)
(* the applying row (Holder); and a request sent that early is resolved    *)
(* before the claim is quiet (Flight), which is what an owner's reconciled *)
(* requeue relies on (Reconciled).                                         *)
(***************************************************************************)
EXTENDS ApplyEngineImpl, ApplySwitch, ApplyDelivery, FiniteSetTheorems, TLAPS

Running == {"claimed", "loop", "check", "armed", "cleared", "sent", "settle"}

\* Runners, the row and the requests name claims that were drawn already, and
\* a mutation that is being sent exists.
Drawn ==
  /\ job.claim <= job.attempts
  /\ job.status = "applying" => job.claim \in Claims
  /\ \A r \in Runners :
       /\ runner[r].claim <= job.attempts
       /\ runner[r].pc # "idle" => runner[r].claim \in Claims
       /\ runner[r].pc = "loop" => runner[r].req >= 1
       /\ runner[r].pc \in {"check", "armed", "cleared", "sent"} => runner[r].req \in Requests

\* A runner's remaining budget ends one call budget before its lease does.
Budget ==
  \A r \in Runners : runner[r].left > 0 =>
    /\ runner[r].claim \in Claims
    /\ age[runner[r].claim] + runner[r].left <= Lease - Call

\* A request was sent within the budget and lives MaxInFlight from then.
Flight == \A w \in wire : age[w.claim] + w.life < Lease - Call + MaxInFlight

\* No two runs share a claim.
OwnClaims ==
  \A r, s \in Runners :
    r # s /\ runner[r].pc \in Running /\ runner[s].pc \in Running
      => runner[r].claim # runner[s].claim

\* Until its lease runs out, a run's claim is the applying row.
Holder ==
  \A r \in Runners :
    runner[r].pc \in Running /\ age[runner[r].claim] < Lease
      => job.status = "applying" /\ job.claim = runner[r].claim

\* A runner about to close a claim found its lease expired.
Expired == \A r \in Runners : runner[r].pc = "close" => age[runner[r].claim] >= Lease

\* A confirmed write has landed.
Confirmed == \A r \in Runners : runner[r].wrote = "yes" => landed # {}

\* A request let through after its platform read names a claim that was drawn,
\* is quiet, and wrote nothing.
Reconciled ==
  \A q \in Askers :
    /\ asker[q].claim <= job.attempts
    /\ asker[q].pc = "decided" /\ NeedsReconcile(asker[q].writes) =>
         /\ asker[q].claim \in Claims
         /\ age[asker[q].claim] >= Quiet
         /\ \A m \in Requests : <<asker[q].claim, m>> \notin landed

IInv ==
  /\ TypeOK
  /\ Drawn
  /\ Budget
  /\ Flight
  /\ OwnClaims
  /\ Holder
  /\ Expired
  /\ Confirmed
  /\ Reconciled
  /\ ExecutedMeansLanded

\* The part of the invariant that speaks of runners.
RunnersInv ==
  /\ RunnersOK
  /\ Drawn
  /\ Budget
  /\ OwnClaims
  /\ Holder
  /\ Expired
  /\ Confirmed

\* What a step of runner r alone must respect.
RunnerTurn(r) ==
  LET x == runner'[r] IN
  /\ RunnersOK'
  /\ \A s \in Runners : s # r => runner'[s] = runner[s]
  /\ x.claim <= job.attempts
  /\ x.pc # "idle" => x.claim \in Claims
  /\ x.pc = "loop" => x.req >= 1
  /\ x.pc \in {"check", "armed", "cleared", "sent"} => x.req \in Requests
  /\ x.left > 0 => x.claim \in Claims /\ age[x.claim] + x.left <= Lease - Call
  /\ x.pc \in Running => runner[r].pc \in Running /\ x.claim = runner[r].claim
  /\ x.pc = "close" => age[x.claim] >= Lease
  /\ x.wrote = "yes" => landed # {}

\* What the invariant says of runner r, the row and the clock.
Known(r) ==
  /\ runner[r] \in RunState
  /\ runner \in [Runners -> RunState]
  /\ age \in [Claims -> 0..Quiet]
  /\ job.attempts \in 0..MaxAttempts
  /\ job.claim \in 0..job.attempts
  /\ job.status = "applying" => job.claim \in Claims
  /\ runner[r].claim <= job.attempts
  /\ runner[r].pc # "idle" => runner[r].claim \in Claims
  /\ runner[r].pc = "loop" => runner[r].req >= 1
  /\ runner[r].pc \in {"check", "armed", "cleared", "sent"} => runner[r].req \in Requests
  /\ runner[r].left > 0 =>
       age[runner[r].claim] + runner[r].left <= Lease - Call
  /\ runner[r].wrote = "yes" => landed # {}

-----------------------------------------------------------------------------

\* A step of one runner that respects RunnerTurn keeps what is said of runners.
LEMMA TurnKeepsRunners ==
  ASSUME IInv, NEW r \in Runners, RunnerTurn(r),
         job' = job, age' = age, landed' = landed
  PROVE  RunnersInv'
<1>1. RunnersOK'
  BY DEF RunnerTurn
<1>2. Drawn'
  BY DEF IInv, Drawn, RunnerTurn
<1>3. Budget'
  BY DEF IInv, Budget, RunnerTurn
<1>4. OwnClaims'
  BY DEF IInv, OwnClaims, RunnerTurn
<1>5. Holder'
  BY DEF IInv, Holder, RunnerTurn
<1>6. Expired'
  BY DEF IInv, Expired, RunnerTurn
<1>7. Confirmed'
  BY DEF IInv, Confirmed, RunnerTurn
<1> QED
  BY <1>1, <1>2, <1>3, <1>4, <1>5, <1>6, <1>7 DEF RunnersInv

\* If the row, the requests and the clock stay, so does the whole invariant.
LEMMA RunnerStep ==
  ASSUME IInv, NEW r \in Runners, RunnerTurn(r),
         UNCHANGED <<job, ws, asker, wire, landed, age>>,
         auth' \in ApprovalState, ExecutedMeansLanded', audited' \subseteq Claims
  PROVE  IInv'
<1>1. RunnersInv'
  BY TurnKeepsRunners
<1>2. TypeOK'
  BY <1>1 DEF RunnersInv, IInv, TypeOK, RowOK
<1>3. Flight' /\ Reconciled'
  BY DEF IInv, Flight, Reconciled
<1> QED
  BY <1>1, <1>2, <1>3 DEF IInv, RunnersInv

\* The ad of a creative is a request too.
LEMMA CreativeFacts ==
  ASSUME IInv PROVE Creatives \subseteq Requests /\ \A m \in Creatives : m + 1 \in Requests
<1>1. auth.plan \in Plans
  BY DEF IInv, TypeOK, ApprovalState
<1> QED
  BY <1>1, PlansAssumption DEF Creatives

LEMMA RunnerFacts == ASSUME IInv, NEW r \in Runners PROVE Known(r)
  BY DEF Known, IInv, TypeOK, RowOK, RunnersOK, Drawn, Budget, Confirmed

\* Leaving the mutation loop with an outcome that is not invented.
LEMMA LeaveLoopTurn ==
  ASSUME NEW r \in Runners, Known(r), runner[r].pc \in Running,
         NEW wrote \in {"no", "yes", "unknown"},
         NEW failed \in {"none", "failed", "meta_token_expired"},
         wrote = "yes" => landed # {},
         LeaveLoop(r, wrote, failed)
  PROVE  RunnerTurn(r)
<1>1. RunnersOK'
  BY SizesAssumption, TimingAssumption DEF Known, RunState, RunnersOK, LeaveLoop
<1>2. /\ runner'[r].pc = "settle" /\ runner'[r].claim = runner[r].claim
      /\ runner'[r].left = 0 /\ runner'[r].wrote = wrote
      /\ \A s \in Runners : s # r => runner'[s] = runner[s]
  BY DEF Known, RunState, LeaveLoop
<1> QED
  BY <1>1, <1>2 DEF Known, RunnerTurn, Running

\* However a write is refused, the run leaves the loop with what it wrote before.
LEMMA RefusalLeaves ==
  ASSUME NEW r \in Runners, RefuseWrite(r) \/ Rejected(r)
  PROVE  \E f \in {"failed", "meta_token_expired"} : LeaveLoop(r, runner[r].wrote, f)
<1>1. PICK f \in Refusals : LeaveLoop(r, runner[r].wrote, f)
  BY DEF RefuseWrite, Rejected
<1>2. f \in {"failed", "meta_token_expired"}
  BY DEF Refusals
<1> QED
  BY <1>1, <1>2

LEMMA ExecuteTurn ==
  ASSUME IInv, NEW r \in Runners,
         \/ FinishLoop(r) \/ SkipDeadline(r) \/ LoseClaim(r)
         \/ RefuseWrite(r) \/ Rejected(r) \/ Unconfirmed(r)
  PROVE  RunnerTurn(r)
<1>1. Known(r)
  BY RunnerFacts
<1>2. runner[r].wrote \in {"no", "yes", "unknown"} /\ (runner[r].wrote = "yes" => landed # {})
  BY <1>1 DEF Known, RunState
<1>3. CASE FinishLoop(r)
  BY <1>1, <1>2, <1>3, LeaveLoopTurn DEF FinishLoop, Running
<1>4. CASE SkipDeadline(r)
  BY <1>1, <1>2, <1>4, LeaveLoopTurn DEF SkipDeadline, Running
<1>5. CASE LoseClaim(r)
  BY <1>1, <1>2, <1>5, LeaveLoopTurn DEF LoseClaim, Running
<1>6. CASE RefuseWrite(r)
  BY <1>1, <1>2, <1>6, RefusalLeaves, LeaveLoopTurn DEF RefuseWrite, Running
<1>7. CASE Rejected(r)
  BY <1>1, <1>2, <1>7, RefusalLeaves, LeaveLoopTurn DEF Rejected, Running
<1>8. CASE Unconfirmed(r)
  BY <1>1, <1>2, <1>8, LeaveLoopTurn DEF Unconfirmed, OutcomeWrites, Running
<1> QED
  BY <1>3, <1>4, <1>5, <1>6, <1>7, <1>8

LEMMA BeginExecuteTurn == ASSUME IInv, NEW r \in Runners, BeginExecute(r) PROVE RunnerTurn(r)
<1>1. Known(r)
  BY RunnerFacts
<1> DEFINE c == runner[r].claim
           left == ExecuteDeadline(LeaseRemaining(c))
<1>2. c \in Claims /\ age[c] \in 0..Quiet
  BY <1>1 DEF Known, BeginExecute
<1>3. left \in 0..Lease /\ (left > 0 => age[c] + left <= Lease - Call)
  BY <1>2, TimingAssumption DEF ExecuteDeadline, LeaseRemaining, Quiet
<1> HIDE DEF left
<1>4. /\ runner'[r].pc = "loop" /\ runner'[r].claim = c /\ runner'[r].left = left
      /\ runner'[r].req = 1
      /\ runner'[r].wrote = "no"
      /\ \A s \in Runners : s # r => runner'[s] = runner[s]
  BY <1>1 DEF Known, RunState, BeginExecute, left
<1>5. RunnersOK'
  BY <1>1, <1>3, SizesAssumption, TimingAssumption
  DEF Known, RunState, RunnersOK, BeginExecute, left
<1>6. runner[r].pc = "claimed"
  BY DEF BeginExecute
<1> QED
  BY <1>1, <1>2, <1>3, <1>4, <1>5, <1>6 DEF Known, RunnerTurn, Running

LEMMA StartMutationTurn == ASSUME IInv, NEW r \in Runners, StartMutation(r) PROVE RunnerTurn(r)
<1>1. Known(r)
  BY RunnerFacts
<1>2. RunnersOK'
  BY <1>1, SizesAssumption, TimingAssumption DEF Known, RunState, RunnersOK, StartMutation
<1>3. /\ runner'[r].pc = "check" /\ runner'[r].claim = runner[r].claim
      /\ runner'[r].left = runner[r].left /\ runner'[r].req = runner[r].req
      /\ runner'[r].wrote = runner[r].wrote
      /\ \A s \in Runners : s # r => runner'[s] = runner[s]
  BY <1>1 DEF Known, RunState, StartMutation
<1>4. runner[r].pc = "loop" /\ runner[r].req <= RequestCount /\ runner[r].req \in 0..RequestCount + 1
  BY <1>1 DEF Known, RunState, StartMutation
<1> QED
  BY <1>1, <1>2, <1>3, <1>4 DEF Known, RunnerTurn, Running, Requests

LEMMA HoldClaimTurn == ASSUME IInv, NEW r \in Runners, HoldClaim(r) PROVE RunnerTurn(r)
<1>1. Known(r)
  BY RunnerFacts
<1>2. RunnersOK'
  BY <1>1, SizesAssumption, TimingAssumption DEF Known, RunState, RunnersOK, HoldClaim
<1>3. /\ runner'[r].pc = "armed" /\ runner'[r].claim = runner[r].claim
      /\ runner'[r].left = runner[r].left /\ runner'[r].req = runner[r].req
      /\ runner'[r].wrote = runner[r].wrote
      /\ \A s \in Runners : s # r => runner'[s] = runner[s]
  BY <1>1 DEF Known, RunState, HoldClaim
<1>4. runner[r].pc = "check" /\ runner[r].req \in Requests
  BY <1>1 DEF Known, HoldClaim
<1> QED
  BY <1>1, <1>2, <1>3, <1>4 DEF Known, RunnerTurn, Running, Requests

LEMMA RereadSwitchTurn == ASSUME IInv, NEW r \in Runners, RereadSwitch(r) PROVE RunnerTurn(r)
<1>1. Known(r)
  BY RunnerFacts
<1>2. RunnersOK'
  BY <1>1, SizesAssumption, TimingAssumption DEF Known, RunState, RunnersOK, RereadSwitch
<1> QED
  BY <1>1, <1>2 DEF Known, RunnerTurn, RunState, Running, RereadSwitch

LEMMA SkipMutationTurn == ASSUME IInv, NEW r \in Runners, SkipMutation(r) PROVE RunnerTurn(r)
<1>1. Known(r) /\ \A m \in Creatives : m + 1 \in Requests
  BY RunnerFacts, CreativeFacts
<1>2. runner[r].pc \in {"check", "armed", "cleared"}
  BY DEF SkipMutation
<1>3. runner[r].req + SizeOf(runner[r].req) \in 1..(RequestCount + 1)
  BY <1>1, <1>2, SizesAssumption DEF Known, Requests, SizeOf
<1>4. RunnersOK'
  <2>1. PICK k \in {1, 2} : k = SizeOf(runner[r].req)
    BY DEF SizeOf
  <2>2. runner' = [runner EXCEPT ![r].pc = "loop", ![r].req = runner[r].req + k]
    BY <1>1, <2>1 DEF Known, RunState, SkipMutation
  <2>3. runner[r].req + k \in 0..(RequestCount + 1)
    BY <1>3, <2>1, SizesAssumption
  <2> QED
    BY <1>1, <2>2, <2>3 DEF Known, RunState, RunnersOK
<1>5. /\ runner'[r].pc = "loop" /\ runner'[r].claim = runner[r].claim
      /\ runner'[r].left = runner[r].left /\ runner'[r].wrote = runner[r].wrote
      /\ runner'[r].req = runner[r].req + SizeOf(runner[r].req)
      /\ \A s \in Runners : s # r => runner'[s] = runner[s]
  BY <1>1 DEF Known, RunState, SkipMutation
<1> QED
  BY <1>1, <1>2, <1>3, <1>4, <1>5 DEF Known, RunnerTurn, Running

LEMMA ConfirmTurn == ASSUME IInv, NEW r \in Runners, Confirm(r) PROVE RunnerTurn(r)
<1>1. Known(r)
  BY RunnerFacts
<1>2. CASE runner[r].req \in Creatives
  <2>1. runner[r].pc = "sent" /\ runner[r].req + 1 \in Requests
    BY <1>2, CreativeFacts DEF Confirm
  <2>2. runner' = [runner EXCEPT ![r].pc = "armed", ![r].req = runner[r].req + 1]
    BY <1>2 DEF Confirm
  <2>3. RunnersOK'
    BY <1>1, <2>1, <2>2, SizesAssumption, TimingAssumption
    DEF Known, RunState, RunnersOK, Requests
  <2> QED
    BY <1>1, <2>1, <2>2, <2>3 DEF Known, RunnerTurn, RunState, Running
<1>3. CASE runner[r].req \notin Creatives
  <2>1. /\ runner[r].pc = "sent" /\ HasLanded(r)
        /\ runner' = [runner EXCEPT ![r].pc = "loop", ![r].req = runner[r].req + 1,
                                    ![r].wrote = "yes"]
    BY <1>3 DEF Confirm
  <2>2. RunnersOK'
    BY <1>1, <2>1, SizesAssumption, TimingAssumption DEF Known, RunState, RunnersOK, Requests
  <2> QED
    BY <1>1, <2>1, <2>2, SizesAssumption, TimingAssumption
    DEF Known, RunnerTurn, RunState, Claims, Requests, Running, HasLanded
<1> QED
  BY <1>2, <1>3

\* A run that ends, or crashes, leaves an idle runner.
LEMMA IdleTurn ==
  ASSUME IInv, NEW r \in Runners, runner' = [runner EXCEPT ![r] = Idle]
  PROVE  RunnerTurn(r)
<1>1. Known(r)
  BY RunnerFacts
<1>2. RunnersOK'
  BY <1>1, SizesAssumption, TimingAssumption DEF Known, RunState, RunnersOK, Idle, RunAt
<1> QED
  BY <1>1, <1>2 DEF Known, RunnerTurn, Running, Idle, RunAt

LEMMA SeeExpiredTurn == ASSUME IInv, NEW r \in Runners, SeeExpired(r) PROVE RunnerTurn(r)
<1>1. Known(r)
  BY RunnerFacts
<1>2. /\ runner'[r] = RunAt("close", job.claim)
      /\ \A s \in Runners : s # r => runner'[s] = runner[s]
      /\ job.claim \in Claims /\ age[job.claim] >= Lease
  BY <1>1 DEF Known, SeeExpired, LeaseExpired
<1>3. RunnersOK'
  BY <1>1, SizesAssumption, TimingAssumption
  DEF Known, RunState, RunnersOK, SeeExpired, Idle, RunAt
<1> QED
  BY <1>1, <1>2, <1>3 DEF Known, RunnerTurn, Running, RunAt

LEMMA SendWriteTurn == ASSUME IInv, NEW r \in Runners, SendWrite(r) PROVE RunnerTurn(r)
<1>1. Known(r)
  BY RunnerFacts
<1>2. RunnersOK'
  BY <1>1, SizesAssumption, TimingAssumption DEF Known, RunState, RunnersOK, SendWrite
<1> QED
  BY <1>1, <1>2 DEF Known, RunnerTurn, RunState, Running, SendWrite, MayStillWrite

\* ClientAudit moves on and may stamp executed_at, if the write was confirmed.
LEMMA ClientAuditTurn == ASSUME IInv, NEW r \in Runners, ClientAudit(r) PROVE RunnerTurn(r)
<1>1. Known(r)
  BY RunnerFacts
<1>2. RunnersOK'
  BY <1>1, SizesAssumption, TimingAssumption DEF Known, RunState, RunnersOK, ClientAudit
<1> QED
  BY <1>1, <1>2 DEF Known, RunnerTurn, RunState, Running, ClientAudit

-----------------------------------------------------------------------------

\* While the row is not applying, every run's lease is over.
LEMMA NoHolder ==
  ASSUME IInv, NEW s \in Runners, job.status # "applying", runner[s].pc \in Running
  PROVE  age[runner[s].claim] >= Lease
<1>1. Known(s)
  BY RunnerFacts
<1>2. runner[s].claim \in Claims /\ age[runner[s].claim] \in 0..Quiet
  BY <1>1 DEF Known, Running
<1>3. ~(age[runner[s].claim] < Lease)
  BY DEF IInv, Holder
<1> QED
  BY <1>2, <1>3, TimingAssumption DEF Quiet

\* A row that is not applying may be closed or queued again: no run is hurt.
LEMMA RowStep ==
  ASSUME IInv, job.status # "applying", RowOK',
         job'.status # "applying", job'.attempts >= job.attempts, job'.claim <= job'.attempts,
         asker' \in [Askers -> [pc : {"idle", "reconcile", "decided"},
                                claim : 0..MaxAttempts, writes : Writes]],
         \A q \in Askers : asker'[q] = asker[q] \/ asker'[q] = NoRequest,
         UNCHANGED <<auth, ws, runner, wire, landed, audited, age>>
  PROVE  IInv'
<1>1. TypeOK'
  BY DEF IInv, TypeOK, RunnersOK
<1>2. \A r \in Runners : Known(r)
  BY RunnerFacts
<1>3. Drawn'
  BY <1>2 DEF IInv, TypeOK, RowOK, Drawn, Known, RunState
<1>4. Holder'
  BY NoHolder, TimingAssumption, <1>2 DEF IInv, Holder, Known, Claims, Quiet, Running
<1>5. Budget' /\ Flight' /\ OwnClaims' /\ Expired' /\ Confirmed' /\ ExecutedMeansLanded'
  BY DEF IInv, Budget, Flight, OwnClaims, Expired, Confirmed, ExecutedMeansLanded
<1>6. Reconciled'
  <2>1. \A q \in Askers : asker'[q].claim <= job'.attempts
    BY DEF IInv, TypeOK, RowOK, Reconciled, NoRequest
  <2> QED
    BY <2>1 DEF IInv, Reconciled, NoRequest
<1> QED
  BY <1>1, <1>3, <1>4, <1>5, <1>6 DEF IInv

\* A claim the transaction itself closes leaves the runner idle.
LEMMA ClaimClosedKeeps ==
  ASSUME IInv, NEW r \in Runners, ClaimRefused(r) \/ ClaimStoppedBeforePlatform(r)
  PROVE  IInv'
<1>1. /\ job.status = "queued" /\ job.attempts < MaxAttempts
      /\ \E st \in {"failed", "succeeded"}, e \in Errors : job' = ClosedByClaim(st, e)
      /\ UNCHANGED <<auth, ws, runner, asker, wire, landed, audited, age>>
  BY DEF ClaimRefused, ClaimStoppedBeforePlatform, Claimable, Errors
<1>2. /\ job'.status # "applying" /\ job'.attempts = job.attempts + 1 /\ job'.claim = 0
      /\ RowOK'
  BY <1>1, SizesAssumption DEF IInv, TypeOK, RowOK, ClosedByClaim, Writes
<1>3. job'.attempts >= job.attempts /\ job'.claim <= job'.attempts
  BY <1>2 DEF IInv, TypeOK, RowOK
<1> QED
  BY <1>1, <1>2, <1>3, RowStep DEF IInv, TypeOK

\* A new claim draws a name no runner or request bears yet.
LEMMA ClaimRunKeeps ==
  ASSUME IInv, NEW r \in Runners, ClaimRun(r)
  PROVE  IInv'
<1> DEFINE c == job.attempts + 1
<1>1. \A s \in Runners : Known(s)
  BY RunnerFacts
<1>2. c \in Claims /\ job.claim < c /\ \A s \in Runners : runner[s].claim < c
  BY <1>1, SizesAssumption DEF ClaimRun, Claimable, Known, RunState, Claims
<1>3. /\ job.status = "queued"
      /\ runner'[r] = RunAt("claimed", c)
      /\ \A s \in Runners : s # r => runner'[s] = runner[s]
      /\ age' = [age EXCEPT ![c] = 0]
      /\ UNCHANGED <<auth, ws, asker, wire, landed, audited>>
  BY <1>1 DEF ClaimRun, Claimable, Known
<1>4. /\ job'.status = "applying" /\ job'.claim = c /\ job'.attempts = c /\ RowOK'
  BY <1>2 DEF IInv, TypeOK, RowOK, ClaimRun, Claims, Errors, Writes
<1>5. RunnersOK' /\ age' \in [Claims -> 0..Quiet]
  BY <1>1, <1>2, SizesAssumption, TimingAssumption
  DEF Known, RunState, RunnersOK, ClaimRun, RunAt, Claims, Quiet
<1>6. \A s \in Runners : s # r => age'[runner[s].claim] = age[runner[s].claim]
  BY <1>1, <1>2, <1>3 DEF Known, RunState
<1>7. \A d \in Claims : age'[d] <= age[d]
  BY <1>1, <1>3, TimingAssumption DEF Known, Quiet
<1> HIDE DEF c
<1>8. TypeOK'
  BY <1>3, <1>4, <1>5 DEF IInv, TypeOK
<1>9. Drawn'
  BY <1>1, <1>2, <1>3, <1>4 DEF Drawn, Known, RunState, RunAt, c
<1>10. Budget' /\ Flight'
  <2>1. Budget'
    BY <1>2, <1>3, <1>6 DEF IInv, Budget, RunAt
  <2>2. \A w \in wire : w.claim \in Claims /\ w.life \in 0..MaxInFlight
    BY DEF IInv, TypeOK
  <2>3. \A w \in wire : age[w.claim] \in 0..Quiet /\ age'[w.claim] \in 0..Quiet
    BY <2>2, <1>1, <1>5 DEF IInv, TypeOK
  <2>4. Flight'
    BY <1>3, <1>7, <2>2, <2>3, TimingAssumption DEF IInv, Flight, Quiet
  <2> QED
    BY <2>1, <2>4
<1>11. OwnClaims'
  BY <1>1, <1>2, <1>3 DEF IInv, OwnClaims, RunAt, Known, RunState
<1>12. Holder'
  <2>1. \A s \in Runners : s # r /\ runner'[s].pc \in Running => ~(age'[runner'[s].claim] < Lease)
    BY NoHolder, <1>1, <1>3, <1>6, TimingAssumption DEF Known, Running, Quiet
  <2> QED
    BY <2>1, <1>3, <1>4 DEF Holder, RunAt
<1>13. Reconciled'
  <2>1. \A q \in Askers : asker[q].claim < c
    BY <1>2 DEF IInv, TypeOK, RowOK, Reconciled, c
  <2>2. \A q \in Askers : asker[q].claim \in Claims => age'[asker[q].claim] = age[asker[q].claim]
    BY <2>1, <1>1, <1>2, <1>3 DEF IInv, TypeOK
  <2> QED
    BY <1>2, <1>3, <1>4, <2>1, <2>2 DEF IInv, TypeOK, RowOK, Reconciled
<1>14. Expired' /\ Confirmed' /\ ExecutedMeansLanded'
  BY <1>3, <1>6 DEF IInv, Expired, Confirmed, ExecutedMeansLanded, RunAt
<1> QED
  BY <1>8, <1>9, <1>10, <1>11, <1>12, <1>13, <1>14 DEF IInv

\* Closing a stale claim: its lease is over, so no other run's claim is closed.
LEMMA CloseStaleKeeps ==
  ASSUME IInv, NEW r \in Runners, CloseStale(r)
  PROVE  IInv'
<1>1. \A s \in Runners : Known(s)
  BY RunnerFacts
<1>2. /\ runner[r].pc = "close" /\ job.status = "applying" /\ job.claim = runner[r].claim
      /\ job'.status = "failed" /\ job'.claim = job.claim /\ job'.attempts = job.attempts
      /\ RowOK'
      /\ UNCHANGED <<auth, ws, asker, wire, landed, audited, age>>
  BY DEF IInv, TypeOK, RowOK, CloseStale, StillTheClaimRead, Errors, Writes
<1>3. /\ runner'[r].pc = "close_audit" /\ runner'[r].claim = runner[r].claim
      /\ runner'[r].left = runner[r].left /\ runner'[r].wrote = runner[r].wrote
      /\ \A s \in Runners : s # r => runner'[s] = runner[s]
      /\ RunnersOK'
  BY <1>1 DEF Known, RunState, RunnersOK, CloseStale
<1>4. TypeOK'
  BY <1>2, <1>3 DEF IInv, TypeOK
<1>5. Drawn'
  BY <1>1, <1>2, <1>3 DEF IInv, Drawn, Known
<1>6. /\ Budget' /\ Flight' /\ OwnClaims' /\ Expired' /\ Confirmed' /\ ExecutedMeansLanded'
      /\ Reconciled'
  BY <1>2, <1>3 DEF IInv, Budget, Flight, OwnClaims, Expired, Confirmed,
                    ExecutedMeansLanded, Reconciled, Running
<1>7. Holder'
  <2>1. ASSUME NEW s \in Runners, runner'[s].pc \in Running,
               age'[runner'[s].claim] < Lease
        PROVE  FALSE
    <3>1. s # r /\ runner'[s] = runner[s]
      BY <1>3, <2>1 DEF Running
    <3>2. runner[s].claim = runner[r].claim
      BY <1>2, <2>1, <3>1 DEF IInv, Holder
    <3>3. age[runner[r].claim] >= Lease /\ age[runner[r].claim] \in 0..Quiet
      BY <1>1, <1>2 DEF IInv, Expired, Known
    <3> QED
      BY <1>2, <2>1, <3>1, <3>2, <3>3, TimingAssumption DEF Quiet
  <2> QED
    BY <2>1 DEF Holder
<1> QED
  BY <1>4, <1>5, <1>6, <1>7 DEF IInv

\* Settling: the row was this run's own claim, or no run's at all.
LEMMA SettleKeeps ==
  ASSUME IInv, NEW r \in Runners, Settle(r)
  PROVE  IInv'
<1>1. \A s \in Runners : Known(s)
  BY RunnerFacts
<1>2. /\ runner[r].pc = "settle"
      /\ SameClaim(runner[r].claim) \/ job.status = "failed"
      /\ UNCHANGED <<auth, ws, asker, wire, landed, age>>
  BY DEF Settle, SupersededClose
<1>3. /\ job' = SettledRow(runner[r])
      /\ runner[r].failed \in Errors /\ runner[r].wrote \in Writes
  BY <1>1 DEF Settle, Known, RunState, Errors, Writes
<1>4. RowOK' /\ job'.status # "applying" /\ job'.attempts = job.attempts /\ job'.claim = 0
  <2>1. /\ job'.status \in {"failed", "succeeded"} /\ job'.claim = 0
        /\ job'.error \in Errors /\ job'.writes \in Writes
        /\ job'.attempts = job.attempts /\ job'.evidence = job.evidence
    BY <1>3 DEF SettledRow, Errors
  <2>2. job' = [status |-> job'.status, error |-> job'.error, writes |-> job'.writes,
                claim |-> job'.claim, attempts |-> job'.attempts, evidence |-> job'.evidence]
    BY <1>3 DEF SettledRow
  <2>3. job.attempts \in 0..MaxAttempts /\ job.evidence \in Writes /\ 0 \in 0..MaxAttempts
    BY SizesAssumption DEF IInv, TypeOK, RowOK
  <2> QED
    BY <2>1, <2>2, <2>3 DEF RowOK
<1>5. /\ runner'[r].pc = "client_audit" /\ runner'[r].claim = runner[r].claim
      /\ runner'[r].left = runner[r].left /\ runner'[r].wrote = runner[r].wrote
      /\ \A s \in Runners : s # r => runner'[s] = runner[s]
      /\ RunnersOK'
  BY <1>1 DEF Known, RunState, RunnersOK, Settle
<1>6. audited' \subseteq Claims
  BY <1>1, <1>2 DEF IInv, TypeOK, Settle, Known
<1>7. TypeOK'
  BY <1>2, <1>4, <1>5, <1>6 DEF IInv, TypeOK
<1>8. Drawn'
  BY <1>1, <1>4, <1>5, <1>2 DEF IInv, TypeOK, RowOK, Drawn, Known
<1>9. /\ Budget' /\ Flight' /\ OwnClaims' /\ Expired' /\ Confirmed' /\ ExecutedMeansLanded'
      /\ Reconciled'
  BY <1>2, <1>4, <1>5 DEF IInv, Budget, Flight, OwnClaims, Expired, Confirmed,
                    ExecutedMeansLanded, Reconciled, Running
<1>10. Holder'
  <2>1. ASSUME NEW s \in Runners, runner'[s].pc \in Running,
               age'[runner'[s].claim] < Lease
        PROVE  FALSE
    <3>1. s # r /\ runner'[s] = runner[s]
      BY <1>5, <2>1 DEF Running
    <3>2. job.status = "applying" /\ job.claim = runner[s].claim
      BY <1>2, <2>1, <3>1 DEF IInv, Holder
    <3>3. runner[s].claim # runner[r].claim
      BY <1>2, <2>1, <3>1 DEF IInv, OwnClaims, Running
    <3> QED
      BY <1>2, <3>2, <3>3 DEF SameClaim
  <2> QED
    BY <2>1 DEF Holder
<1> QED
  BY <1>7, <1>8, <1>9, <1>10 DEF IInv

\* A request leaves with a full life and before the held-back call budget.
LEMMA SendWriteKeeps ==
  ASSUME IInv, NEW r \in Runners, SendWrite(r)
  PROVE  IInv'
<1> DEFINE w == [claim |-> runner[r].claim, req |-> runner[r].req, life |-> MaxInFlight]
<1>1. Known(r)
  BY RunnerFacts
<1>2. /\ wire' = wire \cup {w}
      /\ runner[r].pc \in {"armed", "cleared"} /\ runner[r].left > 0
      /\ UNCHANGED <<job, auth, ws, asker, landed, audited, age>>
  BY DEF SendWrite, MayStillWrite
<1>3. RunnersInv'
  BY <1>2, SendWriteTurn, TurnKeepsRunners
<1>4. /\ w.claim = runner[r].claim /\ w.life = MaxInFlight
      /\ w \in [claim : Claims, req : Requests, life : 0..MaxInFlight]
  BY <1>1, <1>2, TimingAssumption DEF Known
<1>5. TypeOK'
  BY <1>2, <1>3, <1>4 DEF IInv, TypeOK, RowOK, RunnersInv
<1>6. age[w.claim] + w.life < Lease - Call + MaxInFlight
  <2>1. /\ age[w.claim] \in 0..Quiet /\ runner[r].left \in 0..Lease
        /\ age[w.claim] + runner[r].left <= Lease - Call
    BY <1>1, <1>2, <1>4 DEF Known, RunState
  <2> QED
    BY <1>2, <1>4, <2>1, TimingAssumption DEF Quiet
<1> HIDE DEF w
<1>7. Flight'
  BY <1>2, <1>6 DEF IInv, Flight
<1>8. ExecutedMeansLanded' /\ Reconciled'
  BY <1>2 DEF IInv, ExecutedMeansLanded, Reconciled
<1> QED
  BY <1>3, <1>5, <1>7, <1>8 DEF IInv, RunnersInv

\* A request under way is of a claim that is not quiet yet.
LEMMA InFlightIsYoung == ASSUME IInv, NEW w \in wire PROVE age[w.claim] < Quiet
<1>1. age[w.claim] \in 0..Quiet /\ w.life \in 0..MaxInFlight
  BY DEF IInv, TypeOK
<1>2. age[w.claim] + w.life < Lease - Call + MaxInFlight
  BY DEF IInv, Flight
<1> QED
  BY <1>1, <1>2, TimingAssumption DEF Quiet

\* A request lands or is dropped.
LEMMA PlatformKeeps ==
  ASSUME IInv, NEW w \in wire, Land(w) \/ Drop(w)
  PROVE  IInv'
<1>1. /\ wire' \subseteq wire /\ landed \subseteq landed'
      /\ UNCHANGED <<job, auth, ws, runner, asker, audited, age>>
  BY DEF Land, Drop
<1>2. w.claim \in Claims /\ w.req \in Requests
  BY DEF IInv, TypeOK
<1>3. landed' \subseteq Claims \X Requests
  BY <1>2 DEF IInv, TypeOK, Land, Drop
<1>4. TypeOK'
  BY <1>1, <1>3 DEF IInv, TypeOK, RowOK, RunnersOK
<1>5. Flight'
  BY <1>1 DEF IInv, Flight
<1>6. Confirmed' /\ ExecutedMeansLanded'
  BY <1>1 DEF IInv, Confirmed, ExecutedMeansLanded
<1>7. Drawn' /\ Budget' /\ OwnClaims' /\ Holder' /\ Expired'
  BY <1>1 DEF IInv, Drawn, Budget, OwnClaims, Holder, Expired
<1>8. Reconciled'
  <2>1. age[w.claim] < Quiet
    BY <1>2, InFlightIsYoung
  <2>2. \A c \in Claims, m \in Requests : <<c, m>> \in landed' => <<c, m>> \in landed \/ c = w.claim
    BY DEF Land, Drop
  <2>3. ASSUME NEW q \in Askers, asker[q].claim \in Claims, age[asker[q].claim] >= Quiet
        PROVE  asker[q].claim # w.claim
    <3>1. age[w.claim] \in 0..Quiet
      BY <1>2 DEF IInv, TypeOK
    <3> QED
      BY <2>1, <2>3, <3>1, TimingAssumption DEF Quiet
  <2> QED
    BY <1>1, <2>2, <2>3 DEF IInv, Reconciled
<1> QED
  BY <1>4, <1>5, <1>6, <1>7, <1>8 DEF IInv

\* Time passes: ages grow as fast as budgets and lives shrink.
LEMMA TickKeeps ==
  ASSUME IInv, Tick
  PROVE  IInv'
<1>1. \A s \in Runners : Known(s)
  BY RunnerFacts
<1>2. UNCHANGED <<job, auth, ws, asker, landed, audited>>
  BY DEF Tick
<1>3. /\ age' \in [Claims -> 0..Quiet]
      /\ \A c \in Claims : age[c] <= age'[c] /\ age'[c] <= age[c] + 1
  BY TimingAssumption DEF IInv, TypeOK, Tick, Quiet
<1>4. \A s \in Runners :
        /\ runner'[s].pc = runner[s].pc /\ runner'[s].claim = runner[s].claim
        /\ runner'[s].req = runner[s].req /\ runner'[s].wrote = runner[s].wrote
        /\ runner'[s].left = (IF runner[s].left > 0 THEN runner[s].left - 1 ELSE 0)
        /\ runner'[s] \in RunState
  BY <1>1, TimingAssumption DEF Known, RunState, Tick
<1>5. RunnersOK'
  BY <1>4 DEF RunnersOK, Tick
<1>6. wire' \subseteq [claim : Claims, req : Requests, life : 0..MaxInFlight]
  BY TimingAssumption DEF IInv, TypeOK, Tick
<1>7. TypeOK'
  BY <1>2, <1>3, <1>5, <1>6 DEF IInv, TypeOK, RowOK
<1>8. Drawn' /\ OwnClaims' /\ Confirmed' /\ ExecutedMeansLanded'
  BY <1>2, <1>4 DEF IInv, Drawn, OwnClaims, Confirmed, ExecutedMeansLanded
<1>9. Budget'
  <2>1. ASSUME NEW s \in Runners, runner'[s].left > 0
        PROVE  /\ runner'[s].claim \in Claims
               /\ age'[runner'[s].claim] + runner'[s].left <= Lease - Call
    <3>1. runner[s].left \in 0..Lease /\ runner[s].left > 0
          /\ runner'[s].left = runner[s].left - 1 /\ runner'[s].claim = runner[s].claim
      BY <1>1, <1>4, <2>1, TimingAssumption DEF Known, RunState
    <3>2. /\ runner[s].claim \in Claims
          /\ age[runner[s].claim] + runner[s].left <= Lease - Call
      BY <3>1 DEF IInv, Budget
    <3>3. age[runner[s].claim] \in 0..Quiet /\ age'[runner[s].claim] \in 0..Quiet
      BY <1>3, <3>2 DEF IInv, TypeOK
    <3> QED
      BY <1>3, <3>1, <3>2, <3>3, TimingAssumption DEF Quiet
  <2> QED
    BY <2>1 DEF Budget
<1>10. Flight'
  <2>1. ASSUME NEW w \in wire'
        PROVE  age'[w.claim] + w.life < Lease - Call + MaxInFlight
    <3>1. PICK v \in wire : w = [v EXCEPT !.life = @ - 1]
      BY DEF Tick
    <3>2. v \in [claim : Claims, req : Requests, life : 0..MaxInFlight] /\ v.life > 0
      BY DEF IInv, TypeOK, Tick
    <3>3. w.claim = v.claim /\ w.life = v.life - 1
      BY <3>1, <3>2
    <3>4. age[v.claim] + v.life < Lease - Call + MaxInFlight
      BY DEF IInv, Flight
    <3>5. age[v.claim] \in 0..Quiet /\ age'[v.claim] \in 0..Quiet /\ age'[v.claim] <= age[v.claim] + 1
      BY <1>3, <3>2 DEF IInv, TypeOK
    <3> QED
      BY <3>2, <3>3, <3>4, <3>5, TimingAssumption DEF Quiet
  <2> QED
    BY <2>1 DEF Flight
<1>11. \A s \in Runners : runner[s].pc # "idle" =>
          /\ age[runner[s].claim] \in 0..Quiet /\ age'[runner[s].claim] \in 0..Quiet
          /\ age[runner[s].claim] <= age'[runner[s].claim]
  BY <1>1, <1>3 DEF Known
<1>12. Holder' /\ Expired'
  BY <1>2, <1>4, <1>11, TimingAssumption DEF IInv, Holder, Expired, Running, Quiet
<1>13. Reconciled'
  <2>1. \A c \in Claims : age[c] \in 0..Quiet /\ age'[c] \in 0..Quiet /\ age[c] <= age'[c]
    BY <1>3 DEF IInv, TypeOK
  <2> QED
    BY <1>2, <2>1, TimingAssumption DEF IInv, Reconciled, Quiet
<1> QED
  BY <1>7, <1>8, <1>9, <1>10, <1>12, <1>13 DEF IInv

-----------------------------------------------------------------------------

\* The invariant holds at first.
LEMMA InitIInv == Init => IInv
<1> SUFFICES ASSUME Init PROVE IInv
  OBVIOUS
<1>0. auth \in ApprovalState
  BY DEF Init, ApprovalState
<1>1. /\ RowOK /\ ws \in Settings /\ RunnersOK
      /\ asker \in [Askers -> [pc : {"idle", "reconcile", "decided"},
                               claim : 0..MaxAttempts, writes : Writes]]
  BY SizesAssumption, TimingAssumption
  DEF Init, RowOK, RunnersOK, RunState, Idle, RunAt, NoRequest, Writes, Errors, Settings
<1>2. wire = {} /\ landed = {} /\ audited = {} /\ age \in [Claims -> 0..Quiet]
  BY TimingAssumption DEF Init, Quiet
<1>3. TypeOK
  BY <1>0, <1>1, <1>2 DEF TypeOK
<1>4. \A r \in Runners : runner[r] = Idle
  BY DEF Init
<1>5. Drawn /\ Budget /\ Flight /\ OwnClaims /\ Holder /\ Expired /\ Confirmed
      /\ ExecutedMeansLanded /\ Reconciled
  BY <1>2, <1>4 DEF Init, Reconciled, NoRequest, Drawn, Budget, Flight, OwnClaims,
    Holder, Expired, Confirmed,
                    ExecutedMeansLanded, Idle, RunAt, Running
<1> QED
  BY <1>3, <1>5 DEF IInv

\* Steps that change neither the row, the runners, the requests nor the clock.
LEMMA AsideStep ==
  ASSUME IInv, UNCHANGED <<job, runner, wire, landed, audited, age>>,
         auth' \in ApprovalState, auth'.executedBy = "cerevex_apply" => landed # {},
         ws' \in Settings,
         asker' \in [Askers -> [pc : {"idle", "reconcile", "decided"},
                                claim : 0..MaxAttempts, writes : Writes]],
         Reconciled'
  PROVE  IInv'
<1>1. TypeOK'
  BY DEF IInv, TypeOK, RowOK, RunnersOK
<1>2. Drawn' /\ Budget' /\ Flight' /\ OwnClaims' /\ Holder' /\ Expired' /\ Confirmed'
  BY DEF IInv, Drawn, Budget, Flight, OwnClaims, Holder, Expired, Confirmed
<1>3. ExecutedMeansLanded'
  BY DEF ExecutedMeansLanded
<1> QED
  BY <1>1, <1>2, <1>3 DEF IInv

\* Owners, deciders and settings never disturb a run.
LEMMA PeopleKeep ==
  ASSUME IInv, People
  PROVE  IInv'
<1>1. UNCHANGED <<job, runner, wire, landed, audited, age, asker>>
  BY DEF People, Deny, MarkDone, Expire, SetWorkspace
<1>2. ws' \in Settings
  BY DEF IInv, TypeOK, People, Deny, MarkDone, Expire, SetWorkspace
<1>3. auth' \in ApprovalState
  BY DEF IInv, TypeOK, ApprovalState, People, Deny, MarkDone, Expire, SetWorkspace
<1>4. Reconciled'
  BY <1>1 DEF IInv, Reconciled
<1>5. auth'.executedBy = "cerevex_apply" => landed # {}
  BY DEF IInv, TypeOK, ApprovalState, ExecutedMeansLanded, People, Deny, MarkDone, Expire,
         SetWorkspace
<1> QED
  BY <1>1, <1>2, <1>3, <1>4, <1>5, AsideStep DEF IInv, TypeOK

\* A requeue request that only reads, reconciles or is refused.
LEMMA AskerKeeps ==
  ASSUME IInv, NEW q \in Askers,
         RequeueRead(q) \/ RequeueReconcile(q) \/ RequeueRefused(q) \/ RequeueMissed(q)
  PROVE  IInv'
<1>1. UNCHANGED <<job, auth, ws, runner, wire, landed, audited, age>>
  BY DEF RequeueRead, RequeueReconcile, RequeueRefused, RequeueMissed
<1>2. asker' \in [Askers -> [pc : {"idle", "reconcile", "decided"},
                            claim : 0..MaxAttempts, writes : Writes]]
  BY SizesAssumption DEF IInv, TypeOK, RowOK, RequeueRead, RequeueReconcile, RequeueRefused,
                         RequeueMissed, NoRequest, Writes
<1>3. auth'.executedBy = "cerevex_apply" => landed # {}
  BY <1>1 DEF IInv, ExecutedMeansLanded
<1>4. ASSUME RequeueRead(q) PROVE Reconciled'
  <2>1. /\ asker'[q].claim = job.claim /\ asker'[q].writes = job.writes
        /\ asker'[q].pc = IF NeedsReconcile(job.writes) THEN "reconcile" ELSE "decided"
        /\ \A p \in Askers : p # q => asker'[p] = asker[p]
    BY <1>4 DEF IInv, TypeOK, RequeueRead
  <2> QED
    BY <1>1, <2>1 DEF IInv, Drawn, Reconciled
<1>5. ASSUME RequeueReconcile(q) PROVE Reconciled'
  <2>1. /\ asker'[q].claim = asker[q].claim /\ asker'[q].writes = asker[q].writes
        /\ \A p \in Askers : p # q => asker'[p] = asker[p]
        /\ asker[q].claim # 0 /\ age[asker[q].claim] >= Quiet /\ Repeatable
        /\ \A m \in Requests : ~AlreadyApplied(m)
    BY <1>5 DEF IInv, TypeOK, RequeueReconcile, PriorClaimQuiet
  <2>2. asker[q].claim \in Claims
    BY <2>1, SizesAssumption DEF IInv, TypeOK, Claims
  <2>3. \A m \in Requests : <<asker[q].claim, m>> \notin landed
    BY <2>1, <2>2 DEF AlreadyApplied
  <2> QED
    BY <1>1, <2>1, <2>2, <2>3 DEF IInv, Reconciled
<1>6. ASSUME RequeueRefused(q) \/ RequeueMissed(q) PROVE Reconciled'
  <2>1. asker'[q] = NoRequest /\ \A p \in Askers : p # q => asker'[p] = asker[p]
    BY <1>6 DEF IInv, TypeOK, RequeueRefused, RequeueMissed
  <2>2. 0 <= job.attempts
    BY DEF IInv, TypeOK, RowOK
  <2> QED
    BY <1>1, <2>1, <2>2 DEF IInv, Reconciled, NoRequest
<1>7. Reconciled'
  BY <1>4, <1>5, <1>6
<1> QED
  BY <1>1, <1>2, <1>3, <1>7, AsideStep DEF IInv, TypeOK

\* The conditional update of a requeue finds a row that is no run's.
LEMMA RequeueUpdateKeeps ==
  ASSUME IInv, NEW q \in Askers, RequeueUpdate(q)
  PROVE  IInv'
<1>1. /\ job.status = "failed"
      /\ job' = [job EXCEPT !.status = "queued", !.error = "none",
                            !.evidence = asker[q].writes]
      /\ asker' = [asker EXCEPT ![q] = NoRequest]
      /\ UNCHANGED <<auth, ws, runner, wire, landed, audited, age>>
  BY DEF RequeueUpdate, OpenToRequeue
<1>2. asker[q].writes \in Writes
  BY DEF IInv, TypeOK
<1>3. RowOK'
  BY <1>1, <1>2 DEF IInv, TypeOK, RowOK, Errors
<1>4. job'.status = "queued" /\ job'.attempts = job.attempts /\ job'.claim = job.claim
  BY <1>1 DEF IInv, TypeOK, RowOK
<1>5. job'.attempts >= job.attempts /\ job'.claim <= job'.attempts
  BY <1>4 DEF IInv, TypeOK, RowOK, Drawn
<1>6. asker' \in [Askers -> [pc : {"idle", "reconcile", "decided"},
                            claim : 0..MaxAttempts, writes : Writes]]
  BY <1>1, SizesAssumption DEF IInv, TypeOK, NoRequest, Writes
<1>7. \A p \in Askers : asker'[p] = asker[p] \/ asker'[p] = NoRequest
  BY <1>1 DEF IInv, TypeOK
<1> QED
  BY <1>1, <1>3, <1>4, <1>5, <1>6, <1>7, RowStep

\* Steps inside the mutation loop, and the first look at an expired claim.
LEMMA LoopKeeps ==
  ASSUME IInv, NEW r \in Runners,
         \/ BeginExecute(r) \/ FinishLoop(r) \/ SkipDeadline(r) \/ StartMutation(r) \/ HoldClaim(r)
         \/ LoseClaim(r) \/ SkipMutation(r) \/ RefuseWrite(r) \/ RereadSwitch(r)
         \/ Confirm(r) \/ Rejected(r) \/ Unconfirmed(r) \/ SeeExpired(r)
  PROVE  IInv'
<1>1. UNCHANGED <<job, auth, ws, asker, wire, landed, audited, age>>
  BY DEF BeginExecute, FinishLoop, SkipDeadline, StartMutation, HoldClaim, LoseClaim, SkipMutation,
         RefuseWrite, RereadSwitch, Confirm, Rejected, Unconfirmed, SeeExpired
<1>2. RunnerTurn(r)
  BY BeginExecuteTurn, ExecuteTurn, StartMutationTurn, HoldClaimTurn, RereadSwitchTurn,
    SkipMutationTurn,
     ConfirmTurn, SeeExpiredTurn
<1>3. auth' \in ApprovalState /\ audited' \subseteq Claims /\ ExecutedMeansLanded'
  BY <1>1 DEF IInv, TypeOK, ExecutedMeansLanded
<1> QED
  BY <1>1, <1>2, <1>3, RunnerStep

\* Steps that end a run: it writes at most an audit row of its own claim.
LEMMA EndKeeps ==
  ASSUME IInv, NEW r \in Runners,
         CloseMissed(r) \/ CloseAudit(r) \/ SettleLost(r) \/ CallerAudit(r) \/ Crash(r)
  PROVE  IInv'
<1>1. /\ UNCHANGED <<job, auth, ws, asker, wire, landed, age>>
      /\ runner' = [runner EXCEPT ![r] = Idle]
      /\ runner[r].pc # "idle"
  BY DEF CloseMissed, CloseAudit, SettleLost, CallerAudit, Crash
<1>2. RunnerTurn(r)
  BY <1>1, IdleTurn
<1>3. Known(r)
  BY RunnerFacts
<1>4. runner[r].claim \in Claims /\ audited \subseteq Claims
  BY <1>1, <1>3 DEF Known, IInv, TypeOK
<1>5. audited' \subseteq Claims
  BY <1>4 DEF CloseMissed, CloseAudit, SettleLost, CallerAudit, Crash
<1>6. auth' \in ApprovalState /\ ExecutedMeansLanded'
  BY <1>1 DEF IInv, TypeOK, ExecutedMeansLanded
<1> QED
  BY <1>1, <1>2, <1>5, <1>6, RunnerStep

\* Stamping executed_at: the run confirmed a write, so one has landed.
LEMMA ClientAuditKeeps ==
  ASSUME IInv, NEW r \in Runners, ClientAudit(r)
  PROVE  IInv'
<1>1. /\ UNCHANGED <<job, ws, asker, wire, landed, audited, age>>
      /\ auth' = [auth EXCEPT !.executedBy = ExecutedBy(r)]
  BY DEF ClientAudit
<1>2. Known(r)
  BY RunnerFacts
<1>3. ExecutedBy(r) \in {"nobody", "human", "cerevex_apply"}
  BY DEF IInv, TypeOK, ApprovalState, ExecutedBy
<1>4. auth' \in ApprovalState /\ auth'.executedBy = ExecutedBy(r)
  BY <1>1, <1>3 DEF IInv, TypeOK, ApprovalState
<1>5. ExecutedBy(r) = "cerevex_apply" => landed # {}
  BY <1>2 DEF Known, IInv, ExecutedMeansLanded, ExecutedBy
<1>6. ExecutedMeansLanded' /\ audited' \subseteq Claims
  BY <1>1, <1>4, <1>5 DEF ExecutedMeansLanded, IInv, TypeOK
<1> QED
  BY <1>1, <1>4, <1>6, ClientAuditTurn, RunnerStep

\* A step that changes nothing keeps the invariant.
LEMMA StutterKeeps ==
  ASSUME IInv, UNCHANGED vars
  PROVE  IInv'
<1>1. UNCHANGED <<job, auth, ws, runner, asker, wire, landed, audited, age>>
  BY DEF vars
<1>2. (auth'.executedBy = "cerevex_apply" => landed # {}) /\ Reconciled'
  BY <1>1 DEF IInv, ExecutedMeansLanded, Reconciled
<1> QED
  BY <1>1, <1>2, AsideStep DEF IInv, TypeOK

\* Every step keeps the invariant.
LEMMA NextKeeps == IInv /\ [Next]_vars => IInv'
<1> SUFFICES ASSUME IInv, [Next]_vars PROVE IInv'
  OBVIOUS
<1>1. ASSUME NEW r \in Runners, Claim(r) PROVE IInv'
  BY <1>1, ClaimClosedKeeps, ClaimRunKeeps, LoopKeeps DEF Claim
<1>2. ASSUME NEW r \in Runners, Close(r) PROVE IInv'
  BY <1>2, CloseStaleKeeps, EndKeeps DEF Close
<1>3. ASSUME NEW r \in Runners, Execute(r) PROVE IInv'
  BY <1>3, LoopKeeps, SendWriteKeeps DEF Execute
<1>4. ASSUME NEW r \in Runners, Settling(r) PROVE IInv'
  BY <1>4, EndKeeps, SettleKeeps, ClientAuditKeeps DEF Settling
<1>5. ASSUME NEW r \in Runners, Crash(r) PROVE IInv'
  BY <1>5, EndKeeps
<1>6. ASSUME NEW q \in Askers, Requeue(q) PROVE IInv'
  BY <1>6, AskerKeeps, RequeueUpdateKeeps DEF Requeue
<1>7. CASE People
  BY <1>7, PeopleKeep
<1>8. CASE Platform
  BY <1>8, PlatformKeeps DEF Platform
<1>9. CASE Tick
  BY <1>9, TickKeeps
<1>10. CASE UNCHANGED vars
  BY <1>10, StutterKeeps
<1> QED
  BY <1>1, <1>2, <1>3, <1>4, <1>5, <1>6, <1>7, <1>8, <1>9, <1>10 DEF Next

-----------------------------------------------------------------------------

\* The inductive invariant holds in every reachable state.
THEOREM Invariance == Spec => []IInv
  BY InitIInv, NextKeeps, PTL DEF Spec

\* The row, the runs, the requests and the clock always have their types.
THEOREM TypeCorrect == Spec => []TypeOK
<1>1. IInv => TypeOK
  BY DEF IInv
<1> QED
  BY <1>1, Invariance, PTL

\* When priorClaimQuiet lets a requeue read the live ad, no platform call of
\* that claim can still be under way, whatever the lease and the call budget.
THEOREM QuietIsSafe == Spec => []QuietClaimHasNoCall
<1>1. IInv => QuietClaimHasNoCall
  BY InFlightIsYoung DEF QuietClaimHasNoCall
<1> QED
  BY <1>1, Invariance, PTL

\* A requeue after a platform read rests on a proof: none of the claim's writes
\* has landed, and none can land any more.
THEOREM RequeueIsProven == Spec => []ReconciledIsProof
<1>1. IInv => ReconciledIsProof
  <2> SUFFICES ASSUME IInv, NEW q \in Askers, asker[q].pc = "decided",
                      asker[q].writes \in {"yes", "unknown"}
               PROVE  /\ \A m \in Requests : <<asker[q].claim, m>> \notin landed
                      /\ \A w \in wire : w.claim # asker[q].claim
    BY DEF ReconciledIsProof
  <2>1. /\ asker[q].claim \in Claims /\ age[asker[q].claim] >= Quiet
        /\ \A m \in Requests : <<asker[q].claim, m>> \notin landed
    BY DEF IInv, Reconciled, NeedsReconcile
  <2>2. age[asker[q].claim] \in 0..Quiet
    BY <2>1 DEF IInv, TypeOK
  <2>3. \A w \in wire : age[w.claim] < Quiet
    BY InFlightIsYoung
  <2>4. ASSUME NEW w \in wire, w.claim = asker[q].claim PROVE FALSE
    BY <2>1, <2>2, <2>3, <2>4, TimingAssumption DEF Quiet
  <2> QED
    BY <2>1, <2>4
<1> QED
  BY <1>1, Invariance, PTL

\* executed_at says the engine wrote only if the platform carried a write out.
THEOREM ExecutedIsReal == Spec => []ExecutedMeansLanded
<1>1. IInv => ExecutedMeansLanded
  BY DEF IInv
<1> QED
  BY <1>1, Invariance, PTL

\* A run with budget left holds the row: its lease has not run out.
LEMMA BudgetHolds ==
  ASSUME IInv, NEW r \in Runners, runner[r].pc \in Running, runner[r].left > 0
  PROVE  job.status = "applying" /\ job.claim = runner[r].claim
<1>1. Known(r)
  BY RunnerFacts
<1>2. /\ runner[r].left \in 0..Lease /\ age[runner[r].claim] \in 0..Quiet
      /\ age[runner[r].claim] + runner[r].left <= Lease - Call
  BY <1>1 DEF Known, RunState, Running
<1>3. age[runner[r].claim] < Lease
  BY <1>2, TimingAssumption DEF Quiet
<1> QED
  BY <1>3 DEF IInv, Holder

\* Only SendWrite puts a request on the wire.
LEMMA NewRequest ==
  ASSUME IInv, [Next]_vars, NEW w \in wire', \A v \in wire : v.claim # w.claim \/ v.req # w.req
  PROVE  \E r \in Runners : SendWrite(r) /\ w.claim = runner[r].claim
<1>1. CASE wire' \subseteq wire
  BY <1>1
<1>2. CASE Tick
  <2>1. PICK v \in wire : w = [v EXCEPT !.life = @ - 1]
    BY <1>2 DEF Tick
  <2>2. v \in [claim : Claims, req : Requests, life : 0..MaxInFlight]
    BY DEF IInv, TypeOK
  <2>3. w.claim = v.claim /\ w.req = v.req
    BY <2>1, <2>2
  <2> QED
    BY <2>3
<1>3. CASE \E r \in Runners : SendWrite(r)
  <2>1. PICK r \in Runners : SendWrite(r)
    BY <1>3
  <2>2. w \in wire \/ w = [claim |-> runner[r].claim, req |-> runner[r].req, life |-> MaxInFlight]
    BY <2>1 DEF SendWrite
  <2> QED
    BY <2>1, <2>2
<1>4. wire' \subseteq wire \/ Tick \/ \E r \in Runners : SendWrite(r)
  <2>1. ASSUME NEW r \in Runners, Claim(r) \/ Close(r) \/ Settling(r) \/ Crash(r)
        PROVE  wire' = wire
    BY <2>1 DEF Claim, Close, Settling, Crash, ClaimRefused, ClaimStoppedBeforePlatform,
                ClaimRun, SeeExpired, CloseStale, CloseMissed, CloseAudit, SettleLost,
                Settle, ClientAudit, CallerAudit
  <2>2. ASSUME NEW r \in Runners, Execute(r)
        PROVE  wire' = wire \/ SendWrite(r)
    BY <2>2 DEF Execute, BeginExecute, FinishLoop, SkipDeadline, StartMutation,
      HoldClaim, LoseClaim,
                SkipMutation, RefuseWrite, RereadSwitch, Confirm, Rejected, Unconfirmed
  <2>3. ASSUME NEW q \in Askers, Requeue(q)
        PROVE  wire' = wire
    BY <2>3 DEF Requeue, RequeueRead, RequeueReconcile, RequeueRefused, RequeueUpdate,
                RequeueMissed
  <2>4. CASE People
    BY <2>4 DEF People, Deny, MarkDone, Expire, SetWorkspace
  <2>5. CASE Platform
    BY <2>5 DEF Platform, Land, Drop
  <2>6. CASE UNCHANGED vars
    BY <2>6 DEF vars
  <2> QED
    BY <2>1, <2>2, <2>3, <2>4, <2>5, <2>6 DEF Next
<1> QED
  BY <1>1, <1>2, <1>3, <1>4

\* Between its claim check and its platform call no run can lose its claim: a
\* request leaves only for the claim that is still the live applying row.
THEOREM HolderSends == Spec => OnlyHolderSends
<1> DEFINE Sends == \A w \in wire' : (\A v \in wire : v.claim # w.claim \/ v.req # w.req)
                       => job.status = "applying" /\ job.claim = w.claim
<1>1. IInv /\ [Next]_vars => Sends
  <2> SUFFICES ASSUME IInv, [Next]_vars, NEW w \in wire',
                      \A v \in wire : v.claim # w.claim \/ v.req # w.req
               PROVE  job.status = "applying" /\ job.claim = w.claim
    OBVIOUS
  <2>1. PICK r \in Runners : SendWrite(r) /\ w.claim = runner[r].claim
    BY NewRequest
  <2>2. runner[r].pc \in Running /\ runner[r].left > 0
    BY <2>1 DEF SendWrite, MayStillWrite, Running
  <2> QED
    BY <2>1, <2>2, BudgetHolds
<1>2. IInv /\ [Next]_vars => [Sends]_vars
  BY <1>1
<1> HIDE DEF Sends
<1>3. Spec => [][Sends]_vars
  BY <1>2, Invariance, PTL DEF Spec
<1> QED
  BY <1>3 DEF Sends, OnlyHolderSends

\* What may happen to the row: which steps touch it, and which keep it.
LEMMA RowSteps ==
  ASSUME [Next]_vars
  PROVE  \/ job' = job
         \/ \E r \in Runners : \/ ClaimRefused(r) \/ ClaimStoppedBeforePlatform(r)
                               \/ ClaimRun(r) \/ CloseStale(r) \/ Settle(r)
         \/ \E q \in Askers : RequeueUpdate(q)
<1>1. ASSUME NEW r \in Runners, Claim(r) \/ Close(r) \/ Execute(r) \/ Settling(r) \/ Crash(r)
      PROVE  \/ job' = job \/ ClaimRefused(r) \/ ClaimStoppedBeforePlatform(r)
             \/ ClaimRun(r) \/ CloseStale(r) \/ Settle(r)
  <2>1. CASE Claim(r) \/ Close(r) \/ Settling(r) \/ Crash(r)
    BY <2>1 DEF Claim, Close, Settling, Crash, SeeExpired, CloseMissed, CloseAudit, SettleLost,
                ClientAudit, CallerAudit
  <2>2. CASE Execute(r)
    BY <2>2 DEF Execute, BeginExecute, FinishLoop, SkipDeadline, StartMutation,
      HoldClaim, LoseClaim,
                SkipMutation, RefuseWrite, RereadSwitch, SendWrite, Confirm, Rejected, Unconfirmed
  <2> QED
    BY <1>1, <2>1, <2>2
<1>2. ASSUME NEW q \in Askers, Requeue(q)
      PROVE  job' = job \/ RequeueUpdate(q)
  BY <1>2 DEF Requeue, RequeueRead, RequeueReconcile, RequeueRefused, RequeueMissed
<1>3. People \/ Platform \/ Tick \/ UNCHANGED vars => job' = job
  BY DEF People, Deny, MarkDone, Expire, SetWorkspace, Platform, Land, Drop, Tick, vars
<1> QED
  BY <1>1, <1>2, <1>3 DEF Next

-----------------------------------------------------------------------------
(* Mutations that are not all pauses, with requeues asked for by one owner *)
(* at a time.  What was sent is then always of one claim, but for          *)
(* creatives the platform has made: a row is reopened only when nothing    *)
(* else was, and a run that could still say that is the last claim's own.  *)

OneOwner == \A p, q \in Askers : p = q

NeverRepeatable == \A p \in Plans : ~p.repeatable

\* The platform has request m under claim c, or has carried it out and it counts.
Sent(c, m) ==
  \/ \E w \in wire : w.claim = c /\ w.req = m
  \/ m \notin Creatives /\ <<c, m>> \in landed

SentClaims == {c \in Claims : \E m \in Requests : Sent(c, m)}

Stale == job.status = "failed" /\ job.error = "stale_applying"

SaysNo == job.writes \notin {"yes", "unknown"}

\* A stale close says unknown, and a request that goes ahead read a row that says
\* no and still does.
RowIsRead ==
  /\ Stale => job.writes = "unknown"
  /\ \A q \in Askers : asker[q].pc = "decided" => job.status = "failed" /\ ~Stale /\ SaysNo

\* Only the last claim has a run, until its row is settled.
LatestRuns ==
  \A r \in Runners : runner[r].pc \in Running =>
    (job.status = "applying" \/ Stale) /\ job.claim = runner[r].claim

\* What was sent is the last claim's, and nothing was if the row says no.
LatestSent ==
  /\ job.status = "applying" \/ Stale => SentClaims \subseteq {job.claim}
  /\ job.status = "queued" \/ (job.status # "applying" /\ SaysNo) => SentClaims = {}
  /\ \A c, d \in SentClaims : c = d

\* A run without a write has sent nothing but what it waits for.
CleanRun(r) ==
  LET x == runner[r] IN
  x.pc \in Running /\ (x.wrote = "no" \/ x.pc = "claimed") =>
    \A m \in Requests : Sent(x.claim, m) => x.pc = "sent" /\ x.req = m

OneInv == RowIsRead /\ LatestRuns /\ LatestSent /\ \A r \in Runners : CleanRun(r)

\* Those who speak of what was sent may hear of less.
LEMMA LessSent ==
  ASSUME IInv, OneInv, job' = job, asker' = asker,
         \A c \in Claims, m \in Requests : Sent(c, m)' => Sent(c, m),
         \A r \in Runners : /\ runner'[r].pc = runner[r].pc /\ runner'[r].wrote = runner[r].wrote
                            /\ runner'[r].claim = runner[r].claim /\ runner'[r].req = runner[r].req
  PROVE  OneInv'
<1>1. RowIsRead' /\ LatestRuns'
  BY DEF OneInv, RowIsRead, LatestRuns, Stale, SaysNo
<1>2. SentClaims' \subseteq SentClaims
  BY DEF SentClaims
<1>3. LatestSent'
  BY <1>2 DEF OneInv, LatestSent, Stale, SaysNo
<1>4. ASSUME NEW r \in Runners PROVE CleanRun(r)'
  <2>1. CleanRun(r) /\ (runner[r].pc \in Running => runner[r].claim \in Claims)
    BY RunnerFacts DEF OneInv, Known, Running
  <2> QED
    BY <2>1 DEF CleanRun
<1> QED
  BY <1>1, <1>3, <1>4 DEF OneInv

\* A turn of one run that sends nothing.
LEMMA TurnKeepsOne ==
  ASSUME OneInv, NEW r \in Runners, RunnerTurn(r), CleanRun(r)',
         UNCHANGED <<job, asker, wire, landed, Creatives>>
  PROVE  OneInv'
<1>1. RowIsRead' /\ LatestSent'
  BY DEF OneInv, RowIsRead, LatestSent, Stale, SaysNo, SentClaims, Sent
<1>2. LatestRuns'
  BY DEF OneInv, LatestRuns, Stale, RunnerTurn
<1>3. ASSUME NEW s \in Runners, s # r PROVE CleanRun(s)'
  BY <1>3 DEF OneInv, CleanRun, Sent, RunnerTurn
<1> QED
  BY <1>1, <1>2, <1>3 DEF OneInv

\* A run that waits for nothing, and says what it said.
LEMMA StaysClean ==
  ASSUME OneInv, NEW r \in Runners, UNCHANGED <<wire, landed, Creatives>>,
         runner[r].pc \in Running, runner[r].pc # "sent", runner'[r].pc # "claimed",
         runner'[r].claim = runner[r].claim,
         runner'[r].wrote = runner[r].wrote \/ runner[r].pc = "claimed"
  PROVE  CleanRun(r)'
  BY DEF OneInv, CleanRun, Sent

LEMMA LoopKeepsOne ==
  ASSUME IInv, OneInv, NEW r \in Runners,
         \/ BeginExecute(r) \/ FinishLoop(r) \/ SkipDeadline(r) \/ StartMutation(r) \/ HoldClaim(r)
         \/ LoseClaim(r) \/ SkipMutation(r) \/ RefuseWrite(r) \/ RereadSwitch(r)
         \/ Confirm(r) \/ Rejected(r) \/ Unconfirmed(r) \/ SeeExpired(r)
  PROVE  OneInv'
<1>1. UNCHANGED <<job, asker, wire, landed, Creatives>>
  BY DEF BeginExecute, FinishLoop, SkipDeadline, StartMutation, HoldClaim, LoseClaim, SkipMutation,
         RefuseWrite, RereadSwitch, Confirm, Rejected, Unconfirmed, SeeExpired,
         Creatives
<1>2. RunnerTurn(r)
  BY BeginExecuteTurn, ExecuteTurn, StartMutationTurn, HoldClaimTurn, RereadSwitchTurn,
     SkipMutationTurn, ConfirmTurn, SeeExpiredTurn
<1> SUFFICES CleanRun(r)'
  BY <1>1, <1>2, TurnKeepsOne
<1>3. runner \in [Runners -> RunState]
  BY DEF IInv, TypeOK, RunnersOK
<1>4. CASE BeginExecute(r)
  BY <1>1, <1>3, <1>4, StaysClean DEF BeginExecute, Running
<1>5. CASE FinishLoop(r) \/ SkipDeadline(r) \/ LoseClaim(r) \/ RefuseWrite(r)
  <2>1. /\ runner[r].pc \in Running /\ runner[r].pc # "sent"
        /\ \E f \in {"none", "failed", "meta_token_expired"} : LeaveLoop(r, runner[r].wrote, f)
    BY <1>5, RefusalLeaves DEF FinishLoop, SkipDeadline, LoseClaim, RefuseWrite, Running
  <2> QED
    BY <1>1, <1>3, <2>1, StaysClean DEF LeaveLoop
<1>6. CASE StartMutation(r) \/ HoldClaim(r) \/ SkipMutation(r) \/ RereadSwitch(r)
  <2>1. /\ runner[r].pc \in {"loop", "check", "armed", "cleared"}
        /\ runner'[r].pc \in {"loop", "check", "armed", "cleared"}
        /\ runner'[r].claim = runner[r].claim /\ runner'[r].wrote = runner[r].wrote
    BY <1>3, <1>6 DEF StartMutation, HoldClaim, SkipMutation, RereadSwitch, RunState
  <2> QED
    BY <1>1, <2>1, StaysClean DEF Running
<1>7. CASE (Confirm(r) /\ runner[r].req \notin Creatives) \/ Unconfirmed(r)
  <2>1. runner'[r].wrote # "no" /\ runner'[r].pc \in {"loop", "settle"}
    <3>1. CASE Confirm(r) /\ runner[r].req \notin Creatives
      BY <1>3, <3>1 DEF Confirm, RunState
    <3>2. CASE Unconfirmed(r)
      BY <1>3, <3>2 DEF Unconfirmed, LeaveLoop, OutcomeWrites, RunState
    <3> QED
      BY <1>7, <3>1, <3>2
  <2> QED
    BY <2>1 DEF CleanRun
<1>8. CASE Rejected(r)
  <2>1. /\ runner[r].pc = "sent" /\ ~Sent(runner[r].claim, runner[r].req)
        /\ runner'[r].claim = runner[r].claim /\ runner'[r].wrote = runner[r].wrote
        /\ runner'[r].pc = "settle"
    BY <1>3, <1>8, RefusalLeaves DEF Rejected, HasLanded, Pending, Sent, LeaveLoop
  <2> QED
    BY <1>1, <2>1 DEF OneInv, CleanRun, Sent, Running
<1>9. CASE SeeExpired(r)
  BY <1>3, <1>9 DEF SeeExpired, RunAt, CleanRun, Running
<1>10. CASE Confirm(r) /\ runner[r].req \in Creatives
  <2>1. /\ runner[r].pc = "sent" /\ ~Sent(runner[r].claim, runner[r].req)
        /\ runner'[r].claim = runner[r].claim /\ runner'[r].wrote = runner[r].wrote
        /\ runner'[r].pc = "armed"
    BY <1>3, <1>10 DEF Confirm, HasLanded, Pending, Sent, RunState
  <2> QED
    BY <1>1, <2>1 DEF OneInv, CleanRun, Sent, Running
<1> QED
  BY <1>4, <1>5, <1>6, <1>7, <1>8, <1>9, <1>10

LEMMA EndKeepsOne ==
  ASSUME IInv, OneInv, NEW r \in Runners,
         CloseMissed(r) \/ CloseAudit(r) \/ SettleLost(r) \/ CallerAudit(r) \/ Crash(r)
           \/ ClientAudit(r)
  PROVE  OneInv'
<1>1. UNCHANGED <<job, asker, wire, landed>> /\ auth'.plan = auth.plan
  BY DEF CloseMissed, CloseAudit, SettleLost, CallerAudit, Crash, ClientAudit, IInv, TypeOK,
         ApprovalState
<1>2. RunnerTurn(r)
  BY IdleTurn, ClientAuditTurn DEF CloseMissed, CloseAudit, SettleLost, CallerAudit, Crash
<1>3. runner'[r].pc \notin Running
  <2>1. runner \in [Runners -> RunState]
    BY DEF IInv, TypeOK, RunnersOK
  <2>2. CASE ClientAudit(r)
    BY <2>1, <2>2 DEF ClientAudit, RunState, Running
  <2>3. CASE runner' = [runner EXCEPT ![r] = Idle]
    BY <2>1, <2>3 DEF Idle, RunAt, Running
  <2> QED
    BY <2>2, <2>3 DEF CloseMissed, CloseAudit, SettleLost, CallerAudit, Crash
<1>4. CleanRun(r)'
  BY <1>3 DEF CleanRun
<1>5. Creatives' = Creatives
  BY <1>1 DEF Creatives
<1> QED
  BY <1>1, <1>2, <1>4, <1>5, TurnKeepsOne

\* A request leaves under the row's claim, of which there is no other run.
LEMMA SendWriteKeepsOne == ASSUME IInv, OneInv, NEW r \in Runners, SendWrite(r) PROVE OneInv'
<1> DEFINE x == runner[r]
<1>1. x.pc \in {"armed", "cleared"} /\ x.left > 0 /\ Known(r)
  BY RunnerFacts DEF SendWrite, MayStillWrite
<1>2. job.status = "applying" /\ job.claim = x.claim /\ x.claim \in Claims
  BY <1>1, BudgetHolds DEF Running, Known
<1>3. /\ UNCHANGED <<job, asker, landed, Creatives>>
      /\ wire' = wire \cup {[claim |-> x.claim, req |-> x.req, life |-> MaxInFlight]}
      /\ runner'[r].pc = "sent" /\ runner'[r].claim = x.claim /\ runner'[r].req = x.req
      /\ runner'[r].wrote = x.wrote
      /\ \A s \in Runners : s # r => runner'[s] = runner[s]
  BY <1>1 DEF SendWrite, Known, RunState, Creatives
<1>4. ASSUME NEW c, NEW m
      PROVE  Sent(c, m)' <=> Sent(c, m) \/ (c = x.claim /\ m = x.req)
  <2> DEFINE q == [claim |-> x.claim, req |-> x.req, life |-> MaxInFlight]
  <2>1. q.claim = x.claim /\ q.req = x.req
    OBVIOUS
  <2>2. wire' = wire \cup {q} /\ landed' = landed /\ Creatives' = Creatives
    BY <1>3
  <2> HIDE DEF q, x
  <2> QED
    BY <2>1, <2>2 DEF Sent
<1>5. RowIsRead' /\ LatestRuns'
  BY <1>1, <1>3 DEF OneInv, RowIsRead, LatestRuns, Stale, SaysNo, Running
<1>6. SentClaims' \subseteq {job.claim}
  BY <1>2, <1>4 DEF OneInv, LatestSent, SentClaims
<1>7. LatestSent'
  BY <1>2, <1>3, <1>6 DEF LatestSent, Stale, SaysNo
<1>8. CleanRun(r)'
  BY <1>1, <1>3, <1>4 DEF OneInv, CleanRun, Running
<1>9. ASSUME NEW s \in Runners, s # r PROVE CleanRun(s)'
  <2>1. runner[s].pc \in Running => runner[s].claim # x.claim
    BY <1>1, <1>9 DEF IInv, OwnClaims, Running
  <2>2. runner[s].pc \in Running => runner[s].claim = x.claim
    BY <1>2 DEF OneInv, LatestRuns
  <2> QED
    BY <1>3, <1>9, <2>1, <2>2 DEF CleanRun
<1> QED
  BY <1>5, <1>7, <1>8, <1>9 DEF OneInv

\* The row moves, and nothing was sent, or what was is still its last claim's.
LEMMA RowKeepsOne ==
  ASSUME OneInv, UNCHANGED <<asker, wire, landed, Creatives>>, RowIsRead', LatestRuns',
         job'.status = "applying" \/ Stale' => SentClaims \subseteq {job'.claim},
         job'.status = "queued" \/ (job'.status # "applying" /\ SaysNo') => SentClaims = {},
         \A r \in Runners : runner'[r].pc \in Running => runner'[r] = runner[r]
  PROVE  OneInv'
<1>1. SentClaims' = SentClaims
  BY DEF SentClaims, Sent
<1>2. LatestSent'
  BY <1>1 DEF OneInv, LatestSent
<1>3. ASSUME NEW r \in Runners PROVE CleanRun(r)'
  <2>1. CASE runner'[r].pc \in Running
    BY <2>1 DEF OneInv, CleanRun, Sent
  <2>2. CASE runner'[r].pc \notin Running
    BY <2>2 DEF CleanRun
  <2> QED
    BY <2>1, <2>2
<1> QED
  BY <1>2, <1>3 DEF OneInv

\* While the row is queued, no run goes on and nothing has been sent.
LEMMA QueuedIsBlank ==
  ASSUME OneInv, job.status = "queued"
  PROVE  /\ SentClaims = {}
         /\ \A r \in Runners : runner[r].pc \notin Running
         /\ \A q \in Askers : asker[q].pc # "decided"
  BY DEF OneInv, LatestSent, LatestRuns, RowIsRead, Stale

LEMMA ClaimKeepsOne ==
  ASSUME IInv, OneInv, NEW r \in Runners,
         ClaimRefused(r) \/ ClaimStoppedBeforePlatform(r) \/ ClaimRun(r)
  PROVE  OneInv'
<1>1. /\ job.status = "queued" /\ UNCHANGED <<asker, wire, landed, Creatives>>
  BY DEF ClaimRefused, ClaimStoppedBeforePlatform, ClaimRun, Claimable, Creatives
<1>2. CASE ClaimRefused(r) \/ ClaimStoppedBeforePlatform(r)
  <2>1. /\ job'.status \in {"failed", "succeeded"} /\ ~Stale' /\ runner' = runner
    BY <1>2 DEF ClaimRefused, ClaimStoppedBeforePlatform, ClosedByClaim, Stale
  <2>2. RowIsRead' /\ LatestRuns'
    BY <1>1, <2>1, QueuedIsBlank DEF RowIsRead, LatestRuns
  <2> QED
    BY <1>1, <2>1, <2>2, QueuedIsBlank, RowKeepsOne
<1>3. CASE ClaimRun(r)
  <2>1. /\ job'.status = "applying" /\ ~Stale'
        /\ runner'[r].claim = job'.claim /\ runner'[r].pc = "claimed"
        /\ \A s \in Runners : s # r => runner'[s] = runner[s]
    BY <1>3 DEF ClaimRun, RunAt, Stale, IInv, TypeOK, RunnersOK
  <2>2. RowIsRead' /\ LatestRuns'
    BY <1>1, <2>1, QueuedIsBlank DEF RowIsRead, LatestRuns
  <2>3. SentClaims' = {}
    BY <1>1, QueuedIsBlank DEF SentClaims, Sent
  <2>4. LatestSent'
    BY <2>1, <2>3 DEF LatestSent
  <2>5. job'.claim \in Claims
    BY <1>3, SizesAssumption DEF ClaimRun, Claimable, IInv, TypeOK, RowOK, Claims
  <2>6. ASSUME NEW s \in Runners PROVE CleanRun(s)'
    <3>1. CASE s = r
      BY <2>1, <2>3, <2>5, <3>1 DEF CleanRun, SentClaims
    <3>2. CASE s # r
      BY <1>1, <2>1, <3>2, QueuedIsBlank DEF CleanRun
    <3> QED
      BY <3>1, <3>2
  <2> QED
    BY <2>2, <2>4, <2>6 DEF OneInv
<1> QED
  BY <1>2, <1>3

LEMMA CloseKeepsOne == ASSUME IInv, OneInv, NEW r \in Runners, CloseStale(r) PROVE OneInv'
<1>1. /\ job.status = "applying" /\ job'.status = "failed" /\ job'.claim = job.claim
      /\ job'.writes = "unknown" /\ Stale'
      /\ UNCHANGED <<asker, wire, landed, Creatives>>
      /\ runner[r].pc = "close" /\ runner'[r].pc = "close_audit"
      /\ \A s \in Runners : s # r => runner'[s] = runner[s]
  BY DEF CloseStale, StillTheClaimRead, Stale, IInv, TypeOK, RowOK, RunnersOK, RunState,
         Creatives
<1>2. RowIsRead' /\ LatestRuns'
  BY <1>1 DEF OneInv, RowIsRead, LatestRuns, Running
<1>3. SentClaims \subseteq {job'.claim}
  BY <1>1 DEF OneInv, LatestSent
<1>4. ~SaysNo' /\ \A s \in Runners : runner'[s].pc \in Running => runner'[s] = runner[s]
  BY <1>1 DEF SaysNo, Running
<1> QED
  BY <1>1, <1>2, <1>3, <1>4, RowKeepsOne

\* A run that settles its row is the last claim's, and knows what it sent.
LEMMA SettleKeepsOne == ASSUME IInv, OneInv, NEW r \in Runners, Settle(r) PROVE OneInv'
<1> DEFINE x == runner[r]
<1>1. /\ x.pc = "settle" /\ x.wrote \in {"no", "yes", "unknown"} /\ Known(r)
      /\ x.failed \in {"none", "failed", "meta_token_expired"}
      /\ UNCHANGED <<asker, wire, landed, Creatives>>
  BY RunnerFacts DEF Settle, Known, RunState, Creatives
<1>2. /\ job'.status \in {"failed", "succeeded"} /\ ~Stale' /\ job'.writes = x.wrote
  BY <1>1 DEF Settle, SettledRow, Stale
<1>3. /\ runner'[r].pc = "client_audit"
      /\ \A s \in Runners : s # r => runner'[s] = runner[s]
  BY <1>1 DEF Settle, Known, RunState
<1>4. (job.status = "applying" \/ Stale) /\ job.claim = x.claim /\ x.claim \in Claims
  BY <1>1 DEF OneInv, LatestRuns, Running, Known
<1>5. \A s \in Runners : s # r => runner[s].pc \notin Running
  BY <1>1, <1>4 DEF OneInv, LatestRuns, IInv, OwnClaims, Running
<1>6. LatestRuns'
  BY <1>3, <1>5 DEF LatestRuns, Running
<1>7. RowIsRead'
  BY <1>1, <1>2, <1>4 DEF OneInv, RowIsRead, Stale
<1>8. x.wrote = "no" => SentClaims = {}
  <2>1. x.wrote = "no" => \A m \in Requests : ~Sent(x.claim, m)
    BY <1>1 DEF OneInv, CleanRun, Running
  <2>2. SentClaims \subseteq {x.claim}
    BY <1>4 DEF OneInv, LatestSent
  <2> QED
    BY <2>1, <2>2 DEF SentClaims
<1>9. SaysNo' => x.wrote = "no"
  BY <1>1, <1>2 DEF SaysNo
<1>10. \A s \in Runners : runner'[s].pc \in Running => runner'[s] = runner[s]
  BY <1>3 DEF Running
<1> QED
  BY <1>1, <1>2, <1>6, <1>7, <1>8, <1>9, <1>10, RowKeepsOne

\* Of one owner at a time, no request rests on a row that another has reopened.
LEMMA RequeueKeepsOne ==
  ASSUME IInv, OneInv, NeverRepeatable, OneOwner, NEW q \in Askers, Requeue(q)
  PROVE  OneInv'
<1>1. \A p \in Askers : p = q
  BY DEF OneOwner
<1>2. CASE RequeueUpdate(q)
  <2>1. /\ job.status = "failed" /\ ~Stale /\ SaysNo /\ asker[q].pc = "decided"
        /\ UNCHANGED <<runner, wire, landed, Creatives>>
    BY <1>2 DEF RequeueUpdate, OpenToRequeue, OneInv, RowIsRead, Creatives
  <2>2. job'.status = "queued" /\ asker'[q].pc = "idle"
    BY <1>2 DEF RequeueUpdate, IInv, TypeOK, RowOK, NoRequest
  <2>3. /\ SentClaims = {} /\ SentClaims' = SentClaims
        /\ \A r \in Runners : runner[r].pc \notin Running
    BY <2>1 DEF OneInv, LatestSent, LatestRuns, SentClaims, Sent
  <2>4. RowIsRead' /\ LatestRuns' /\ LatestSent'
    BY <1>1, <2>1, <2>2, <2>3 DEF RowIsRead, LatestRuns, LatestSent, Stale
  <2>5. \A r \in Runners : CleanRun(r)'
    BY <2>1, <2>3 DEF CleanRun
  <2> QED
    BY <2>4, <2>5 DEF OneInv
<1>3. CASE RequeueRead(q) \/ RequeueRefused(q) \/ RequeueMissed(q)
  <2>1. UNCHANGED <<job, runner, wire, landed, Creatives>>
    BY <1>3 DEF RequeueRead, RequeueRefused, RequeueMissed, Creatives
  <2>2. asker'[q].pc = "decided" => job.status = "failed" /\ SaysNo
    BY <1>3 DEF RequeueRead, RequeueRefused, RequeueMissed, NoRequest, NeedsReconcile, SaysNo,
                IInv, TypeOK
  <2>3. RowIsRead'
    BY <1>1, <2>1, <2>2 DEF OneInv, RowIsRead, Stale, SaysNo
  <2>4. LatestRuns' /\ LatestSent'
    BY <2>1 DEF OneInv, LatestRuns, LatestSent, Stale, SaysNo, SentClaims, Sent
  <2>5. \A r \in Runners : CleanRun(r)'
    BY <2>1 DEF OneInv, CleanRun, Sent
  <2> QED
    BY <2>3, <2>4, <2>5 DEF OneInv
<1>4. ~RequeueReconcile(q)
  BY DEF RequeueReconcile, Repeatable, NeverRepeatable, IInv, TypeOK, ApprovalState
<1> QED
  BY <1>2, <1>3, <1>4 DEF Requeue

LEMMA NextKeepsOne ==
  ASSUME IInv, OneInv, NeverRepeatable, OneOwner, [Next]_vars
  PROVE  OneInv'
<1>1. ASSUME NEW r \in Runners, Claim(r) \/ Close(r) PROVE OneInv'
  BY <1>1, ClaimKeepsOne, LoopKeepsOne, CloseKeepsOne, EndKeepsOne DEF Claim, Close
<1>2. ASSUME NEW r \in Runners, Execute(r) PROVE OneInv'
  BY <1>2, LoopKeepsOne, SendWriteKeepsOne DEF Execute
<1>3. ASSUME NEW r \in Runners, Settling(r) \/ Crash(r) PROVE OneInv'
  BY <1>3, SettleKeepsOne, EndKeepsOne DEF Settling
<1>4. ASSUME NEW q \in Askers, Requeue(q) PROVE OneInv'
  BY <1>4, RequeueKeepsOne
<1>5. CASE People \/ UNCHANGED vars
  <2>1. UNCHANGED <<job, asker, runner, wire, landed>> /\ auth'.plan = auth.plan
    BY <1>5 DEF People, Deny, MarkDone, Expire, SetWorkspace, vars, IInv, TypeOK, ApprovalState
  <2> QED
    BY <2>1, LessSent DEF Sent, Creatives
<1>6. CASE Platform
  <2>1. PICK w \in wire : Land(w) \/ Drop(w)
    BY <1>6 DEF Platform
  <2>2. UNCHANGED <<job, asker, runner, Creatives>>
    BY <2>1 DEF Land, Drop, Creatives
  <2>3. \A c \in Claims, m \in Requests : Sent(c, m)' => Sent(c, m)
    BY <2>1, <2>2 DEF Land, Drop, Sent
  <2> QED
    BY <2>2, <2>3, LessSent
<1>7. CASE Tick
  <2>1. UNCHANGED <<job, asker, landed, Creatives>> /\ runner \in [Runners -> RunState]
    BY <1>7 DEF Tick, IInv, TypeOK, RunnersOK, Creatives
  <2>2. \A w \in wire' : \E v \in wire : w.claim = v.claim /\ w.req = v.req
    BY <1>7 DEF Tick, IInv, TypeOK
  <2>3. \A c \in Claims, m \in Requests : Sent(c, m)' => Sent(c, m)
    BY <2>1, <2>2 DEF Sent
  <2>4. \A r \in Runners :
          /\ runner'[r].pc = runner[r].pc /\ runner'[r].wrote = runner[r].wrote
          /\ runner'[r].claim = runner[r].claim /\ runner'[r].req = runner[r].req
    BY <1>7, <2>1 DEF Tick, RunState
  <2> QED
    BY <2>1, <2>3, <2>4, LessSent
<1> QED
  BY <1>1, <1>2, <1>3, <1>4, <1>5, <1>6, <1>7 DEF Next

LEMMA InitOne == Init => OneInv
  BY DEF Init, OneInv, RowIsRead, LatestRuns, LatestSent, CleanRun, Stale, SaysNo, SentClaims,
         Sent, Idle, RunAt, NoRequest, Running

LEMMA OneInvariance == ASSUME NeverRepeatable, OneOwner PROVE Spec => [](IInv /\ OneInv)
<1>1. IInv /\ OneInv /\ [Next]_vars => OneInv'
  BY NextKeepsOne
<1> QED
  BY <1>1, InitOne, Invariance, PTL DEF Spec

\* A request's claim, and a landed write's, has sent it.
LEMMA SentOnes ==
  ASSUME IInv
  PROVE  /\ \A w \in wire : w.claim \in SentClaims
         /\ \A p \in landed : p[2] \notin Creatives => p[1] \in SentClaims
         /\ SentClaims = {} => wire = {} /\ \A p \in landed : p[2] \in Creatives
<1>1. \A w \in wire : w.claim \in Claims /\ w.req \in Requests
  BY DEF IInv, TypeOK
<1>2. \A p \in landed : p[1] \in Claims /\ p[2] \in Requests /\ p = <<p[1], p[2]>>
  BY DEF IInv, TypeOK
<1> QED
  BY <1>1, <1>2 DEF SentClaims, Sent

\* Two claims of a job never have calls under way together.
THEOREM OneClaimSends ==
  ASSUME NeverRepeatable, OneOwner PROVE Spec => []OneClaimOnTheWire
<1>1. IInv /\ OneInv => OneClaimOnTheWire
  BY SentOnes DEF OneInv, LatestSent, OneClaimOnTheWire
<1> QED
  BY <1>1, OneInvariance, PTL

\* A row that may be run again without a look at the platform hides no write, but
\* for creatives whose ad was refused.
THEOREM NoIsTrue ==
  ASSUME NeverRepeatable, OneOwner PROVE Spec => []NoMeansNothingSent
<1>1. IInv /\ OneInv => NoMeansNothingSent
  BY SentOnes DEF OneInv, LatestSent, SaysNo, NoMeansNothingSent
<1> QED
  BY <1>1, OneInvariance, PTL

\* A bid, a budget or an ad that landed is in the row, or the row is still its claim.
THEOREM LandedStaysKnown ==
  ASSUME NeverRepeatable, OneOwner PROVE Spec => []LandedIsKnown
<1>1. IInv /\ OneInv => LandedIsKnown
  BY SentOnes DEF OneInv, LatestSent, SaysNo, LandedIsKnown, IInv, TypeOK, RowOK
<1> QED
  BY <1>1, OneInvariance, PTL

-----------------------------------------------------------------------------
(* The order in which claims write.  A request is of the last claim drawn  *)
(* when it is sent; what has landed is of no later claim, creatives        *)
(* included, than a request that is under way or a write that has landed.  *)

Ordered ==
  /\ job.status = "applying" => job.claim = job.attempts
  /\ \A w \in wire : w.claim <= job.attempts
  /\ \A p \in landed : p[1] <= job.attempts
  /\ \A w \in wire, p \in landed : p[1] <= w.claim
  /\ NoRepeatedWrite

\* No step takes a number back, and only a run that begins makes a row applying.
LEMMA NumbersGrow ==
  ASSUME IInv, Ordered, [Next]_vars
  PROVE  /\ job'.attempts >= job.attempts
         /\ job'.status = "applying" => job'.claim = job'.attempts
<1>1. job.attempts \in Nat /\ job'.attempts \in Nat
  BY NextKeeps DEF IInv, TypeOK, RowOK
<1>2. CASE job' = job
  BY <1>1, <1>2 DEF Ordered
<1>3. ASSUME NEW r \in Runners,
             ClaimRefused(r) \/ ClaimStoppedBeforePlatform(r) \/ ClaimRun(r)
      PROVE  /\ job'.attempts = job.attempts + 1
             /\ job'.status = "applying" => job'.claim = job'.attempts
  BY <1>3 DEF ClaimRefused, ClaimStoppedBeforePlatform, ClosedByClaim, ClaimRun
<1>4. ASSUME NEW r \in Runners, CloseStale(r) \/ Settle(r)
      PROVE  job'.attempts = job.attempts /\ job'.status # "applying"
  <2>1. CASE CloseStale(r)
    BY <2>1 DEF CloseStale, IInv, TypeOK, RowOK
  <2>2. CASE Settle(r)
    BY <2>2 DEF Settle, SettledRow
  <2> QED
    BY <1>4, <2>1, <2>2
<1>5. ASSUME NEW q \in Askers, RequeueUpdate(q)
      PROVE  job'.attempts = job.attempts /\ job'.status # "applying"
  BY <1>5 DEF RequeueUpdate, IInv, TypeOK, RowOK
<1> QED
  BY <1>1, <1>2, <1>3, <1>4, <1>5, RowSteps

\* Which steps change what has been sent and what has landed.
LEMMA WireSteps ==
  ASSUME [Next]_vars
  PROVE  \/ UNCHANGED <<wire, landed>>
         \/ \E r \in Runners : SendWrite(r)
         \/ Platform \/ Tick
<1>1. ASSUME NEW r \in Runners, Claim(r) \/ Close(r) \/ Settling(r) \/ Crash(r)
      PROVE  UNCHANGED <<wire, landed>>
  BY <1>1 DEF Claim, Close, Settling, Crash, ClaimRefused, ClaimStoppedBeforePlatform,
              ClaimRun, SeeExpired, CloseStale, CloseMissed, CloseAudit, SettleLost,
              Settle, ClientAudit, CallerAudit
<1>2. ASSUME NEW r \in Runners, Execute(r)
      PROVE  UNCHANGED <<wire, landed>> \/ SendWrite(r)
  BY <1>2 DEF Execute, BeginExecute, FinishLoop, SkipDeadline, StartMutation, HoldClaim,
              LoseClaim, SkipMutation, RefuseWrite, RereadSwitch, Confirm,
              Rejected, Unconfirmed
<1>3. ASSUME NEW q \in Askers, Requeue(q)
      PROVE  UNCHANGED <<wire, landed>>
  BY <1>3 DEF Requeue, RequeueRead, RequeueReconcile, RequeueRefused, RequeueUpdate,
              RequeueMissed
<1>4. People \/ UNCHANGED vars => UNCHANGED <<wire, landed>>
  BY DEF People, Deny, MarkDone, Expire, SetWorkspace, vars
<1> QED
  BY <1>1, <1>2, <1>3, <1>4 DEF Next

\* What a recommendation proposes is never changed.
LEMMA PlanStays == ASSUME IInv, [Next]_vars PROVE Creatives' = Creatives
<1>1. ASSUME NEW r \in Runners, Claim(r) \/ Close(r) \/ Settling(r) \/ Crash(r)
      PROVE  auth'.plan = auth.plan
  BY <1>1 DEF Claim, Close, Settling, Crash, ClaimRefused, ClaimStoppedBeforePlatform,
              ClaimRun, SeeExpired, CloseStale, CloseMissed, CloseAudit, SettleLost,
              Settle, ClientAudit, CallerAudit, IInv, TypeOK, ApprovalState
<1>2. ASSUME NEW r \in Runners, Execute(r)
      PROVE  auth' = auth
  BY <1>2 DEF Execute, BeginExecute, FinishLoop, SkipDeadline, StartMutation, HoldClaim,
              LoseClaim, SkipMutation, RefuseWrite, RereadSwitch, SendWrite, Confirm, Rejected, Unconfirmed
<1>3. ASSUME NEW q \in Askers, Requeue(q)
      PROVE  auth' = auth
  BY <1>3 DEF Requeue, RequeueRead, RequeueReconcile, RequeueRefused, RequeueUpdate,
              RequeueMissed
<1>4. People \/ UNCHANGED vars => auth'.plan = auth.plan
  BY DEF People, Deny, MarkDone, Expire, SetWorkspace, vars, IInv, TypeOK, ApprovalState
<1>5. Platform \/ Tick => auth' = auth
  BY DEF Platform, Land, Drop, Tick
<1> QED
  BY <1>1, <1>2, <1>3, <1>4, <1>5 DEF Next, Creatives

LEMMA NextKeepsOrder ==
  ASSUME IInv, OneInv, Ordered, [Next]_vars
  PROVE  Ordered'
<1>1. /\ job.attempts \in Nat /\ job'.attempts \in Nat /\ job'.attempts >= job.attempts
      /\ job'.status = "applying" => job'.claim = job'.attempts
      /\ Creatives' = Creatives
  BY NumbersGrow, PlanStays, NextKeeps DEF IInv, TypeOK, RowOK
<1>2. /\ \A w \in wire : w.claim \in Nat
      /\ \A p \in landed : p[1] \in Nat
  BY DEF IInv, TypeOK, Claims
<1>3. CASE UNCHANGED <<wire, landed>>
  BY <1>1, <1>2, <1>3 DEF Ordered, NoRepeatedWrite
<1>4. ASSUME NEW r \in Runners, SendWrite(r) PROVE Ordered'
  <2>1. job.status = "applying" /\ job.claim = runner[r].claim
    BY <1>4, BudgetHolds DEF SendWrite, MayStillWrite, Running
  <2>2. \A w \in wire' : w \in wire \/ w.claim = job.attempts
    BY <1>4, <2>1 DEF SendWrite, Ordered
  <2>3. landed' = landed
    BY <1>4 DEF SendWrite
  <2> QED
    BY <1>1, <1>2, <2>2, <2>3 DEF Ordered, NoRepeatedWrite
<1>5. CASE Platform
  <2>1. PICK w \in wire : Land(w) \/ Drop(w)
    BY <1>5 DEF Platform
  <2>2. \A v \in wire' : v \in wire
    BY <2>1 DEF Land, Drop
  <2>3. CASE Drop(w)
    BY <1>1, <1>2, <2>2, <2>3 DEF Drop, Ordered, NoRepeatedWrite
  <2>4. CASE Land(w)
    <3> DEFINE new == <<w.claim, w.req>>
    <3>1. landed' = landed \cup {new} /\ new[1] = w.claim
      BY <2>4 DEF Land
    <3>2. \A v \in wire : v.claim = w.claim
      BY SentOnes DEF OneInv, LatestSent
    <3>3. \A q \in landed : q[2] \notin Creatives => q[1] = w.claim
      BY SentOnes DEF OneInv, LatestSent
    <3>4. \A p \in landed : p[1] <= w.claim
      BY DEF Ordered
    <3> HIDE DEF new
    <3>5. NoRepeatedWrite'
      BY <1>1, <1>2, <3>1, <3>3, <3>4 DEF Ordered, NoRepeatedWrite
    <3> QED
      BY <1>1, <1>2, <2>2, <3>1, <3>2, <3>5 DEF Ordered
  <2> QED
    BY <2>1, <2>3, <2>4
<1>6. CASE Tick
  <2>1. landed' = landed
    BY <1>6 DEF Tick
  <2>2. \A w \in wire' : \E v \in wire : w.claim = v.claim
    BY <1>6 DEF Tick, IInv, TypeOK
  <2> QED
    BY <1>1, <1>2, <2>1, <2>2 DEF Ordered, NoRepeatedWrite
<1> QED
  BY <1>3, <1>4, <1>5, <1>6, WireSteps

\* Once a bid, a budget or an ad is carried out, nothing is under a later claim,
\* however late its request lands.
THEOREM NoDoubleWrite ==
  ASSUME NeverRepeatable, OneOwner PROVE Spec => []NoRepeatedWrite
<1>1. Init => Ordered
  BY DEF Init, Ordered, NoRepeatedWrite
<1>2. IInv /\ OneInv /\ Ordered /\ [Next]_vars => Ordered'
  BY NextKeepsOrder
<1>3. Ordered => NoRepeatedWrite
  BY DEF Ordered
<1> QED
  BY <1>1, <1>2, <1>3, OneInvariance, PTL DEF Spec

-----------------------------------------------------------------------------
(* ApplyEngine implements ApplyPromise, for every value of the constants.  *)
(* The row and the clock change in six ways only, and each is one step of  *)
(* the promise; everything else leaves both alone.  The invariant is       *)
(* needed for the stale close (the lease really ran out) and for the late  *)
(* settle (its claim was drawn).                                           *)

\* Initially no lease is running and the row is queued.
LEMMA InitIsPromised == Init => Promise!PromiseInit
<1> SUFFICES ASSUME Init PROVE Promise!PromiseInit
  OBVIOUS
<1>1. Live = {}
  BY TimingAssumption DEF Init, Live, Quiet
<1>2. Row = [status |-> "queued", claim |-> 0, draws |-> 0, stale |-> FALSE]
  BY DEF Init, Row
<1> QED
  BY <1>1, <1>2 DEF Promise!PromiseInit

\* A claim that runs is drawn, and its lease starts.
LEMMA ClaimRunIsDraw ==
  ASSUME IInv, NEW r \in Runners, ClaimRun(r)
  PROVE  Promise!Draw
<1> DEFINE c == job.attempts + 1
<1>1. job.status = "queued" /\ job.attempts < MaxAttempts
  BY DEF ClaimRun, Claimable
<1>2. job.attempts \in 0..MaxAttempts /\ c \in Claims /\ age \in [Claims -> 0..Quiet]
  BY <1>1, SizesAssumption DEF IInv, TypeOK, RowOK, Claims
<1>3. age' = [age EXCEPT ![c] = 0]
  BY DEF ClaimRun
<1>4. Live' = Live \cup {c}
  BY <1>2, <1>3, TimingAssumption DEF Live
<1>5. Row' = [status |-> "applying", claim |-> c, draws |-> c, stale |-> FALSE]
  BY DEF ClaimRun, Row
<1>6. Row.status = "queued" /\ Row.draws = job.attempts
  BY <1>1 DEF Row
<1> QED
  BY <1>1, <1>4, <1>5, <1>6 DEF Promise!Draw

\* A claim that the transaction itself closes.
LEMMA ClaimClosedIsDrawClosed ==
  ASSUME IInv, NEW r \in Runners, ClaimRefused(r) \/ ClaimStoppedBeforePlatform(r)
  PROVE  Promise!DrawClosed
<1>1. /\ job.status = "queued" /\ job.attempts < MaxAttempts /\ age' = age
      /\ \E st \in {"failed", "succeeded"}, e \in Errors \ {"stale_applying"} :
           job' = ClosedByClaim(st, e)
  BY DEF ClaimRefused, ClaimStoppedBeforePlatform, Claimable, Errors
<1>2. \E st \in {"failed", "succeeded"} :
        Row' = [status |-> st, claim |-> 0, draws |-> job.attempts + 1, stale |-> FALSE]
  <2>1. PICK st \in {"failed", "succeeded"}, e \in Errors \ {"stale_applying"} :
             job' = ClosedByClaim(st, e)
    BY <1>1
  <2>2. /\ job'.status = st /\ job'.claim = 0 /\ job'.attempts = job.attempts + 1
        /\ job'.error = e /\ e # "stale_applying"
    BY <2>1 DEF ClosedByClaim
  <2>3. Row' = [status |-> st, claim |-> 0, draws |-> job.attempts + 1, stale |-> FALSE]
    BY <2>2 DEF Row
  <2> QED
    BY <2>3
<1>3. Live' = Live /\ Row.status = "queued" /\ Row.draws = job.attempts
  BY <1>1 DEF Live, Row
<1> QED
  BY <1>1, <1>2, <1>3 DEF Promise!DrawClosed

\* A stale close finds the lease over.
LEMMA CloseStaleIsCloseLapsed ==
  ASSUME IInv, NEW r \in Runners, CloseStale(r)
  PROVE  Promise!CloseLapsed
<1>1. /\ job.status = "applying" /\ job.claim = runner[r].claim /\ age[job.claim] >= Lease
      /\ age' = age
  BY DEF IInv, Expired, CloseStale, StillTheClaimRead
<1>2. job.claim \in Claims /\ age[job.claim] \in 0..Quiet
  BY <1>1 DEF IInv, TypeOK, Drawn
<1>3. job.claim \notin Live
  BY <1>1, <1>2, TimingAssumption DEF Live, Quiet
<1>4. /\ job'.status = "failed" /\ job'.error = "stale_applying" /\ job'.claim = job.claim
      /\ job'.attempts = job.attempts
  BY DEF IInv, TypeOK, RowOK, CloseStale
<1>5. Row' = [status |-> "failed", claim |-> Row.claim, draws |-> Row.draws, stale |-> TRUE]
  BY <1>4 DEF Row
<1>6. Live' = Live /\ Row.status = "applying" /\ Row.claim = job.claim
  BY <1>1 DEF Live, Row
<1> QED
  BY <1>3, <1>5, <1>6 DEF Promise!CloseLapsed, Promise!Lapsed

\* A settle finishes the row of a claim that was drawn.
LEMMA SettleIsFinish ==
  ASSUME IInv, NEW r \in Runners, Settle(r)
  PROVE  \E c \in Promise!Draws : Promise!Finish(c)
<1> DEFINE c == runner[r].claim
<1>1. Known(r) /\ runner[r].pc = "settle" /\ age' = age
  BY RunnerFacts DEF Settle
<1>2. c \in Promise!Draws /\ runner[r].failed # "stale_applying"
  BY <1>1 DEF Known, RunState, Claims, Promise!Draws
<1>3. job' = SettledRow(runner[r])
  BY DEF Settle
<1>4. /\ job'.status \in {"failed", "succeeded"} /\ job'.claim = 0
      /\ job'.attempts = job.attempts /\ job'.error # "stale_applying"
  BY <1>2, <1>3 DEF SettledRow
<1>5. \E st \in {"failed", "succeeded"} :
        Row' = [status |-> st, claim |-> 0, draws |-> Row.draws, stale |-> FALSE]
  BY <1>4 DEF Row
<1>6. \/ Row.status = "applying" /\ Row.claim = c
      \/ Row.status = "failed" /\ Row.stale
  BY DEF Settle, SameClaim, SupersededClose, Row
<1>7. Live' = Live
  BY <1>1 DEF Live
<1>8. Promise!Finish(c)
  BY <1>5, <1>6, <1>7 DEF Promise!Finish, Promise!MayFinish
<1> QED
  BY <1>2, <1>8

\* A requeue reopens a failed row.
LEMMA RequeueUpdateIsReopen ==
  ASSUME IInv, NEW q \in Askers, RequeueUpdate(q)
  PROVE  Promise!Reopen
<1>1. /\ job.status = "failed" /\ age' = age
      /\ job'.status = "queued" /\ job'.error = "none" /\ job'.claim = job.claim
      /\ job'.attempts = job.attempts
  BY DEF IInv, TypeOK, RowOK, RequeueUpdate, OpenToRequeue
<1>2. Row' = [status |-> "queued", claim |-> Row.claim, draws |-> Row.draws, stale |-> FALSE]
  BY <1>1 DEF Row
<1>3. Live' = Live /\ Row.status = "failed"
  BY <1>1 DEF Live, Row
<1> QED
  BY <1>2, <1>3 DEF Promise!Reopen

\* Time takes claims out of their lease, if any, and nothing else.
LEMMA TickIsLapse ==
  ASSUME IInv, Tick
  PROVE  (\E cs \in SUBSET Live : Promise!Lapse(cs)) \/ UNCHANGED <<Row, Live>>
<1>1. job' = job /\ \A c \in Claims : age[c] <= age'[c] /\ age[c] \in 0..Quiet /\ age'[c] \in 0..Quiet
  BY TimingAssumption DEF IInv, TypeOK, Tick, Quiet
<1>2. Row' = Row
  BY <1>1 DEF Row
<1>3. Live' \subseteq Live
  BY <1>1, TimingAssumption DEF Live, Quiet
<1>4. CASE Live' = Live
  BY <1>2, <1>4
<1>5. CASE Live' # Live
  <2> DEFINE cs == Live \ Live'
  <2>1. cs # {} /\ cs \subseteq Live /\ Live' = Live \ cs
    BY <1>3, <1>5
  <2>2. Promise!Lapse(cs)
    BY <1>2, <2>1 DEF Promise!Lapse
  <2> QED
    BY <2>1, <2>2
<1> QED
  BY <1>4, <1>5

\* Only claims and the clock change a claim's age.
LEMMA AgeSteps ==
  ASSUME [Next]_vars
  PROVE  age' = age \/ Tick \/ \E r \in Runners : ClaimRun(r)
<1>1. ASSUME NEW r \in Runners, Claim(r) \/ Close(r) \/ Execute(r) \/ Settling(r) \/ Crash(r)
      PROVE  age' = age \/ ClaimRun(r)
  <2>1. CASE Claim(r) \/ Close(r) \/ Settling(r) \/ Crash(r)
    BY <2>1 DEF Claim, Close, Settling, Crash, ClaimRefused, ClaimStoppedBeforePlatform,
                SeeExpired, CloseStale, CloseMissed, CloseAudit, SettleLost, Settle,
                ClientAudit, CallerAudit
  <2>2. CASE Execute(r)
    BY <2>2 DEF Execute, BeginExecute, FinishLoop, SkipDeadline, StartMutation,
      HoldClaim, LoseClaim,
                SkipMutation, RefuseWrite, RereadSwitch, SendWrite, Confirm, Rejected, Unconfirmed
  <2> QED
    BY <1>1, <2>1, <2>2
<1>2. ASSUME NEW q \in Askers, Requeue(q) PROVE age' = age
  BY <1>2 DEF Requeue, RequeueRead, RequeueReconcile, RequeueRefused, RequeueUpdate, RequeueMissed
<1>3. People \/ Platform \/ UNCHANGED vars => age' = age
  BY DEF People, Deny, MarkDone, Expire, SetWorkspace, Platform, Land, Drop, vars
<1> QED
  BY <1>1, <1>2, <1>3 DEF Next

\* Every step of the engine is a step of the promise or leaves it alone.
LEMMA NextIsPromised == IInv /\ [Next]_vars => [Promise!PromiseNext]_(Promise!promiseVars)
<1> SUFFICES ASSUME IInv, [Next]_vars
             PROVE  Promise!PromiseNext \/ UNCHANGED <<Row, Live>>
  BY DEF Promise!promiseVars
<1>1. ASSUME NEW r \in Runners, ClaimRun(r) PROVE Promise!PromiseNext
  BY <1>1, ClaimRunIsDraw DEF Promise!PromiseNext
<1>2. ASSUME NEW r \in Runners, ClaimRefused(r) \/ ClaimStoppedBeforePlatform(r)
      PROVE  Promise!PromiseNext
  BY <1>2, ClaimClosedIsDrawClosed DEF Promise!PromiseNext
<1>3. ASSUME NEW r \in Runners, CloseStale(r) PROVE Promise!PromiseNext
  BY <1>3, CloseStaleIsCloseLapsed DEF Promise!PromiseNext
<1>4. ASSUME NEW r \in Runners, Settle(r) PROVE Promise!PromiseNext
  BY <1>4, SettleIsFinish DEF Promise!PromiseNext
<1>5. ASSUME NEW q \in Askers, RequeueUpdate(q) PROVE Promise!PromiseNext
  BY <1>5, RequeueUpdateIsReopen DEF Promise!PromiseNext
<1>6. CASE Tick
  BY <1>6, TickIsLapse DEF Promise!PromiseNext
<1>7. ASSUME job' = job, age' = age PROVE UNCHANGED <<Row, Live>>
  BY <1>7 DEF Row, Live
<1> QED
  BY <1>1, <1>2, <1>3, <1>4, <1>5, <1>6, <1>7, RowSteps, AgeSteps

\* Whatever interleaving of claims, crashes, late settles, requeues and time
\* happens, the row lives as the promise says.
THEOREM Implementation == Spec => ImplementsPromise
<1>1. Init => Promise!PromiseInit
  BY InitIsPromised
<1>2. IInv /\ [Next]_vars => [Promise!PromiseNext]_(Promise!promiseVars)
  BY NextIsPromised
<1> QED
  BY <1>1, <1>2, Invariance, PTL DEF Spec, ImplementsPromise, Promise!PromiseSpec

-----------------------------------------------------------------------------
(* The engine next to the approval, as JobLife has it.                      *)

\* A write that is due is in the row already, and only one is; a row that says
\* it was closed as stale is a failed one.
LifeOK ==
  /\ WriteDue => job.status = "succeeded"
  /\ \A q, r \in Runners : Due(q) /\ Due(r) => q = r
  /\ job.error = "stale_applying" => job.status = "failed"

LEMMA InitLives == Init => LifeOK /\ Life!LifeInit
<1> SUFFICES ASSUME Init PROVE LifeOK /\ Life!LifeInit
  OBVIOUS
<1>1. \A r \in Runners : ~Due(r)
  BY DEF Init, Due, Idle, RunAt
<1> QED
  BY <1>1 DEF Init, LifeOK, WriteDue, Life!LifeInit, AuthorizationStillApplies, Blocked

\* A step of one run changes what is due of that run only.
LEMMA DueOfOthers ==
  ASSUME NEW r \in Runners, \A s \in Runners : s # r => runner'[s] = runner[s],
         Due(r)' <=> Due(r)
  PROVE  (WriteDue' <=> WriteDue) /\ (\A s \in Runners : Due(s)' <=> Due(s))
  BY DEF WriteDue, Due

\* Claims, executions and lost settles are not about what is due.
LEMMA ExecuteLeavesDue ==
  ASSUME IInv, NEW r \in Runners, Execute(r)
  PROVE  /\ WriteDue' <=> WriteDue
         /\ \A s \in Runners : Due(s)' <=> Due(s)
<1>1. runner \in [Runners -> RunState]
  BY DEF IInv, TypeOK, RunnersOK
<1>2. runner[r].pc # "client_audit"
  BY DEF Execute, BeginExecute, FinishLoop, SkipDeadline, StartMutation, HoldClaim, LoseClaim,
         SkipMutation, RefuseWrite, RereadSwitch, SendWrite, MayStillWrite, Confirm, Rejected,
         Unconfirmed
<1>3. /\ runner'[r].pc # "client_audit"
      /\ \A s \in Runners : s # r => runner'[s] = runner[s]
  <2>1. CASE BeginExecute(r) \/ StartMutation(r) \/ HoldClaim(r) \/ RereadSwitch(r) \/ SendWrite(r)
    BY <1>1, <2>1 DEF BeginExecute, StartMutation, HoldClaim, RereadSwitch, SendWrite, RunState
  <2>2. CASE SkipMutation(r) \/ Confirm(r)
    BY <1>1, <2>2 DEF SkipMutation, Confirm, RunState
  <2>3. CASE FinishLoop(r) \/ SkipDeadline(r) \/ LoseClaim(r) \/ RefuseWrite(r) \/ Rejected(r)
               \/ Unconfirmed(r)
    <3>1. PICK wrote, failed : LeaveLoop(r, wrote, failed)
      BY <2>3, RefusalLeaves DEF FinishLoop, SkipDeadline, LoseClaim, Unconfirmed
    <3> QED
      BY <1>1, <3>1 DEF LeaveLoop
  <2> QED
    BY <2>1, <2>2, <2>3 DEF Execute
<1>4. ~Due(r) /\ ~Due(r)'
  BY <1>2, <1>3 DEF Due
<1> QED
  BY <1>3, <1>4, DueOfOthers

LEMMA AsideLeavesDue ==
  ASSUME IInv, NEW r \in Runners,
         \/ ClaimRun(r) \/ SeeExpired(r) \/ Close(r) \/ SettleLost(r) \/ CallerAudit(r)
  PROVE  /\ WriteDue' <=> WriteDue
         /\ \A s \in Runners : Due(s)' <=> Due(s)
<1>1. runner \in [Runners -> RunState]
  BY DEF IInv, TypeOK, RunnersOK
<1>2. runner[r].pc # "client_audit"
  BY DEF ClaimRun, SeeExpired, Close, CloseStale, CloseMissed, CloseAudit, SettleLost, CallerAudit
<1>3. /\ runner'[r].pc # "client_audit"
      /\ \A s \in Runners : s # r => runner'[s] = runner[s]
  <2>1. CASE ClaimRun(r) \/ SeeExpired(r)
    BY <1>1, <2>1 DEF ClaimRun, SeeExpired, RunAt
  <2>2. CASE CloseStale(r)
    BY <1>1, <2>2 DEF CloseStale, RunState
  <2>3. CASE CloseMissed(r) \/ CloseAudit(r) \/ SettleLost(r) \/ CallerAudit(r)
    BY <1>1, <2>3 DEF CloseMissed, CloseAudit, SettleLost, CallerAudit, Idle, RunAt
  <2> QED
    BY <2>1, <2>2, <2>3 DEF Close
<1>4. ~Due(r) /\ ~Due(r)'
  BY <1>2, <1>3 DEF Due
<1> QED
  BY <1>3, <1>4, DueOfOthers

\* A step that is none of the row's, the approval's and the settings'.
LEMMA NoneOfLife ==
  ASSUME UNCHANGED <<job, auth, ws>>, WriteDue' <=> WriteDue
  PROVE  UNCHANGED Life!lifeVars
  BY DEF Life!lifeVars, AuthorizationStillApplies, Blocked

\* What is due stays so if no runner moves.
LEMMA StillDue ==
  ASSUME runner' = runner
  PROVE  (WriteDue' <=> WriteDue) /\ (\A s \in Runners : Due(s)' <=> Due(s))
  BY DEF WriteDue, Due

LEMMA DueKept ==
  ASSUME LifeOK, \A s \in Runners : Due(s)' => Due(s),
         job.status = "succeeded" => job'.status = "succeeded",
         job'.error = "stale_applying" => job'.status = "failed"
  PROVE  LifeOK'
  BY DEF LifeOK, WriteDue

\* A step of the approval and of the settings, or of nothing at all.
LEMMA JobStays ==
  ASSUME LifeOK, job' = job, \A s \in Runners : Due(s)' => Due(s)
  PROVE  LifeOK'
  BY DueKept DEF LifeOK

LEMMA ClaimLives ==
  ASSUME IInv, LifeOK, NEW r \in Runners, Claim(r)
  PROVE  LifeOK' /\ (Life!Take \/ UNCHANGED Life!lifeVars)
<1>1. CASE SeeExpired(r)
  <2>1. UNCHANGED <<job, auth, ws>>
    BY <1>1 DEF SeeExpired
  <2> QED
    BY <1>1, <2>1, AsideLeavesDue, NoneOfLife, JobStays
<1>2. CASE ClaimRefused(r) \/ ClaimStoppedBeforePlatform(r) \/ ClaimRun(r)
  <2>1. (WriteDue' <=> WriteDue) /\ (\A s \in Runners : Due(s)' <=> Due(s))
    <3>1. CASE ClaimRun(r)
      BY <3>1, AsideLeavesDue
    <3>2. CASE runner' = runner
      BY <3>2, StillDue
    <3> QED
      BY <1>2, <3>1, <3>2 DEF ClaimRefused, ClaimStoppedBeforePlatform
  <2>2. job.status = "queued" /\ UNCHANGED <<auth, ws>>
    BY <1>2 DEF ClaimRefused, ClaimStoppedBeforePlatform, ClaimRun, Claimable
  <2>3. job.error # "stale_applying"
    BY <2>2 DEF LifeOK
  <2>4. /\ job'.error # "stale_applying"
        /\ \/ job'.status = "failed"
           \/ job'.status \in {"applying", "succeeded"} /\ AuthorizationStillApplies /\ ~Blocked
    BY <1>2 DEF ClaimRefused, ClaimStoppedBeforePlatform, ClaimRun, ClosedByClaim, Blocked
  <2>5. Life!Take
    BY <2>1, <2>2, <2>3, <2>4 DEF Life!Take, AuthorizationStillApplies, Blocked, WriteDue
  <2> QED
    BY <2>1, <2>2, <2>4, <2>5, DueKept
<1> QED
  BY <1>1, <1>2 DEF Claim

LEMMA CloseLives ==
  ASSUME IInv, LifeOK, NEW r \in Runners, Close(r)
  PROVE  LifeOK' /\ (Life!Abandon \/ UNCHANGED Life!lifeVars)
<1>1. (WriteDue' <=> WriteDue) /\ (\A s \in Runners : Due(s)' <=> Due(s))
  BY AsideLeavesDue
<1>2. CASE CloseStale(r)
  <2>1. job.status = "applying" /\ UNCHANGED <<auth, ws>>
    BY <1>2 DEF CloseStale, StillTheClaimRead
  <2>2. job'.status = "failed" /\ job'.error = "stale_applying"
    BY <1>2 DEF CloseStale, IInv, TypeOK, RowOK
  <2>3. Life!Abandon
    BY <1>1, <2>1, <2>2 DEF Life!Abandon, AuthorizationStillApplies, Blocked, WriteDue
  <2> QED
    BY <1>1, <2>1, <2>2, <2>3, DueKept
<1>3. CASE CloseMissed(r) \/ CloseAudit(r)
  <2>1. UNCHANGED <<job, auth, ws>>
    BY <1>3 DEF CloseMissed, CloseAudit
  <2> QED
    BY <1>1, <2>1, NoneOfLife, JobStays
<1> QED
  BY <1>2, <1>3 DEF Close

\* Only a settle with a write makes one due, and none is while a row can be settled.
LEMMA SettleLives ==
  ASSUME IInv, LifeOK, NEW r \in Runners, Settle(r)
  PROVE  LifeOK' /\ \E wrote \in BOOLEAN : Life!Finish(wrote)
<1> DEFINE wrote == runner[r].wrote = "yes"
<1>1. runner \in [Runners -> RunState] /\ runner[r].failed # "stale_applying"
  BY DEF IInv, TypeOK, RunnersOK, RunState
<1>2. job.status = "applying" \/ (job.status = "failed" /\ job.error = "stale_applying")
  BY DEF Settle, SameClaim, SupersededClose
<1>3. \A s \in Runners : ~Due(s)
  BY <1>2 DEF LifeOK, WriteDue
<1>4. /\ runner'[r].pc = "client_audit" /\ runner'[r].wrote = runner[r].wrote
      /\ \A s \in Runners : s # r => runner'[s] = runner[s]
  BY <1>1 DEF Settle, RunState
<1>5. \A s \in Runners : Due(s)' <=> s = r /\ wrote
  BY <1>3, <1>4 DEF Due
<1>6. WriteDue' <=> wrote
  BY <1>5 DEF WriteDue
<1>7. /\ job'.error # "stale_applying"
      /\ \/ job'.status = "succeeded" /\ (wrote \/ AuthorizationStillApplies)
         \/ job'.status = "failed" /\ ~wrote
  BY <1>1 DEF Settle, SettledRow
<1>8. UNCHANGED <<auth, ws>>
  BY DEF Settle
<1>9. Life!Finish(wrote)
  BY <1>2, <1>6, <1>7, <1>8 DEF Life!Finish, Life!Unsettled, AuthorizationStillApplies, Blocked
<1>10. LifeOK'
  BY <1>5, <1>6, <1>7 DEF LifeOK
<1> QED
  BY <1>9, <1>10

\* What is due is shown by the client's audit, or lost with the process.
LEMMA AuditLives ==
  ASSUME IInv, LifeOK, NEW r \in Runners, ClientAudit(r) \/ Crash(r)
  PROVE  LifeOK' /\ (Life!Show \/ UNCHANGED Life!lifeVars)
<1>1. runner \in [Runners -> RunState]
  BY DEF IInv, TypeOK, RunnersOK
<1>2. /\ runner'[r].pc # "client_audit"
      /\ \A s \in Runners : s # r => runner'[s] = runner[s]
  BY <1>1 DEF ClientAudit, Crash, Idle, RunAt, RunState
<1>3. UNCHANGED <<job, ws>>
  BY DEF ClientAudit, Crash
<1>4. ~Due(r)' /\ \A s \in Runners : s # r => (Due(s)' <=> Due(s))
  BY <1>2 DEF Due
<1>5. LifeOK'
  BY <1>3, <1>4, JobStays
<1>6. CASE Due(r)
  <2>1. WriteDue /\ ~WriteDue'
    BY <1>4, <1>6 DEF WriteDue, LifeOK
  <2>2. /\ auth'.live = auth.live /\ auth'.rec = auth.rec
        /\ auth'.executedBy \in {auth.executedBy, "cerevex_apply"}
    BY DEF ClientAudit, Crash, ExecutedBy, IInv, TypeOK, ApprovalState
  <2>3. Life!Show
    BY <1>3, <2>1, <2>2 DEF Life!Show, AuthorizationStillApplies, Blocked
  <2> QED
    BY <1>5, <2>3
<1>7. CASE ~Due(r)
  <2>1. auth' = auth
    BY <1>7 DEF ClientAudit, Crash, ExecutedBy, Due, IInv, TypeOK, ApprovalState
  <2>2. WriteDue' <=> WriteDue
    BY <1>4, <1>7 DEF WriteDue
  <2> QED
    BY <1>3, <1>5, <2>1, <2>2, NoneOfLife
<1> QED
  BY <1>6, <1>7

LEMMA RequeueLives ==
  ASSUME IInv, LifeOK, NEW q \in Askers, Requeue(q)
  PROVE  LifeOK' /\ (Life!Reopen \/ UNCHANGED Life!lifeVars)
<1>1. runner' = runner /\ UNCHANGED <<auth, ws>>
  BY DEF Requeue, RequeueRead, RequeueReconcile, RequeueRefused, RequeueUpdate, RequeueMissed
<1>2. (WriteDue' <=> WriteDue) /\ (\A s \in Runners : Due(s)' <=> Due(s))
  BY <1>1, StillDue
<1>3. CASE RequeueUpdate(q)
  <2>1. job.status = "failed" /\ job'.status = "queued" /\ job'.error = "none"
    BY <1>3 DEF RequeueUpdate, OpenToRequeue, IInv, TypeOK, RowOK
  <2>2. Life!Reopen
    BY <1>1, <1>2, <2>1 DEF Life!Reopen, AuthorizationStillApplies, Blocked, WriteDue
  <2> QED
    BY <1>2, <2>1, <2>2, DueKept
<1>4. CASE job' = job
  BY <1>1, <1>2, <1>4, NoneOfLife, JobStays
<1> QED
  BY <1>3, <1>4 DEF Requeue, RequeueRead, RequeueReconcile, RequeueRefused, RequeueMissed

LEMMA PeopleLive ==
  ASSUME IInv, LifeOK, People
  PROVE  LifeOK' /\ (Life!Withdraw \/ Life!DoByHand \/ Life!Switch \/ UNCHANGED Life!lifeVars)
<1>1. job' = job /\ runner' = runner
  BY DEF People, Deny, MarkDone, Expire, SetWorkspace
<1>2. (WriteDue' <=> WriteDue) /\ (\A s \in Runners : Due(s)' <=> Due(s))
  BY <1>1, StillDue
<1>3. LifeOK'
  BY <1>1, <1>2, JobStays
<1>4. auth \in ApprovalState
  BY DEF IInv, TypeOK
<1>5. CASE Deny \/ Expire
  <2>1. ws' = ws /\ auth'.executedBy = auth.executedBy /\ auth'.live = FALSE
    BY <1>4, <1>5 DEF Deny, Expire, ApprovalState
  <2>2. ~AuthorizationStillApplies'
    BY <2>1 DEF AuthorizationStillApplies
  <2>3. CASE AuthorizationStillApplies
    BY <1>1, <1>2, <1>3, <2>1, <2>2, <2>3 DEF Life!Withdraw, Blocked, AuthorizationStillApplies, WriteDue
  <2>4. CASE ~AuthorizationStillApplies
    BY <1>1, <1>2, <1>3, <2>1, <2>2, <2>4 DEF Life!lifeVars, Blocked, AuthorizationStillApplies, WriteDue
  <2> QED
    BY <1>3, <2>3, <2>4
<1>6. CASE MarkDone
  <2>1. /\ ws' = ws /\ auth.executedBy = "nobody" /\ auth'.executedBy = "human"
        /\ auth'.live = FALSE
    BY <1>4, <1>6 DEF MarkDone, ApprovalState
  <2>2. ~AuthorizationStillApplies'
    BY <2>1 DEF AuthorizationStillApplies
  <2>3. Life!DoByHand
    BY <1>1, <1>2, <2>1, <2>2 DEF Life!DoByHand, Blocked, AuthorizationStillApplies, WriteDue
  <2> QED
    BY <1>3, <2>3
<1>7. CASE \E x \in Settings : SetWorkspace(x)
  <2>1. auth' = auth
    BY <1>7 DEF SetWorkspace
  <2>2. CASE Blocked' <=> Blocked
    BY <1>1, <1>2, <1>3, <2>1, <2>2 DEF Life!lifeVars, AuthorizationStillApplies, WriteDue
  <2>3. CASE ~(Blocked' <=> Blocked)
    BY <1>1, <1>2, <1>3, <2>1, <2>3 DEF Life!Switch, AuthorizationStillApplies, WriteDue
  <2> QED
    BY <1>3, <2>2, <2>3
<1> QED
  BY <1>5, <1>6, <1>7 DEF People

\* Every step of the engine is one of the job's life or none of it.
LEMMA EngineLives == IInv /\ LifeOK /\ [Next]_vars => LifeOK' /\ [Life!LifeNext]_(Life!lifeVars)
<1> SUFFICES ASSUME IInv, LifeOK, [Next]_vars
             PROVE  LifeOK' /\ (Life!LifeNext \/ UNCHANGED Life!lifeVars)
  OBVIOUS
<1>1. ASSUME NEW r \in Runners, Claim(r) \/ Close(r) \/ Execute(r) \/ Settling(r) \/ Crash(r)
      PROVE  LifeOK' /\ (Life!LifeNext \/ UNCHANGED Life!lifeVars)
  <2>1. CASE Claim(r)
    BY <2>1, ClaimLives DEF Life!LifeNext
  <2>2. CASE Close(r)
    BY <2>2, CloseLives DEF Life!LifeNext
  <2>3. CASE Execute(r)
    <3>1. UNCHANGED <<job, auth, ws>>
      BY <2>3 DEF Execute, BeginExecute, FinishLoop, SkipDeadline, StartMutation, HoldClaim,
        LoseClaim, SkipMutation, RefuseWrite, RereadSwitch, SendWrite, Confirm, Rejected, Unconfirmed
    <3> QED
      BY <2>3, <3>1, ExecuteLeavesDue, NoneOfLife, JobStays
  <2>4. CASE Settle(r)
    BY <2>4, SettleLives DEF Life!LifeNext
  <2>5. CASE SettleLost(r) \/ CallerAudit(r)
    <3>1. UNCHANGED <<job, auth, ws>>
      BY <2>5 DEF SettleLost, CallerAudit
    <3> QED
      BY <2>5, <3>1, AsideLeavesDue, NoneOfLife, JobStays
  <2>6. CASE ClientAudit(r) \/ Crash(r)
    BY <2>6, AuditLives DEF Life!LifeNext
  <2> QED
    BY <1>1, <2>1, <2>2, <2>3, <2>4, <2>5, <2>6 DEF Settling
<1>2. ASSUME NEW q \in Askers, Requeue(q)
      PROVE  LifeOK' /\ (Life!LifeNext \/ UNCHANGED Life!lifeVars)
  BY <1>2, RequeueLives DEF Life!LifeNext
<1>3. CASE People
  BY <1>3, PeopleLive DEF Life!LifeNext
<1>4. CASE Platform \/ Tick \/ UNCHANGED vars
  <2>1. UNCHANGED <<job, auth, ws>>
    BY <1>4 DEF Platform, Land, Drop, Tick, vars
  <2>2. (WriteDue' <=> WriteDue) /\ (\A s \in Runners : Due(s)' <=> Due(s))
    <3>1. \A s \in Runners : runner'[s].pc = runner[s].pc /\ runner'[s].wrote = runner[s].wrote
      BY <1>4 DEF Platform, Land, Drop, Tick, vars, IInv, TypeOK, RunnersOK, RunState
    <3> QED
      BY <3>1 DEF WriteDue, Due
  <2> QED
    BY <2>1, <2>2, NoneOfLife, JobStays
<1> QED
  BY <1>1, <1>2, <1>3, <1>4 DEF Next

\* Under all its interleavings the engine keeps what the routes count on: a run
\* starts only on an approval, only a write makes a withdrawn run succeed, and
\* a write is stamped or lost once (apply.ts:724-866, 1102-1281).
THEOREM EngineKeepsLife == Spec => LivesAsPromised
<1>1. Init => LifeOK /\ Life!LifeInit
  BY InitLives
<1>2. IInv /\ LifeOK /\ [Next]_vars => LifeOK' /\ [Life!LifeNext]_(Life!lifeVars)
  BY EngineLives
<1> QED
  BY <1>1, <1>2, Invariance, PTL DEF Spec, LivesAsPromised, Life!LifeSpec

-----------------------------------------------------------------------------
(* The kill switch and the request that was past its re-read.              *)

\* Run r may send without a further look at the switch.
Ready(r) == runner[r].pc = "cleared" /\ runner[r].left > 0

OneLeft ==
  /\ sinceKill \in {0, 1}
  /\ ws = "killed" /\ sinceKill = 1 => \A r \in Runners : ~Ready(r)

\* A request leaves, and a run comes to be ready, in one way only.
LEMMA ReadySteps ==
  ASSUME IInv, [Next]_vars, NEW r \in Runners
  PROVE  /\ runner[r].pc # "sent" /\ runner'[r].pc = "sent" => SendWrite(r)
         /\ Ready(r)' => Ready(r) \/ RereadSwitch(r)
<1> DEFINE Goal == /\ runner[r].pc # "sent" /\ runner'[r].pc = "sent" => SendWrite(r)
                   /\ Ready(r)' => Ready(r) \/ RereadSwitch(r)
<1>1. runner \in [Runners -> RunState]
  BY DEF IInv, TypeOK, RunnersOK
<1>2. CASE UNCHANGED runner
  BY <1>2 DEF Ready
<1>3. ASSUME NEW s \in Runners, s # r, runner'[r] = runner[r] PROVE Goal
  BY <1>3 DEF Ready
<1>4. ASSUME NEW s \in Runners, Claim(s) \/ Close(s) \/ Settling(s) \/ Crash(s) PROVE Goal
  <2>1. UNCHANGED runner \/ \E x : runner' = [runner EXCEPT ![s] = x] /\ x.pc \notin {"sent", "cleared"}
    <3>1. CASE Settling(s) \/ Crash(s)
      BY <1>1, <1>4, <3>1
      DEF Settling, Crash, Settle, SettleLost, ClientAudit, CallerAudit, Idle, RunAt, RunState
    <3>2. CASE Claim(s)
      BY <1>1, <3>2
      DEF Claim, ClaimRefused, ClaimStoppedBeforePlatform, ClaimRun, SeeExpired, Idle, RunAt
    <3>3. CASE Close(s)
      <4>1. CASE CloseStale(s)
        <5> DEFINE x == [runner[s] EXCEPT !.pc = "close_audit"]
        <5>1. runner' = [runner EXCEPT ![s] = x]
          BY <4>1 DEF CloseStale
        <5>2. x.pc = "close_audit"
          BY <1>1 DEF RunState
        <5> QED
          BY <5>1, <5>2
      <4>2. CASE CloseMissed(s) \/ CloseAudit(s)
        BY <4>2 DEF CloseMissed, CloseAudit, Idle, RunAt
      <4> QED
        BY <3>3, <4>1, <4>2 DEF Close
    <3> QED
      BY <1>4, <3>1, <3>2, <3>3
  <2> QED
    BY <1>1, <1>2, <2>1 DEF Ready
<1>5. ASSUME NEW s \in Runners, Execute(s) PROVE Goal
  <2>1. CASE SendWrite(s) \/ RereadSwitch(s)
    BY <1>1, <2>1 DEF SendWrite, RereadSwitch, Ready, RunState
  <2>2. CASE BeginExecute(s) \/ StartMutation(s) \/ HoldClaim(s) \/ SkipMutation(s) \/ Confirm(s)
    BY <1>1, <2>2 DEF BeginExecute, StartMutation, HoldClaim, SkipMutation, Confirm, Ready, RunState
  <2>3. CASE FinishLoop(s) \/ SkipDeadline(s) \/ LoseClaim(s) \/ RefuseWrite(s) \/ Rejected(s)
             \/ Unconfirmed(s)
    <3>1. PICK wrote, failed : LeaveLoop(s, wrote, failed)
      BY <2>3, RefusalLeaves DEF FinishLoop, SkipDeadline, LoseClaim, Unconfirmed
    <3> QED
      BY <1>1, <3>1 DEF LeaveLoop, Ready, RunState
  <2> QED
    BY <1>5, <2>1, <2>2, <2>3 DEF Execute
<1>6. CASE Tick
  BY <1>1, <1>6 DEF Tick, Ready, RunState
<1>7. CASE People \/ Platform \/ (\E q \in Askers : Requeue(q)) \/ UNCHANGED vars
  <2>1. UNCHANGED runner
    BY <1>7 DEF People, Deny, MarkDone, Expire, SetWorkspace, Platform, Land, Drop, Requeue,
       RequeueRead, RequeueReconcile, RequeueRefused, RequeueUpdate, RequeueMissed, vars
  <2> QED
    BY <1>2, <2>1
<1> QED
  BY <1>4, <1>5, <1>6, <1>7 DEF Next

\* One run at most is ready.
LEMMA OneReady ==
  ASSUME IInv, NEW r \in Runners, NEW s \in Runners, Ready(r), Ready(s)
  PROVE  r = s
  BY BudgetHolds DEF Ready, IInv, OwnClaims, Running

LEMMA SwitchKeeps ==
  ASSUME IInv, OneLeft, [Next]_vars, Count
  PROVE  OneLeft'
<1>1. CASE ws' # "killed" \/ ws # "killed"
  BY <1>1 DEF OneLeft, Count
<1>2. CASE ws' = "killed" /\ ws = "killed"
  <2>1. \A r \in Runners : Ready(r)' => Ready(r)
    BY <1>2, ReadySteps DEF RereadSwitch, SwitchStillOff
  <2>2. CASE SentNow
    <3>1. PICK r \in Runners : runner[r].pc # "sent" /\ runner'[r].pc = "sent"
      BY <2>2 DEF SentNow
    <3>2. Ready(r)
      BY <2>2, <3>1, ReadySteps DEF SendWrite, MayStillWrite, Ready, SentNow
    <3>3. sinceKill = 0 /\ sinceKill' = 1
      BY <1>2, <2>2, <3>2 DEF OneLeft, Count
    <3>4. \A s \in Runners : ~Ready(s)'
      BY <2>1, <3>1, <3>2, OneReady DEF Ready
    <3> QED
      BY <3>3, <3>4 DEF OneLeft
  <2>3. CASE ~SentNow
    BY <1>2, <2>1, <2>3 DEF OneLeft, Count
  <2> QED
    BY <2>2, <2>3
<1> QED
  BY <1>1, <1>2

\* However many runs, requests and claims there are: after the switch is on, only
\* the request that was past its re-read leaves.
THEOREM OneSendOnly == SwitchSpec => []OneSendAfterSwitch
<1>1. Init /\ sinceKill = 0 => IInv /\ OneLeft
  BY InitIInv DEF OneLeft
<1>2. IInv /\ OneLeft /\ [Next /\ Count]_<<vars, sinceKill>> => IInv' /\ OneLeft'
  <2> SUFFICES ASSUME IInv, OneLeft, [Next /\ Count]_<<vars, sinceKill>>
               PROVE  IInv' /\ OneLeft'
    OBVIOUS
  <2>1. IInv'
    BY NextKeeps
  <2>2. CASE Next /\ Count
    BY <2>1, <2>2, SwitchKeeps
  <2>3. CASE UNCHANGED <<vars, sinceKill>>
    BY <2>1, <2>3 DEF OneLeft, Ready, vars
  <2> QED
    BY <2>2, <2>3
<1>3. OneLeft => OneSendAfterSwitch
  BY DEF OneLeft, OneSendAfterSwitch
<1> QED
  BY <1>1, <1>2, <1>3, PTL DEF SwitchSpec

-----------------------------------------------------------------------------
(* ApplyDelivery: worker, inline requests and routes on the same row.      *)

\* Who wrote, or is about to write, the outcome of claim c.
Authors(c) == auditors[c] \cup {x \in Callers : run[x].pc = "audit" /\ run[x].about = c}

\* Nobody audits a claim before it is drawn and over, and then one caller does.
AuthorsOK ==
  \A c \in Draws :
    /\ \A x, y \in Authors(c) : x = y
    /\ Authors(c) # {} => c <= row.draws /\ ~(row.status = "applying" /\ row.claim = c)

DInv == DeliveryTypeOK /\ row.claim <= row.draws /\ AuthorsOK

RowState == [status : {"queued", "applying", "failed", "succeeded"},
             claim : 0..MaxDraws, draws : 0..MaxDraws, stale : BOOLEAN]

\* The row names a claim that was drawn.
RowDrawn == PromiseTypeOK /\ row.claim <= row.draws

LEMMA RowBecomes ==
  ASSUME NEW status \in {"queued", "applying", "failed", "succeeded"}, NEW claim \in 0..MaxDraws,
         NEW draws \in 0..MaxDraws, NEW stale \in BOOLEAN,
         row' = [status |-> status, claim |-> claim, draws |-> draws, stale |-> stale]
  PROVE  /\ row' \in RowState
         /\ row'.status = status /\ row'.claim = claim /\ row'.draws = draws
  BY DEF RowState

\* A row step keeps the types and draws claims in order; what is applying was
\* applying or is new.
LEMMA PromiseSteps ==
  ASSUME RowDrawn, [PromiseNext]_promiseVars
  PROVE  /\ RowDrawn'
         /\ row.draws <= row'.draws
         /\ row'.status = "applying" =>
              \/ row.status = "applying" /\ row'.claim = row.claim
              \/ row'.claim > row.draws
<1> DEFINE Goal == /\ row' \in RowState
                   /\ row'.claim <= row'.draws
                   /\ row.draws <= row'.draws
                   /\ row'.status = "applying" =>
                        \/ row.status = "applying" /\ row'.claim = row.claim
                        \/ row'.claim > row.draws
<1>1. row \in RowState /\ live \subseteq Draws /\ row.claim <= row.draws
  BY DEF RowDrawn, PromiseTypeOK, RowState
<1>2. /\ row.draws \in 0..MaxDraws /\ row.claim \in 0..MaxDraws /\ row.draws <= row.draws
      /\ 0 \in 0..MaxDraws /\ 0 <= row.draws
  BY <1>1, DrawsAssumption DEF RowState
<1>3. row.draws < MaxDraws => /\ row.draws + 1 \in 0..MaxDraws /\ row.draws + 1 \in Draws
                              /\ row.draws <= row.draws + 1 /\ row.draws + 1 > row.draws
                              /\ row.draws + 1 <= row.draws + 1 /\ 0 <= row.draws + 1
  BY <1>2, DrawsAssumption DEF Draws
<1>4. CASE Draw
  <2>1. Goal
    BY <1>2, <1>3, <1>4, RowBecomes DEF Draw
  <2>2. live' \subseteq Draws
    BY <1>1, <1>3, <1>4 DEF Draw
  <2> QED BY <2>1, <2>2 DEF RowDrawn, PromiseTypeOK, RowState
<1>5. CASE DrawClosed
  <2>1. PICK st \in {"failed", "succeeded"} :
          row' = [status |-> st, claim |-> 0, draws |-> row.draws + 1, stale |-> FALSE]
    BY <1>5 DEF DrawClosed
  <2>2. Goal
    BY <1>2, <1>3, <1>5, <2>1, RowBecomes DEF DrawClosed
  <2> QED BY <1>1, <1>5, <2>2 DEF DrawClosed, RowDrawn, PromiseTypeOK, RowState
<1>6. CASE CloseLapsed
  <2>1. Goal
    BY <1>1, <1>2, <1>6, RowBecomes DEF CloseLapsed
  <2> QED BY <1>1, <1>6, <2>1 DEF CloseLapsed, RowDrawn, PromiseTypeOK, RowState
<1>7. CASE Reopen
  <2>1. Goal
    BY <1>1, <1>2, <1>7, RowBecomes DEF Reopen
  <2> QED BY <1>1, <1>7, <2>1 DEF Reopen, RowDrawn, PromiseTypeOK, RowState
<1>8. ASSUME NEW c \in Draws, Finish(c)
      PROVE  Goal /\ UNCHANGED live
  <2>1. PICK st \in {"failed", "succeeded"} :
          row' = [status |-> st, claim |-> 0, draws |-> row.draws, stale |-> FALSE]
    BY <1>8 DEF Finish
  <2> QED BY <1>2, <1>8, <2>1, RowBecomes DEF Finish
<1>9. CASE \E c \in Draws : Finish(c)
  BY <1>1, <1>8, <1>9 DEF RowDrawn, PromiseTypeOK, RowState
<1>10. CASE UNCHANGED row /\ live' \subseteq live
  BY <1>1, <1>2, <1>10 DEF RowDrawn, PromiseTypeOK
<1> QED
  BY <1>4, <1>5, <1>6, <1>7, <1>9, <1>10 DEF PromiseNext, promiseVars, Lapse

\* A held claim that is not the absence of one was drawn.
LEMMA HeldIsDrawn ==
  ASSUME DeliveryTypeOK, NEW x \in Callers, run[x].held # 0
  PROVE  run[x].held \in Draws
<1>1. run[x].held \in 0..MaxDraws
  BY DEF DeliveryTypeOK, CallerState
<1> QED BY <1>1, DrawsAssumption DEF Draws

\* Whatever a caller, the routes or the clock do to the row is a step of the
\* promise.
LEMMA RowsArePromised ==
  ASSUME DeliveryTypeOK, [DeliveryNext]_deliveryVars
  PROVE  [PromiseNext]_promiseVars
<1>1. ASSUME NEW x \in Callers, RunJob(x) PROVE [PromiseNext]_promiseVars
  <2>1. CASE RunSettle(x)
    BY <2>1, HeldIsDrawn DEF RunSettle, PromiseNext, promiseVars
  <2> QED
    BY <1>1, <2>1 DEF RunJob, RunDraw, RunDrawClosed, RunCloseStale, RunReplay, RunInProgress,
      PromiseNext, promiseVars
<1>2. CASE WorkerStep
  BY <1>1, <1>2 DEF WorkerStep, Callers, StartWorker, Measure, Wake, CloseStuck, Audit,
    PromiseNext, promiseVars
<1>3. ASSUME NEW x \in Inliners, RunJob(x) \/ Audit(x) \/ StartInline(x)
      PROVE  [PromiseNext]_promiseVars
  BY <1>1, <1>3 DEF Callers, Audit, StartInline, PromiseNext, promiseVars
<1>4. ASSUME NEW c \in Draws, LeaseEnds(c) PROVE [PromiseNext]_promiseVars
  BY <1>4 DEF LeaseEnds, Lapse, PromiseNext, promiseVars
<1>5. CASE \/ \E x \in Callers : CrashCaller(x)
           \/ PostApply \/ RequeueRow \/ RequeueSend \/ ForgetEvent \/ UNCHANGED deliveryVars
  BY <1>5 DEF CrashCaller, PostApply, RequeueRow, RequeueSend, ForgetEvent, deliveryVars,
    PromiseNext, promiseVars
<1> QED
  BY <1>2, <1>3, <1>4, <1>5 DEF DeliveryNext

-----------------------------------------------------------------------------
\* Caller x alone moves, to a state of its kind.
Turn(x) ==
  /\ run' \in [Callers -> CallerState]
  /\ \A y \in Callers \ {x} : run'[y] = run[y]

LEMMA OffState == Off \in CallerState /\ Off.pc = "off"
  BY DrawsAssumption, DeliveryAssumption DEF CallerState, Off

LEMMA StartState ==
  /\ [Off EXCEPT !.pc = "execute"] \in CallerState
  /\ [Off EXCEPT !.pc = "execute"].pc = "execute"
  BY DrawsAssumption, DeliveryAssumption DEF CallerState, Off

LEMMA GoState ==
  ASSUME NEW s \in CallerState, NEW pc \in {"off", "sleep", "recheck", "close"}
  PROVE  /\ [s EXCEPT !.pc = pc, !.held = 0, !.tries = 0] \in CallerState
         /\ [s EXCEPT !.pc = pc, !.held = 0, !.tries = 0].pc = pc
<1>1. 0 \in 0..MaxDraws /\ 0 \in 0..Retries
  BY DrawsAssumption, DeliveryAssumption
<1> QED BY <1>1 DEF CallerState

LEMMA HeldState ==
  ASSUME NEW s \in CallerState, NEW c \in 0..MaxDraws
  PROVE  [s EXCEPT !.held = c] \in CallerState /\ [s EXCEPT !.held = c].pc = s.pc
  BY DEF CallerState

LEMMA MeasureState ==
  ASSUME NEW s \in CallerState, NEW c \in 0..MaxDraws
  PROVE  LET t == [s EXCEPT !.pc = "measure", !.token = c, !.tries = 0]
         IN  t \in CallerState /\ t.pc = "measure"
<1>1. 0 \in 0..Retries
  BY DeliveryAssumption
<1> QED BY <1>1 DEF CallerState

LEMMA RetryState ==
  ASSUME NEW s \in CallerState, s.tries < Retries
  PROVE  LET t == [s EXCEPT !.held = 0, !.tries = @ + 1]
         IN  t \in CallerState /\ t.pc = s.pc /\ t.about = s.about
<1>1. 0 \in 0..MaxDraws /\ s.tries + 1 \in 0..Retries
  BY DrawsAssumption, DeliveryAssumption DEF CallerState
<1> QED BY <1>1 DEF CallerState

LEMMA DeadState ==
  ASSUME NEW s \in CallerState
  PROVE  LET t == [s EXCEPT !.held = 0, !.pc = "dead"] IN t \in CallerState /\ t.pc = "dead"
<1>1. 0 \in 0..MaxDraws
  BY DrawsAssumption
<1> QED BY <1>1 DEF CallerState

LEMMA Sets ==
  ASSUME DeliveryTypeOK, NEW x \in Callers, NEW s \in CallerState, run' = [run EXCEPT ![x] = s]
  PROVE  Turn(x) /\ run'[x] = s
  BY DEF DeliveryTypeOK, Turn

LEMMA GoesOn ==
  ASSUME DeliveryTypeOK, NEW x \in Callers, NEW pc \in {"off", "sleep", "recheck", "close"}, Goes(x, pc)
  PROVE  Turn(x) /\ run'[x].pc = pc
<1> DEFINE s == [run[x] EXCEPT !.pc = pc, !.held = 0, !.tries = 0]
<1>1. run[x] \in CallerState
  BY DEF DeliveryTypeOK
<1>2. s \in CallerState /\ s.pc = pc
  BY <1>1, GoState
<1>3. run' = [run EXCEPT ![x] = s]
  BY DEF Goes
<1> HIDE DEF s
<1> QED BY <1>2, <1>3, Sets

\* A caller that breaks audits nothing it was not about to audit.
LEMMA BreaksOff ==
  ASSUME DeliveryTypeOK, NEW x \in Callers, Breaks(x)
  PROVE  /\ Turn(x)
         /\ run'[x].pc = "audit" => run[x].pc = "audit" /\ run'[x].about = run[x].about
<1>1. run[x] \in CallerState
  BY DEF DeliveryTypeOK
<1>2. CASE x = Worker /\ run[x].tries < Retries /\ run' = [run EXCEPT ![x].held = 0, ![x].tries = @ + 1]
  <2> DEFINE s == [run[x] EXCEPT !.held = 0, !.tries = @ + 1]
  <2>1. s \in CallerState /\ s.pc = run[x].pc /\ s.about = run[x].about
    BY <1>1, <1>2, RetryState
  <2>2. run' = [run EXCEPT ![x] = s]
    BY <1>2
  <2> HIDE DEF s
  <2> QED BY <2>1, <2>2, Sets
<1>3. CASE x = Worker /\ run[x].tries = Retries /\ run' = [run EXCEPT ![x].held = 0, ![x].pc = "dead"]
  <2> DEFINE s == [run[x] EXCEPT !.held = 0, !.pc = "dead"]
  <2>1. s \in CallerState /\ s.pc = "dead"
    BY <1>1, DeadState
  <2>2. run' = [run EXCEPT ![x] = s]
    BY <1>3
  <2> HIDE DEF s
  <2> QED BY <2>1, <2>2, Sets
<1>4. CASE x # Worker /\ run' = [run EXCEPT ![x] = Off]
  BY <1>1, <1>4, OffState, Sets
<1> QED
  BY <1>2, <1>3, <1>4 DEF Breaks

\* The end of a caller's work: it audits claim c if the result is one to audit.
LEMMA EndsOff ==
  ASSUME DeliveryTypeOK, NEW x \in Callers, NEW result, NEW c \in 0..MaxDraws, Ends(x, result, c)
  PROVE  /\ Turn(x)
         /\ run'[x].pc = "audit" =>
              \/ run[x].pc = "audit" /\ run'[x].about = run[x].about
              \/ ShouldRecord(result) /\ run'[x].about = c
<1>1. CASE Breaks(x)
  BY <1>1, BreaksOff
<1>2. CASE ~Breaks(x)
  <2>0. 0 \in 0..MaxDraws /\ 0 \in 0..Retries
    BY DrawsAssumption, DeliveryAssumption
  <2>1. run[x] \in CallerState
    BY DEF DeliveryTypeOK
  <2>2. PICK pc \in {"off", "audit"} :
          /\ pc = "audit" => ShouldRecord(result)
          /\ run' = [run EXCEPT ![x].held = 0, ![x].tries = 0, ![x].about = c, ![x].pc = pc]
    BY <1>2 DEF Ends
  <2> DEFINE s == [run[x] EXCEPT !.held = 0, !.tries = 0, !.about = c, !.pc = pc]
  <2>3. s \in CallerState /\ s.pc = pc /\ s.about = c
    BY <2>0, <2>1, <2>2 DEF CallerState
  <2>4. run' = [run EXCEPT ![x] = s]
    BY <2>2
  <2> HIDE DEF s
  <2> QED BY <2>2, <2>3, <2>4, Sets
<1> QED BY <1>1, <1>2

-----------------------------------------------------------------------------
\* Nobody becomes an author.
NoNewAuthor == \A c \in Draws : Authors(c)' \subseteq Authors(c)

\* Caller x becomes the author of a claim that is over and had none.
NewAuthor(x) ==
  \E c \in Draws :
    /\ Authors(c) = {} /\ Authors(c)' \subseteq {x}
    /\ c <= row'.draws /\ row'.status # "applying"
    /\ \A d \in Draws \ {c} : Authors(d)' \subseteq Authors(d)

LEMMA AuthorsKept ==
  ASSUME DInv, [PromiseNext]_promiseVars, NoNewAuthor \/ \E x \in Callers : NewAuthor(x)
  PROVE  AuthorsOK'
<1>1. /\ row.draws <= row'.draws
      /\ row'.status = "applying" => \/ row.status = "applying" /\ row'.claim = row.claim
                                     \/ row'.claim > row.draws
      /\ row.draws \in Nat /\ row'.draws \in Nat /\ row'.claim \in Nat
  <2>1. RowDrawn
    BY DEF DInv, DeliveryTypeOK, RowDrawn
  <2>2. RowDrawn'
    BY <2>1, PromiseSteps
  <2> QED BY <2>1, <2>2, PromiseSteps DEF RowDrawn, PromiseTypeOK
<1>2. ASSUME NEW c \in Draws, Authors(c)' \subseteq Authors(c)
      PROVE  /\ \A x, y \in Authors(c)' : x = y
             /\ Authors(c)' # {} => c <= row'.draws /\ ~(row'.status = "applying" /\ row'.claim = c)
  <2>1. c \in Nat
    BY DEF Draws
  <2>2. Authors(c)' # {} => c <= row.draws /\ ~(row.status = "applying" /\ row.claim = c)
    BY <1>2 DEF DInv, AuthorsOK
  <2>3. \A x, y \in Authors(c)' : x = y
    BY <1>2 DEF DInv, AuthorsOK
  <2> QED BY <1>1, <2>1, <2>2, <2>3
<1>3. CASE NoNewAuthor
  BY <1>2, <1>3 DEF NoNewAuthor, AuthorsOK
<1>4. ASSUME NEW x \in Callers, NewAuthor(x) PROVE AuthorsOK'
  BY <1>2, <1>4 DEF NewAuthor, AuthorsOK
<1> QED BY <1>3, <1>4

\* A caller that moves and comes to audit nothing new makes no author.
LEMMA TurnsAway ==
  ASSUME NEW x \in Callers, Turn(x), UNCHANGED auditors,
         run'[x].pc = "audit" => run[x].pc = "audit" /\ run'[x].about = run[x].about
  PROVE  NoNewAuthor
  BY DEF Turn, NoNewAuthor, Authors

LEMMA TurnsToAudit ==
  ASSUME DInv, [PromiseNext]_promiseVars, NEW x \in Callers, Turn(x), UNCHANGED auditors,
         NEW c \in Draws, Authors(c) = {}, c <= row'.draws, row'.status # "applying",
         run'[x].pc = "audit" => \/ run[x].pc = "audit" /\ run'[x].about = run[x].about
                                 \/ run'[x].about = c
  PROVE  NewAuthor(x)
<1>1. Authors(c)' \subseteq {x}
  BY DEF Turn, Authors
<1>2. \A d \in Draws \ {c} : Authors(d)' \subseteq Authors(d)
  BY DEF Turn, Authors
<1> QED BY <1>1, <1>2 DEF NewAuthor

\* The result that is recorded is the one of the run or the close that ended the claim.
LEMMA RunJobTurns ==
  ASSUME DInv, NEW x \in Callers, RunJob(x)
  PROVE  /\ run' \in [Callers -> CallerState]
         /\ NoNewAuthor \/ \E y \in Callers : NewAuthor(y)
<1> DEFINE Goal == /\ run' \in [Callers -> CallerState]
                   /\ NoNewAuthor \/ \E y \in Callers : NewAuthor(y)
<1>1. DeliveryTypeOK /\ AuthorsOK /\ run[x] \in CallerState
  BY DEF DInv, DeliveryTypeOK
<1>2. /\ row.draws \in 0..MaxDraws /\ row.claim \in 0..MaxDraws
  BY <1>1 DEF DeliveryTypeOK, PromiseTypeOK
<1>3. CASE RunDraw(x)
  <2> DEFINE s == [run[x] EXCEPT !.held = row'.claim]
  <2>1. row'.claim \in 0..MaxDraws
    BY <1>2, <1>3, DrawsAssumption DEF RunDraw, Draw
  <2>2. s \in CallerState /\ s.pc = run[x].pc
    BY <1>1, <2>1, HeldState
  <2>3. run' = [run EXCEPT ![x] = s]
    BY <1>3 DEF RunDraw
  <2>4. run[x].pc # "audit"
    BY <1>3 DEF RunDraw, Calling
  <2>5. UNCHANGED auditors
    BY <1>3 DEF RunDraw
  <2> HIDE DEF s
  <2>6. Turn(x) /\ run'[x] = s
    BY <1>1, <2>2, <2>3, Sets
  <2> QED BY <2>2, <2>4, <2>5, <2>6, TurnsAway DEF Turn
<1>4. CASE RunDrawClosed(x)
  <2> DEFINE c == row.draws + 1
  <2>1. c \in Draws /\ row'.draws = c /\ row'.status # "applying" /\ [PromiseNext]_promiseVars
    <3>1. DrawClosed
      BY <1>4 DEF RunDrawClosed
    <3>2. PICK st \in {"failed", "succeeded"} :
            row' = [status |-> st, claim |-> 0, draws |-> row.draws + 1, stale |-> FALSE]
      BY <3>1 DEF DrawClosed
    <3>3. row.draws < MaxDraws
      BY <3>1 DEF DrawClosed
    <3> QED BY <1>2, <3>1, <3>2, <3>3, DrawsAssumption DEF Draws, PromiseNext
  <2>2. Authors(c) = {}
    BY <1>1, <1>2, <2>1 DEF AuthorsOK
  <2>3. c \in 0..MaxDraws /\ c <= row'.draws
    BY <1>2, <2>1 DEF Draws
  <2>4. Ends(x, "fresh", c) /\ UNCHANGED auditors
    BY <1>4, <2>1 DEF RunDrawClosed
  <2> HIDE DEF c
  <2>5. Turn(x) /\ (run'[x].pc = "audit" => \/ run[x].pc = "audit" /\ run'[x].about = run[x].about
                                            \/ run'[x].about = c)
    BY <1>1, <2>3, <2>4, EndsOff
  <2> QED BY <2>1, <2>2, <2>3, <2>4, <2>5, TurnsToAudit DEF Turn
<1>5. CASE RunCloseStale(x)
  <2>1. ~ShouldRecord("stale_applying")
    BY DEF ShouldRecord
  <2>2. Ends(x, "stale_applying", row.claim) /\ UNCHANGED auditors
    BY <1>5 DEF RunCloseStale
  <2> QED BY <1>1, <1>2, <2>1, <2>2, EndsOff, TurnsAway DEF Turn
<1>6. CASE RunReplay(x)
  <2>1. ~ShouldRecord("replayed")
    BY DEF ShouldRecord
  <2>2. Ends(x, "replayed", row.draws) /\ UNCHANGED auditors
    BY <1>6 DEF RunReplay
  <2> QED BY <1>1, <1>2, <2>1, <2>2, EndsOff, TurnsAway DEF Turn
<1>7. CASE RunInProgress(x)
  <2>1. UNCHANGED auditors
    BY <1>7 DEF RunInProgress
  <2>2. CASE Goes(x, "off") \/ Goes(x, "close")
    BY <1>1, <2>1, <2>2, GoesOn, TurnsAway DEF Turn
  <2>3. CASE run' = [run EXCEPT ![x].pc = "measure", ![x].token = row.claim, ![x].tries = 0]
    <3> DEFINE s == [run[x] EXCEPT !.pc = "measure", !.token = row.claim, !.tries = 0]
    <3>1. s \in CallerState /\ s.pc = "measure"
      BY <1>1, <1>2, MeasureState
    <3>2. run' = [run EXCEPT ![x] = s]
      BY <2>3
    <3> HIDE DEF s
    <3>3. Turn(x) /\ run'[x] = s
      BY <1>1, <3>1, <3>2, Sets
    <3> QED BY <2>1, <3>1, <3>3, TurnsAway DEF Turn
  <2> QED BY <1>7, <2>2, <2>3 DEF RunInProgress
<1>8. CASE RunSettle(x)
  <2> DEFINE c == run[x].held
  <2>1. c \in Draws /\ c \in 0..MaxDraws /\ UNCHANGED auditors
    BY <1>1, <1>8, HeldIsDrawn DEF RunSettle, Draws
  <2>2. ~ShouldRecord("audited") /\ ~ShouldRecord("replayed")
    BY DEF ShouldRecord
  <2>3. CASE Ends(x, "audited", c) \/ Ends(x, "replayed", c)
    BY <1>1, <2>1, <2>2, <2>3, EndsOff, TurnsAway DEF Turn
  <2>4. CASE Finish(c) /\ ~row.stale /\ Ends(x, "fresh", c)
    <3>1. row.status = "applying" /\ row.claim = c
      BY <2>4 DEF Finish, MayFinish
    <3>2. Authors(c) = {}
      BY <1>1, <2>1, <3>1 DEF AuthorsOK
    <3>3. row'.status # "applying" /\ row'.draws = row.draws /\ [PromiseNext]_promiseVars
      <4>1. PICK st \in {"failed", "succeeded"} :
              row' = [status |-> st, claim |-> 0, draws |-> row.draws, stale |-> FALSE]
        BY <2>4 DEF Finish
      <4> QED BY <2>1, <2>4, <4>1 DEF PromiseNext
    <3>4. Turn(x) /\ (run'[x].pc = "audit" => \/ run[x].pc = "audit" /\ run'[x].about = run[x].about
                                              \/ run'[x].about = c)
      BY <1>1, <2>1, <2>4, EndsOff
    <3>5. c <= row'.draws
      BY <3>1, <3>3 DEF DInv
    <3> QED BY <2>1, <3>2, <3>3, <3>4, <3>5, TurnsToAudit DEF Turn
  <2> QED BY <1>8, <2>3, <2>4 DEF RunSettle
<1> QED BY <1>3, <1>4, <1>5, <1>6, <1>7, <1>8 DEF RunJob

\* The other steps of the worker function.
LEMMA WorkerTurns ==
  ASSUME DInv, Worker \in Callers, StartWorker \/ Measure \/ Wake \/ CloseStuck
  PROVE  run' \in [Callers -> CallerState] /\ NoNewAuthor
<1>1. DeliveryTypeOK
  BY DEF DInv
<1>2. CASE StartWorker
  BY <1>1, <1>2, StartState, Sets, TurnsAway DEF StartWorker, Turn
<1>3. CASE Measure
  <2>1. \E pc \in {"sleep", "recheck"} : Goes(Worker, pc)
    BY <1>3 DEF Measure
  <2> QED BY <1>1, <1>3, <2>1, GoesOn, TurnsAway DEF Measure, Turn
<1>4. CASE Wake
  BY <1>1, <1>4, GoesOn, TurnsAway DEF Wake, Turn
<1>5. CASE CloseStuck
  <2>1. UNCHANGED auditors
    BY <1>5 DEF CloseStuck
  <2>2. CASE Goes(Worker, "off")
    BY <1>1, <2>1, <2>2, GoesOn, TurnsAway DEF Turn
  <2>3. CASE Breaks(Worker)
    BY <1>1, <2>1, <2>3, BreaksOff, TurnsAway DEF Turn
  <2> QED BY <1>5, <2>2, <2>3 DEF CloseStuck
<1> QED BY <1>2, <1>3, <1>4, <1>5

\* An audit that is written makes its writer no new author.
LEMMA AuditTurns ==
  ASSUME DInv, NEW x \in Callers, Audit(x)
  PROVE  /\ run' \in [Callers -> CallerState] /\ NoNewAuthor
         /\ auditors' \in [Draws -> SUBSET Callers]
<1>1. DeliveryTypeOK
  BY DEF DInv
<1>2. /\ run[x].pc = "audit"
      /\ auditors' = [auditors EXCEPT ![run[x].about] = @ \cup {x}]
      /\ Goes(x, "off") \/ Breaks(x)
  BY DEF Audit
<1>3. /\ Turn(x)
      /\ run'[x].pc = "audit" => run[x].pc = "audit" /\ run'[x].about = run[x].about
  BY <1>1, <1>2, GoesOn, BreaksOff
<1>4. auditors' \in [Draws -> SUBSET Callers]
  BY <1>1, <1>2 DEF DeliveryTypeOK
<1>5. NoNewAuthor
  BY <1>1, <1>2, <1>3 DEF NoNewAuthor, Authors, Turn, DeliveryTypeOK
<1> QED BY <1>3, <1>4, <1>5 DEF Turn

\* The rows of the event and the requeue keep their kind.
LEMMA BusSteps ==
  ASSUME DeliveryTypeOK, [DeliveryNext]_deliveryVars
  PROVE  bus' \in [waiting : BOOLEAN, seen : BOOLEAN] /\ asked' \in {"no", "sending", "sent"}
<1> DEFINE Goal == bus' \in [waiting : BOOLEAN, seen : BOOLEAN] /\ asked' \in {"no", "sending", "sent"}
<1>1. bus \in [waiting : BOOLEAN, seen : BOOLEAN] /\ asked \in {"no", "sending", "sent"}
  BY DEF DeliveryTypeOK
<1>2. ASSUME NEW x \in Callers, RunJob(x) \/ Audit(x) \/ CrashCaller(x) PROVE Goal
  BY <1>1, <1>2 DEF RunJob, RunDraw, RunDrawClosed, RunCloseStale, RunReplay, RunInProgress,
    RunSettle, Answered, Audit, CrashCaller
<1>3. CASE Measure \/ Wake \/ CloseStuck \/ RequeueRow \/ UNCHANGED deliveryVars
           \/ (\E x \in Inliners : StartInline(x)) \/ \E c \in Draws : LeaseEnds(c)
  BY <1>1, <1>3 DEF Measure, Wake, CloseStuck, RequeueRow, StartInline, LeaseEnds, deliveryVars
<1>4. CASE StartWorker \/ ForgetEvent
  BY <1>1, <1>4 DEF StartWorker, ForgetEvent
<1>5. CASE PostApply \/ RequeueSend
  <2>1. bus' = bus \/ bus' = [waiting |-> TRUE, seen |-> TRUE]
    BY <1>5 DEF PostApply, RequeueSend, Send
  <2>2. bus' \in [waiting : BOOLEAN, seen : BOOLEAN]
    <3>1. [waiting |-> TRUE, seen |-> TRUE] \in [waiting : BOOLEAN, seen : BOOLEAN]
      OBVIOUS
    <3> QED BY <1>1, <2>1, <3>1
  <2>3. asked' \in {"no", "sending", "sent"}
    BY <1>1, <1>5 DEF PostApply, RequeueSend
  <2> QED BY <2>2, <2>3
<1> QED
  BY <1>2, <1>3, <1>4, <1>5 DEF DeliveryNext, WorkerStep, Callers

LEMMA DeliveryInductive == DInv /\ [DeliveryNext]_deliveryVars => DInv'
<1> SUFFICES ASSUME DInv, [DeliveryNext]_deliveryVars PROVE DInv'
  OBVIOUS
<1> DEFINE Goal == /\ run' \in [Callers -> CallerState]
                   /\ NoNewAuthor \/ \E y \in Callers : NewAuthor(y)
<1>1. DeliveryTypeOK /\ RowDrawn /\ Worker \in Callers
  BY DEF DInv, RowDrawn, DeliveryTypeOK, Callers
<1>2. [PromiseNext]_promiseVars
  BY <1>1, RowsArePromised
<1>3. RowDrawn'
  BY <1>1, <1>2, PromiseSteps
<1>4. bus' \in [waiting : BOOLEAN, seen : BOOLEAN] /\ asked' \in {"no", "sending", "sent"}
  BY <1>1, BusSteps
<1>5. auditors' \in [Draws -> SUBSET Callers]
  <2>1. UNCHANGED auditors \/ \E x \in Callers : Audit(x)
    BY DEF DeliveryNext, WorkerStep, Callers, RunJob, RunDraw, RunDrawClosed, RunCloseStale,
      RunReplay, RunInProgress, RunSettle, StartWorker, Measure, Wake, CloseStuck, StartInline,
      CrashCaller, PostApply, RequeueRow, RequeueSend, ForgetEvent, LeaseEnds, deliveryVars
  <2> QED BY <1>1, <2>1, AuditTurns DEF DeliveryTypeOK
<1>6. ASSUME NEW x \in Callers, RunJob(x) \/ Audit(x) \/ CrashCaller(x) PROVE Goal
  <2>1. CASE CrashCaller(x)
    BY <1>1, <2>1, BreaksOff, TurnsAway DEF CrashCaller, Turn
  <2> QED BY <1>6, <2>1, RunJobTurns, AuditTurns
<1>7. ASSUME StartWorker \/ Measure \/ Wake \/ CloseStuck PROVE Goal
  BY <1>1, <1>7, WorkerTurns
<1>8. ASSUME NEW x \in Inliners, StartInline(x) PROVE Goal
  BY <1>1, <1>8, StartState, Sets, TurnsAway DEF StartInline, Turn, Callers
<1>9. ASSUME \/ PostApply \/ RequeueRow \/ RequeueSend \/ ForgetEvent \/ UNCHANGED deliveryVars
             \/ \E c \in Draws : LeaseEnds(c)
      PROVE  Goal
  <2>1. UNCHANGED <<run, auditors>>
    BY <1>9 DEF PostApply, RequeueRow, RequeueSend, ForgetEvent, LeaseEnds, deliveryVars
  <2> QED BY <1>1, <2>1 DEF DeliveryTypeOK, NoNewAuthor, Authors
<1>10. Goal
  BY <1>6, <1>7, <1>8, <1>9 DEF DeliveryNext, WorkerStep, Callers
<1>11. AuthorsOK'
  BY <1>2, <1>10, AuthorsKept
<1> QED
  BY <1>3, <1>4, <1>5, <1>10, <1>11 DEF DInv, DeliveryTypeOK, RowDrawn

LEMMA DeliveryInitially == DeliveryInit => DInv
<1> SUFFICES ASSUME DeliveryInit PROVE DInv
  OBVIOUS
<1>1. PromiseTypeOK /\ row.claim <= row.draws
  BY DrawsAssumption DEF DeliveryInit, PromiseInit, PromiseTypeOK
<1>2. DeliveryTypeOK
  BY <1>1, OffState DEF DeliveryInit, DeliveryTypeOK
<1>3. \A c \in Draws : Authors(c) = {}
  BY OffState DEF DeliveryInit, Authors
<1> QED BY <1>1, <1>2, <1>3 DEF DInv, AuthorsOK

LEMMA DeliveryInvariance == DeliverySpec => []DInv
  BY DeliveryInitially, DeliveryInductive, PTL DEF DeliverySpec

\* Callers, the event and the audit rows keep their shape, however often steps are
\* retried (handlers.ts, apply.ts).
THEOREM DeliveryTypes == DeliverySpec => []DeliveryTypeOK
<1>1. DInv => DeliveryTypeOK
  BY DEF DInv
<1> QED BY <1>1, DeliveryInvariance, PTL

\* The outcome of a claim has at most one author in the audit log, for any number
\* of inline requests and claims and any number of retries.
THEOREM OneAuthor == DeliverySpec => []OneAuditor
<1>1. DInv => OneAuditor
  <2> SUFFICES ASSUME DInv, NEW c \in Draws PROVE Cardinality(auditors[c]) <= 1
    BY DEF OneAuditor
  <2>1. \A x, y \in auditors[c] : x = y
    BY DEF DInv, AuthorsOK, Authors
  <2>2. auditors[c] = {} \/ \E x : auditors[c] = {x}
    BY <2>1
  <2>3. CASE auditors[c] = {}
    BY <2>3, FS_EmptySet
  <2>4. CASE \E x : auditors[c] = {x}
    <3>1. Cardinality(auditors[c]) = 1
      BY <2>4, FS_Singleton
    <3> QED BY <3>1
  <2> QED BY <2>2, <2>3, <2>4
<1> QED BY <1>1, DeliveryInvariance, PTL

\* Worker, requests, routes and the clock together do to the row only what the
\* promise allows, so that what the engine promises is all they rely on.
THEOREM DeliveryKeepsPromise == DeliverySpec => PromiseSpec
<1>1. DeliveryInit => PromiseInit
  BY DEF DeliveryInit
<1>2. DInv /\ [DeliveryNext]_deliveryVars => [PromiseNext]_promiseVars
  BY RowsArePromised DEF DInv
<1> QED BY <1>1, <1>2, DeliveryInvariance, PTL DEF DeliverySpec, PromiseSpec
=============================================================================
