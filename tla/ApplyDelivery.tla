--------------------------- MODULE ApplyDelivery ---------------------------
(***************************************************************************)
(* How an apply job reaches runApplyJob: the event the routes send, the    *)
(* worker function handleApplyRequested with its memoised and retried      *)
(* steps, and HTTP requests that apply inline.  The row is the one of      *)
(* ApplyPromise, and every change of it here is a step of that module.     *)
(***************************************************************************)
EXTENDS ApplyPromise, FiniteSets

CONSTANTS
  Worker,      \* the function run of the job's event
  Inliners,    \* HTTP requests that run the job themselves
  Retries      \* how often a failed step is tried again

ASSUME DeliveryAssumption == Worker \notin Inliners /\ Retries \in Nat

VARIABLES
  run,       \* [Callers -> where that caller stands in its code]
  bus,       \* the job's event: waiting, and its id still remembered
  asked,     \* a requeue request: "no", "sending", or "sent" and answered ok
  auditors   \* per claim, the callers that wrote its apply_success/apply_fail

deliveryVars == <<row, live, run, bus, asked, auditors>>

Callers == Inliners \cup {Worker}
Off == [pc |-> "off", held |-> 0, token |-> 0, about |-> 0, tries |-> 0]

DeliveryInit ==
  /\ PromiseInit
  /\ run = [x \in Callers |-> Off]
  /\ bus = [waiting |-> FALSE, seen |-> FALSE]
  /\ asked = "no"
  /\ auditors = [c \in Draws |-> {}]

-----------------------------------------------------------------------------
(* Where a caller goes after one of its steps.                             *)

Goes(x, pc) == run' = [run EXCEPT ![x].pc = pc, ![x].held = 0, ![x].tries = 0]

\* The process ends during a step, or before the step's result is recorded: the
\* worker's step is run again from its start, an HTTP request is gone, and a
\* function out of retries has failed.
Breaks(x) ==
  \/ /\ x = Worker
     /\ run[x].tries < Retries
     /\ run' = [run EXCEPT ![x].held = 0, ![x].tries = @ + 1]
  \/ /\ x = Worker
     /\ run[x].tries = Retries
     /\ run' = [run EXCEPT ![x].held = 0, ![x].pc = "dead"]
  \/ /\ x # Worker
     /\ run' = [run EXCEPT ![x] = Off]

\* Seeded fault: a stored terminal job is audited again.
ShouldRecordReplayed(result) == result \notin {"in_progress", "stale_applying", "audited"}

\* Which results of runApplyJob the caller writes an audit row for.
ShouldRecord(result) ==
  result \notin {"in_progress", "stale_applying", "audited", "replayed"}

\* The caller has a result of runApplyJob about claim c that ends its work.
Ends(x, result, c) ==
  \/ run' = [run EXCEPT ![x].held = 0, ![x].tries = 0, ![x].about = c,
                        ![x].pc = IF ShouldRecord(result) THEN "audit" ELSE "off"]
  \/ Breaks(x)

-----------------------------------------------------------------------------
(* runApplyJob, called by the worker's execute and recheck steps and by an *)
(* inline request.                                                         *)

Calling(x) == run[x].pc \in {"execute", "recheck"} /\ run[x].held = 0

\* Drawing a job answers the requeue that asked for it.
Answered == asked' = IF asked = "sent" THEN "no" ELSE asked

RunDraw(x) ==
  /\ Calling(x)
  /\ Draw
  /\ run' = [run EXCEPT ![x].held = row'.claim]
  /\ Answered
  /\ UNCHANGED <<bus, auditors>>

RunDrawClosed(x) ==
  /\ Calling(x)
  /\ DrawClosed
  /\ Ends(x, "fresh", row'.draws)
  /\ Answered
  /\ UNCHANGED <<bus, auditors>>

RunCloseStale(x) ==
  /\ Calling(x)
  /\ CloseLapsed
  /\ Ends(x, "stale_applying", row.claim)
  /\ UNCHANGED <<bus, asked, auditors>>

\* A job that finished already is only reported.
RunReplay(x) ==
  /\ Calling(x)
  /\ row.status \in {"failed", "succeeded"}
  /\ Ends(x, "replayed", row.draws)
  /\ UNCHANGED <<row, live, bus, asked, auditors>>

\* A live claim: the request answers 409, the worker waits the lease out, and
\* after that wait it goes on to close the claim it saw first.
RunInProgress(x) ==
  /\ Calling(x)
  /\ row.status = "applying" /\ row.claim \in live
  /\ \/ /\ x # Worker
        /\ Goes(x, "off")
     \/ /\ x = Worker /\ run[x].pc = "execute"
        /\ run' = [run EXCEPT ![x].pc = "measure", ![x].token = row.claim, ![x].tries = 0]
     \/ /\ x = Worker /\ run[x].pc = "recheck"
        /\ Goes(x, "close")
  /\ UNCHANGED <<row, live, bus, asked, auditors>>

\* The run settles its claim.  Settle itself audits a revoked or superseded
\* outcome, and leaves the row of a claim it lost.
RunSettle(x) ==
  /\ run[x].held # 0
  /\ \/ /\ Finish(run[x].held)
        /\ \E result \in IF row.stale THEN {"audited"} ELSE {"fresh", "audited"} :
             Ends(x, result, run[x].held)
     \/ /\ ~MayFinish(run[x].held)
        /\ Ends(x, "replayed", run[x].held)
        /\ UNCHANGED <<row, live>>
  /\ UNCHANGED <<bus, asked, auditors>>

-----------------------------------------------------------------------------
(* The rest of the worker function, the routes and the event bus.          *)

\* The lease left on the claim that was seen decides whether to sleep.
Measure ==
  /\ run[Worker].pc = "measure"
  /\ Goes(Worker, IF run[Worker].token \in live THEN "sleep" ELSE "recheck")
  /\ UNCHANGED <<row, live, bus, asked, auditors>>

\* Seeded fault: the wait does not depend on the lease.
LeaseWaitedOutShort == TRUE

LeaseWaitedOut == run[Worker].token \notin live

Wake ==
  /\ run[Worker].pc = "sleep"
  /\ LeaseWaitedOut
  /\ Goes(Worker, "recheck")
  /\ UNCHANGED <<row, live, bus, asked, auditors>>

\* closeApplyingJob with the token seen first: a live or replacement claim stays.
CloseStuck ==
  /\ run[Worker].pc = "close"
  /\ \/ Lapsed /\ row.claim = run[Worker].token /\ CloseLapsed
     \/ ~(Lapsed /\ row.claim = run[Worker].token) /\ UNCHANGED <<row, live>>
  /\ Goes(Worker, "off") \/ Breaks(Worker)
  /\ UNCHANGED <<bus, asked, auditors>>

Audit(x) ==
  /\ run[x].pc = "audit"
  /\ auditors' = [auditors EXCEPT ![run[x].about] = @ \cup {x}]
  /\ Goes(x, "off") \/ Breaks(x)
  /\ UNCHANGED <<row, live, bus, asked>>

\* A sleeping function is not in any process.
CrashCaller(x) ==
  /\ run[x].pc \notin {"off", "dead", "sleep"}
  /\ Breaks(x)
  /\ UNCHANGED <<row, live, bus, asked, auditors>>

StartWorker ==
  /\ bus.waiting
  /\ run[Worker].pc \in {"off", "dead"}
  /\ bus' = [bus EXCEPT !.waiting = FALSE]
  /\ run' = [run EXCEPT ![Worker] = [Off EXCEPT !.pc = "execute"]]
  /\ UNCHANGED <<row, live, asked, auditors>>

\* The route runs a job it just read as not finished.
StartInline(x) ==
  /\ x # Worker /\ run[x].pc = "off"
  /\ row.status \in {"queued", "applying"}
  /\ run' = [run EXCEPT ![x] = [Off EXCEPT !.pc = "execute"]]
  /\ UNCHANGED <<row, live, bus, asked, auditors>>

\* sendApplyRequested: the event's id is the job's, so one that is remembered is
\* accepted and dropped.
Send == bus' = IF bus.seen THEN bus ELSE [waiting |-> TRUE, seen |-> TRUE]

\* Approve, or apply again, without inline.  An event that cannot be sent is
\* only logged: the job stays queued.
PostApply ==
  /\ row.status \in {"queued", "applying"}
  /\ Send
  /\ UNCHANGED <<row, live, run, asked, auditors>>

RequeueRow ==
  /\ asked # "sending"
  /\ row.draws < MaxDraws
  /\ Reopen
  /\ asked' = "sending"
  /\ UNCHANGED <<run, bus, auditors>>

\* The event is sent and the owner is told so, or the send fails or is never
\* reached.
RequeueSend ==
  /\ asked = "sending"
  /\ \/ Send /\ asked' = IF row.status = "queued" THEN "sent" ELSE "no"
     \/ asked' = "no" /\ UNCHANGED bus
  /\ UNCHANGED <<row, live, run, auditors>>

\* A day later the id is forgotten.
ForgetEvent ==
  /\ bus.seen /\ ~bus.waiting
  /\ bus' = [bus EXCEPT !.seen = FALSE]
  /\ UNCHANGED <<row, live, run, asked, auditors>>

LeaseEnds(c) == Lapse({c}) /\ UNCHANGED <<run, bus, asked, auditors>>

RunJob(x) ==
  \/ RunDraw(x) \/ RunDrawClosed(x) \/ RunCloseStale(x) \/ RunReplay(x)
  \/ RunInProgress(x) \/ RunSettle(x)

WorkerStep ==
  \/ StartWorker \/ RunJob(Worker) \/ Measure \/ Wake \/ CloseStuck \/ Audit(Worker)

DeliveryNext ==
  \/ WorkerStep
  \/ \E x \in Inliners : RunJob(x) \/ Audit(x) \/ StartInline(x)
  \/ \E x \in Callers : CrashCaller(x)
  \/ PostApply \/ RequeueRow \/ RequeueSend \/ ForgetEvent
  \/ \E c \in Draws : LeaseEnds(c)

\* The event platform runs and resumes the function, and the clock goes on.
\* Nothing is assumed of HTTP requests or of people.
Fairness == WF_deliveryVars(WorkerStep) /\ \A c \in Draws : WF_deliveryVars(LeaseEnds(c))

DeliverySpec == DeliveryInit /\ [][DeliveryNext]_deliveryVars /\ Fairness

-----------------------------------------------------------------------------
(* Properties.                                                             *)

CallerState ==
  [pc : {"off", "execute", "recheck", "measure", "sleep", "close", "audit", "dead"},
   held : 0..MaxDraws, token : 0..MaxDraws, about : 0..MaxDraws, tries : 0..Retries]

\* Callers, the event and the audit rows keep the shape the code gives them.
DeliveryTypeOK ==
  /\ PromiseTypeOK
  /\ run \in [Callers -> CallerState]
  /\ bus \in [waiting : BOOLEAN, seen : BOOLEAN]
  /\ asked \in {"no", "sending", "sent"}
  /\ auditors \in [Draws -> SUBSET Callers]

\* The outcome of a claim has at most one author in the audit log besides the
\* engine, whatever steps are retried and whoever else asks about the job.
OneAuditor == \A c \in Draws : Cardinality(auditors[c]) <= 1

\* The claim is the one the execute step drew, or the one it found in progress and
\* keeps as the token to close.  A claim the recheck step itself draws is not: when
\* that step dies in it, closeApplyingJob is handed the older token.
Watches(c) ==
  \/ run[Worker].pc = "execute" /\ run[Worker].held = c
  \/ run[Worker].pc \notin {"off", "dead"} /\ run[Worker].token = c

\* A claim the worker watches does not stay applying: its retries and its wait for
\* the lease end it, unless the function itself ran out of retries.
WatchedClaimEnds ==
  \A c \in Draws :
    Watches(c) ~> run[Worker].pc = "dead" \/ ~(row.status = "applying" /\ row.claim = c)
=============================================================================
