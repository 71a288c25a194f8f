------------------------------- MODULE SeoJob -------------------------------
(***************************************************************************)
(* One SEO job: a draft is written, a person decides, the content is       *)
(* published (src/jobs/seo/src/functions/job.ts).  The function is durable: *)
(* it is replayed from its top, finished steps answer from their recorded  *)
(* results, and what is not a step (the store's settings are read outside  *)
(* of any) is evaluated again at each replay.  A job that is sent again    *)
(* from its page is a second run of the function for the same row.         *)
(* The research and writing steps are one step, "draft".                   *)
(***************************************************************************)
EXTENDS Integers, FiniteSets

CONSTANTS
  Runs,        \* runs of the function for the one job
  First,       \* the run of the event that came with the job
  Retries,     \* how often the platform tries a failed step again
  MaxEvents,   \* bound on the decisions that are sent
  Works,       \* the kinds of job: see Work
  Starts,      \* settings the job may start with
  Moves,       \* settings that may change while the job runs
  Given,       \* what people answer
  Fragile      \* steps that may fail for good

\* "page" is found again by its handle, if its draft has one; "other" (collection,
\* article) is not.  gsc: from a search recommendation.  improve: names the resource
\* to change.  "wordpress" and "none" have no Shopify token.
Work == [kind : {"page", "other"}, handle : BOOLEAN,
         site : {"shopify", "wordpress", "none"}, gsc : BOOLEAN, improve : BOOLEAN]

VARIABLES
  work,      \* what the job is; the first event carries all of it
  status,    \* jobs.status
  config,    \* the store's autonomy.requireApproval and the search apply gate
  run,       \* each run's recorded results, and where its current request is;
             \* read is history: what its requests found that lets it go on
  sent,      \* number of decisions sent
  unwritten, \* statuses the draft page has yet to write after its event
  approvals, \* rows in approvals, by run
  made,      \* resources each run has created on the site
  changed,   \* runs that wrote to the site
  blind      \* history: lookups and updates of a page, by run, whose error was swallowed

vars == <<work, status, config, run, sent, unwritten, approvals,
          made, changed, blind>>

\* /api/approve passes on whatever it is given: "other" is any status of which the
\* function knows nothing, "blank" an answer without one.
Closing == {"rejected", "snoozed", "denied"}
Passing == {"approved", "edited", "other"}
Answers == {"blank"} \cup Passing \cup Closing
Heard == {"none", "timeout"} \cup Passing \cup Closing

\* What the draft page offers.
PageAnswers == {"approved", "edited", "rejected", "snoozed"}

Settings == [approval : {"on", "off"}, gate : {"open", "blocked"}]

\* What lets a run go on without a person, or write for a search recommendation.
Lax(settings) == {settings.approval, settings.gate} \cap {"off", "open"}

\* Steps that write a status, with the status they write.
StatusSteps == {"start", "awaiting", "fail1", "timeout", "close", "recommend",
                "publishing", "wpstatus", "skipped", "completed", "fail2"}
Steps == StatusSteps \cup {"draft", "approval", "wp", "publish"}

ASSUME SeoAssumption ==
  /\ First \in Runs
  /\ Retries \in Nat
  /\ MaxEvents \in Nat
  /\ Works \subseteq Work
  /\ Starts \subseteq Settings
  /\ Moves \subseteq {"approval", "gate"}
  /\ Given \subseteq Answers
  /\ Fragile \subseteq Steps

\* After these the same request may go on to the next step; after the others a
\* call of another function ends the request, or nothing is read in between.
Inline == {"publishing", "wp", "publish"}

\* Seeded fault: an approval that cannot be saved is let pass.
CaughtToo == {"fail1", "fail2", "timeout", "approval"}

\* Errors of these are caught where they are, so the run goes on.
Caught == {"fail1", "fail2", "timeout"}

\* What a request has read of the settings: nothing yet.
Unread == [approval |-> "unread", gate |-> "unread"]

Fresh == [pc |-> "idle", done |-> {}, bad |-> {}, heard |-> "none", result |-> "none",
          tries |-> 0, sees |-> Unread, read |-> {}]

Init ==
  /\ work \in Works
  /\ status = "queued"
  /\ config \in Starts
  /\ run = [r \in Runs |-> IF r = First THEN [Fresh EXCEPT !.pc = "asleep"] ELSE Fresh]
  /\ sent = 0
  /\ unwritten = {}
  /\ approvals = [r \in Runs |-> {}]
  /\ made = [r \in Runs |-> 0]
  /\ changed = {}
  /\ blind = [r \in Runs |-> 0]

-----------------------------------------------------------------------------
(* The function, as what it reaches with the results it has.               *)

Passed(r) == run[r].done \cup (run[r].bad \cap Caught)

\* The event of a job that is sent again carries neither source nor mode.
IsGscSourced(r) == work.gsc /\ r = First
Improves(r) == work.improve /\ r = First

\* Seeded fault: an unread store counts as one that needs no approval.
MustWaitOnlyIfRead(r) == run[r].sees.approval = "on"

\* A store that cannot be read needs a person.
MustWait(r) == run[r].sees.approval # "off"

Decision(r) == IF MustWait(r) THEN run[r].heard ELSE "approved"

Closes(r) == Decision(r) \in Closing

\* Seeded fault: a search job only asks whether the gate could be read.
GateShutUnread(r) == run[r].sees.gate = "unread"

\* The gate is closed; an error in reading it fails the publication.
GateShut(r) == run[r].sees.gate = "blocked"

Publication(r) ==
  LET passed == Passed(r) IN
  IF "publishing" \notin passed THEN "publishing"
  ELSE IF "publish" \notin passed THEN "publish"
  ELSE IF run[r].result = "skipped" THEN "skipped" ELSE "completed"

SearchJob(r) ==
  IF run[r].sees.gate = "unread" THEN "unreadable"
  ELSE IF GateShut(r) THEN "recommend"
  ELSE IF work.site # "wordpress" THEN Publication(r)
  ELSE IF "wp" \notin Passed(r) THEN "wp" ELSE "wpstatus"

AfterDecision(r) ==
  IF "approval" \notin Passed(r) THEN "approval"
  ELSE IF Closes(r) THEN "close"
  ELSE IF IsGscSourced(r) THEN SearchJob(r)
  ELSE Publication(r)

Reached(r) ==
  LET passed == Passed(r) IN
  IF "start" \notin passed THEN "start"
  ELSE IF "draft" \notin passed THEN "draft"
  ELSE IF "awaiting" \notin passed THEN "awaiting"
  ELSE IF Decision(r) = "none" THEN "wait"
  ELSE IF Decision(r) = "timeout" THEN "timeout"
  ELSE AfterDecision(r)

\* A step that failed for good leads to a catch, which notes it and throws on.
Broken(r) == Reached(r) = "unreadable" \/ Reached(r) \in run[r].bad
Catch(r) == IF Reached(r) \in {"draft", "awaiting"} THEN "fail1" ELSE "fail2"
Throws(r) == Broken(r) /\ (Reached(r) = "start" \/ Catch(r) \in Passed(r))
NextStep(r) == IF Broken(r) THEN Catch(r) ELSE Reached(r)

\* The last step of each way through the function.
Ends(r) == ~Broken(r) /\ Reached(r) \in Passed(r)

StatusOf(r, step) ==
  CASE step = "start" -> "running"
    [] step = "awaiting" -> "awaiting_approval"
    [] step \in {"fail1", "fail2"} -> "failed"
    [] step = "timeout" -> IF run[r].sees.approval = "unread" THEN "failed" ELSE "timeout"
    [] step = "close" -> IF Decision(r) = "snoozed" THEN "snoozed" ELSE "rejected"
    [] step = "recommend" -> "approved"
    [] step = "wpstatus" -> IF run[r].result = "ok" THEN "completed" ELSE "failed"
    [] OTHER -> step

-----------------------------------------------------------------------------
(* Requests and steps.                                                     *)

Set(r, changes) == run' = [run EXCEPT ![r] = changes]

\* What the replay comes to read, and may fail to.
Reads(r, field) ==
  LET comes == CASE field = "approval" -> "awaiting" \in run[r].done
                 [] field = "gate" -> IsGscSourced(r) /\ "approval" \in Passed(r)
  IN  {"unread"} \cup IF comes THEN {config[field]} ELSE {}

Replay(r) ==
  /\ run[r].pc = "asleep"
  /\ \E approval \in Reads(r, "approval"), gate \in Reads(r, "gate") :
       LET sees == [approval |-> approval, gate |-> gate] IN
       Set(r, [run[r] EXCEPT !.pc = "awake", !.sees = sees, !.read = @ \cup Lax(sees)])
  /\ UNCHANGED <<work, status, config, sent, unwritten, approvals,
                 made, changed, blind>>

AtOneOf(r, steps) ==
  /\ run[r].pc = "awake"
  /\ NextStep(r) \in steps
  /\ ~Throws(r)
  /\ ~Ends(r)

At(r, step) == AtOneOf(r, {step})

\* A step has its result; the next step is run in this request or in another.
Finish(r, step, result) ==
  \E pc \in {"asleep"} \cup (IF step \in Inline THEN {"awake"} ELSE {}) :
    Set(r, [run[r] EXCEPT !.pc = pc, !.done = @ \cup {step}, !.tries = 0, !.result = result,
                          !.sees = IF pc = "asleep" THEN Unread ELSE @])

\* Seeded fault: tries are not counted.
AgainUncounted(r) == [run[r] EXCEPT !.pc = "asleep", !.sees = Unread]

\* The request is over, with nothing recorded; the platform makes another.
Again(r) == [run[r] EXCEPT !.pc = "asleep", !.tries = @ + 1, !.sees = Unread]

\* A step has failed as often as it may, which is recorded too.
GivesUp(r, step) ==
  /\ step \in Fragile
  /\ Set(r, [run[r] EXCEPT !.pc = "asleep", !.tries = 0, !.bad = @ \cup {step}, !.sees = Unread])

\* A step that writes to the site fails, or its process dies, before its result is
\* recorded.
Fails(r, step) == IF run[r].tries < Retries THEN Set(r, Again(r)) ELSE GivesUp(r, step)

\* updateJobStatus does not look at the status there is.  To try it again only
\* writes the same again, so that its tries are one.
WriteStatus(r) ==
  /\ AtOneOf(r, StatusSteps)
  /\ \/ Finish(r, NextStep(r), run[r].result) \/ GivesUp(r, NextStep(r))
  /\ status' = StatusOf(r, NextStep(r))
  /\ UNCHANGED <<work, config, sent, unwritten, approvals, made, changed, blind>>

\* A step that fails before it wrote anything.
StepFails(r) ==
  /\ AtOneOf(r, StatusSteps \cup {"draft", "approval"})
  /\ GivesUp(r, NextStep(r))
  /\ UNCHANGED <<work, status, config, sent, unwritten, approvals,
                 made, changed, blind>>

Draft(r) ==
  /\ At(r, "draft")
  /\ Finish(r, "draft", run[r].result)
  /\ UNCHANGED <<work, status, config, sent, unwritten, approvals,
                 made, changed, blind>>

SaveApproval(r) ==
  /\ At(r, "approval")
  /\ approvals' = [approvals EXCEPT ![r] = @ \cup {Decision(r)}]
  /\ \/ Finish(r, "approval", run[r].result) \/ GivesUp(r, "approval")
  /\ UNCHANGED <<work, status, config, sent, unwritten, made, changed, blind>>

Wait(r) ==
  /\ At(r, "wait")
  /\ Set(r, [run[r] EXCEPT !.pc = "waiting", !.sees = Unread])
  /\ UNCHANGED <<work, status, config, sent, unwritten, approvals,
                 made, changed, blind>>

\* A day passes.
WaitEnds(r) ==
  /\ run[r].pc = "waiting"
  /\ Set(r, [run[r] EXCEPT !.pc = "asleep", !.heard = "timeout"])
  /\ UNCHANGED <<work, status, config, sent, unwritten, approvals,
                 made, changed, blind>>

Throw(r) ==
  /\ run[r].pc = "awake"
  /\ Throws(r)
  /\ Set(r, IF run[r].tries < Retries
            THEN Again(r) ELSE [run[r] EXCEPT !.pc = "ended", !.sees = Unread])
  /\ UNCHANGED <<work, status, config, sent, unwritten, approvals,
                 made, changed, blind>>

Return(r) ==
  /\ run[r].pc = "awake"
  /\ Ends(r)
  /\ Set(r, [run[r] EXCEPT !.pc = "ended", !.sees = Unread])
  /\ UNCHANGED <<work, status, config, sent, unwritten, approvals,
                 made, changed, blind>>

-----------------------------------------------------------------------------
(* publish-content (publisher.ts) and the WordPress step.                  *)

\* The draft, or what a reviewer made of it, who may change or drop the handle.
Handles(r) == IF Decision(r) = "edited" THEN BOOLEAN ELSE {work.handle}

\* Seeded fault: a page is created again without a look at its handle.
LooksFirstNever(r, handle) == FALSE

\* Only a page is looked for, and only one with a handle.
LooksFirst(r, handle) == work.kind = "page" /\ handle /\ ~Improves(r)

\* Nothing is sent to a site that is not a connected Shopify store.
Skip(r) ==
  /\ At(r, "publish")
  /\ work.site # "shopify"
  /\ Finish(r, "publish", "skipped")
  /\ UNCHANGED <<work, status, config, sent, unwritten, approvals,
                 made, changed, blind>>

Begin(r) ==
  /\ At(r, "publish")
  /\ work.site = "shopify"
  /\ \E handle \in Handles(r) : ~LooksFirst(r, handle)
  /\ Set(r, [run[r] EXCEPT !.pc = IF Improves(r) THEN "updating" ELSE "making"])
  /\ UNCHANGED <<work, status, config, sent, unwritten, approvals,
                 made, changed, blind>>

\* Whether the site has a page of that handle: the one this run made, or, for all
\* the run knows, another.
Finds(r) == IF made[r] > 0 /\ run[r].heard # "edited" THEN {TRUE} ELSE BOOLEAN

\* An error of the lookup is swallowed, and the page is created.
Look(r) ==
  /\ At(r, "publish")
  /\ work.site = "shopify"
  /\ \E handle \in Handles(r) : LooksFirst(r, handle)
  /\ \/ /\ \E found \in Finds(r) :
             Set(r, [run[r] EXCEPT !.pc = IF found THEN "updating" ELSE "making"])
        /\ UNCHANGED blind
     \/ /\ Set(r, [run[r] EXCEPT !.pc = "making"])
        /\ blind' = [blind EXCEPT ![r] = @ + 1]
  /\ UNCHANGED <<work, status, config, sent, unwritten, approvals, made, changed>>

Make(r) ==
  /\ run[r].pc = "making"
  /\ made' = [made EXCEPT ![r] = @ + 1]
  /\ changed' = changed \cup {r}
  /\ Set(r, [run[r] EXCEPT !.pc = "sent"])
  /\ UNCHANGED <<work, status, config, sent, unwritten, approvals, blind>>

Update(r) ==
  /\ run[r].pc = "updating"
  /\ changed' = changed \cup {r}
  /\ Set(r, [run[r] EXCEPT !.pc = "sent"])
  /\ UNCHANGED <<work, status, config, sent, unwritten, approvals, made, blind>>

\* So is an error of updating the page that was found, done or not.
UpdateFails(r) ==
  /\ run[r].pc = "updating"
  /\ work.kind = "page" /\ ~Improves(r)
  /\ changed' \in {changed, changed \cup {r}}
  /\ Set(r, [run[r] EXCEPT !.pc = "making"])
  /\ blind' = [blind EXCEPT ![r] = @ + 1]
  /\ UNCHANGED <<work, status, config, sent, unwritten, approvals, made>>

\* Metafields and products are attached as far as they can be.
Published(r) ==
  /\ run[r].pc = "sent"
  /\ Finish(r, "publish", "ok")
  /\ UNCHANGED <<work, status, config, sent, unwritten, approvals,
                 made, changed, blind>>

\* Before the site has done it; after that, as a collection that is created and
\* cannot be shown in the sales channel; or the process dies.
PublishFails(r) ==
  /\ run[r].pc \in {"making", "updating", "sent"} \/ At(r, "publish")
  /\ Fails(r, "publish")
  /\ UNCHANGED <<work, status, config, sent, unwritten, approvals,
                 made, changed, blind>>

\* Never throws; the process may die after the write.
ApplyWordpress(r) ==
  /\ At(r, "wp")
  /\ \/ /\ changed' = changed \cup {r}
        /\ Finish(r, "wp", "ok") \/ Finish(r, "wp", "error") \/ Fails(r, "wp")
     \/ /\ UNCHANGED changed
        /\ Finish(r, "wp", "error") \/ Fails(r, "wp")
  /\ UNCHANGED <<work, status, config, sent, unwritten, approvals, made, blind>>

-----------------------------------------------------------------------------
(* People.                                                                 *)

HasDraft == \E r \in Runs : "draft" \in run[r].done

\* Every run of this job that waits gets the event; nobody may be waiting.
Send(answer) ==
  /\ HasDraft
  /\ sent < MaxEvents
  /\ sent' = sent + 1
  /\ run' = [r \in Runs |->
       IF run[r].pc # "waiting" THEN run[r]
       ELSE [run[r] EXCEPT !.pc = "asleep",
                           !.heard = IF answer = "blank" THEN "timeout" ELSE answer]]

\* The draft page sends the event and then writes the status, whatever it is now.
PageStatus(answer) == IF answer = "edited" THEN "approved" ELSE answer

DecideOnPage(answer) ==
  /\ Send(answer)
  /\ unwritten' = unwritten \cup {answer}
  /\ UNCHANGED <<work, status, config, approvals, made, changed, blind>>

PageWrites(answer) ==
  /\ answer \in unwritten
  /\ status' = PageStatus(answer)
  /\ unwritten' = unwritten \ {answer}
  /\ UNCHANGED <<work, config, run, sent, approvals, made, changed, blind>>

\* /api/approve sends what it is given.
DecideByApi(answer) ==
  /\ Send(answer)
  /\ UNCHANGED <<work, status, config, unwritten, approvals, made, changed, blind>>

\* "Re-send to Inngest", which the job's page offers for these.  An error in
\* sending is swallowed.
Resend(r) ==
  /\ run[r].pc = "idle"
  /\ status \in {"queued", "failed", "timeout"}
  /\ status' = "queued"
  /\ Set(r, [run[r] EXCEPT !.pc = "asleep"]) \/ UNCHANGED run
  /\ UNCHANGED <<work, config, sent, unwritten, approvals, made, changed, blind>>

Configure ==
  /\ config' \in Settings
  /\ \A field \in DOMAIN config \ Moves : config'[field] = config[field]
  /\ UNCHANGED <<work, status, run, sent, unwritten, approvals, made, changed, blind>>

Publish(r) ==
  \/ Skip(r) \/ Begin(r) \/ Look(r) \/ Make(r) \/ Update(r) \/ UpdateFails(r)
  \/ Published(r) \/ PublishFails(r) \/ ApplyWordpress(r)

Request(r) ==
  \/ Replay(r) \/ WriteStatus(r) \/ StepFails(r) \/ Draft(r) \/ SaveApproval(r)
  \/ Wait(r) \/ Throw(r) \/ Return(r) \/ Publish(r)

People ==
  \/ \E answer \in Given \cap PageAnswers : DecideOnPage(answer) \/ PageWrites(answer)
  \/ \E answer \in Given : DecideByApi(answer)
  \/ \E r \in Runs : Resend(r)
  \/ Configure

Next == People \/ \E r \in Runs : Request(r) \/ WaitEnds(r)

\* The platform goes on with a request that can, and a wait ends after a day.
Fairness == \A r \in Runs : WF_vars(Request(r)) /\ WF_vars(WaitEnds(r))

Spec == Init /\ [][Next]_vars /\ Fairness

-----------------------------------------------------------------------------
(* Properties.                                                             *)

Statuses == {"queued", "running", "failed", "awaiting_approval", "timeout", "approved",
             "rejected", "snoozed", "publishing", "skipped", "completed"}

Readings == [approval : {"on", "off", "unread"}, gate : {"open", "blocked", "unread"}]

RunState ==
  [pc : {"idle", "asleep", "awake", "waiting", "making", "updating", "sent", "ended"},
   done : SUBSET Steps, bad : SUBSET Steps, heard : Heard,
   result : {"none", "ok", "error", "skipped"}, tries : 0..Retries,
   sees : Readings, read : SUBSET {"off", "open"}]

\* Every variable has its shape; a step is not both done and failed for good.
TypeOK ==
  /\ work \in Work
  /\ status \in Statuses
  /\ config \in Settings
  /\ run \in [Runs -> RunState]
  /\ \A r \in Runs : run[r].done \cap run[r].bad = {}
  /\ sent \in 0..MaxEvents
  /\ unwritten \subseteq PageAnswers
  /\ approvals \in [Runs -> SUBSET (Passing \cup Closing)]
  /\ made \in [Runs -> Nat]
  /\ changed \subseteq Runs
  /\ blind \in [Runs -> Nat]

\* "Nothing is published until you approve it" (review/page.tsx:45), as far as the
\* code has it: a run writes to the site only after an answer with a status other
\* than rejected, snoozed or denied reached it, or after one of its own requests
\* read that the store needs no approval.  A timeout, an answer without a status and
\* a store that cannot be read never publish; a rejected or snoozed run can, if the
\* store stops needing approval before the run is replayed.
NothingBeforeApproval ==
  \A r \in changed : run[r].heard \in Passing \/ "off" \in run[r].read

\* What a run publishes has an approval row of that run, written before; and unless
\* a request of the run read that no approval is needed, each of its rows holds the
\* very status that it heard, which closes nothing.
PublishedIsRecorded ==
  \A r \in changed :
    /\ approvals[r] # {}
    /\ "off" \notin run[r].read =>
         approvals[r] = {run[r].heard} /\ approvals[r] \subseteq Passing

\* The run that knows the job comes from search writes only if a request of its own,
\* begun after its approval was saved, read the gate as open.
GateHolds == First \in changed /\ work.gsc => "open" \in run[First].read

\* A retried publication of a page with a handle finds the page it made, so that each
\* copy beyond a run's first goes back to a lookup or an update whose error was
\* swallowed (publisher.ts:140-154).  A page without a handle, or one that its
\* reviewer edited, and with it perhaps the handle, may be made at every try.
PageMadeOnce ==
  work.kind = "page" /\ work.handle =>
    \A r \in Runs : run[r].heard # "edited" => made[r] <= 1 + blind[r]

\* Every run that has begun ends, whether or not anyone decides.
RunEnds == \A r \in Runs : run[r].pc # "idle" ~> run[r].pc = "ended"
=============================================================================
