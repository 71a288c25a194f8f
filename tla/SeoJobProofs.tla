---------------------------- MODULE SeoJobProofs ----------------------------
(***************************************************************************)
(* Theorems of SeoJob for any number of runs of the job, retries and       *)
(* decisions, any kind of job and any settings that may change.            *)
(*                                                                         *)
(* A request that is about to write, or has written, reached the step with *)
(* a decision that was no answer of nobody and with the approval step in   *)
(* its results (Cleared); a run waits only while it has heard nothing, so  *)
(* that what it heard stays; and what a request reads of the settings is   *)
(* kept in the run's history (Sees).  The copies of a page with a handle   *)
(* are counted against the swallowed errors (Copies).                      *)
(***************************************************************************)
EXTENDS SeoJob, TLAPS

Writing(r) == run[r].pc \in {"making", "updating", "sent"}

\* What a request has read of the settings is in the run's history.
Sees(r) ==
  /\ run[r].sees.approval = "off" => "off" \in run[r].read
  /\ run[r].sees.gate = "open" => "open" \in run[r].read

\* A run that writes, or has written, was allowed to.
Cleared(r) ==
  Writing(r) \/ r \in changed =>
    /\ run[r].heard \in Passing \/ "off" \in run[r].read
    /\ "approval" \in run[r].done
    /\ r = First /\ work.gsc => "open" \in run[r].read

\* The rows of a run that saved its decision say what it heard.
Recorded(r) ==
  /\ "approval" \in run[r].done => approvals[r] # {}
  /\ "off" \notin run[r].read => \A a \in approvals[r] : a = run[r].heard /\ a # "none"

\* A page that is found again: it has a handle, which no reviewer has edited.
Findable(r) == work.kind = "page" /\ work.handle /\ run[r].heard # "edited"

\* Every copy of such a page but one has its swallowed error, and so has the next.
Copies(r) ==
  Findable(r) => /\ made[r] <= 1 + blind[r]
                 /\ run[r].pc = "making" => made[r] <= blind[r]

RunOK(r) ==
  /\ Sees(r)
  /\ Cleared(r)
  /\ Recorded(r)
  /\ Copies(r)
  /\ run[r].pc = "waiting" => run[r].heard = "none"
  /\ Writing(r) => "publish" \notin run[r].done \cup run[r].bad

SInv == TypeOK /\ \A r \in Runs : RunOK(r)

-----------------------------------------------------------------------------
(* What is known of a run that has reached a step.                         *)

\* A step that is to be run was not run before.
LEMMA NextIsNew ==
  ASSUME NEW r \in Runs, NEW S, AtOneOf(r, S)
  PROVE  NextStep(r) \in S /\ NextStep(r) \notin run[r].done \cup run[r].bad
  BY DEF AtOneOf, NextStep, Throws, Ends, Broken, Catch, Passed, Caught

\* A catch writes a status; every other step is the one the function has reached.
LEMMA NextIsReached ==
  ASSUME NEW r \in Runs, NextStep(r) \notin {"fail1", "fail2"}
  PROVE  NextStep(r) = Reached(r)
  BY DEF NextStep, Catch

\* The site is written to after the approval was saved, and with a decision to.
LEMMA WriteReached ==
  ASSUME TypeOK, NEW r \in Runs, Reached(r) \in {"publish", "wp"}
  PROVE  /\ Decision(r) \in Passing
         /\ "approval" \in run[r].done
         /\ IsGscSourced(r) => run[r].sees.gate = "open"
<1> DEFINE x == run[r]
<1>1. x.heard \in Heard /\ x.sees.gate \in {"open", "blocked", "unread"}
  BY DEF TypeOK, RunState, Readings
<1>2. Decision(r) \in Heard
  BY <1>1 DEF Decision, Heard, Passing
<1>3. Reached(r) = AfterDecision(r) /\ Decision(r) \notin {"none", "timeout"}
  BY DEF Reached
<1>4. "approval" \in Passed(r) /\ ~Closes(r)
      /\ Reached(r) = IF IsGscSourced(r) THEN SearchJob(r) ELSE Publication(r)
  BY <1>3 DEF AfterDecision
<1>5. "approval" \in x.done
  BY <1>4 DEF Passed, Caught
<1>6. Decision(r) \in Passing
  BY <1>2, <1>3, <1>4 DEF Closes, Heard, Passing
<1>7. ASSUME IsGscSourced(r) PROVE x.sees.gate = "open"
  BY <1>1, <1>4, <1>7 DEF SearchJob, GateShut
<1> QED
  BY <1>5, <1>6, <1>7

\* The decision that is saved is a person's, or that none was needed.
LEMMA ApprovalReached ==
  ASSUME TypeOK, NEW r \in Runs, Reached(r) \in {"approval", "close"}
  PROVE  /\ Decision(r) \in Passing \cup Closing
         /\ Reached(r) = "close" => Decision(r) \in Closing
<1>1. run[r].heard \in Heard
  BY DEF TypeOK, RunState
<1>2. Decision(r) \in Heard
  BY <1>1 DEF Decision, Heard, Passing
<1>3. Reached(r) = AfterDecision(r) /\ Decision(r) \notin {"none", "timeout"}
  BY DEF Reached
<1>4. Reached(r) = "close" => Closes(r)
  BY <1>3 DEF AfterDecision, SearchJob, Publication
<1> QED
  BY <1>2, <1>3, <1>4 DEF Closes, Heard, Passing

\* Nobody waits who has heard something.
LEMMA WaitReached ==
  ASSUME NEW r \in Runs, Reached(r) = "wait"
  PROVE  run[r].heard = "none"
<1>1. Decision(r) = "none"
  BY DEF Reached, AfterDecision, SearchJob, Publication
<1> QED
  BY <1>1 DEF Decision

\* A decision to write was heard, or none was needed.
LEMMA DecisionHeard ==
  ASSUME NEW r \in Runs, Sees(r)
  PROVE  "off" \notin run[r].read => Decision(r) = run[r].heard
  BY DEF Sees, Decision, MustWait

-----------------------------------------------------------------------------
(* What a step of one run leaves alone.                                    *)

Others == <<work, config, sent, unwritten>>
Site == <<approvals, made, changed, blind>>

\* The run r goes on, and no other does.
Turned(r) ==
  /\ run' \in [Runs -> RunState]
  /\ run'[r].done \cap run'[r].bad = {}
  /\ \A s \in Runs \ {r} : run'[s] = run[s]

\* It is enough to look at the run that goes on.
LEMMA TurnKeeps ==
  ASSUME SInv, NEW r \in Runs, Turned(r), UNCHANGED Others, RunOK(r)',
         status' \in Statuses,
         approvals' \in [Runs -> SUBSET (Passing \cup Closing)],
         made' \in [Runs -> Nat], blind' \in [Runs -> Nat], changed' \subseteq changed \cup {r},
         \A s \in Runs \ {r} : /\ approvals'[s] = approvals[s] /\ made'[s] = made[s]
                               /\ blind'[s] = blind[s]
  PROVE  SInv'
<1>1. TypeOK'
  BY DEF SInv, TypeOK, Turned, Others, Lax
<1>2. ASSUME NEW s \in Runs, s # r PROVE RunOK(s)'
  <2>1. RunOK(s) /\ run'[s] = run[s] /\ (s \in changed' => s \in changed)
    BY <1>2 DEF SInv, Turned
  <2>2. approvals'[s] = approvals[s] /\ made'[s] = made[s] /\ blind'[s] = blind[s]
    BY <1>2
  <2> QED
    BY <2>1, <2>2 DEF RunOK, Sees, Cleared, Recorded, Copies, Findable, Writing, Others
<1> QED
  BY <1>1, <1>2 DEF SInv

\* A turn that writes nothing to the site and saves no row.
LEMMA QuietKeeps ==
  ASSUME SInv, NEW r \in Runs, Turned(r), UNCHANGED <<Others, Site>>, status' \in Statuses,
         run'[r].pc \notin {"making", "updating", "sent"},
         run'[r].pc = "waiting" => run'[r].heard = "none",
         run'[r].heard = run[r].heard \/ run[r].pc = "waiting",
         run[r].read \subseteq run'[r].read,
         run[r].done \subseteq run'[r].done,
         "approval" \in run'[r].done => "approval" \in run[r].done,
         Sees(r)'
  PROVE  SInv'
<1>1. RunOK(r) /\ TypeOK
  BY DEF SInv
<1>2. Recorded(r)'
  BY <1>1 DEF RunOK, Recorded, Others, Site
<1>3. Cleared(r)'
  BY <1>1 DEF RunOK, Cleared, Writing, Passing, Others, Site
<1>4. Copies(r)'
  BY <1>1 DEF RunOK, Copies, Findable, Others, Site
<1>5. RunOK(r)'
  BY <1>2, <1>3, <1>4 DEF RunOK, Writing
<1> QED
  BY <1>1, <1>5, TurnKeeps DEF TypeOK, Site

LEMMA SetTurns ==
  ASSUME TypeOK, NEW r \in Runs, NEW x \in RunState, x.done \cap x.bad = {}, Set(r, x)
  PROVE  Turned(r) /\ run'[r] = x
<1>1. run \in [Runs -> RunState]
  BY DEF TypeOK
<1> QED
  BY <1>1 DEF Turned, Set

\* A step has got its result, or has failed once more, or for good.
Tried(r, step) ==
  /\ Turned(r)
  /\ run'[r].pc \in {"asleep", "awake"}
  /\ run'[r].heard = run[r].heard /\ run'[r].read = run[r].read
  /\ run'[r].sees \in {run[r].sees, Unread}
  /\ run'[r].done \in {run[r].done, run[r].done \cup {step}}

LEMMA StepIsTried ==
  ASSUME TypeOK, NEW r \in Runs, NEW step \in Steps, step \notin run[r].done \cup run[r].bad,
         NEW result \in {"none", "ok", "error", "skipped"},
         Finish(r, step, result) \/ GivesUp(r, step) \/ Fails(r, step)
  PROVE  Tried(r, step)
<1>1. run \in [Runs -> RunState] /\ run[r].done \cap run[r].bad = {}
  BY DEF TypeOK
<1>2. Unread \in Readings
  BY DEF Unread, Readings
<1>3. run[r] \in RunState
  BY <1>1
<1>9. /\ 0 \in 0..Retries
      /\ run[r].done \cup {step} \in SUBSET Steps /\ run[r].bad \cup {step} \in SUBSET Steps
  BY <1>3, SeoAssumption DEF RunState
<1>4. ASSUME NEW x \in RunState, Set(r, x), x.done \cap x.bad = {},
             x.pc \in {"asleep", "awake"}, x.heard = run[r].heard,
             x.read = run[r].read, x.sees \in {run[r].sees, Unread}, x.done \in {run[r].done, run[r].done \cup {step}}
      PROVE  Tried(r, step)
  BY <1>4, SetTurns DEF Tried
<1>5. CASE Finish(r, step, result)
  <2>1. PICK pc \in {"asleep", "awake"} :
          Set(r, [run[r] EXCEPT !.pc = pc, !.done = @ \cup {step}, !.tries = 0,
                                !.result = result,
                                !.sees = IF pc = "asleep" THEN Unread ELSE @])
    BY <1>5 DEF Finish
  <2>2. PICK sees \in {run[r].sees, Unread} :
          Set(r, [run[r] EXCEPT !.pc = pc, !.done = @ \cup {step}, !.tries = 0,
                                !.result = result, !.sees = sees])
    BY <2>1
  <2> DEFINE x == [run[r] EXCEPT !.pc = pc, !.done = @ \cup {step}, !.tries = 0,
                                 !.result = result, !.sees = sees]
  <2>3. x \in RunState
    BY <1>2, <1>3, <1>9 DEF RunState
  <2>4. /\ x.pc = pc /\ x.heard = run[r].heard /\ x.bad = run[r].bad
        /\ x.done = run[r].done \cup {step} /\ x.sees = sees /\ x.read = run[r].read
    BY <1>3 DEF RunState
  <2> QED
    BY <1>1, <1>4, <2>2, <2>3, <2>4
<1>6. CASE GivesUp(r, step)
  <2> DEFINE x == [run[r] EXCEPT !.pc = "asleep", !.tries = 0, !.bad = @ \cup {step},
                                 !.sees = Unread]
  <2>1. x \in RunState
    BY <1>2, <1>3, <1>9 DEF RunState
  <2>2. /\ x.pc = "asleep" /\ x.heard = run[r].heard /\ x.bad = run[r].bad \cup {step}
        /\ x.done = run[r].done /\ x.sees = Unread /\ x.read = run[r].read
    BY <1>3 DEF RunState
  <2> QED
    BY <1>1, <1>4, <1>6, <2>1, <2>2 DEF GivesUp
<1>7. CASE run[r].tries < Retries /\ Set(r, Again(r))
  <2> DEFINE x == Again(r)
  <2>1. x \in RunState
    <3>1. run[r].tries + 1 \in 0..Retries
      BY <1>3, <1>7, SeoAssumption DEF RunState
    <3> QED
      BY <1>2, <1>3, <3>1 DEF RunState, Again
  <2>2. /\ x.pc = "asleep" /\ x.heard = run[r].heard /\ x.bad = run[r].bad
        /\ x.done = run[r].done /\ x.sees = Unread /\ x.read = run[r].read
    BY <1>3 DEF RunState, Again
  <2> QED
    BY <1>1, <1>4, <1>7, <2>1, <2>2
<1> QED
  BY <1>5, <1>6, <1>7 DEF Fails

\* What is read stays so.
LEMMA TriedSees ==
  ASSUME SInv, NEW r \in Runs, NEW step, Tried(r, step)
  PROVE  Sees(r)'
  BY DEF SInv, RunOK, Sees, Tried, Unread

LEMMA QuietStep ==
  ASSUME SInv, NEW r \in Runs, NEW step, Tried(r, step),
         step # "approval" \/ run'[r].done = run[r].done,
         UNCHANGED <<Others, Site>>, status' \in Statuses
  PROVE  SInv'
<1>1. Sees(r)'
  BY TriedSees
<1> QED
  BY <1>1, QuietKeeps DEF Tried

-----------------------------------------------------------------------------
(* One lemma per action, or group of similar ones.                         *)

LEMMA StatusIsOne ==
  ASSUME TypeOK, NEW r \in Runs, NextStep(r) \in StatusSteps
  PROVE  StatusOf(r, NextStep(r)) \in Statuses
<1>1. CASE NextStep(r) = "close"
  <2> QED
    BY <1>1 DEF StatusOf, Statuses
<1>2. CASE NextStep(r) # "close"
  BY <1>2 DEF StatusOf, StatusSteps, Statuses
<1> QED
  BY <1>1, <1>2

LEMMA WriteStatusKeeps == ASSUME SInv, NEW r \in Runs, WriteStatus(r) PROVE SInv'
<1> DEFINE step == NextStep(r)
<1>1. step \in StatusSteps /\ step \notin run[r].done \cup run[r].bad
  BY NextIsNew DEF WriteStatus
<1>2. TypeOK /\ run[r].result \in {"none", "ok", "error", "skipped"}
  BY DEF SInv, TypeOK, RunState
<1>3. Finish(r, step, run[r].result) \/ GivesUp(r, step)
  BY DEF WriteStatus
<1>4. step \in Steps /\ step # "approval"
  BY <1>1 DEF Steps, StatusSteps
<1>5. status' \in Statuses
  BY <1>1, <1>2, StatusIsOne DEF WriteStatus
<1>6. UNCHANGED <<Others, Site>>
  BY DEF WriteStatus, Others, Site
<1> HIDE DEF step
<1>7. Tried(r, step)
  BY <1>1, <1>2, <1>3, <1>4, StepIsTried
<1> QED
  BY <1>4, <1>5, <1>6, <1>7, QuietStep

LEMMA GivesUpLeaves ==
  ASSUME TypeOK, NEW r \in Runs, NEW step, GivesUp(r, step)
  PROVE  run'[r].done = run[r].done
<1>1. run \in [Runs -> RunState] /\ run[r] \in RunState
  BY DEF TypeOK
<1> QED
  BY <1>1 DEF GivesUp, Set, RunState

LEMMA StepFailsKeeps == ASSUME SInv, NEW r \in Runs, StepFails(r) PROVE SInv'
<1> DEFINE step == NextStep(r)
<1>1. step \in Steps /\ step \notin run[r].done \cup run[r].bad
  BY NextIsNew DEF StepFails, Steps
<1>2. TypeOK /\ GivesUp(r, step) /\ UNCHANGED <<Others, Site>>
  BY DEF SInv, StepFails, Others, Site
<1>3. status' \in Statuses
  BY DEF SInv, TypeOK, StepFails
<1> HIDE DEF step
<1>4. Tried(r, step) /\ run'[r].done = run[r].done
  BY <1>1, <1>2, StepIsTried, GivesUpLeaves
<1> QED
  BY <1>2, <1>3, <1>4, QuietStep

\* A step that is taken, or tried, and leaves site and rows alone.
LEMMA OtherStepKeeps ==
  ASSUME SInv, NEW r \in Runs, Draft(r) \/ Skip(r) \/ Published(r) \/ PublishFails(r)
  PROVE  SInv'
<1>1. TypeOK /\ RunOK(r) /\ run[r].result \in {"none", "ok", "error", "skipped"}
  BY DEF SInv, TypeOK, RunState
<1>2. UNCHANGED <<Others, Site>> /\ status' \in Statuses
  BY <1>1 DEF TypeOK, Draft, Skip, Published, PublishFails, Others, Site
<1>3. ASSUME NEW step \in {"draft", "publish"}, At(r, step)
      PROVE  step \notin run[r].done \cup run[r].bad
  BY <1>3, NextIsNew DEF At
<1>4. PICK step \in {"draft", "publish"} :
        /\ step \notin run[r].done \cup run[r].bad
        /\ \/ \E result \in {run[r].result, "ok", "skipped"} : Finish(r, step, result)
           \/ Fails(r, step)
  <2>1. CASE Draft(r)
    BY <1>3, <2>1 DEF Draft
  <2>2. CASE Skip(r)
    BY <1>3, <2>2 DEF Skip
  <2>3. CASE Published(r)
    BY <1>1, <2>3 DEF Published, RunOK, Writing
  <2>4. CASE PublishFails(r)
    BY <1>1, <1>3, <2>4 DEF PublishFails, RunOK, Writing
  <2> QED
    BY <2>1, <2>2, <2>3, <2>4
<1>5. Tried(r, step)
  BY <1>1, <1>4, StepIsTried DEF Steps
<1> QED
  BY <1>2, <1>5, QuietStep

\* The run goes on as x, with the results it has and nothing on its way to the site.
Plainly(r, x) ==
  /\ Set(r, x) /\ x.done = run[r].done /\ x.bad = run[r].bad
  /\ x.pc \notin {"making", "updating", "sent"}
  /\ x.pc = "waiting" => x.heard = "none"
  /\ x.heard = run[r].heard \/ run[r].pc = "waiting"
  /\ run[r].read \subseteq x.read
  /\ x.sees.approval = "off" => "off" \in x.read
  /\ x.sees.gate = "open" => "open" \in x.read

\* A request begins or ends, and a wait.
LEMMA PlainTurnKeeps ==
  ASSUME SInv, NEW r \in Runs,
         Replay(r) \/ Wait(r) \/ WaitEnds(r) \/ Throw(r) \/ Return(r)
  PROVE  SInv'
<1>1. TypeOK /\ RunOK(r) /\ run[r] \in RunState /\ run[r].done \cap run[r].bad = {}
  BY DEF SInv, TypeOK
<1>2. UNCHANGED <<Others, Site>> /\ status' \in Statuses
  BY <1>1 DEF TypeOK, Replay, Wait, WaitEnds, Throw, Return, Others, Site
<1>3. Unread \in Readings
  BY DEF Unread, Readings
<1>4. SUFFICES \E x \in RunState : Plainly(r, x)
  <2>1. PICK x \in RunState : Plainly(r, x)
    BY <1>4
  <2>2. Turned(r) /\ run'[r] = x
    BY <1>1, <2>1, SetTurns DEF Plainly
  <2>3. Sees(r)'
    BY <1>2, <2>1, <2>2 DEF Sees, Others, Plainly
  <2> QED
    BY <1>2, <2>1, <2>2, <2>3, QuietKeeps DEF Plainly
<1>5. CASE Replay(r)
  <2>1. PICK approval \in Reads(r, "approval"), gate \in Reads(r, "gate") :
          LET sees == [approval |-> approval, gate |-> gate] IN
          Set(r, [run[r] EXCEPT !.pc = "awake", !.sees = sees, !.read = @ \cup Lax(sees)])
    BY <1>5 DEF Replay
  <2>2. approval \in {"unread", config.approval} /\ gate \in {"unread", config.gate}
    BY DEF Reads
  <2>3. config \in Settings
    BY <1>1 DEF TypeOK
  <2> DEFINE seen == [approval |-> approval, gate |-> gate]
             x == [run[r] EXCEPT !.pc = "awake", !.sees = seen, !.read = @ \cup Lax(seen)]
  <2>4. seen \in Readings
    BY <2>2, <2>3 DEF Settings, Readings
  <2>5. seen.approval = "off" => "off" \in Lax(seen)
    BY DEF Lax
  <2>6. seen.gate = "open" => "open" \in Lax(seen)
    BY DEF Lax
  <2>0. Lax(seen) \subseteq {"off", "open"}
    BY DEF Lax
  <2> HIDE DEF seen
  <2>7. x \in RunState
    BY <1>1, <2>0, <2>4 DEF RunState
  <2>8. x.done = run[r].done /\ x.bad = run[r].bad /\ x.pc = "awake" /\ x.sees = seen
        /\ x.heard = run[r].heard /\ x.read = run[r].read \cup Lax(seen)
    BY <1>1 DEF RunState
  <2>9. Set(r, x)
    BY <2>1 DEF seen
  <2> HIDE DEF x
  <2> QED
    BY <2>5, <2>6, <2>7, <2>8, <2>9 DEF Plainly
<1>6. CASE Wait(r)
  <2> DEFINE x == [run[r] EXCEPT !.pc = "waiting", !.sees = Unread]
  <2>1. run[r].heard = "none"
    BY <1>6, NextIsNew, NextIsReached, WaitReached DEF Wait, At
  <2>2. x \in RunState
    BY <1>1, <1>3 DEF RunState
  <2>3. x.done = run[r].done /\ x.bad = run[r].bad /\ x.pc = "waiting" /\ x.sees = Unread
        /\ x.read = run[r].read /\ x.heard = run[r].heard
    BY <1>1 DEF RunState
  <2>4. Set(r, x)
    BY <1>6 DEF Wait
  <2> HIDE DEF x
  <2> QED
    BY <2>1, <2>2, <2>3, <2>4 DEF Unread, Plainly
<1>7. CASE WaitEnds(r)
  <2> DEFINE x == [run[r] EXCEPT !.pc = "asleep", !.heard = "timeout"]
  <2>1. x \in RunState
    BY <1>1 DEF RunState, Heard
  <2>2. x.done = run[r].done /\ x.bad = run[r].bad /\ x.pc = "asleep" /\ x.sees = run[r].sees
        /\ x.read = run[r].read
    BY <1>1 DEF RunState
  <2>3. Set(r, x) /\ run[r].pc = "waiting"
    BY <1>7 DEF WaitEnds
  <2> HIDE DEF x
  <2> QED
    BY <1>1, <2>1, <2>2, <2>3 DEF RunOK, Sees, Plainly
<1>8. ASSUME NEW x \in {Again(r), [run[r] EXCEPT !.pc = "ended", !.sees = Unread]}, Set(r, x),
             x = Again(r) => run[r].tries < Retries
      PROVE  \E y \in RunState : Plainly(r, y)
  <2>1. CASE x = Again(r)
    <3>1. run[r].tries + 1 \in 0..Retries
      BY <1>1, <1>8, <2>1, SeoAssumption DEF RunState
    <3>2. x \in RunState
      BY <1>1, <1>3, <2>1, <3>1 DEF RunState, Again
    <3>3. x.done = run[r].done /\ x.bad = run[r].bad /\ x.pc = "asleep" /\ x.sees = Unread
          /\ x.read = run[r].read /\ x.heard = run[r].heard
      BY <1>1, <2>1 DEF RunState, Again
    <3> QED
      BY <1>8, <3>2, <3>3 DEF Unread, Plainly
  <2>2. CASE x = [run[r] EXCEPT !.pc = "ended", !.sees = Unread]
    <3>1. x \in RunState
      BY <1>1, <1>3, <2>2 DEF RunState
    <3>2. x.done = run[r].done /\ x.bad = run[r].bad /\ x.pc = "ended" /\ x.sees = Unread
          /\ x.read = run[r].read /\ x.heard = run[r].heard
      BY <1>1, <2>2 DEF RunState
    <3> QED
      BY <1>8, <3>1, <3>2 DEF Unread, Plainly
  <2> QED
    BY <1>8, <2>1, <2>2
<1>9. CASE Throw(r) /\ run[r].tries < Retries
  BY <1>8, <1>9 DEF Throw
<1>10. CASE (Throw(r) /\ ~(run[r].tries < Retries)) \/ Return(r)
  <2> DEFINE x == [run[r] EXCEPT !.pc = "ended", !.sees = Unread]
  <2>1. Set(r, x)
    BY <1>10 DEF Throw, Return
  <2>2. x.pc = "ended" /\ Again(r).pc = "asleep"
    BY <1>1 DEF RunState, Again
  <2>3. x # Again(r)
    BY <2>2
  <2> HIDE DEF x
  <2> QED
    BY <1>8, <2>1, <2>3 DEF x
<1> QED
  BY <1>5, <1>6, <1>7, <1>9, <1>10

LEMMA SaveApprovalKeeps == ASSUME SInv, NEW r \in Runs, SaveApproval(r) PROVE SInv'
<1>1. TypeOK /\ RunOK(r) /\ run[r].result \in {"none", "ok", "error", "skipped"}
  BY DEF SInv, TypeOK, RunState
<1>2. Reached(r) = "approval" /\ "approval" \notin run[r].done \cup run[r].bad
  BY NextIsNew, NextIsReached DEF SaveApproval, At
<1>3. Decision(r) \in Passing \cup Closing
  BY <1>1, <1>2, ApprovalReached
<1>4. Tried(r, "approval")
  BY <1>1, <1>2, StepIsTried DEF SaveApproval, Steps
<1>5. approvals' = [approvals EXCEPT ![r] = @ \cup {Decision(r)}]
      /\ UNCHANGED <<Others, status, made, changed, blind>>
  BY DEF SaveApproval, Others
<1>6. /\ approvals' \in [Runs -> SUBSET (Passing \cup Closing)]
      /\ approvals'[r] = approvals[r] \cup {Decision(r)}
      /\ \A s \in Runs \ {r} : approvals'[s] = approvals[s]
  BY <1>1, <1>3, <1>5 DEF TypeOK
<1>7. Sees(r)'
  BY <1>4, <1>5, TriedSees DEF Others
<1>8. Recorded(r)'
  <2>1. "off" \notin run[r].read => Decision(r) = run[r].heard
    BY <1>1, DecisionHeard DEF RunOK
  <2>2. Decision(r) # "none"
    BY <1>3 DEF Closing, Passing
  <2> QED
    BY <1>1, <1>4, <1>5, <1>6, <2>1, <2>2 DEF RunOK, Recorded, Tried, Others
<1>9. Cleared(r)' /\ Copies(r)'
  BY <1>1, <1>4, <1>5 DEF RunOK, Cleared, Copies, Findable, Writing, Tried, Others
<1>10. RunOK(r)'
  BY <1>4, <1>7, <1>8, <1>9 DEF RunOK, Writing, Tried
<1> QED
  BY <1>1, <1>4, <1>5, <1>6, <1>10, TurnKeeps DEF TypeOK, Tried

\* Who comes to write to the site may.
LEMMA AtWrite ==
  ASSUME SInv, NEW r \in Runs, NEW step \in {"publish", "wp"}, At(r, step)
  PROVE  /\ run[r].heard \in Passing \/ "off" \in run[r].read
         /\ "approval" \in run[r].done
         /\ r = First /\ work.gsc => "open" \in run[r].read
         /\ step \notin run[r].done \cup run[r].bad
<1>1. TypeOK /\ Sees(r)
  BY DEF SInv, RunOK
<1>2. Reached(r) = step /\ step \notin run[r].done \cup run[r].bad
  BY NextIsNew, NextIsReached DEF At
<1>3. /\ Decision(r) \in Passing /\ "approval" \in run[r].done
      /\ IsGscSourced(r) => run[r].sees.gate = "open"
  BY <1>1, <1>2, WriteReached
<1> QED
  BY <1>1, <1>2, <1>3, DecisionHeard DEF Sees, IsGscSourced

\* On the way to the site, and back with what was done.
LEMMA SiteTurn ==
  ASSUME TypeOK, NEW r \in Runs, NEW pc \in {"making", "updating", "sent"},
         Set(r, [run[r] EXCEPT !.pc = pc])
  PROVE  /\ Turned(r) /\ run'[r].pc = pc /\ run'[r].heard = run[r].heard
         /\ run'[r].done = run[r].done /\ run'[r].bad = run[r].bad
         /\ run'[r].sees = run[r].sees /\ run'[r].read = run[r].read
<1> DEFINE x == [run[r] EXCEPT !.pc = pc]
<1>1. run[r] \in RunState /\ run[r].done \cap run[r].bad = {}
  BY DEF TypeOK
<1>2. x \in RunState
  BY <1>1 DEF RunState
<1>3. /\ x.pc = pc /\ x.heard = run[r].heard /\ x.done = run[r].done /\ x.bad = run[r].bad
      /\ x.sees = run[r].sees /\ x.read = run[r].read
  BY <1>1 DEF RunState
<1> HIDE DEF x
<1> QED
  BY <1>1, <1>2, <1>3, SetTurns DEF x

\* A write to the site, or the way there, of a run that may, with its counts.
LEMMA SiteKeeps ==
  ASSUME SInv, NEW r \in Runs, NEW pc \in {"making", "updating", "sent"},
         Set(r, [run[r] EXCEPT !.pc = pc]),
         UNCHANGED <<work, status, config, sent, unwritten, approvals>>,
         changed' \subseteq changed \cup {r},
         NEW m \in {made[r], made[r] + 1}, made' = [made EXCEPT ![r] = m],
         NEW b \in {blind[r], blind[r] + 1}, blind' = [blind EXCEPT ![r] = b],
         Writing(r) \/ At(r, "publish"),
         Findable(r) => m <= 1 + b,
         Findable(r) /\ pc = "making" => m <= b
  PROVE  SInv'
<1>1. TypeOK /\ RunOK(r) /\ made[r] \in Nat /\ blind[r] \in Nat
  BY DEF SInv, TypeOK
<1>2. /\ Turned(r) /\ run'[r].pc = pc /\ run'[r].heard = run[r].heard
      /\ run'[r].done = run[r].done /\ run'[r].bad = run[r].bad /\ run'[r].sees = run[r].sees
      /\ run'[r].read = run[r].read
  BY <1>1, SiteTurn
<1>3. /\ run[r].heard \in Passing \/ "off" \in run[r].read
      /\ "approval" \in run[r].done
      /\ r = First /\ work.gsc => "open" \in run[r].read
      /\ "publish" \notin run[r].done \cup run[r].bad
  BY <1>1, AtWrite DEF RunOK, Cleared
<1>4. /\ made' \in [Runs -> Nat] /\ made'[r] = m /\ \A s \in Runs \ {r} : made'[s] = made[s]
      /\ blind' \in [Runs -> Nat] /\ blind'[r] = b /\ \A s \in Runs \ {r} : blind'[s] = blind[s]
  BY <1>1 DEF TypeOK
<1>5. Cleared(r)' /\ Sees(r)' /\ Recorded(r)'
  BY <1>1, <1>2, <1>3 DEF RunOK, Cleared, Sees, Recorded
<1>6. Copies(r)'
  BY <1>2, <1>4 DEF Copies, Findable, Findable
<1>7. RunOK(r)'
  BY <1>2, <1>3, <1>5, <1>6 DEF RunOK, Writing
<1> QED
  BY <1>1, <1>2, <1>4, <1>7, TurnKeeps DEF TypeOK, Others

LEMMA SiteStepKeeps ==
  ASSUME SInv, NEW r \in Runs,
         Begin(r) \/ Look(r) \/ Make(r) \/ Update(r) \/ UpdateFails(r)
  PROVE  SInv'
<1>1. /\ made \in [Runs -> Nat] /\ blind \in [Runs -> Nat]
      /\ made[r] \in Nat /\ blind[r] \in Nat /\ Copies(r)
  BY DEF SInv, TypeOK, RunOK
<1>2. made = [made EXCEPT ![r] = made[r]] /\ blind = [blind EXCEPT ![r] = blind[r]]
  BY <1>1
<1>3. CASE Begin(r)
  <2>1. PICK pc \in {"making", "updating"} :
          /\ Set(r, [run[r] EXCEPT !.pc = pc])
          /\ pc = "making" => ~Improves(r)
    BY <1>3 DEF Begin
  <2>2. Findable(r) => pc # "making"
    <3>1. Findable(r) => Handles(r) = {TRUE}
      <4>1. work.handle \in BOOLEAN
        BY DEF SInv, TypeOK, Work
      <4> QED
        BY <4>1 DEF Findable, Handles, Decision
    <3>2. PICK handle \in Handles(r) : ~LooksFirst(r, handle)
      BY <1>3 DEF Begin
    <3>3. ASSUME Findable(r) PROVE Improves(r)
      <4>1. handle = TRUE
        BY <3>1, <3>3
      <4>2. ~LooksFirst(r, TRUE)
        BY <3>2, <4>1
      <4> QED
        BY <3>3, <4>2 DEF LooksFirst, Findable
    <3> QED
      BY <2>1, <3>3
  <2>3. /\ UNCHANGED <<work, status, config, sent, unwritten, approvals>>
        /\ made' = made /\ blind' = blind /\ changed' = changed /\ At(r, "publish")
    BY <1>3 DEF Begin
  <2> QED
    BY <1>1, <1>2, <2>1, <2>2, <2>3, SiteKeeps DEF Copies, Findable
<1>4. CASE Look(r)
  <2>1. /\ UNCHANGED <<work, status, config, sent, unwritten, approvals>>
        /\ made' = made /\ changed' = changed /\ At(r, "publish")
    BY <1>4 DEF Look
  <2>2. CASE blind' = [blind EXCEPT ![r] = @ + 1] /\ Set(r, [run[r] EXCEPT !.pc = "making"])
    <3>1. blind' = [blind EXCEPT ![r] = blind[r] + 1]
      BY <2>2
    <3>2. Findable(r) => made[r] <= blind[r] + 1 /\ made[r] <= 1 + (blind[r] + 1)
      BY <1>1 DEF Copies, Findable
    <3> QED
      BY <1>2, <2>1, <2>2, <3>1, <3>2, SiteKeeps
  <2>3. ASSUME blind' = blind, NEW found \in BOOLEAN, found \in Finds(r),
               Set(r, [run[r] EXCEPT !.pc = IF found THEN "updating" ELSE "making"])
        PROVE  SInv'
    <3>1. CASE found = TRUE
      <4>1. Set(r, [run[r] EXCEPT !.pc = "updating"])
        BY <2>3, <3>1
      <4> QED
        BY <1>1, <1>2, <2>1, <2>3, <4>1, SiteKeeps DEF Copies, Findable
    <3>2. CASE found = FALSE
      <4>1. Set(r, [run[r] EXCEPT !.pc = "making"])
        BY <2>3, <3>2
      <4>2. Findable(r) => made[r] = 0
        <5> SUFFICES ASSUME Findable(r), made[r] # 0 PROVE FALSE
          OBVIOUS
        <5>1. made[r] > 0
          BY <1>1
        <5>2. Finds(r) = {TRUE}
          BY <5>1 DEF Finds, Findable
        <5>3. found = TRUE
          BY <2>3, <5>2
        <5> QED
          BY <3>2, <5>3
      <4>3. Findable(r) => made[r] <= blind[r] /\ made[r] <= 1 + blind[r]
        BY <1>1, <4>2
      <4> QED
        BY <1>2, <2>1, <2>3, <4>1, <4>3, SiteKeeps
    <3> QED
      BY <3>1, <3>2
  <2>4. Finds(r) \subseteq BOOLEAN
    BY DEF Finds
  <2> QED
    BY <1>4, <2>2, <2>3, <2>4 DEF Look
<1>5. CASE Make(r)
  <2>1. /\ UNCHANGED <<work, status, config, sent, unwritten, approvals>>
        /\ made' = [made EXCEPT ![r] = made[r] + 1] /\ blind' = blind
        /\ changed' = changed \cup {r} /\ run[r].pc = "making"
        /\ Set(r, [run[r] EXCEPT !.pc = "sent"])
    BY <1>5 DEF Make
  <2>2. Findable(r) => made[r] + 1 <= 1 + blind[r]
    BY <1>1, <2>1 DEF Copies, Findable
  <2> QED
    BY <1>2, <2>1, <2>2, SiteKeeps DEF Writing
<1>6. CASE Update(r)
  <2>1. /\ UNCHANGED <<work, status, config, sent, unwritten, approvals>>
        /\ made' = made /\ blind' = blind
        /\ changed' = changed \cup {r} /\ run[r].pc = "updating"
        /\ Set(r, [run[r] EXCEPT !.pc = "sent"])
    BY <1>6 DEF Update
  <2> QED
    BY <1>1, <1>2, <2>1, SiteKeeps DEF Copies, Findable, Writing
<1>7. CASE UpdateFails(r)
  <2>1. /\ UNCHANGED <<work, status, config, sent, unwritten, approvals>>
        /\ made' = made /\ blind' = [blind EXCEPT ![r] = blind[r] + 1]
        /\ changed' \subseteq changed \cup {r} /\ run[r].pc = "updating"
        /\ Set(r, [run[r] EXCEPT !.pc = "making"])
    BY <1>7 DEF UpdateFails
  <2>2. Findable(r) => made[r] <= blind[r] + 1 /\ made[r] <= 1 + (blind[r] + 1)
    BY <1>1 DEF Copies, Findable
  <2> QED
    BY <1>2, <2>1, <2>2, SiteKeeps DEF Writing
<1> QED
  BY <1>3, <1>4, <1>5, <1>6, <1>7

LEMMA ApplyWordpressKeeps == ASSUME SInv, NEW r \in Runs, ApplyWordpress(r) PROVE SInv'
<1>1. TypeOK /\ RunOK(r)
  BY DEF SInv
<1>2. At(r, "wp") /\ UNCHANGED <<Others, status, approvals, made, blind>>
      /\ changed' \subseteq changed \cup {r}
      /\ (Finish(r, "wp", "ok") \/ Finish(r, "wp", "error") \/ Fails(r, "wp"))
  BY DEF ApplyWordpress, Others
<1>3. /\ run[r].heard \in Passing \/ "off" \in run[r].read
      /\ "approval" \in run[r].done
      /\ r = First /\ work.gsc => "open" \in run[r].read
      /\ "wp" \notin run[r].done \cup run[r].bad
  BY <1>2, AtWrite
<1>4. Tried(r, "wp")
  BY <1>1, <1>2, <1>3, StepIsTried DEF Steps
<1>5. Sees(r)'
  BY <1>2, <1>4, TriedSees DEF Others
<1>6. Cleared(r)' /\ Recorded(r)' /\ Copies(r)'
  BY <1>1, <1>2, <1>3, <1>4 DEF RunOK, Cleared, Recorded, Copies, Findable, Tried, Others
<1>7. RunOK(r)'
  BY <1>4, <1>5, <1>6 DEF RunOK, Writing, Tried
<1> QED
  BY <1>1, <1>2, <1>4, <1>7, TurnKeeps DEF TypeOK, Tried

\* A decision that reaches those who wait, and nobody else.
LEMMA SendKeeps ==
  ASSUME SInv, NEW answer \in Given, DecideOnPage(answer) \/ DecideByApi(answer),
         answer \in PageAnswers \/ unwritten' = unwritten
  PROVE  SInv'
<1>1. /\ TypeOK /\ Send(answer)
      /\ UNCHANGED <<work, status, config, approvals, made, changed, blind>>
      /\ unwritten' \subseteq unwritten \cup {answer}
  BY DEF SInv, DecideOnPage, DecideByApi
<1> DEFINE heard == IF answer = "blank" THEN "timeout" ELSE answer
<1>2. heard \in Heard
  BY SeoAssumption DEF Heard, Answers
<1>3. ASSUME NEW r \in Runs
      PROVE  /\ run'[r] \in RunState /\ RunOK(r)'
             /\ run'[r].done = run[r].done /\ run'[r].bad = run[r].bad
  <2>1. run[r] \in RunState /\ RunOK(r)
    BY <1>1 DEF SInv, TypeOK
  <2>2. CASE run[r].pc # "waiting"
    <3>1. run'[r] = run[r]
      BY <1>1, <2>2 DEF Send
    <3> QED
      BY <1>1, <2>1, <3>1
      DEF RunOK, Sees, Cleared, Recorded, Copies, Findable, Writing
  <2>3. CASE run[r].pc = "waiting"
    <3> DEFINE x == [run[r] EXCEPT !.pc = "asleep", !.heard = heard]
    <3>1. run'[r] = x
      BY <1>1, <2>3 DEF Send
    <3>2. x \in RunState
      BY <1>2, <2>1 DEF RunState
    <3>3. /\ x.pc = "asleep" /\ x.sees = run[r].sees /\ x.read = run[r].read
          /\ x.done = run[r].done /\ x.bad = run[r].bad
      BY <2>1 DEF RunState
    <3> HIDE DEF x
    <3>4. RunOK(r)'
      BY <1>1, <2>1, <2>3, <3>1, <3>3
      DEF RunOK, Sees, Cleared, Recorded, Copies, Findable, Writing, Passing
    <3> QED
      BY <3>1, <3>2, <3>3, <3>4
  <2> QED
    BY <2>2, <2>3
<1>4. run' \in [Runs -> RunState]
  <2>1. run' = [r \in Runs |-> run'[r]]
    BY <1>1 DEF Send
  <2> QED
    BY <1>3, <2>1
<1>5. sent' \in 0..MaxEvents
  <2>1. sent \in 0..MaxEvents /\ MaxEvents \in Nat
    BY <1>1, SeoAssumption DEF TypeOK
  <2>2. sent < MaxEvents /\ sent' = sent + 1
    BY <1>1 DEF Send
  <2> QED
    BY <2>1, <2>2
<1>6. unwritten' \subseteq PageAnswers
  BY <1>1 DEF TypeOK
<1>7. TypeOK'
  BY <1>1, <1>3, <1>4, <1>5, <1>6 DEF TypeOK, Lax
<1> QED
  BY <1>3, <1>7 DEF SInv

LEMMA PageWritesKeeps ==
  ASSUME SInv, NEW answer \in Given \cap PageAnswers, PageWrites(answer)
  PROVE  SInv'
<1>1. UNCHANGED <<work, config, run, sent, approvals, made, changed, blind>>
  BY DEF PageWrites
<1>2. status' \in Statuses /\ unwritten' \subseteq PageAnswers
  BY DEF SInv, TypeOK, PageWrites, PageStatus, PageAnswers, Statuses
<1>3. TypeOK'
  BY <1>1, <1>2 DEF SInv, TypeOK, Lax
<1>4. \A r \in Runs : RunOK(r)'
  BY <1>1 DEF SInv, RunOK, Sees, Cleared, Recorded, Copies, Findable, Writing
<1> QED
  BY <1>3, <1>4 DEF SInv

LEMMA ResendKeeps == ASSUME SInv, NEW r \in Runs, Resend(r) PROVE SInv'
<1>1. UNCHANGED <<Others, Site>> /\ status' \in Statuses
  BY DEF Resend, Others, Site, Statuses
<1>2. run[r] \in RunState /\ run[r].done \cap run[r].bad = {} /\ RunOK(r) /\ TypeOK
  BY DEF SInv, TypeOK
<1>3. CASE run' = run
  <2>1. TypeOK'
    BY <1>1, <1>2, <1>3 DEF TypeOK, Lax, Others, Site
  <2>2. \A s \in Runs : RunOK(s)'
    BY <1>1, <1>3 DEF SInv, RunOK, Sees, Cleared, Recorded, Copies, Findable, Writing, Others, Site
  <2> QED
    BY <2>1, <2>2 DEF SInv
<1>4. CASE Set(r, [run[r] EXCEPT !.pc = "asleep"])
  <2> DEFINE x == [run[r] EXCEPT !.pc = "asleep"]
  <2>1. x \in RunState
    BY <1>2 DEF RunState
  <2>2. /\ x.pc = "asleep" /\ x.heard = run[r].heard /\ x.sees = run[r].sees /\ x.read = run[r].read
        /\ x.done = run[r].done /\ x.bad = run[r].bad
    BY <1>2 DEF RunState
  <2> HIDE DEF x
  <2>3. Turned(r) /\ run'[r] = x
    BY <1>2, <1>4, <2>1, <2>2, SetTurns DEF x
  <2>4. Sees(r)'
    BY <1>1, <1>2, <2>2, <2>3 DEF RunOK, Sees, Others
  <2> QED
    BY <1>1, <2>2, <2>3, <2>4, QuietKeeps
<1> QED
  BY <1>3, <1>4 DEF Resend

\* What a request has read is not forgotten when the settings change.
LEMMA ConfigureKeeps == ASSUME SInv, Configure PROVE SInv'
<1>1. /\ UNCHANGED <<work, status, run, sent, unwritten, approvals, made, changed, blind>>
      /\ config' \in Settings
  BY DEF Configure
<1>3. TypeOK'
  BY <1>1 DEF SInv, TypeOK
<1>4. \A r \in Runs : RunOK(r)'
  BY <1>1 DEF SInv, RunOK, Sees, Cleared, Recorded, Copies, Findable, Writing
<1> QED
  BY <1>3, <1>4 DEF SInv

-----------------------------------------------------------------------------

LEMMA InitHolds == Init => SInv
<1> SUFFICES ASSUME Init PROVE SInv
  OBVIOUS
<1>1. Fresh \in RunState /\ [Fresh EXCEPT !.pc = "asleep"] \in RunState
  BY SeoAssumption DEF Fresh, RunState, Readings, Unread, Heard
<1>2. \A r \in Runs : /\ run[r] \in RunState
                      /\ run[r].pc \in {"idle", "asleep"} /\ run[r].done = {} /\ run[r].bad = {}
                      /\ run[r].sees = Unread
  BY <1>1 DEF Init, Fresh
<1>3. run \in [Runs -> RunState]
  BY <1>2 DEF Init
<1>4. TypeOK
  BY <1>2, <1>3, SeoAssumption DEF Init, TypeOK, Statuses, Lax
<1>5. \A r \in Runs : RunOK(r)
  BY <1>2 DEF Init, RunOK, Sees, Cleared, Recorded, Copies, Findable, Writing, Unread
<1> QED
  BY <1>4, <1>5 DEF SInv

LEMMA StutterKeeps == SInv /\ UNCHANGED vars => SInv'
<1> SUFFICES ASSUME SInv, UNCHANGED vars PROVE SInv'
  OBVIOUS
<1>1. TypeOK'
  BY DEF SInv, TypeOK, vars, Lax
<1>2. \A r \in Runs : RunOK(r)'
  BY DEF SInv, RunOK, Sees, Cleared, Recorded, Copies, Findable, Writing, vars
<1> QED
  BY <1>1, <1>2 DEF SInv

LEMMA NextKeeps == SInv /\ [Next]_vars => SInv'
<1> SUFFICES ASSUME SInv, Next PROVE SInv'
  BY StutterKeeps
<1>1. CASE People
  <2>1. ASSUME NEW answer \in Given, DecideByApi(answer) PROVE SInv'
    BY <2>1, SendKeeps DEF DecideByApi
  <2>2. ASSUME NEW answer \in Given \cap PageAnswers, DecideOnPage(answer) PROVE SInv'
    BY <2>2, SendKeeps
  <2> QED
    BY <1>1, <2>1, <2>2, PageWritesKeeps, ResendKeeps, ConfigureKeeps DEF People
<1>2. ASSUME NEW r \in Runs, Request(r) PROVE SInv'
  <2>1. CASE Publish(r)
    BY <2>1, OtherStepKeeps, SiteStepKeeps, ApplyWordpressKeeps DEF Publish
  <2> QED
    BY <1>2, <2>1, OtherStepKeeps, PlainTurnKeeps, WriteStatusKeeps, StepFailsKeeps,
       SaveApprovalKeeps DEF Request
<1>3. ASSUME NEW r \in Runs, WaitEnds(r) PROVE SInv'
  BY <1>3, PlainTurnKeeps
<1> QED
  BY <1>1, <1>2, <1>3 DEF Next

\* The invariant of the function, for any number of runs of one job.
THEOREM Invariance == Spec => []SInv
  BY InitHolds, NextKeeps, PTL DEF Spec

\* Every variable keeps its shape, and no step is both done and failed for good.
THEOREM TypeCorrect == Spec => []TypeOK
<1>1. SInv => TypeOK
  BY DEF SInv
<1> QED
  BY <1>1, Invariance, PTL

\* No run writes to the site but after an answer that does not close, or after one of
\* its requests read that the store needs no approval.
THEOREM ApprovalFirst == Spec => []NothingBeforeApproval
<1>1. SInv => NothingBeforeApproval
  BY DEF SInv, TypeOK, RunOK, Cleared, NothingBeforeApproval
<1> QED
  BY <1>1, Invariance, PTL

\* A run that wrote has its row, and where no request of it read that none is needed,
\* the row holds the passing status it heard.
THEOREM RowFirst == Spec => []PublishedIsRecorded
<1>1. ASSUME SInv, NEW r \in changed
      PROVE  /\ approvals[r] # {}
             /\ "off" \notin run[r].read =>
                  approvals[r] = {run[r].heard} /\ approvals[r] \subseteq Passing
  <2>1. Cleared(r) /\ Recorded(r)
    BY <1>1 DEF SInv, TypeOK, RunOK
  <2> QED
    BY <1>1, <2>1 DEF Cleared, Recorded
<1>2. SInv => PublishedIsRecorded
  BY <1>1 DEF PublishedIsRecorded
<1> QED
  BY <1>2, Invariance, PTL

\* The run that knows of the search gate wrote only after it read it as open.
THEOREM GateFirst == Spec => []GateHolds
<1>1. SInv => GateHolds
  BY SeoAssumption DEF SInv, RunOK, Cleared, GateHolds
<1> QED
  BY <1>1, Invariance, PTL

\* Each copy of a page with a handle beyond the first has its swallowed error, however
\* often the step is retried and the job sent again.
THEOREM CopiesAreCounted == Spec => []PageMadeOnce
<1>1. SInv => PageMadeOnce
  BY DEF SInv, RunOK, Copies, Findable, PageMadeOnce
<1> QED
  BY <1>1, Invariance, PTL

=============================================================================
