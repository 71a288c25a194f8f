--------------------------- MODULE DecisionProofs ---------------------------
(***************************************************************************)
(* What Decision promises for any number of requests at once, and that it  *)
(* implements JobLife.                                                     *)
(***************************************************************************)
EXTENDS Decision, SequenceTheorems, TLAPS

\* What the look at the unlocked row still says when the stamp or the job comes.
LookHolds(p) ==
  /\ at[p].pc = "stamp" =>
       \/ at[p].act = "mark_done" /\ rec.approval # "none" /\ auths # <<>>
       \/ at[p].act = "rollback" /\ rec.executed # "no"
  /\ at[p].pc = "queue" => auths # <<>>

\* The approval, the authorization and the status belong together.
ApprovalOK ==
  /\ rec.status = "proposed" => rec.approval = "none"
  /\ auths # <<>> => rec.approval # "none"
  /\ rec.approval = "approved" => auths # <<>>

\* Only a job that ran has a stamp to come, only a failed one was closed as stale.
JobOK ==
  /\ job.stamp => job.auth # 0
  /\ job.stale => job.state = "failed"

\* A person's stamp leaves no authorization behind.
DoneLeavesNothing == rec.executed = "human" => \A i \in DOMAIN auths : auths[i] = "revoked"

RowsOK ==
  /\ rec.executed = "no" => rows.done = 0
  /\ ~rec.rolledBack => rows.rolled = 0

Inv ==
  /\ TypeOK /\ ApprovedOnce /\ NoLeavesNothing /\ StampsInOrder
  /\ ApprovalOK /\ JobOK /\ DoneLeavesNothing /\ RowsOK
  /\ \A p \in Requests : LookHolds(p)

\* A sequence that is not empty and not longer than one has one element.
LEMMA OneLong ==
  ASSUME NEW S, NEW s \in Seq(S), s # <<>>, Len(s) <= 1
  PROVE  Len(s) = 1
<1>1. Len(s) \in Nat \ {0}
  BY EmptySeq
<1> QED BY <1>1

LEMMA InitInv == Init => Inv
<1> SUFFICES ASSUME Init PROVE Inv
  OBVIOUS
<1>1. TypeOK
  BY DEF Init, TypeOK, RecType, Noes, Idle, Places
<1>2. ApprovedOnce /\ NoLeavesNothing /\ StampsInOrder
  BY DEF Init, ApprovedOnce, NoLeavesNothing, StampsInOrder, Noes
<1>3. ApprovalOK /\ JobOK /\ DoneLeavesNothing /\ RowsOK /\ \A p \in Requests : LookHolds(p)
  BY DEF Init, ApprovalOK, JobOK, DoneLeavesNothing, RowsOK, LookHolds, Idle
<1> QED BY <1>1, <1>2, <1>3 DEF Inv

\* A request that goes somewhere else than to a stamp leaves the others' looks alone.
LEMMA Moves ==
  ASSUME Inv, NEW p \in Requests, NEW r \in [pc : Places, act : Decisions \cup Stamps \cup {"apply", "requeue", "none"}],
         at' = [at EXCEPT ![p] = r]
  PROVE  /\ at' \in [Requests -> [pc : Places, act : Decisions \cup Stamps \cup {"apply", "requeue", "none"}]]
         /\ at'[p] = r /\ \A q \in Requests \ {p} : at'[q] = at[q]
  BY DEF Inv, TypeOK

\* What keeps every look true: nobody is un-approved and nothing un-executed.
Onward ==
  /\ rec.approval # "none" => rec'.approval # "none"
  /\ rec.executed # "no" => rec'.executed # "no"
  /\ auths # <<>> => auths' # <<>>

\* A step that leaves the row, the authorizations and the history alone.
LEMMA RowStays ==
  ASSUME Inv, UNCHANGED <<rec, auths, rows>>, TypeOK', JobOK',
         \A p \in Requests : LookHolds(p)'
  PROVE  Inv'
  BY DEF Inv, ApprovedOnce, NoLeavesNothing, StampsInOrder, ApprovalOK,
    DoneLeavesNothing, RowsOK

\* What a request does keeps the invariant.
LEMMA RequestInv ==
  ASSUME Inv, NEW p \in Requests, Request(p)
  PROVE  Inv'
<1> DEFINE Acts == Decisions \cup Stamps \cup {"apply", "requeue", "none"}
<1>0. at[p] \in [pc : Places, act : Acts] /\ Idle \in [pc : Places, act : Acts] /\ Idle.pc = "idle"
  BY DEF Inv, TypeOK, Idle, Places
<1>1. ASSUME NEW r \in [pc : Places, act : Acts], at' = [at EXCEPT ![p] = r],
             Onward, r.pc \in {"stamp", "queue"} => LookHolds(p)'
      PROVE  \A q \in Requests : LookHolds(q)'
  BY <1>1, Moves DEF Inv, LookHolds, Onward
<1>2. ASSUME UNCHANGED <<rec, auths, job, gate, rows>>, NEW r \in [pc : Places, act : Acts],
             at' = [at EXCEPT ![p] = r], r.pc \in {"stamp", "queue"} => LookHolds(p)'
      PROVE  Inv'
  <2>1. TypeOK'
    BY <1>2, Moves DEF Inv, TypeOK
  <2>2. \A q \in Requests : LookHolds(q)'
    BY <1>1, <1>2 DEF Onward
  <2> QED BY <1>2, <2>1, <2>2, RowStays DEF Inv, JobOK
<1>3. ASSUME NEW act \in Decisions \cup Stamps, Decide(p, act) PROVE Inv'
  <2> DEFINE r == [pc |-> IF act \in Stamps THEN "stamp" ELSE "commit", act |-> act]
  <2>1. r \in [pc : Places, act : Acts] /\ at' = [at EXCEPT ![p] = r]
    BY <1>3 DEF Decide, Places
  <2>2. LookHolds(p)'
    <3>1. at'[p] = r
      BY <2>1, Moves
    <3>2. act = "mark_done" => rec.approval # "none" /\ auths # <<>>
      BY <1>3 DEF Decide, LooksFit, Inv, ApprovalOK
    <3>3. act = "rollback" => rec.executed # "no"
      BY <1>3 DEF Decide, LooksFit
    <3>4. rec' = rec /\ auths' = auths
      BY <1>3 DEF Decide
    <3> QED BY <3>1, <3>2, <3>3, <3>4 DEF LookHolds, Stamps
  <2>3. UNCHANGED <<rec, auths, job, gate, rows>>
    BY <1>3 DEF Decide
  <2> HIDE DEF r
  <2> QED BY <1>2, <2>1, <2>2, <2>3
<1>4. ASSUME NEW act \in {"apply", "requeue"}, PostApply(p, act) PROVE Inv'
  <2> DEFINE r == [pc |-> "queue", act |-> act]
  <2>1. r \in [pc : Places, act : Acts] /\ r.pc = "queue"
    BY DEF Places
  <2>2. at' = [at EXCEPT ![p] = r] /\ UNCHANGED <<rec, auths, job, gate, rows>>
    BY <1>4 DEF PostApply
  <2>3. auths # <<>>
    BY <1>4 DEF PostApply, LatestAuthorization, Usable, Inv, TypeOK
  <2>4. LookHolds(p)'
    BY <2>1, <2>2, <2>3, Moves DEF LookHolds
  <2> HIDE DEF r
  <2> QED BY <1>2, <2>1, <2>2, <2>4
<1>5. CASE Refuse(p) \/ GiveUp(p)
  BY <1>0, <1>2, <1>5 DEF Refuse, GiveUp, Leave
<1>6. CASE Commit(p) /\ at[p].act = "authorize"
  <2> DEFINE r == [at[p] EXCEPT !.pc = "queue"]
  <2>1. /\ rec.status = "proposed" /\ auths' = Append(auths, "live")
        /\ rec' = [rec EXCEPT !.status = "authorized", !.approval = "approved"]
        /\ at' = [at EXCEPT ![p] = r] /\ UNCHANGED <<job, gate, rows>>
    BY <1>0, <1>6 DEF Commit, CanDecide, Approve, GoTo, Inv, TypeOK
  <2>2. /\ auths = <<>> /\ rec.executed = "no"
        /\ rec \in RecType /\ rec'.executed = "no" /\ rec'.rolledBack = rec.rolledBack
        /\ rec'.status = "authorized" /\ rec'.approval = "approved" /\ rec' \in RecType
    BY <2>1 DEF Inv, TypeOK, ApprovedOnce, ApprovalOK, StampsInOrder, RecType
  <2>3. auths' = <<"live">> /\ Len(auths') = 1
    BY <2>1, <2>2
  <2>4. r \in [pc : Places, act : Acts] /\ r.pc = "queue"
    BY <1>0 DEF Places
  <2>5. job.state = "none" /\ job.auth = 0
    BY <2>2 DEF Inv, TypeOK
  <2>6. TypeOK'
    BY <2>1, <2>2, <2>3, <2>4, <2>5, Moves DEF Inv, TypeOK
  <2>7. \A q \in Requests : LookHolds(q)'
    <3>1. at'[p] = r
      BY <2>1, <2>4, Moves
    <3>2. LookHolds(p)'
      BY <2>3, <2>4, <3>1 DEF LookHolds
    <3> QED BY <1>1, <2>1, <2>2, <2>3, <2>4, <3>2 DEF Onward
  <2>8. /\ ApprovedOnce' /\ NoLeavesNothing' /\ StampsInOrder'
        /\ ApprovalOK' /\ JobOK' /\ DoneLeavesNothing' /\ RowsOK'
    BY <2>1, <2>2, <2>3, <2>5 DEF Inv, TypeOK, RecType, ApprovedOnce, NoLeavesNothing,
      StampsInOrder, ApprovalOK, JobOK, DoneLeavesNothing, RowsOK, Noes
  <2> QED BY <2>6, <2>7, <2>8 DEF Inv
<1>7. CASE Commit(p) /\ at[p].act # "authorize"
  <2>1. /\ auths' = Revoked /\ at' = [at EXCEPT ![p] = Idle] /\ UNCHANGED <<job, gate, rows>>
        /\ \/ rec' = [rec EXCEPT !.status = "denied", !.approval = "rejected"]
           \/ rec' = [rec EXCEPT !.status = "snoozed"]
    BY <1>7 DEF Commit, SayNo, Leave
  <2>2. /\ rec \in RecType /\ rec' \in RecType /\ rec'.status \in Noes
        /\ rec'.executed = rec.executed /\ rec'.rolledBack = rec.rolledBack
        /\ rec.approval # "none" => rec'.approval # "none"
        /\ rec'.approval \in {"rejected", rec.approval}
    BY <2>1 DEF Inv, TypeOK, RecType, Noes
  <2>3. /\ auths' \in Seq({"live", "lapsed", "revoked"}) /\ Len(auths') = Len(auths)
        /\ \A i \in DOMAIN auths' : auths'[i] = "revoked"
        /\ auths' # <<>> <=> auths # <<>>
    BY <2>1 DEF Revoked, Inv, TypeOK
  <2>4. TypeOK'
    BY <1>0, <2>1, <2>2, <2>3, Moves DEF Inv, TypeOK
  <2>5. \A q \in Requests : LookHolds(q)'
    BY <1>0, <1>1, <2>1, <2>2, <2>3 DEF Onward
  <2>6. /\ ApprovedOnce' /\ NoLeavesNothing' /\ StampsInOrder'
        /\ ApprovalOK' /\ JobOK' /\ DoneLeavesNothing' /\ RowsOK'
    BY <2>1, <2>2, <2>3 DEF Inv, ApprovedOnce, NoLeavesNothing, StampsInOrder,
      ApprovalOK, JobOK, DoneLeavesNothing, RowsOK, Noes
  <2> QED BY <2>4, <2>5, <2>6 DEF Inv
<1>8. CASE Queue(p)
  <2>1. /\ UNCHANGED <<rec, auths, gate, rows>>
        /\ job' = IF job.state = "none" THEN [state |-> "queued", auth |-> Len(auths),
                                                stale |-> FALSE, stamp |-> FALSE] ELSE job
        /\ \/ at' = [at EXCEPT ![p] = [at[p] EXCEPT !.pc = "requeue"]]
           \/ at' = [at EXCEPT ![p] = Idle]
    BY <1>0, <1>8 DEF Queue, GoTo, Leave, LatestAuthorization, Inv, TypeOK
  <2>2. auths # <<>> /\ Len(auths) = 1
    <3>1. auths # <<>>
      BY <1>8 DEF Queue, LookHolds, Inv
    <3>2. auths \in Seq({"live", "lapsed", "revoked"}) /\ Len(auths) <= 1
      BY DEF Inv, TypeOK, ApprovedOnce
    <3> QED BY <3>1, <3>2, OneLong
  <2>3. TypeOK'
    <3>0. [at[p] EXCEPT !.pc = "requeue"] \in [pc : Places, act : Acts]
      BY <1>0 DEF Places
    <3>1. at' \in [Requests -> [pc : Places, act : Acts]]
      BY <1>0, <2>1, <3>0, Moves
    <3>2. /\ job' \in [state : {"none", "queued", "applying", "succeeded", "failed"},
                       auth : Nat, stale : BOOLEAN, stamp : BOOLEAN]
          /\ job'.auth \in IF job'.state = "none" THEN {0} ELSE 1 .. Len(auths)
      <4>1. CASE job.state = "none"
        <5>1. job' = [state |-> "queued", auth |-> 1, stale |-> FALSE, stamp |-> FALSE]
          BY <2>1, <2>2, <4>1
        <5> QED BY <2>2, <5>1
      <4>2. CASE job.state # "none"
        BY <2>1, <4>2 DEF Inv, TypeOK
      <4> QED BY <4>1, <4>2
    <3> QED BY <2>1, <3>1, <3>2 DEF Inv, TypeOK
  <2>4. \A q \in Requests : LookHolds(q)'
    <3>1. [at[p] EXCEPT !.pc = "requeue"] \in [pc : Places, act : Acts]
      BY <1>0 DEF Places
    <3> QED BY <1>0, <1>1, <2>1, <3>1 DEF Onward
  <2> QED BY <2>1, <2>3, <2>4, RowStays DEF Inv, JobOK
<1>9. CASE Requeue(p)
  <2>1. /\ UNCHANGED <<rec, auths, gate, rows>> /\ at' = [at EXCEPT ![p] = Idle]
        /\ job' = job \/ (job.state = "failed" /\ job' = [job EXCEPT !.state = "queued", !.stale = FALSE])
    BY <1>9 DEF Requeue, Leave
  <2>2. TypeOK' /\ JobOK'
    <3>1. at' \in [Requests -> [pc : Places, act : Acts]]
      BY <1>0, <2>1, Moves
    <3> QED BY <2>1, <3>1 DEF Inv, TypeOK, JobOK
  <2>3. \A q \in Requests : LookHolds(q)'
    BY <1>0, <1>1, <2>1 DEF Onward
  <2> QED BY <2>1, <2>2, <2>3, RowStays
<1>10. CASE Stamp(p)
  <2>1. at' = [at EXCEPT ![p] = Idle] /\ UNCHANGED <<job, gate>>
    BY <1>10 DEF Stamp, Leave
  <2>2. CASE UNCHANGED <<rec, auths, rows>>
    <3>1. TypeOK'
      BY <1>0, <2>1, <2>2, Moves DEF Inv, TypeOK
    <3>2. \A q \in Requests : LookHolds(q)'
      BY <1>0, <1>1, <2>1, <2>2 DEF Onward
    <3> QED BY <2>1, <2>2, <3>1, <3>2, RowStays DEF Inv, JobOK
  <2>3. CASE at[p].act = "mark_done" /\ rec.executed = "no" /\ MarkDone
    <3>1. /\ rec' = [rec EXCEPT !.executed = "human"] /\ rec.approval # "none" /\ auths # <<>>
          /\ auths' = Revoked /\ rows' = [rows EXCEPT !.done = @ + 1]
      BY <1>10, <2>3 DEF MarkDone, Stamp, Inv, LookHolds
    <3>2. /\ rec \in RecType /\ rec' \in RecType /\ rec'.executed = "human"
          /\ rec'.status = rec.status /\ rec'.approval = rec.approval
          /\ rec'.rolledBack = rec.rolledBack
      BY <3>1 DEF Inv, TypeOK, RecType
    <3>3. /\ auths' \in Seq({"live", "lapsed", "revoked"}) /\ Len(auths') = Len(auths)
          /\ \A i \in DOMAIN auths' : auths'[i] = "revoked"
          /\ auths' # <<>> <=> auths # <<>>
      BY <3>1 DEF Revoked, Inv, TypeOK
    <3>4. /\ rows' \in [done : Nat, rolled : Nat] /\ rows'.done = 1 /\ rows'.rolled = rows.rolled
      BY <2>3, <3>1 DEF Inv, TypeOK, RowsOK
    <3>5. TypeOK'
      BY <1>0, <2>1, <3>2, <3>3, <3>4, Moves DEF Inv, TypeOK
    <3>6. \A q \in Requests : LookHolds(q)'
      BY <1>0, <1>1, <2>1, <3>2, <3>3 DEF Onward
    <3>7. /\ ApprovedOnce' /\ NoLeavesNothing' /\ StampsInOrder'
          /\ ApprovalOK' /\ JobOK' /\ DoneLeavesNothing' /\ RowsOK'
      BY <2>1, <3>1, <3>2, <3>3, <3>4 DEF Inv, ApprovedOnce, NoLeavesNothing,
        StampsInOrder, ApprovalOK, JobOK, DoneLeavesNothing, RowsOK
    <3> QED BY <3>5, <3>6, <3>7 DEF Inv
  <2>4. CASE at[p].act # "mark_done" /\ ~rec.rolledBack /\ RollBack
    <3>1. /\ rec' = [rec EXCEPT !.rolledBack = TRUE] /\ rec.executed # "no"
          /\ auths' = auths /\ rows' = [rows EXCEPT !.rolled = @ + 1]
      BY <1>10, <2>4 DEF RollBack, Stamp, Inv, LookHolds
    <3>2. /\ rec \in RecType /\ rec' \in RecType /\ rec'.executed = rec.executed
          /\ rec'.status = rec.status /\ rec'.approval = rec.approval
          /\ rec'.rolledBack = TRUE
      BY <3>1 DEF Inv, TypeOK, RecType
    <3>3. /\ rows' \in [done : Nat, rolled : Nat] /\ rows'.done = rows.done /\ rows'.rolled = 1
      BY <2>4, <3>1 DEF Inv, TypeOK, RowsOK
    <3>4. TypeOK'
      BY <1>0, <2>1, <3>1, <3>2, <3>3, Moves DEF Inv, TypeOK
    <3>5. \A q \in Requests : LookHolds(q)'
      BY <1>0, <1>1, <2>1, <3>1, <3>2 DEF Onward
    <3>6. /\ ApprovedOnce' /\ NoLeavesNothing' /\ StampsInOrder'
          /\ ApprovalOK' /\ JobOK' /\ DoneLeavesNothing' /\ RowsOK'
      BY <2>1, <3>1, <3>2, <3>3 DEF Inv, ApprovedOnce, NoLeavesNothing,
        StampsInOrder, ApprovalOK, JobOK, DoneLeavesNothing, RowsOK
    <3> QED BY <3>4, <3>5, <3>6 DEF Inv
  <2> QED BY <1>10, <2>2, <2>3, <2>4 DEF Stamp, Repeats
<1> QED BY <1>3, <1>4, <1>5, <1>6, <1>7, <1>8, <1>9, <1>10 DEF Request

\* What the worker, an owner and the calendar do keeps the invariant.
LEMMA OtherInv ==
  ASSUME Inv, Worker \/ SetGate \/ Expire \/ UNCHANGED vars
  PROVE  Inv'
<1> DEFINE Rows(states, auth) == [state : states, auth : auth, stale : BOOLEAN, stamp : BOOLEAN]
<1>1. ASSUME UNCHANGED <<rec, auths, gate, at, rows>>, job.state # "none",
             job' \in Rows({"queued", "applying", "succeeded", "failed"}, {job.auth}),
             job'.stale => job'.state = "failed"
      PROVE  Inv'
  <2>1. TypeOK' /\ JobOK'
    BY <1>1 DEF Inv, TypeOK, JobOK
  <2>2. \A p \in Requests : LookHolds(p)'
    BY <1>1 DEF Inv, LookHolds
  <2> QED BY <1>1, <2>1, <2>2, RowStays
<1>2. CASE Claim \/ CloseStale \/ \E wrote \in BOOLEAN : Settle(wrote)
  <2>1. job \in Rows({"none", "queued", "applying", "succeeded", "failed"}, Nat)
    BY DEF Inv, TypeOK
  <2>2. UNCHANGED <<rec, auths, gate, at, rows>> /\ job.state # "none"
    BY <1>2 DEF Claim, CloseStale, Settle, CanSettle
  <2>3. /\ job' \in Rows({"queued", "applying", "succeeded", "failed"}, {job.auth})
        /\ job'.stale => job'.state = "failed"
    <3>1. CASE Claim
      <4>1. PICK s \in {"applying", "succeeded", "failed"} : job' = [job EXCEPT !.state = s]
        BY <3>1 DEF Claim
      <4>2. ~job.stale
        BY <3>1 DEF Claim, Inv, JobOK
      <4> QED BY <2>1, <4>1, <4>2
    <3>2. CASE CloseStale
      BY <2>1, <3>2 DEF CloseStale
    <3>3. CASE \E wrote \in BOOLEAN : Settle(wrote)
      <4>1. PICK wrote \in BOOLEAN, s \in {"succeeded", "failed"} :
              job' = [job EXCEPT !.state = s, !.stale = FALSE, !.stamp = wrote]
        BY <3>3 DEF Settle
      <4> QED BY <2>1, <4>1
    <3> QED BY <1>2, <3>1, <3>2, <3>3
  <2> HIDE DEF Rows
  <2> QED BY <1>1, <2>2, <2>3
<1>3. CASE StampApplied
  <2>1. /\ job.stamp /\ job' = [job EXCEPT !.stamp = FALSE]
        /\ rec' = [rec EXCEPT !.executed = "apply"] /\ UNCHANGED <<auths, gate, at, rows>>
    BY <1>3 DEF StampApplied
  <2>2. auths # <<>> /\ rec.approval # "none"
    BY <2>1 DEF Inv, TypeOK, ApprovalOK, JobOK
  <2>3. /\ rec \in RecType /\ rec' \in RecType /\ rec'.executed = "apply"
        /\ rec'.status = rec.status /\ rec'.approval = rec.approval
        /\ rec'.rolledBack = rec.rolledBack
    BY <2>1 DEF Inv, TypeOK, RecType
  <2>4. TypeOK'
    BY <2>1, <2>3 DEF Inv, TypeOK
  <2>5. \A p \in Requests : LookHolds(p)'
    BY <2>1, <2>3 DEF Inv, LookHolds
  <2>6. job'.stamp = FALSE
    BY <2>1 DEF Inv, TypeOK
  <2>7. /\ ApprovedOnce' /\ NoLeavesNothing' /\ StampsInOrder'
        /\ ApprovalOK' /\ JobOK' /\ DoneLeavesNothing' /\ RowsOK'
    BY <2>1, <2>2, <2>3, <2>6 DEF Inv, ApprovedOnce, NoLeavesNothing, StampsInOrder,
      ApprovalOK, JobOK, DoneLeavesNothing, RowsOK
  <2> QED BY <2>4, <2>5, <2>7 DEF Inv
<1>4. CASE StampLost
  <2>1. TypeOK' /\ JobOK'
    BY <1>4 DEF StampLost, Inv, TypeOK, JobOK
  <2>2. \A p \in Requests : LookHolds(p)'
    BY <1>4 DEF StampLost, Inv, LookHolds
  <2> QED BY <1>4, <2>1, <2>2, RowStays DEF StampLost
<1>5. CASE SetGate
  <2>1. TypeOK' /\ \A p \in Requests : LookHolds(p)'
    BY <1>5 DEF SetGate, Inv, TypeOK, LookHolds
  <2> QED BY <1>5, <2>1, RowStays DEF SetGate, Inv, JobOK
<1>6. CASE Expire
  <2>1. PICK i \in DOMAIN auths : auths[i] = "live" /\ auths' = [auths EXCEPT ![i] = "lapsed"]
    BY <1>6 DEF Expire
  <2>2. UNCHANGED <<rec, job, gate, at, rows>>
    BY <1>6 DEF Expire
  <2>3. /\ auths' \in Seq({"live", "lapsed", "revoked"}) /\ Len(auths') = Len(auths)
        /\ auths # <<>> /\ auths' # <<>>
    BY <2>1 DEF Inv, TypeOK
  <2>4. rec.status \notin Noes /\ rec.executed # "human"
    BY <2>1 DEF Inv, NoLeavesNothing, DoneLeavesNothing
  <2>5. TypeOK'
    BY <2>2, <2>3 DEF Inv, TypeOK
  <2>6. \A p \in Requests : LookHolds(p)'
    BY <2>2, <2>3 DEF Inv, LookHolds
  <2>7. /\ ApprovedOnce' /\ NoLeavesNothing' /\ StampsInOrder'
        /\ ApprovalOK' /\ JobOK' /\ DoneLeavesNothing' /\ RowsOK'
    BY <2>2, <2>3, <2>4 DEF Inv, ApprovedOnce, NoLeavesNothing, StampsInOrder,
      ApprovalOK, JobOK, DoneLeavesNothing, RowsOK
  <2> QED BY <2>5, <2>6, <2>7 DEF Inv
<1>7. CASE UNCHANGED vars
  <2>1. TypeOK' /\ \A p \in Requests : LookHolds(p)'
    BY <1>7 DEF vars, Inv, TypeOK, LookHolds
  <2> QED BY <1>7, <2>1, RowStays DEF vars, Inv, JobOK
<1> QED BY <1>2, <1>3, <1>4, <1>5, <1>6, <1>7 DEF Worker

LEMMA InvCorrect == Spec => []Inv
<1>1. Inv /\ [Next]_vars => Inv'
  BY RequestInv, OtherInv DEF Next
<1> QED BY <1>1, InitInv, PTL DEF Spec

\* However many people press at once, there is never a second authorization, and
\* none on what nobody approved (audit.ts:543-547).
THEOREM ApprovedOnceCorrect == Spec => []ApprovedOnce
<1>1. Inv => ApprovedOnce
  BY DEF Inv
<1> QED BY <1>1, InvCorrect, PTL

\* After a deny or a snooze nothing is left that a claim would take
\* (audit.ts:624-629).
THEOREM NoLeavesNothingCorrect == Spec => []NoLeavesNothing
<1>1. Inv => NoLeavesNothing
  BY DEF Inv
<1> QED BY <1>1, InvCorrect, PTL

\* A recommendation is marked done and rolled back once each, and in the order
\* approved, executed, rolled back (rec-lifecycle.ts:305-306, audits.ts:445-460).
THEOREM StampsCorrect == Spec => [](TypeOK /\ StampsInOrder)
<1>1. Inv => TypeOK /\ StampsInOrder
  BY DEF Inv
<1> QED BY <1>1, InvCorrect, PTL

\* The first deny or snooze stays (audit.ts:543-545).
THEOREM FirstNoCorrect == Spec => FirstNoWins
<1>1. Inv /\ [Next]_vars => [rec.status \in Noes => rec'.status = rec.status]_vars
  <2> SUFFICES ASSUME Inv, Next, rec.status \in Noes PROVE rec'.status = rec.status
    BY DEF vars
  <2>1. rec \in RecType /\ rec.status # "proposed" /\ rec.status # "authorized"
    BY DEF Inv, TypeOK, Noes
  <2>2. ASSUME NEW p \in Requests, Request(p) PROVE rec'.status = rec.status
    <3>1. ~Commit(p)
      BY <2>1 DEF Commit, CanDecide
    <3>2. CASE Stamp(p)
      BY <2>1, <3>2 DEF Stamp, MarkDone, RollBack, RecType
    <3> QED BY <2>2, <3>1, <3>2 DEF Request, Decide, PostApply, Refuse, Queue, Requeue, GiveUp
  <2>3. CASE Worker \/ SetGate \/ Expire
    BY <2>1, <2>3 DEF Worker, Claim, CloseStale, Settle, StampApplied, StampLost, SetGate,
      Expire, RecType
  <2> QED BY <2>2, <2>3 DEF Next
<1> QED BY <1>1, InvCorrect, PTL DEF Spec, FirstNoWins

\* No run starts after a person marked the recommendation done or said no to it,
\* although the claim reads neither (rec-lifecycle.ts:317-325, apply.ts:273-286).
THEOREM NothingStartsCorrect == Spec => NothingStartsAfter
<1>1. Inv /\ [Next]_vars
        => [job.state # "applying" /\ job'.state = "applying"
              => rec.executed # "human" /\ rec.status \notin Noes]_vars
  <2> SUFFICES ASSUME Inv, Next, job.state # "applying", job'.state = "applying"
               PROVE  rec.executed # "human" /\ rec.status \notin Noes
    BY DEF vars
  <2>1. job \in [state : {"none", "queued", "applying", "succeeded", "failed"}, auth : Nat,
                 stale : BOOLEAN, stamp : BOOLEAN]
    BY DEF Inv, TypeOK
  <2>2. ASSUME NEW p \in Requests, Request(p) PROVE FALSE
    <3>1. job' = job \/ Queue(p) \/ Requeue(p)
      BY <2>2 DEF Request, Decide, PostApply, Commit, Refuse, Stamp, GiveUp
    <3>2. ~Queue(p)
      BY DEF Queue
    <3>3. ~Requeue(p)
      BY <2>1 DEF Requeue
    <3> QED BY <3>1, <3>2, <3>3
  <2>3. ~CloseStale /\ ~StampApplied /\ ~StampLost /\ ~SetGate /\ ~Expire
    BY <2>1 DEF CloseStale, StampApplied, StampLost, SetGate, Expire
  <2>4. \A wrote \in BOOLEAN : ~Settle(wrote)
    BY <2>1 DEF Settle
  <2>5. Claim
    BY <2>2, <2>3, <2>4 DEF Next, Worker
  <2>6. StillApplies
    BY <2>1, <2>5 DEF Claim
  <2>7. job.auth \in DOMAIN auths /\ auths[job.auth] = "live" /\ rec.status = "authorized"
    BY <2>5, <2>6 DEF StillApplies, Usable, Claim, Inv, TypeOK
  <2> QED BY <2>7 DEF Inv, DoneLeavesNothing, Noes
<1> QED BY <1>1, InvCorrect, PTL DEF Spec, NothingStartsAfter

-----------------------------------------------------------------------------
(* The job and its approval live as the engine has them live.               *)

\* Steps that leave the approval, the settings and the stamp alone.
LEMMA JobOnly ==
  ASSUME UNCHANGED <<rec, auths, gate>>, job'.auth = job.auth
  PROVE  /\ StillApplies' = StillApplies /\ Executed' = Executed
         /\ (gate = "open")' = (gate = "open")
  BY DEF StillApplies, Usable, Executed

\* Who executed it, in the words of JobLife.
LEMMA ExecutedIs ==
  ASSUME rec \in RecType
  PROVE  /\ Executed = "nobody" <=> rec.executed = "no"
         /\ Executed = "human" <=> rec.executed = "human"
         /\ rec.executed = "apply" => Executed = "cerevex_apply"
  BY DEF RecType, Executed

\* The job belongs to an authorization there is.
LEMMA Belongs ==
  ASSUME Inv, job.auth # 0
  PROVE  job.auth \in DOMAIN auths /\ auths # <<>>
  BY DEF Inv, TypeOK

\* An approval that goes is withdrawn; one that stays is no change.
LEMMA ApprovalGoes ==
  ASSUME UNCHANGED <<job, gate>>, Executed' = Executed, StillApplies' => StillApplies
  PROVE  Life!Withdraw \/ UNCHANGED Life!lifeVars
<1>1. CASE StillApplies /\ ~StillApplies'
  BY <1>1 DEF Life!Withdraw, StillApplies, Usable
<1>2. CASE StillApplies' <=> StillApplies
  BY <1>2 DEF Life!lifeVars, StillApplies, Usable
<1> QED
  BY <1>1, <1>2

LEMMA InitLives == Init => Life!LifeInit
  BY DEF Init, Life!LifeInit, StillApplies, Usable, Executed

LEMMA RequestLives ==
  ASSUME Inv, NEW p \in Requests, Request(p)
  PROVE  Life!LifeNext \/ UNCHANGED Life!lifeVars
<1>1. job \in [state : {"none", "queued", "applying", "succeeded", "failed"}, auth : Nat,
               stale : BOOLEAN, stamp : BOOLEAN]
  BY DEF Inv, TypeOK
<1>2. rec \in RecType
  BY DEF Inv, TypeOK
<1>3. CASE UNCHANGED <<rec, auths, job, gate>>
  BY <1>3 DEF Life!lifeVars, StillApplies, Usable, Executed
<1>4. CASE Commit(p)
  <2>1. CASE at[p].act = "authorize"
    <3>1. /\ UNCHANGED <<job, gate>> /\ auths' = Append(auths, "live")
          /\ rec.status = "proposed" /\ rec'.executed = rec.executed
      BY <1>2, <1>4, <2>1 DEF Commit, Approve, CanDecide, RecType
    <3>2. job.auth = 0
      BY <3>1, Belongs DEF Inv, ApprovedOnce
    <3>3. ~StillApplies /\ ~StillApplies'
      BY <3>1, <3>2 DEF StillApplies, Usable
    <3> QED
      BY <3>1, <3>3, ApprovalGoes DEF Executed, Life!LifeNext
  <2>2. CASE at[p].act # "authorize"
    <3>1. /\ UNCHANGED <<job, gate>>
          /\ rec'.status \in Noes /\ rec'.executed = rec.executed
      BY <1>2, <1>4, <2>2 DEF Commit, SayNo, RecType, Noes
    <3>2. ~StillApplies'
      BY <3>1 DEF StillApplies, Noes
    <3> QED
      BY <3>1, <3>2, ApprovalGoes DEF Executed, Life!LifeNext
  <2> QED
    BY <2>1, <2>2
<1>5. CASE Queue(p) /\ job.state = "none"
  <2>1. /\ UNCHANGED <<rec, auths, gate>>
        /\ job' = [state |-> "queued", auth |-> Len(auths), stale |-> FALSE, stamp |-> FALSE]
    BY <1>5 DEF Queue, LatestAuthorization
  <2>2. job.stale = FALSE /\ job.stamp = FALSE
    BY <1>1, <1>5 DEF Inv, TypeOK, JobOK
  <2>3. rec.executed = "human" => ~StillApplies'
    <3>1. auths \in Seq({"live", "lapsed", "revoked"})
      BY DEF Inv, TypeOK
    <3>2. SUFFICES ASSUME rec.executed = "human", Len(auths) # 0
                   PROVE  auths[Len(auths)] = "revoked"
      BY <2>1 DEF StillApplies, Usable
    <3> QED
      BY <3>1, <3>2 DEF Inv, DoneLeavesNothing
  <2>4. Executed' = Executed /\ (Executed = "human" => ~StillApplies')
    BY <1>2, <2>1, <2>3, ExecutedIs DEF Executed
  <2>5. Life!Enqueue
    BY <1>5, <2>1, <2>2, <2>4 DEF Life!Enqueue
  <2> QED
    BY <2>5 DEF Life!LifeNext
<1>6. CASE Requeue(p) /\ job.state = "failed"
  <2>1. CASE job' = [job EXCEPT !.state = "queued", !.stale = FALSE]
    <3>1. /\ UNCHANGED <<rec, auths, gate>> /\ job'.state = "queued" /\ job'.stale = FALSE
          /\ job'.auth = job.auth /\ job'.stamp = job.stamp
      BY <1>1, <1>6, <2>1 DEF Requeue
    <3>2. Life!Reopen
      BY <1>6, <3>1, JobOnly DEF Life!Reopen
    <3> QED
      BY <3>2 DEF Life!LifeNext
  <2> QED
    BY <1>3, <1>6, <2>1 DEF Requeue
<1>7. CASE Stamp(p)
  <2>1. UNCHANGED <<job, gate>>
    BY <1>7 DEF Stamp
  <2>2. CASE rec.executed = "no" /\ MarkDone
    <3>1. /\ rec'.executed = "human" /\ rec' \in RecType
          /\ auths' = Revoked
      BY <1>2, <2>2 DEF MarkDone, RecType
    <3>2. ~StillApplies'
      BY <2>1, <3>1, Belongs DEF StillApplies, Usable, Revoked
    <3>3. Executed = "nobody" /\ Executed' = "human"
      BY <2>2, <3>1 DEF Executed
    <3>4. Life!DoByHand
      BY <2>1, <3>2, <3>3 DEF Life!DoByHand, StillApplies, Usable
    <3> QED
      BY <3>4 DEF Life!LifeNext
  <2>3. CASE RollBack
    <3>1. auths' = auths /\ rec'.status = rec.status /\ rec'.executed = rec.executed
      BY <1>2, <2>3 DEF RollBack, RecType
    <3>2. (StillApplies' <=> StillApplies) /\ Executed' = Executed
      BY <2>1, <3>1 DEF StillApplies, Usable, Executed
    <3> QED
      BY <2>1, <3>2, ApprovalGoes DEF Life!LifeNext
  <2>4. CASE UNCHANGED <<rec, auths>>
    BY <1>3, <2>1, <2>4
  <2> QED
    BY <1>7, <2>2, <2>3, <2>4 DEF Stamp, Repeats
<1> QED
  BY <1>3, <1>4, <1>5, <1>6, <1>7 DEF Request, Decide, PostApply, Refuse, Queue, Requeue, GiveUp

LEMMA OthersLive ==
  ASSUME Inv, Worker \/ SetGate \/ Expire \/ UNCHANGED vars
  PROVE  Life!LifeNext \/ UNCHANGED Life!lifeVars
<1>1. job \in [state : {"none", "queued", "applying", "succeeded", "failed"}, auth : Nat,
               stale : BOOLEAN, stamp : BOOLEAN]
  BY DEF Inv, TypeOK
<1>2. rec \in RecType
  BY DEF Inv, TypeOK
<1>3. CASE Claim
  <2>1. PICK s \in {"failed"} \cup IF StillApplies /\ gate = "open"
                                   THEN {"applying", "succeeded"} ELSE {} :
          job' = [job EXCEPT !.state = s]
    BY <1>3 DEF Claim
  <2>2. /\ UNCHANGED <<rec, auths, gate>> /\ job'.auth = job.auth /\ job.state = "queued"
        /\ job'.stale = job.stale /\ job'.stamp = job.stamp /\ job'.state = s
    BY <1>1, <1>3, <2>1 DEF Claim
  <2>3. s = "failed" \/ (s \in {"applying", "succeeded"} /\ StillApplies /\ gate = "open")
    OBVIOUS
  <2>4. Life!Take
    BY <2>2, <2>3, JobOnly DEF Life!Take
  <2> QED
    BY <2>4 DEF Life!LifeNext
<1>4. CASE CloseStale
  <2>1. /\ UNCHANGED <<rec, auths, gate>> /\ job'.auth = job.auth /\ job'.stamp = job.stamp
        /\ job.state = "applying" /\ job'.state = "failed" /\ job'.stale = TRUE
    BY <1>1, <1>4 DEF CloseStale
  <2>2. Life!Abandon
    BY <2>1, JobOnly DEF Life!Abandon
  <2> QED
    BY <2>2 DEF Life!LifeNext
<1>5. ASSUME NEW wrote \in BOOLEAN, Settle(wrote)
      PROVE  Life!LifeNext
  <2>1. PICK s \in IF wrote THEN {"succeeded"}
                   ELSE IF StillApplies THEN {"succeeded", "failed"} ELSE {"failed"} :
          job' = [job EXCEPT !.state = s, !.stale = FALSE, !.stamp = wrote]
    BY <1>5 DEF Settle
  <2>2. /\ UNCHANGED <<rec, auths, gate>> /\ job'.auth = job.auth
        /\ job'.stale = FALSE /\ job'.stamp = wrote /\ job'.state = s
    BY <1>1, <1>5, <2>1 DEF Settle
  <2>3. \/ s = "succeeded" /\ (wrote \/ StillApplies)
        \/ s = "failed" /\ ~wrote
    <3>1. CASE wrote = TRUE
      BY <3>1
    <3>2. CASE wrote = FALSE
      BY <3>2
    <3> QED
      BY <3>1, <3>2
  <2>4. Life!Unsettled
    BY <1>5 DEF Settle, CanSettle, Life!Unsettled
  <2>5. Life!Finish(wrote)
    BY <2>2, <2>3, <2>4, JobOnly DEF Life!Finish
  <2> QED
    BY <2>5 DEF Life!LifeNext
<1>6. CASE StampApplied \/ StampLost
  <2>1. /\ job.stamp /\ job'.stamp = FALSE /\ UNCHANGED <<auths, gate>>
        /\ job'.state = job.state /\ job'.auth = job.auth /\ job'.stale = job.stale
    BY <1>1, <1>6 DEF StampApplied, StampLost
  <2>2. /\ rec'.status = rec.status
        /\ rec'.executed = rec.executed \/ rec'.executed = "apply"
    BY <1>2, <1>6 DEF StampApplied, StampLost, RecType
  <2>3. Executed' \in {Executed, "cerevex_apply"}
    BY <2>2 DEF Executed
  <2>4. Life!Show
    BY <2>1, <2>2, <2>3 DEF Life!Show, StillApplies, Usable
  <2> QED
    BY <2>4 DEF Life!LifeNext
<1>7. CASE SetGate
  <2>1. UNCHANGED <<rec, auths, job>> /\ (gate = "open")' = ~(gate = "open")
    BY <1>7 DEF SetGate, Inv, TypeOK
  <2>2. Life!Switch
    BY <2>1 DEF Life!Switch, StillApplies, Usable, Executed
  <2> QED
    BY <2>2 DEF Life!LifeNext
<1>8. CASE Expire
  <2>1. PICK i \in DOMAIN auths : auths[i] = "live" /\ auths' = [auths EXCEPT ![i] = "lapsed"]
    BY <1>8 DEF Expire
  <2>2. UNCHANGED <<rec, job, gate>>
    BY <1>8 DEF Expire
  <2>3. StillApplies' => StillApplies
    BY <2>1, <2>2, Belongs DEF StillApplies, Usable, Inv, TypeOK
  <2> QED
    BY <2>2, <2>3, ApprovalGoes DEF Executed, Life!LifeNext
<1>9. CASE UNCHANGED vars
  BY <1>9 DEF vars, Life!lifeVars, StillApplies, Usable, Executed
<1> QED
  BY <1>3, <1>4, <1>5, <1>6, <1>7, <1>8, <1>9 DEF Worker

\* Whatever people press around it, the job lives as the engine has it live: a run
\* starts only on an approval, and no stamp, no or expiry gives an approval back
\* (apply.ts:273-286, 1102-1281; rec-lifecycle.ts:317-325).
THEOREM DecisionKeepsLife == Spec => LivesAsPromised
<1>1. Inv /\ [Next]_vars => [Life!LifeNext]_(Life!lifeVars)
  BY RequestLives, OthersLive DEF Next
<1> QED
  BY <1>1, InitLives, InvCorrect, PTL DEF Spec, LivesAsPromised, Life!LifeSpec
=============================================================================
