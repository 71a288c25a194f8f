------------------------- MODULE ProdMigrateProofs -------------------------
(* ProdMigrate: what the ledger, the schema and the reports say, for any      *)
(* number of invocations, any bundles and any ledger to start from.           *)
EXTENDS ProdMigrate, SequenceTheorems, TLAPS

Busy == {"started", "next", "waiting", "locked", "sql", "inserted", "committed"}
InTransaction == {"waiting", "locked", "sql", "inserted", "committed"}
RunRecords ==
  [pc : Ended \cup Holding \cup {"off", "started", "next", "waiting", "committed"},
   mode : Modes, bundle : Bundles \cup {<<>>}, todo : SUBSET Nat, at : Nat,
   ran : 0..Statements, seen : Plans, report : Plans, did : SUBSET Nat]

\* Of an invocation: what it has passed is recorded, and under the lock, from the
\* second reading on, its migration is the next one of a ledger without drift.
Good(x, rows) ==
  /\ x.pc \in Busy =>
       x.bundle \in Bundles /\ Loadable(x.bundle) /\ x.todo \subseteq DOMAIN x.bundle
  /\ x.pc = "next" => \A i \in DOMAIN x.bundle \ x.todo : Recorded(x.bundle, i, rows)
  /\ x.pc \in InTransaction =>
       /\ x.at \in DOMAIN x.bundle
       /\ \A j \in x.todo : x.at < j
       /\ \A i \in DOMAIN x.bundle \ (x.todo \cup {x.at}) : Recorded(x.bundle, i, rows)
  /\ x.pc \in {"sql", "inserted"} =>
       ~Drifted(x.bundle, rows) /\ ~Once(x.bundle, x.at, rows)
  /\ x.pc = "inserted" => x.ran = Statements
  /\ x.pc = "committed" => Recorded(x.bundle, x.at, rows)
  /\ \A i \in x.did \cup x.seen.applied \cup x.report.applied : Recorded(x.bundle, i, rows)
  /\ x.pc = "ok" /\ x.mode = "apply" => \A i \in DOMAIN x.bundle : Recorded(x.bundle, i, rows)

AllGood == \A r \in Runs : Good(run[r], ledger)

OneHolder == \A r, s \in Runs : run[r].pc \in Holding /\ run[s].pc \in Holding => r = s

Claimed(x) == x.did \cup (IF x.pc = "committed" THEN {x.at} ELSE {})

Apart ==
  \A r, s \in Runs : r # s =>
    \A i \in Claimed(run[r]), j \in Claimed(run[s]) :
      Row(run[r].bundle[i]) # Row(run[s].bundle[j])

IInv == TypeOK /\ AllGood /\ OneHolder /\ Apart /\ SchemaIsLedger

-----------------------------------------------------------------------------
(* The plan.                                                                *)

LEMMA RowType == \A e \in Entries : Row(e) \in Rows
  BY DEF Entries, Rows, Row

\* A migration that is recorded stays recorded.
LEMMA StaysRecorded ==
  ASSUME NEW rows \in Seq(Rows), NEW row \in Rows, NEW b, NEW i, Recorded(b, i, rows)
  PROVE  Recorded(b, i, Append(rows, row))
<1>1. PICK n \in DOMAIN rows : rows[n] = Row(b[i])
  BY DEF Recorded
<1>2. n \in DOMAIN Append(rows, row) /\ Append(rows, row)[n] = rows[n]
  BY <1>1
<1> QED
  BY <1>1, <1>2 DEF Recorded

LEMMA LastIsRecorded ==
  ASSUME NEW rows \in Seq(Rows), NEW b, NEW i, Row(b[i]) \in Rows
  PROVE  Recorded(b, i, Append(rows, Row(b[i])))
<1> DEFINE n == Len(rows) + 1
<1>1. n \in DOMAIN Append(rows, Row(b[i])) /\ Append(rows, Row(b[i]))[n] = Row(b[i])
  OBVIOUS
<1> QED
  BY <1>1 DEF Recorded

\* What a plan has as applied is recorded, and so is what is neither pending nor drifted.
LEMMA PlanIsRecorded ==
  ASSUME NEW b \in Seq(Entries), NEW rows \in Seq(Rows)
  PROVE  /\ Plan(b, rows) \in Plans
         /\ Plan(b, rows).pending \subseteq DOMAIN b
         /\ \A i \in Plan(b, rows).applied : Recorded(b, i, rows)
         /\ ~Drifted(b, rows) =>
              \A i \in DOMAIN b : i \notin Plan(b, rows).pending => Recorded(b, i, rows)
         /\ \A i \in Plan(b, rows).pending : ~Drifted(b, rows) /\ ~Once(b, i, rows)
<1>1. \A i : Once(b, i, rows) => Recorded(b, i, rows)
  BY DEF Once, Recorded
<1>2. DOMAIN b \subseteq Nat
  OBVIOUS
<1> QED
  BY <1>1, <1>2 DEF Plan, Plans

\* On a ledger without drift, the first migration that is not there once is not
\* there at all, and the ledger is what comes before it.
LEMMA NextOfLedger ==
  ASSUME NEW b \in Seq(Entries), NEW rows \in Seq(Rows), NEW k \in DOMAIN b,
         ~Drifted(b, rows), ~Once(b, k, rows),
         \A i \in DOMAIN b : i < k => Recorded(b, i, rows)
  PROVE  /\ ~Recorded(b, k, rows)
         /\ WrittenRows(rows) = {Row(b[i]) : i \in 1..(k - 1)}
         /\ NoneTwice(rows)
<1>1. \A i \in DOMAIN b : Recorded(b, i, rows) => Once(b, i, rows)
  BY DEF Drifted, Repeated
<1>2. \A j \in DOMAIN b : k < j => ~Once(b, j, rows)
  BY DEF Drifted, Gap
<1>3. \A n \in DOMAIN rows : \E i \in DOMAIN b : rows[n] = Row(b[i])
  BY DEF Drifted, Unknown
<1>4. DOMAIN b = 1..Len(b) /\ k \in Nat
  OBVIOUS
<1>5. ~Recorded(b, k, rows)
  BY <1>1
<1>6. \A n \in DOMAIN rows : \E i \in 1..(k - 1) : rows[n] = Row(b[i])
  <2>1. TAKE n \in DOMAIN rows
  <2>2. PICK i \in DOMAIN b : rows[n] = Row(b[i])
    BY <1>3
  <2>3. Recorded(b, i, rows)
    BY <2>2 DEF Recorded
  <2>4. i # k /\ ~(k < i)
    BY <2>3, <1>1, <1>2, <1>5
  <2> QED
    BY <2>2, <2>4, <1>4
<1>7. \A i \in 1..(k - 1) : \E n \in DOMAIN rows : rows[n] = Row(b[i])
  BY <1>4 DEF Recorded
<1>8. NoneTwice(rows)
  <2>1. SUFFICES ASSUME NEW m \in DOMAIN rows, NEW n \in DOMAIN rows, rows[m] = rows[n]
                 PROVE  m = n
    BY DEF NoneTwice
  <2>2. PICK i \in DOMAIN b : rows[n] = Row(b[i])
    BY <1>3
  <2>3. Once(b, i, rows)
    BY <2>2, <1>1 DEF Recorded
  <2> QED
    BY <2>1, <2>2, <2>3 DEF Once
<1> QED
  BY <1>5, <1>6, <1>7, <1>8 DEF WrittenRows

-----------------------------------------------------------------------------
(* The invariant.                                                           *)

LEMMA OffIsGood == Off \in RunRecords /\ \A rows : Good(Off, rows)
<1>1. Off \in RunRecords
  BY ProdMigrateAssumption DEF Off, RunRecords, Ended, Holding, Modes, NoPlan, Plans
<1>2. \A rows : Good(Off, rows)
  BY DEF Off, Good, Busy, InTransaction, NoPlan
<1> QED
  BY <1>1, <1>2

LEMMA InitIInv == Init => IInv
<1> SUFFICES ASSUME Init PROVE IInv
  OBVIOUS
<1> USE DEF Init
<1>1. \A r \in Runs : run[r] = Off
  OBVIOUS
<1>2. ledger \in Seq(Rows)
  BY ProdMigrateAssumption
<1>3. schema \in Seq([row : Rows, ran : Nat])
  <2>1. \A n \in 1..Len(ledger) : [row |-> ledger[n], ran |-> Statements] \in [row : Rows, ran : Nat]
    BY <1>2, ProdMigrateAssumption
  <2>2. schema \in [1..Len(ledger) -> [row : Rows, ran : Nat]] /\ Len(ledger) \in Nat
    BY <1>2, <2>1
  <2> QED
    BY <2>2, SeqDef
<1>4. TypeOK
  BY <1>2, <1>3, OffIsGood DEF TypeOK, RunRecords
<1>5. AllGood
  BY <1>1, OffIsGood DEF AllGood
<1>6. OneHolder
  BY <1>1 DEF OneHolder, Off, Holding
<1>7. Apart
  BY <1>1 DEF Apart, Claimed, Off
<1> QED
  BY <1>4, <1>5, <1>6, <1>7 DEF IInv, SchemaIsLedger

\* A step that writes nothing: what is left to show is about the invocation that
\* takes it.
LEMMA Quiet ==
  ASSUME IInv, NEW r \in Runs, NEW new \in RunRecords,
         Become(r, new), UNCHANGED Database,
         Good(new, ledger),
         Claimed(new) \subseteq Claimed(run[r]),
         Claimed(new) = {} \/ new.bundle = run[r].bundle,
         new.pc \in Holding => run[r].pc \in Holding \/ LockIsFree
  PROVE  IInv'
<1> USE DEF Become, Database
<1>1. run \in [Runs -> RunRecords]
  BY DEF IInv, TypeOK, RunRecords
<1>2. run'[r] = new /\ \A s \in Runs \ {r} : run'[s] = run[s]
  BY <1>1
<1>3. TypeOK'
  BY <1>1 DEF IInv, TypeOK, RunRecords
<1>4. AllGood'
  BY <1>2 DEF IInv, AllGood
<1>5. OneHolder'
  BY <1>2 DEF IInv, OneHolder, LockIsFree
<1>6. Apart'
  <2> SUFFICES ASSUME NEW s \in Runs, NEW t \in Runs, s # t,
                      NEW i \in Claimed(run'[s]), NEW j \in Claimed(run'[t])
               PROVE  Row(run'[s].bundle[i]) # Row(run'[t].bundle[j])
    BY DEF Apart, Claimed
  <2>1. i \in Claimed(run[s]) /\ run'[s].bundle = run[s].bundle
    BY <1>2
  <2>2. j \in Claimed(run[t]) /\ run'[t].bundle = run[t].bundle
    BY <1>2
  <2> QED
    BY <2>1, <2>2 DEF IInv, Apart
<1>7. SchemaIsLedger'
  BY DEF IInv, SchemaIsLedger
<1> QED
  BY <1>3, <1>4, <1>5, <1>6, <1>7 DEF IInv

\* An end keeps what was done, whatever it reports as long as that is recorded.
LEMMA EndIsQuiet ==
  ASSUME IInv, NEW r \in Runs, NEW pc \in {"ok", "failed"}, NEW plan \in Plans,
         run[r].pc # "committed" \/ pc = "failed",
         End(r, pc, plan), UNCHANGED Database,
         \A i \in plan.applied : Recorded(run[r].bundle, i, ledger),
         pc = "ok" /\ run[r].mode = "apply" =>
           \A i \in DOMAIN run[r].bundle : Recorded(run[r].bundle, i, ledger)
  PROVE  IInv'
<1> DEFINE new == [run[r] EXCEPT !.pc = pc, !.todo = {}, !.at = 0, !.ran = 0,
                                 !.seen = NoPlan, !.report = plan]
<1>1. run[r] \in RunRecords
  BY DEF IInv, TypeOK, RunRecords
<1>2. new \in RunRecords
  <2>1. NoPlan \in Plans /\ 0 \in 0..Statements /\ 0 \in Nat /\ {} \in SUBSET Nat
    BY ProdMigrateAssumption DEF NoPlan, Plans
  <2>2. pc \in Ended
    BY DEF Ended
  <2> QED
    BY <1>1, <2>1, <2>2 DEF RunRecords
<1>3. /\ new.pc = pc /\ new.mode = run[r].mode /\ new.bundle = run[r].bundle
      /\ new.did = run[r].did /\ new.seen = NoPlan /\ new.report = plan
  BY <1>1 DEF RunRecords
<1>4. \A i \in run[r].did : Recorded(run[r].bundle, i, ledger)
  BY DEF IInv, AllGood, Good
<1>5. Good(new, ledger)
  BY <1>3, <1>4 DEF Good, Busy, InTransaction, NoPlan
<1>6. Claimed(new) \subseteq Claimed(run[r])
  BY <1>3 DEF Claimed
<1>7. new.pc \notin Holding
  BY <1>3 DEF Holding
<1>8. Become(r, new)
  BY DEF End
<1> HIDE DEF new
<1> QED
  BY <1>2, <1>3, <1>5, <1>6, <1>7, <1>8, Quiet

-----------------------------------------------------------------------------
(* The actions.                                                             *)

\* What the invariant says of one invocation.
LEMMA OfRun ==
  ASSUME IInv, NEW r \in Runs
  PROVE  /\ run[r] \in RunRecords
         /\ Good(run[r], ledger)
         /\ ledger \in Seq(Rows)
         /\ run[r].pc \in Busy => run[r].bundle \in Seq(Entries)
<1>1. run[r] \in RunRecords /\ ledger \in Seq(Rows)
  BY DEF IInv, TypeOK, RunRecords
<1>2. Good(run[r], ledger)
  BY DEF IInv, AllGood
<1>3. run[r].pc \in Busy => run[r].bundle \in Seq(Entries)
  BY <1>2, ProdMigrateAssumption DEF Good
<1> QED
  BY <1>1, <1>2, <1>3

LEMMA StartIInv == ASSUME IInv, NEW r \in Runs, Start(r) PROVE IInv'
<1>1. PICK b \in Bundles, mode \in Modes :
        Become(r, [Off EXCEPT !.pc = IF Loadable(b) THEN "started" ELSE "failed",
                              !.bundle = b, !.mode = mode])
  BY DEF Start
<1> DEFINE new == [Off EXCEPT !.pc = IF Loadable(b) THEN "started" ELSE "failed",
                              !.bundle = b, !.mode = mode]
<1>2. Off \in RunRecords
  BY OffIsGood
<1>3. /\ new.pc = IF Loadable(b) THEN "started" ELSE "failed"
      /\ new.bundle = b /\ new.todo = {} /\ new.did = {}
      /\ new.seen.applied = {} /\ new.report.applied = {}
  BY DEF Off, NoPlan
<1>4. new \in RunRecords
  BY <1>2 DEF RunRecords, Ended
<1>5. Good(new, ledger)
  BY <1>3 DEF Good, Busy, InTransaction
<1>6. Claimed(new) = {} /\ new.pc \notin Holding
  BY <1>3 DEF Claimed, Holding
<1>7. UNCHANGED Database
  BY DEF Start
<1>8. Become(r, new)
  BY <1>1
<1> HIDE DEF new
<1> QED
  BY <1>4, <1>5, <1>6, <1>7, <1>8, Quiet

LEMMA ListIInv == ASSUME IInv, NEW r \in Runs, List(r) PROVE IInv'
<1> DEFINE b == run[r].bundle
           plan == Plan(b, ledger)
<1>1. run[r].pc = "started" /\ UNCHANGED Database
  BY DEF List
<1>2. /\ run[r] \in RunRecords /\ Good(run[r], ledger)
      /\ ledger \in Seq(Rows) /\ b \in Seq(Entries)
  BY <1>1, OfRun DEF Busy
<1>3. /\ plan \in Plans /\ plan.pending \subseteq DOMAIN b
      /\ \A i \in plan.applied : Recorded(b, i, ledger)
      /\ ~Drifted(b, ledger) => \A i \in DOMAIN b : i \notin plan.pending => Recorded(b, i, ledger)
  BY <1>2, PlanIsRecorded
<1>4. CASE End(r, "failed", plan)
  BY <1>1, <1>3, <1>4, EndIsQuiet
<1>5. CASE End(r, "ok", plan) /\ run[r].mode = "dry-run"
  BY <1>1, <1>3, <1>5, EndIsQuiet
<1>6. CASE /\ ~Drifted(b, ledger)
           /\ Become(r, [run[r] EXCEPT !.pc = "next", !.todo = plan.pending, !.report = plan])
  <2> DEFINE new == [run[r] EXCEPT !.pc = "next", !.todo = plan.pending, !.report = plan]
  <2>1. new \in RunRecords
    BY <1>2, <1>3 DEF RunRecords, Plans
  <2>2. /\ new.pc = "next" /\ new.bundle = b /\ new.todo = plan.pending
        /\ new.did = run[r].did /\ new.seen = run[r].seen /\ new.report = plan
    BY <1>2 DEF RunRecords
  <2>3. Good(new, ledger)
    BY <2>2, <1>1, <1>2, <1>3, <1>6 DEF Good, Busy, InTransaction
  <2>4. Claimed(new) \subseteq Claimed(run[r]) /\ new.pc \notin Holding
    BY <2>2 DEF Claimed, Holding
  <2>5. Become(r, new)
    BY <1>6
  <2> HIDE DEF new
  <2> QED
    BY <2>1, <2>2, <2>3, <2>4, <2>5, <1>1, Quiet
<1> QED
  BY <1>4, <1>5, <1>6 DEF List

LEMMA BeginIInv == ASSUME IInv, NEW r \in Runs, Begin(r) PROVE IInv'
<1>1. run[r].pc = "next" /\ UNCHANGED Database
  BY DEF Begin
<1>2. PICK i \in run[r].todo :
        /\ \A j \in run[r].todo : i <= j
        /\ Become(r, [run[r] EXCEPT !.pc = "waiting", !.at = i, !.todo = @ \ {i}])
  BY DEF Begin
<1>3. run[r] \in RunRecords /\ Good(run[r], ledger)
  BY OfRun
<1> DEFINE new == [run[r] EXCEPT !.pc = "waiting", !.at = i, !.todo = @ \ {i}]
<1>4. run[r].todo \subseteq Nat /\ i \in Nat
  BY <1>3 DEF RunRecords
<1>5. new \in RunRecords
  BY <1>3, <1>4 DEF RunRecords
<1>6. /\ new.pc = "waiting" /\ new.bundle = run[r].bundle /\ new.todo = run[r].todo \ {i} /\ new.at = i
      /\ new.did = run[r].did /\ new.seen = run[r].seen /\ new.report = run[r].report
  BY <1>3 DEF RunRecords
<1>7. \A j \in new.todo : new.at < j
  BY <1>2, <1>4, <1>6
<1>8. Good(new, ledger)
  BY <1>1, <1>3, <1>6, <1>7 DEF Good, Busy, InTransaction
<1>9. Claimed(new) \subseteq Claimed(run[r]) /\ new.pc \notin Holding
  BY <1>6 DEF Claimed, Holding
<1>10. Become(r, new)
  BY <1>2
<1> HIDE DEF new
<1> QED
  BY <1>1, <1>5, <1>6, <1>8, <1>9, <1>10, Quiet

LEMMA FinishIInv == ASSUME IInv, NEW r \in Runs, Finish(r) PROVE IInv'
<1>1. /\ run[r].pc = "next" /\ run[r].todo = {}
      /\ End(r, "ok", run[r].report) /\ UNCHANGED Database
  BY DEF Finish
<1>2. run[r].report \in Plans /\ Good(run[r], ledger)
  BY OfRun DEF RunRecords
<1>3. /\ \A i \in run[r].report.applied : Recorded(run[r].bundle, i, ledger)
      /\ \A i \in DOMAIN run[r].bundle : Recorded(run[r].bundle, i, ledger)
  BY <1>1, <1>2 DEF Good
<1> QED
  BY <1>1, <1>2, <1>3, EndIsQuiet

LEMMA FailIInv == ASSUME IInv, NEW r \in Runs, Fail(r) PROVE IInv'
<1>1. run[r].report \in Plans /\ Good(run[r], ledger)
  BY OfRun DEF RunRecords
<1>2. \A i \in run[r].report.applied : Recorded(run[r].bundle, i, ledger)
  BY <1>1 DEF Good
<1> QED
  BY <1>1, <1>2, EndIsQuiet DEF Fail

\* A step that only moves an invocation on.
LEMMA GotoIsQuiet ==
  ASSUME IInv, NEW r \in Runs, NEW pc \in Ended \cup Holding,
         Goto(r, pc), UNCHANGED Database,
         pc \in Holding => run[r].pc \in Holding \/ LockIsFree,
         Good([run[r] EXCEPT !.pc = pc], ledger)
  PROVE  IInv'
<1> DEFINE new == [run[r] EXCEPT !.pc = pc]
<1>1. run[r] \in RunRecords
  BY OfRun
<1>2. new \in RunRecords /\ new.pc = pc /\ new.bundle = run[r].bundle /\ new.did = run[r].did
  BY <1>1 DEF RunRecords
<1>3. pc # "committed"
  BY DEF Ended, Holding
<1>4. Claimed(new) \subseteq Claimed(run[r])
  BY <1>2, <1>3 DEF Claimed
<1>5. Become(r, new) /\ Good(new, ledger)
  BY DEF Goto
<1> HIDE DEF new
<1> QED
  BY <1>2, <1>4, <1>5, Quiet

LEMMA TakeLockIInv == ASSUME IInv, NEW r \in Runs, TakeLock(r) PROVE IInv'
<1>1. run[r] \in RunRecords /\ Good(run[r], ledger) /\ run[r].pc = "waiting"
  BY OfRun DEF TakeLock
<1>2. Good([run[r] EXCEPT !.pc = "locked"], ledger)
  BY <1>1 DEF Good, RunRecords, Busy, InTransaction
<1>3. "locked" \in Ended \cup Holding
  BY DEF Holding
<1> QED
  BY <1>2, <1>3, GotoIsQuiet DEF TakeLock

LEMMA InsertIInv == ASSUME IInv, NEW r \in Runs, Insert(r) PROVE IInv'
<1>1. run[r] \in RunRecords /\ Good(run[r], ledger) /\ run[r].pc = "sql" /\ run[r].ran = Statements
  BY OfRun DEF Insert, AllRan
<1>2. Good([run[r] EXCEPT !.pc = "inserted"], ledger)
  BY <1>1 DEF Good, RunRecords, Busy, InTransaction
<1>3. "inserted" \in Ended \cup Holding /\ run[r].pc \in Holding
  BY <1>1 DEF Holding
<1> QED
  BY <1>2, <1>3, GotoIsQuiet DEF Insert

LEMMA DieIInv == ASSUME IInv, NEW r \in Runs, Die(r) PROVE IInv'
<1>1. run[r] \in RunRecords /\ Good(run[r], ledger)
  BY OfRun
<1>2. /\ Good([run[r] EXCEPT !.pc = "orphan"], ledger)
      /\ Good([run[r] EXCEPT !.pc = "dead"], ledger)
  BY <1>1 DEF Good, RunRecords, Busy, InTransaction
<1>3. {"orphan", "dead"} \subseteq Ended \cup Holding /\ "dead" \notin Holding
  BY DEF Ended, Holding
<1>4. CASE run[r].pc \in Holding
  BY <1>2, <1>3, <1>4, GotoIsQuiet DEF Die
<1>5. CASE run[r].pc \notin Holding
  BY <1>2, <1>3, <1>5, GotoIsQuiet DEF Die
<1> QED
  BY <1>4, <1>5

LEMMA ReapIInv == ASSUME IInv, NEW r \in Runs, Reap(r) PROVE IInv'
<1>1. run[r] \in RunRecords /\ Good(run[r], ledger)
  BY OfRun
<1>2. Good([run[r] EXCEPT !.pc = "dead"], ledger)
  BY <1>1 DEF Good, RunRecords, Busy, InTransaction
<1>3. "dead" \in Ended \cup Holding /\ "dead" \notin Holding
  BY DEF Ended, Holding
<1> QED
  BY <1>2, <1>3, GotoIsQuiet DEF Reap

LEMMA RereadIInv == ASSUME IInv, NEW r \in Runs, Reread(r) PROVE IInv'
<1> DEFINE b == run[r].bundle
           plan == Plan(b, ledger)
<1>1. run[r].pc = "locked" /\ UNCHANGED Database
  BY DEF Reread
<1>2. /\ run[r] \in RunRecords /\ Good(run[r], ledger)
      /\ ledger \in Seq(Rows) /\ b \in Seq(Entries)
  BY <1>1, OfRun DEF Busy
<1>3. /\ plan \in Plans
      /\ \A i \in plan.applied : Recorded(b, i, ledger)
      /\ ~Drifted(b, ledger) => \A i \in DOMAIN b : i \notin plan.pending => Recorded(b, i, ledger)
      /\ \A i \in plan.pending : ~Drifted(b, ledger) /\ ~Once(b, i, ledger)
  BY <1>2, PlanIsRecorded
<1>4. CASE End(r, "failed", plan)
  BY <1>1, <1>3, <1>4, EndIsQuiet
<1>5. CASE /\ ~Drifted(b, ledger) /\ ~StillPending(plan, run[r].at)
           /\ Become(r, [run[r] EXCEPT !.pc = "next", !.at = 0, !.report = plan])
  <2> DEFINE new == [run[r] EXCEPT !.pc = "next", !.at = 0, !.report = plan]
  <2>1. new \in RunRecords
    BY <1>2, <1>3 DEF RunRecords
  <2>2. /\ new.pc = "next" /\ new.bundle = b /\ new.todo = run[r].todo
        /\ new.did = run[r].did /\ new.seen = run[r].seen /\ new.report = plan
    BY <1>2 DEF RunRecords
  <2>3. Recorded(b, run[r].at, ledger)
    BY <1>1, <1>2, <1>3, <1>5 DEF Good, InTransaction, StillPending
  <2>4. Good(new, ledger)
    BY <2>2, <2>3, <1>1, <1>2, <1>3 DEF Good, Busy, InTransaction
  <2>5. Claimed(new) \subseteq Claimed(run[r]) /\ new.pc \notin Holding
    BY <2>2 DEF Claimed, Holding
  <2>6. Become(r, new)
    BY <1>5
  <2> HIDE DEF new
  <2> QED
    BY <2>1, <2>2, <2>4, <2>5, <2>6, <1>1, Quiet
<1>6. CASE /\ StillPending(plan, run[r].at)
           /\ Become(r, [run[r] EXCEPT !.pc = "sql", !.seen = plan])
  <2> DEFINE new == [run[r] EXCEPT !.pc = "sql", !.seen = plan]
  <2>1. new \in RunRecords
    BY <1>2, <1>3 DEF RunRecords, Holding
  <2>2. /\ new.pc = "sql" /\ new.bundle = b /\ new.todo = run[r].todo /\ new.at = run[r].at
        /\ new.did = run[r].did /\ new.seen = plan /\ new.report = run[r].report
    BY <1>2 DEF RunRecords
  <2>3. ~Drifted(b, ledger) /\ ~Once(b, run[r].at, ledger)
    BY <1>3, <1>6 DEF StillPending
  <2>4. Good(new, ledger)
    BY <2>2, <2>3, <1>1, <1>2, <1>3 DEF Good, Busy, InTransaction
  <2>5. Claimed(new) \subseteq Claimed(run[r]) /\ run[r].pc \in Holding
    BY <2>2, <1>1 DEF Claimed, Holding
  <2>6. Become(r, new)
    BY <1>6
  <2> HIDE DEF new
  <2> QED
    BY <2>1, <2>2, <2>4, <2>5, <2>6, <1>1, Quiet
<1> QED
  BY <1>4, <1>5, <1>6 DEF Reread

LEMMA StatementIInv == ASSUME IInv, NEW r \in Runs, Statement(r) PROVE IInv'
<1> DEFINE new == [run[r] EXCEPT !.ran = @ + 1]
<1>1. /\ run[r].pc = "sql" /\ run[r].ran < Statements /\ UNCHANGED Database
      /\ Become(r, new)
  BY DEF Statement
<1>2. run[r] \in RunRecords /\ Good(run[r], ledger)
  BY OfRun
<1>3. run[r].ran + 1 \in 0..Statements
  BY <1>1, <1>2, ProdMigrateAssumption DEF RunRecords
<1>4. new \in RunRecords
  BY <1>2, <1>3 DEF RunRecords
<1>5. /\ new.pc = "sql" /\ new.bundle = run[r].bundle /\ new.todo = run[r].todo /\ new.at = run[r].at
      /\ new.did = run[r].did /\ new.seen = run[r].seen /\ new.report = run[r].report
  BY <1>1, <1>2 DEF RunRecords
<1>6. Good(new, ledger)
  BY <1>1, <1>2, <1>5 DEF Good, Busy, InTransaction
<1>7. Claimed(new) \subseteq Claimed(run[r]) /\ run[r].pc \in Holding
  BY <1>1, <1>5 DEF Claimed, Holding
<1> HIDE DEF new
<1> QED
  BY <1>1, <1>4, <1>5, <1>6, <1>7, Quiet

LEMMA CommittedIInv == ASSUME IInv, NEW r \in Runs, Committed(r) PROVE IInv'
<1> DEFINE me == run[r]
           plan == [applied |-> me.seen.applied \cup {me.at}, pending |-> me.seen.pending \ {me.at}]
           new == [me EXCEPT !.pc = "next", !.at = 0, !.ran = 0, !.seen = NoPlan,
                             !.did = @ \cup {me.at}, !.report = plan]
<1>1. me.pc = "committed" /\ UNCHANGED Database /\ Become(r, new)
  BY DEF Committed
<1>2. me \in RunRecords /\ Good(me, ledger)
  BY OfRun
<1>3. plan \in Plans /\ NoPlan \in Plans /\ 0 \in Nat /\ 0 \in 0..Statements
  BY <1>2, ProdMigrateAssumption DEF RunRecords, Plans, NoPlan
<1>4. me.did \cup {me.at} \in SUBSET Nat
  BY <1>2 DEF RunRecords
<1>5. plan.applied = me.seen.applied \cup {me.at}
  OBVIOUS
<1> HIDE DEF plan
<1>6. new \in RunRecords
  BY <1>2, <1>3, <1>4 DEF RunRecords
<1>7. /\ new.pc = "next" /\ new.bundle = me.bundle /\ new.todo = me.todo
      /\ new.did = me.did \cup {me.at} /\ new.seen = NoPlan /\ new.report = plan
  BY <1>2 DEF RunRecords
<1>8. Good(new, ledger)
  BY <1>1, <1>2, <1>5, <1>7 DEF Good, Busy, InTransaction, NoPlan
<1>9. Claimed(new) \subseteq Claimed(me) /\ new.pc \notin Holding
  BY <1>1, <1>7 DEF Claimed, Holding
<1> HIDE DEF new
<1> QED
  BY <1>1, <1>6, <1>7, <1>8, <1>9, Quiet

LEMMA GoodGrows ==
  ASSUME NEW x, NEW rows \in Seq(Rows), NEW row \in Rows, Good(x, rows),
         x.pc \notin {"sql", "inserted"}
  PROVE  Good(x, Append(rows, row))
<1>1. \A i : Recorded(x.bundle, i, rows) => Recorded(x.bundle, i, Append(rows, row))
  BY StaysRecorded
<1> QED
  BY <1>1 DEF Good

\* What is committed is the next migration of its bundle, and whole.
LEMMA CommitExtends ==
  ASSUME IInv, NEW r \in Runs, Commit(r)
  PROVE  LET b == run[r].bundle
             k == run[r].at IN
         /\ b \in Bundles /\ Loadable(b) /\ k \in DOMAIN b
         /\ Row(b[k]) \in Rows
         /\ ledger' = Append(ledger, Row(b[k]))
         /\ schema' = Append(schema, [row |-> Row(b[k]), ran |-> Statements])
         /\ ~Recorded(b, k, ledger)
         /\ WrittenRows(ledger) = {Row(b[i]) : i \in 1..(k - 1)}
         /\ NoneTwice(ledger)
<1> DEFINE b == run[r].bundle
           k == run[r].at
<1>1. run[r].pc = "inserted"
  BY DEF Commit
<1>2. /\ run[r] \in RunRecords /\ Good(run[r], ledger)
      /\ ledger \in Seq(Rows) /\ b \in Seq(Entries)
  BY <1>1, OfRun DEF Busy
<1>3. /\ b \in Bundles /\ Loadable(b) /\ k \in DOMAIN b
      /\ \A j \in run[r].todo : k < j
      /\ \A i \in DOMAIN b \ (run[r].todo \cup {k}) : Recorded(b, i, ledger)
      /\ ~Drifted(b, ledger) /\ ~Once(b, k, ledger) /\ run[r].ran = Statements
  BY <1>1, <1>2 DEF Good, Busy, InTransaction
<1>4. Row(b[k]) \in Rows
  BY <1>2, <1>3, RowType
<1>5. \A i \in DOMAIN b : i < k => Recorded(b, i, ledger)
  <2> SUFFICES ASSUME NEW i \in DOMAIN b, i < k PROVE Recorded(b, i, ledger)
    OBVIOUS
  <2>1. i \in Nat /\ k \in Nat
    BY <1>2, <1>3
  <2>2. i \notin run[r].todo \cup {k}
    BY <2>1, <1>3
  <2> QED
    BY <2>2, <1>3
<1>6. /\ ~Recorded(b, k, ledger) /\ NoneTwice(ledger)
      /\ WrittenRows(ledger) = {Row(b[i]) : i \in 1..(k - 1)}
  BY <1>2, <1>3, <1>5, NextOfLedger
<1> QED
  BY <1>3, <1>4, <1>6 DEF Commit

LEMMA CommitIInv == ASSUME IInv, NEW r \in Runs, Commit(r) PROVE IInv'
<1> DEFINE b == run[r].bundle
           k == run[r].at
           row == Row(b[k])
           new == [run[r] EXCEPT !.pc = "committed"]
<1>1. /\ b \in Bundles /\ Loadable(b) /\ k \in DOMAIN b /\ row \in Rows
      /\ ledger' = Append(ledger, row)
      /\ schema' = Append(schema, [row |-> row, ran |-> Statements])
      /\ ~Recorded(b, k, ledger)
  BY CommitExtends
<1>2. /\ run[r] \in RunRecords /\ Good(run[r], ledger) /\ ledger \in Seq(Rows)
      /\ run[r].pc = "inserted"
  BY OfRun DEF Commit
<1>3. run \in [Runs -> RunRecords]
  BY DEF IInv, TypeOK, RunRecords
<1>4. run'[r] = new /\ \A s \in Runs \ {r} : run'[s] = run[s]
  BY <1>3 DEF Commit, Goto, Become
<1>5. /\ new \in RunRecords /\ new.pc = "committed" /\ new.bundle = b /\ new.todo = run[r].todo
      /\ new.at = k /\ new.did = run[r].did /\ new.seen = run[r].seen /\ new.report = run[r].report
  BY <1>2 DEF RunRecords
<1>6. schema \in Seq([row : Rows, ran : Nat]) /\ Statements \in Nat
  BY ProdMigrateAssumption DEF IInv, TypeOK
<1>7. TypeOK'
  <2>1. run' \in [Runs -> RunRecords]
    BY <1>3, <1>5 DEF Commit, Goto, Become
  <2>2. ledger' \in Seq(Rows)
    BY <1>1, <1>2
  <2>3. [row |-> row, ran |-> Statements] \in [row : Rows, ran : Nat]
    BY <1>1, <1>6
  <2>4. schema' \in Seq([row : Rows, ran : Nat])
    BY <1>1, <1>6, <2>3
  <2> QED
    BY <2>1, <2>2, <2>4 DEF TypeOK, RunRecords
<1>8. AllGood'
  <2>1. Good(new, ledger')
    <3>1. Recorded(b, k, ledger')
      BY <1>1, <1>2, LastIsRecorded
    <3>2. \A i : Recorded(b, i, ledger) => Recorded(b, i, ledger')
      BY <1>1, <1>2, StaysRecorded
    <3> HIDE DEF new
    <3> QED
      BY <1>1, <1>2, <1>5, <3>1, <3>2 DEF Good, Busy, InTransaction
  <2>2. \A s \in Runs \ {r} : Good(run[s], ledger')
    <3> SUFFICES ASSUME NEW s \in Runs \ {r} PROVE Good(run[s], ledger')
      OBVIOUS
    <3>1. run[s].pc \notin {"sql", "inserted"}
      BY <1>2 DEF IInv, OneHolder, Holding
    <3>2. Good(run[s], ledger)
      BY OfRun
    <3> QED
      BY <3>1, <3>2, <1>1, <1>2, GoodGrows
  <2> QED
    BY <2>1, <2>2, <1>4 DEF AllGood
<1>9. OneHolder'
  BY <1>4, <1>5 DEF IInv, OneHolder, Holding
<1>10. Apart'
  <2>1. \A s \in Runs : \A j \in Claimed(run[s]) : Recorded(run[s].bundle, j, ledger)
    BY OfRun DEF Claimed, Good
  <2>2. \A s \in Runs : \A j \in Claimed(run[s]) : Row(run[s].bundle[j]) # row
    BY <2>1, <1>1 DEF Recorded
  <2>3. Claimed(new) = Claimed(run[r]) \cup {k}
    BY <1>2, <1>5 DEF Claimed
  <2> SUFFICES ASSUME NEW s \in Runs, NEW t \in Runs, s # t,
                      NEW i \in Claimed(run'[s]), NEW j \in Claimed(run'[t])
               PROVE  Row(run'[s].bundle[i]) # Row(run'[t].bundle[j])
    BY DEF Apart, Claimed
  <2>4. run'[s].bundle = run[s].bundle /\ run'[t].bundle = run[t].bundle
    BY <1>4, <1>5
  <2>5. CASE s = r /\ i = k
    BY <2>2, <2>4, <2>5, <1>4
  <2>6. CASE t = r /\ j = k
    BY <2>2, <2>4, <2>6, <1>4
  <2>7. CASE ~(s = r /\ i = k) /\ ~(t = r /\ j = k)
    <3>1. i \in Claimed(run[s]) /\ j \in Claimed(run[t])
      BY <2>3, <2>7, <1>4
    <3> QED
      BY <3>1, <2>4 DEF IInv, Apart
  <2> QED
    BY <2>5, <2>6, <2>7
<1>11. SchemaIsLedger'
  <2>1. /\ Len(ledger) \in Nat /\ DOMAIN ledger = 1..Len(ledger)
        /\ DOMAIN ledger' = 1..(Len(ledger) + 1)
        /\ \A n \in 1..Len(ledger) : ledger'[n] = ledger[n]
        /\ ledger'[Len(ledger) + 1] = row
    BY <1>1, <1>2
  <2>2. schema = [n \in DOMAIN ledger |-> [row |-> ledger[n], ran |-> Statements]]
    BY DEF IInv, SchemaIsLedger
  <2>3. DOMAIN schema = 1..Len(ledger) /\ Len(schema) = Len(ledger)
    BY <2>1, <2>2, <1>6
  <2>4. /\ DOMAIN schema' = 1..(Len(ledger) + 1)
        /\ \A n \in 1..Len(ledger) : schema'[n] = schema[n]
        /\ schema'[Len(ledger) + 1] = [row |-> row, ran |-> Statements]
    BY <2>3, <1>1, <1>6
  <2>5. \A n \in DOMAIN ledger' : schema'[n] = [row |-> ledger'[n], ran |-> Statements]
    BY <2>1, <2>2, <2>4
  <2>6. schema' = [n \in DOMAIN schema' |-> schema'[n]]
    BY <1>1, <1>6
  <2> QED
    BY <2>1, <2>4, <2>5, <2>6 DEF SchemaIsLedger
<1> QED
  BY <1>7, <1>8, <1>9, <1>10, <1>11 DEF IInv

LEMMA NextIInv == IInv /\ [Next]_vars => IInv'
<1> SUFFICES ASSUME IInv, [Next]_vars PROVE IInv'
  OBVIOUS
<1>1. CASE UNCHANGED vars
  BY <1>1 DEF vars, IInv, TypeOK, AllGood, OneHolder, Apart, SchemaIsLedger, Claimed
<1>2. ASSUME NEW r \in Runs, Start(r) \/ Step(r) \/ Die(r) \/ Reap(r) PROVE IInv'
  <2>1. CASE Start(r) \/ Die(r) \/ Reap(r)
    BY <2>1, StartIInv, DieIInv, ReapIInv
  <2>2. CASE List(r) \/ Begin(r) \/ Finish(r) \/ Fail(r)
    BY <2>2, ListIInv, BeginIInv, FinishIInv, FailIInv
  <2>3. CASE Transaction(r)
    BY <2>3, TakeLockIInv, RereadIInv, StatementIInv, InsertIInv, CommitIInv, CommittedIInv
       DEF Transaction
  <2> QED
    BY <1>2, <2>1, <2>2, <2>3 DEF Step
<1> QED
  BY <1>1, <1>2 DEF Next

LEMMA InvariantHolds == Spec => []IInv
  BY InitIInv, NextIInv, PTL DEF Spec

-----------------------------------------------------------------------------
(* The theorems.                                                            *)

\* The state has its type.
THEOREM TypeCorrect == Spec => []TypeOK
<1>1. IInv => TypeOK
  BY DEF IInv
<1> QED
  BY <1>1, InvariantHolds, PTL

\* The ledger and the schema agree, however invocations overlap, fail and die.
THEOREM SchemaCorrect == Spec => []SchemaIsLedger
<1>1. IInv => SchemaIsLedger
  BY DEF IInv
<1> QED
  BY <1>1, InvariantHolds, PTL

\* What the command prints holds from then on.
THEOREM ReportsCorrect == Spec => []ReportsAreTrue
<1>1. IInv => ReportsAreTrue
  <2> SUFFICES ASSUME IInv PROVE ReportsAreTrue
    OBVIOUS
  <2>1. ReportedIsRecorded /\ OkIsComplete
    BY OfRun DEF Good, ReportedIsRecorded, OkIsComplete
  <2>2. CreditedOnce
    BY DEF IInv, Apart, Claimed, CreditedOnce
  <2> QED
    BY <2>1, <2>2 DEF ReportsAreTrue
<1> QED
  BY <1>1, InvariantHolds, PTL

\* Every row is written onto exactly the migrations before it, of one bundle.
THEOREM WritesCorrect == Spec => WritesExtendABundle
<1> DEFINE Extends ==
      \E b \in Bundles : \E k \in DOMAIN b :
        /\ Loadable(b)
        /\ ledger' = Append(ledger, Row(b[k]))
        /\ WrittenRows(ledger) = {Row(b[i]) : i \in 1..(k - 1)}
        /\ NoneTwice(ledger)
<1>1. IInv /\ [Next]_vars => [ledger' # ledger => Extends]_vars
  <2> SUFFICES ASSUME IInv, Next, ledger' # ledger PROVE Extends
    BY DEF vars
  <2>1. PICK r \in Runs : Commit(r)
    BY DEF Next, Start, Step, Die, Reap, List, Begin, Finish, Fail, Transaction, TakeLock,
           Reread, Statement, Insert, Committed, Database
  <2> QED
    BY <2>1, CommitExtends
<1> QED
  BY <1>1, InvariantHolds, PTL DEF Spec, WritesExtendABundle
=============================================================================
