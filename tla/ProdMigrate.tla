---------------------------- MODULE ProdMigrate ----------------------------
(***************************************************************************)
(* The production migrate command (src/apps/ads/shared/src/prod-migrate.ts): *)
(* any number of invocations against one database, each with the bundle of  *)
(* its own checkout.  An invocation lists the ledger, and then takes, for   *)
(* each pending migration, a transaction of its own with the command's      *)
(* advisory lock, reads the ledger again, runs the statements and inserts   *)
(* the ledger row.  A process may die at any point, and the answer to a     *)
(* COMMIT may be lost.                                                      *)
(***************************************************************************)
EXTENDS Naturals, Sequences

CONSTANTS
  Runs,       \* invocations of the command
  Bundles,    \* the bundles they may find, good and bad: sequences of entries
  Ledgers,    \* ledgers the database may start from, good and drifted
  Statements  \* statements of a migration

Entries == [when : Nat, hash : STRING, listed : STRING]
Rows == [when : Nat, hash : STRING]

ASSUME ProdMigrateAssumption ==
  /\ Bundles \subseteq Seq(Entries)
  /\ Ledgers \subseteq Seq(Rows)
  /\ Statements \in Nat \ {0}

VARIABLES
  ledger, \* the committed rows of os.__drizzle_migrations, by id
  schema, \* the migrations that changed the schema, and how many statements of each
  run     \* the invocations

vars == <<ledger, schema, run>>

-----------------------------------------------------------------------------
(* The bundle and the plan.                                                 *)

Row(entry) == [when |-> entry.when, hash |-> entry.hash]

InOrder(b) == \A i, j \in DOMAIN b : i < j => b[i].when < b[j].when

\* The artifact's digest is the one the bundle lists.
Loadable(b) ==
  /\ b # <<>>
  /\ InOrder(b)
  /\ \A i \in DOMAIN b : b[i].hash = b[i].listed

Recorded(b, i, rows) == \E n \in DOMAIN rows : rows[n] = Row(b[i])

Once(b, i, rows) ==
  \E n \in DOMAIN rows : \A m \in DOMAIN rows : rows[m] = Row(b[i]) <=> m = n

\* A row that is no migration of the bundle, with the hash or the time of one or not.
Unknown(b, rows) == \E n \in DOMAIN rows : \A i \in DOMAIN b : rows[n] # Row(b[i])

Repeated(b, rows) == \E i \in DOMAIN b : Recorded(b, i, rows) /\ ~Once(b, i, rows)

Gap(b, rows) == \E i, j \in DOMAIN b : i < j /\ ~Once(b, i, rows) /\ Once(b, j, rows)

Drifted(b, rows) == Unknown(b, rows) \/ Repeated(b, rows) \/ Gap(b, rows)

Plan(b, rows) ==
  [applied |-> {i \in DOMAIN b : Once(b, i, rows)},
   pending |-> {i \in DOMAIN b : ~Drifted(b, rows) /\ ~Once(b, i, rows)}]

NoPlan == [applied |-> {}, pending |-> {}]

-----------------------------------------------------------------------------
Modes == {"dry-run", "apply", "unconfirmed"}
Ended == {"ok", "failed", "dead"}

\* Invocations whose session holds the advisory lock, until their transaction ends.
Holding == {"locked", "sql", "inserted", "orphan"}

Off ==
  [pc |-> "off", mode |-> "dry-run", bundle |-> <<>>, todo |-> {}, at |-> 0,
   ran |-> 0, seen |-> NoPlan, report |-> NoPlan, did |-> {}]

Init ==
  /\ ledger \in Ledgers
  /\ schema = [n \in DOMAIN ledger |-> [row |-> ledger[n], ran |-> Statements]]
  /\ run = [r \in Runs |-> Off]

Become(r, new) == run' = [run EXCEPT ![r] = new]
Goto(r, pc) == Become(r, [run[r] EXCEPT !.pc = pc])
End(r, pc, plan) ==
  Become(r, [run[r] EXCEPT !.pc = pc, !.todo = {}, !.at = 0, !.ran = 0,
                           !.seen = NoPlan, !.report = plan])
Database == <<ledger, schema>>

\* The target's names and the bundle are checked before anything is connected.
Start(r) ==
  /\ run[r].pc = "off"
  /\ \E b \in Bundles, mode \in Modes :
       Become(r, [Off EXCEPT !.pc = IF Loadable(b) THEN "started" ELSE "failed",
                             !.bundle = b, !.mode = mode])
  /\ UNCHANGED Database

\* The read-only listing, and what the mode makes of it.
List(r) ==
  /\ run[r].pc = "started"
  /\ LET plan == Plan(run[r].bundle, ledger) IN
       \/ /\ Drifted(run[r].bundle, ledger) \/ run[r].mode = "unconfirmed"
          /\ End(r, "failed", plan)
       \/ /\ ~Drifted(run[r].bundle, ledger)
          /\ run[r].mode = "dry-run"
          /\ End(r, "ok", plan)
       \/ /\ ~Drifted(run[r].bundle, ledger)
          /\ run[r].mode = "apply"
          /\ Become(r, [run[r] EXCEPT !.pc = "next", !.todo = plan.pending, !.report = plan])
  /\ UNCHANGED Database

\* BEGIN for the first migration that is left of those the listing had as pending.
Begin(r) ==
  /\ run[r].pc = "next"
  /\ \E i \in run[r].todo :
       /\ \A j \in run[r].todo : i <= j
       /\ Become(r, [run[r] EXCEPT !.pc = "waiting", !.at = i, !.todo = @ \ {i}])
  /\ UNCHANGED Database

Finish(r) ==
  /\ run[r].pc = "next"
  /\ run[r].todo = {}
  /\ End(r, "ok", run[r].report)
  /\ UNCHANGED Database

\* Seeded fault: every transaction gets the lock at once.
LockIsFreeAlways == TRUE

LockIsFree == \A s \in Runs : run[s].pc \notin Holding

TakeLock(r) ==
  /\ run[r].pc = "waiting"
  /\ LockIsFree
  /\ Goto(r, "locked")
  /\ UNCHANGED Database

\* Seeded fault: the ledger read under the lock is not asked about the migration.
StillPendingAnyway(plan, i) == TRUE

StillPending(plan, i) == i \in plan.pending

\* The ledger is read again under the lock.
Reread(r) ==
  /\ run[r].pc = "locked"
  /\ LET plan == Plan(run[r].bundle, ledger) IN
       \/ /\ Drifted(run[r].bundle, ledger)
          /\ End(r, "failed", plan)
       \/ /\ ~Drifted(run[r].bundle, ledger)
          /\ ~StillPending(plan, run[r].at)
          /\ Become(r, [run[r] EXCEPT !.pc = "next", !.at = 0, !.report = plan])
       \/ /\ ~Drifted(run[r].bundle, ledger)
          /\ StillPending(plan, run[r].at)
          /\ Become(r, [run[r] EXCEPT !.pc = "sql", !.seen = plan])
  /\ UNCHANGED Database

Statement(r) ==
  /\ run[r].pc = "sql"
  /\ run[r].ran < Statements
  /\ Become(r, [run[r] EXCEPT !.ran = @ + 1])
  /\ UNCHANGED Database

\* Seeded fault: the last statement is left out.
AllRanButOne(r) == run[r].ran + 1 >= Statements

AllRan(r) == run[r].ran = Statements

Insert(r) ==
  /\ run[r].pc = "sql"
  /\ AllRan(r)
  /\ Goto(r, "inserted")
  /\ UNCHANGED Database

\* The server commits.  The process has not heard of it yet.
Commit(r) ==
  LET row == Row(run[r].bundle[run[r].at]) IN
  /\ run[r].pc = "inserted"
  /\ ledger' = Append(ledger, row)
  /\ schema' = Append(schema, [row |-> row, ran |-> run[r].ran])
  /\ Goto(r, "committed")

Committed(r) ==
  LET me == run[r] IN
  /\ me.pc = "committed"
  /\ Become(r, [me EXCEPT
       !.pc = "next", !.at = 0, !.ran = 0, !.seen = NoPlan, !.did = @ \cup {me.at},
       !.report = [applied |-> me.seen.applied \cup {me.at}, pending |-> me.seen.pending \ {me.at}]])
  /\ UNCHANGED Database

\* A refused or timed out statement, or a lost session: the transaction is rolled
\* back.  If the answer to COMMIT was lost, what it was sent for has happened.
Fail(r) ==
  /\ run[r].pc \in {"started", "waiting", "locked", "sql", "inserted", "committed"}
  /\ End(r, "failed", run[r].report)
  /\ UNCHANGED Database

\* The process dies.  Its session keeps the lock until the server notices.
Die(r) ==
  /\ run[r].pc \notin Ended \cup {"off", "orphan"}
  /\ IF run[r].pc \in Holding THEN Goto(r, "orphan") ELSE Goto(r, "dead")
  /\ UNCHANGED Database

Reap(r) ==
  /\ run[r].pc = "orphan"
  /\ Goto(r, "dead")
  /\ UNCHANGED Database

Transaction(r) == TakeLock(r) \/ Reread(r) \/ Statement(r) \/ Insert(r) \/ Commit(r) \/ Committed(r)

Step(r) == List(r) \/ Begin(r) \/ Finish(r) \/ Transaction(r) \/ Fail(r)

Next == \E r \in Runs : Start(r) \/ Step(r) \/ Die(r) \/ Reap(r)

Spec == Init /\ [][Next]_vars

-----------------------------------------------------------------------------
(* Properties.                                                              *)

Plans == [applied : SUBSET Nat, pending : SUBSET Nat]

\* The shape of the state (prod-migrate.ts:36-57).
TypeOK ==
  /\ ledger \in Seq(Rows)
  /\ schema \in Seq([row : Rows, ran : Nat])
  /\ run \in [Runs ->
       [pc : Ended \cup Holding \cup {"off", "started", "next", "waiting", "committed"},
        mode : Modes, bundle : Bundles \cup {<<>>}, todo : SUBSET Nat, at : Nat,
        ran : 0..Statements, seen : Plans, report : Plans, did : SUBSET Nat]]

\* The ledger says what the schema is: a migration has a row exactly when all of
\* its statements took effect, whoever died or failed in between
\* (prod-migrate.ts:580-587, one transaction for both).
SchemaIsLedger == schema = [n \in DOMAIN ledger |-> [row |-> ledger[n], ran |-> Statements]]

WrittenRows(rows) == {rows[n] : n \in DOMAIN rows}

NoneTwice(rows) == \A m, n \in DOMAIN rows : rows[m] = rows[n] => m = n

\* A row is written only by a bundle in good order, only onto a ledger that holds
\* exactly the migrations before it in that bundle, each once: no migration runs
\* twice, none overtakes another, and two checkouts with different bundles never
\* mix, though each invocation acts on a listing that others have outdated
\* (prod-migrate.ts:551-579).
WritesExtendABundle ==
  [][ledger' # ledger =>
       \E b \in Bundles : \E k \in DOMAIN b :
         /\ Loadable(b)
         /\ ledger' = Append(ledger, Row(b[k]))
         /\ WrittenRows(ledger) = {Row(b[i]) : i \in 1..(k - 1)}
         /\ NoneTwice(ledger)]_vars

ReportedIsRecorded ==
  \A r \in Runs : \A i \in run[r].report.applied : Recorded(run[r].bundle, i, ledger)

OkIsComplete ==
  \A r \in Runs : run[r].pc = "ok" /\ run[r].mode = "apply" =>
    \A i \in DOMAIN run[r].bundle : Recorded(run[r].bundle, i, ledger)

CreditedOnce ==
  \A r, s \in Runs : r # s =>
    \A i \in run[r].did, j \in run[s].did : Row(run[r].bundle[i]) # Row(run[s].bundle[j])

\* What an invocation prints holds, then and later: the tags it lists as applied
\* are in the ledger, a confirmed run that ends well has left none of its bundle
\* out, though another may have applied part of it, and no two runs say that they
\* applied the same one (prod-migrate.ts:575-593, 605).
ReportsAreTrue == ReportedIsRecorded /\ OkIsComplete /\ CreditedOnce
=============================================================================
