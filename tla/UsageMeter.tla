----------------------------- MODULE UsageMeter -----------------------------
(***************************************************************************)
(* The monthly count of ideas and SEO jobs (src/apps/ads/shared/src/       *)
(* usage.ts), with the transactions that write it and the one that locks   *)
(* the same client row for another reason:                                 *)
(*   save    saveGrokIdea (grok-creatives.ts)                              *)
(*   count   recordUsageForStore, from createJob (brain/src/lib/db/jobs.ts)*)
(*   gate    assertWithinCap and recordUsage in one transaction            *)
(*   assign  assignClientSite, activateStore and deactivateStore           *)
(*           (entitlements.ts)                                             *)
(* A step is one statement: it takes the locks it needs when nobody has    *)
(* one that clashes, and holds them until the transaction ends.            *)
(***************************************************************************)
EXTENDS Naturals, FiniteSets

CONSTANTS
  Clients,    \* rows of os.clients
  Capped,     \* those on a Scholarship, which has a limit
  Store,      \* the console store whose jobs are counted
  Jobs,       \* SEO jobs, whose ids a retry repeats
  Ideas,      \* ideas, whose ids are new
  Txs,        \* transactions at a time
  Cap,        \* items a month on a Scholarship
  LastMonth,  \* a bound on the clock
  NoClient    \* none

ASSUME MeterAssumption ==
  /\ Capped \subseteq Clients
  /\ NoClient \notin Clients
  /\ Jobs \cap Ideas = {}
  /\ Cap \in Nat
  /\ LastMonth \in Nat \ {0}

VARIABLES
  events,  \* os.usage_events
  used,    \* os.usage_counters, zero where there is no row
  site,    \* the client with the store as its site (os.clients.site_id)
  on,      \* the clients with the store active (os.locations)
  month,   \* the Eastern month of the database clock
  tx,      \* each transaction: the statement it is at, and what it has read
  held     \* the locks of each transaction

vars == <<events, used, site, on, month, tx, held>>

Items == Jobs \cup Ideas
Kind(item) == IF item \in Jobs THEN "seo_jobs" ELSE "creative_variations"
Kinds == {"seo_jobs", "creative_variations"}

NoTx == [pc |-> "idle", op |-> "none", client |-> NoClient, item |-> Store,
         month |-> 1, counted |-> FALSE, fresh |-> FALSE]

Init ==
  /\ events = {}
  /\ used = [c \in Clients |-> [k \in Kinds |-> [m \in 1 .. LastMonth |-> 0]]]
  /\ site = NoClient
  /\ on = {}
  /\ month = 1
  /\ tx = [t \in Txs |-> NoTx]
  /\ held = [t \in Txs |-> {}]

-----------------------------------------------------------------------------
(* Locks.  A client row is locked for key share, for no key update or for  *)
(* update; everything else belongs to one transaction.                     *)

Lock(kind, of, mode) == [kind |-> kind, of |-> of, mode |-> mode]

Clash(a, b) ==
  /\ a.kind = b.kind /\ a.of = b.of
  /\ {a.mode, b.mode} \notin {{"share"}, {"share", "row"}}

Recorded(c, item) == \E e \in events : e.client = c /\ e.item = item

StoreLock == {Lock("store", Store, "only")}

\* Seeded fault: the month is read and not locked.
MonthIsRead(c, m) == {}

\* lockUsage, for one client and one month.
MonthLock(c, m) == {Lock("month", <<c, m>>, "only")}

\* Seeded fault: the client is read for update, as anywhere else.
LoadForUpdate(c) == {Lock("client", c, "key")}

\* loadClient reads the client without a lock.
LoadLocks(c) == {}

\* An event that is there leaves nothing to insert.  One that is being inserted is
\* waited for, and so is the counter.
WriteLocks(c, item, m) ==
  IF Recorded(c, item) THEN {}
  ELSE {Lock("event", <<c, item>>, "only"), Lock("counter", <<c, Kind(item), m>>, "only")}

\* What the statement a transaction is at has to lock.
Wanted(t) ==
  LET x == tx[t] IN
  CASE x.pc = "store" -> StoreLock
    [] x.pc = "month" -> MonthLock(x.client, x.month)
    [] x.pc = "load" -> LoadLocks(x.client)
    [] x.pc = "write" -> WriteLocks(x.client, x.item, x.month)
    [] x.pc = "insert" \/ (x.pc = "reference" /\ x.fresh) ->
         {Lock("client", x.client, "share")}
    [] x.pc = "tenant" -> {Lock("client", x.client, "row")}
    [] x.pc = "link" -> {Lock("client", x.client, "key"), Lock("site", Store, "only")}
    [] OTHER -> {}

WaitsFor(t, u) == \E a \in Wanted(t), b \in held[u] : Clash(a, b)

\* The statement runs, and the transaction goes on to the next one.
Runs(t, from, next) ==
  /\ tx[t].pc = from
  /\ \A u \in Txs \ {t} : ~WaitsFor(t, u)
  /\ held' = [held EXCEPT ![t] = @ \cup Wanted(t)]
  /\ tx' = [tx EXCEPT ![t] = next]
  /\ UNCHANGED <<events, used, site, on, month>>

-----------------------------------------------------------------------------
(* Beginnings.  now() is the time a transaction began.                     *)

Begin(t, pc, op, c, item) ==
  /\ tx[t].pc = "idle"
  /\ tx' = [tx EXCEPT ![t] = [pc |-> pc, op |-> op, client |-> c, item |-> item,
                              month |-> month, counted |-> FALSE, fresh |-> FALSE]]
  /\ UNCHANGED <<events, used, site, on, month, held>>

BeginSave(t, c, idea) ==
  /\ \A d \in Clients : ~Recorded(d, idea)
  /\ \A u \in Txs : tx[u].item # idea
  /\ Begin(t, "month", "save", c, idea)

BeginCount(t, job) == Begin(t, "store", "count", NoClient, job)

BeginGate(t, c, job) == Begin(t, "month", "gate", c, job)

BeginAssign(t, c) == Begin(t, "tenant", "assign", c, Store)

-----------------------------------------------------------------------------
(* recordUsageForStore: two reads, each of what is committed by then.      *)

LockStore(t) == Runs(t, "store", [tx[t] EXCEPT !.pc = "bySite"])

BySite(t) == Runs(t, "bySite", [tx[t] EXCEPT !.pc = "byLocation", !.client = site])

\* The store is linked to, or on for, one client and no more; otherwise the job is
\* not counted.
ByLocation(t) ==
  \E c \in Clients :
    /\ {c} = (on \cup {tx[t].client}) \ {NoClient}
    /\ Runs(t, "byLocation", [tx[t] EXCEPT !.pc = "month", !.client = c])

-----------------------------------------------------------------------------
(* saveGrokIdea, assertWithinCap and writeUsage.                           *)

LockMonth(t) ==
  Runs(t, "month", [tx[t] EXCEPT !.pc =
         CASE tx[t].op = "save" -> "insert"
           [] tx[t].op = "gate" -> "check"
           [] tx[t].op = "count" -> "load"])

\* The session and the idea refer to the client.
InsertIdea(t) == Runs(t, "insert", [tx[t] EXCEPT !.pc = "load"])

UsedBy(t) == used[tx[t].client][Kind(tx[t].item)][tx[t].month]

\* assertWithinCap: a client that is at its limit is refused (Rollback).
WithinCap(t) ==
  /\ tx[t].client \in Capped => UsedBy(t) < Cap
  /\ Runs(t, "check", [tx[t] EXCEPT !.pc = "load"])

LoadClient(t) == Runs(t, "load", [tx[t] EXCEPT !.pc = "write"])

\* The event, unless it is there.  Of an outcome that does not count, an event is
\* written all the same; a save and a count pass "created".
InsertEvent(t) ==
  \E counted \in BOOLEAN :
    /\ tx[t].op # "gate" => counted
    /\ Runs(t, "write", [tx[t] EXCEPT !.pc = "reference", !.counted = counted,
                                      !.fresh = ~Recorded(tx[t].client, tx[t].item)])

\* The foreign keys of what was inserted are checked at the end of the statement.
Reference(t) == Runs(t, "reference", [tx[t] EXCEPT !.pc = "commit"])

\* Seeded fault: the counter goes up whatever was inserted.
BumpsAnyway(t) == tx[t].counted

\* FROM inserted WHERE counted.
Bumps(t) == tx[t].fresh /\ tx[t].counted

Event(t) == [client |-> tx[t].client, item |-> tx[t].item, month |-> tx[t].month,
             counted |-> tx[t].counted]

Ends(t) ==
  /\ tx' = [tx EXCEPT ![t] = NoTx]
  /\ held' = [held EXCEPT ![t] = {}]
  /\ UNCHANGED month

CommitUsage(t) ==
  /\ tx[t].pc = "commit" /\ tx[t].op # "assign"
  /\ events' = events \cup (IF tx[t].fresh THEN {Event(t)} ELSE {})
  /\ used' = [used EXCEPT ![tx[t].client][Kind(tx[t].item)][tx[t].month] =
                IF Bumps(t) THEN @ + 1 ELSE @]
  /\ Ends(t)
  /\ UNCHANGED <<site, on>>

-----------------------------------------------------------------------------
(* assignClientSite, activateStore and deactivateStore: the client row for *)
(* no key update, then its site_id where it changes, which is in a unique  *)
(* index.                                                                  *)

LockTenant(t) == Runs(t, "tenant", [tx[t] EXCEPT !.pc = "link"])

LinkSite(t) == Runs(t, "link", [tx[t] EXCEPT !.pc = "commit"])

\* The store is linked and its location turned on, or both are undone.
CommitAssign(t) ==
  LET c == tx[t].client IN
  /\ tx[t].pc = "commit" /\ tx[t].op = "assign"
  /\ \/ site = NoClient /\ site' = c /\ on' = on \cup {c}
     \/ site = c /\ site' = NoClient /\ on' = on \ {c}
  /\ Ends(t)
  /\ UNCHANGED <<events, used>>

\* The store's location alone is turned on, or off where it is not the linked one.
CommitTurn(t) ==
  LET c == tx[t].client IN
  /\ tx[t].pc = "link"
  /\ \/ on' = on \cup {c}
     \/ site # c /\ on' = on \ {c}
  /\ Ends(t)
  /\ UNCHANGED <<events, used, site>>

\* Refused, failed or cut off.
Rollback(t) ==
  /\ tx[t].pc # "idle"
  /\ Ends(t)
  /\ UNCHANGED <<events, used, site, on>>

NextMonth ==
  /\ month < LastMonth
  /\ month' = month + 1
  /\ UNCHANGED <<events, used, site, on, tx, held>>

Starts(t) ==
  \/ \E c \in Clients, idea \in Ideas : BeginSave(t, c, idea)
  \/ \E job \in Jobs : BeginCount(t, job)
  \/ \E c \in Clients, job \in Jobs : BeginGate(t, c, job)
  \/ \E c \in Clients : BeginAssign(t, c)

Statement(t) ==
  \/ LockStore(t) \/ BySite(t) \/ ByLocation(t)
  \/ LockMonth(t) \/ InsertIdea(t) \/ WithinCap(t) \/ LoadClient(t)
  \/ InsertEvent(t) \/ Reference(t)
  \/ LockTenant(t) \/ LinkSite(t)

Next ==
  \/ NextMonth
  \/ \E t \in Txs : \/ Starts(t) \/ Statement(t)
                    \/ CommitUsage(t) \/ CommitAssign(t) \/ CommitTurn(t)
                    \/ Rollback(t)

Spec == Init /\ [][Next]_vars

-----------------------------------------------------------------------------
(* Properties.                                                             *)

Pcs == {"idle", "store", "bySite", "byLocation", "month", "insert", "check", "load",
        "write", "reference", "tenant", "link", "commit"}

Transaction ==
  [pc : Pcs, op : {"none", "save", "count", "gate", "assign"},
   client : Clients \cup {NoClient}, item : Items \cup {Store}, month : 1 .. LastMonth,
   counted : BOOLEAN, fresh : BOOLEAN]

\* The tables and the transactions keep their shapes.
TypeOK ==
  /\ events \subseteq [client : Clients, item : Items, month : 1 .. LastMonth,
                       counted : BOOLEAN]
  /\ used \in [Clients -> [Kinds -> [1 .. LastMonth -> Nat]]]
  /\ site \in Clients \cup {NoClient}
  /\ on \subseteq Clients
  /\ month \in 1 .. LastMonth
  /\ tx \in [Txs -> Transaction]
  /\ held = [t \in Txs |-> held[t]]

CountedIn(c, k, m) ==
  {e \in events : e.client = c /\ Kind(e.item) = k /\ e.month = m /\ e.counted}

\* A counter is the number of counted events of its client, kind and month: an item
\* that is recorded again, in another month or by two transactions at a time, is in
\* one count ("It counts once per item id", usage.ts:11).
CountersAgree ==
  \A c \in Clients, k \in Kinds, m \in 1 .. LastMonth :
    used[c][k][m] = Cardinality(CountedIn(c, k, m))

\* The room that a gated create has found is there until it commits ("Ten gated
\* creates at used=19 store 20, not 29", usage.ts:276), although others count in the
\* same month without asking.
RoomIsKept ==
  \A t \in Txs :
    tx[t].op = "gate" /\ tx[t].pc \in {"load", "write", "reference", "commit"}
      /\ tx[t].client \in Capped
    => UsedBy(t) < Cap

\* No transactions wait for each other in a circle ("a stronger lock deadlocks a
\* second save", usage.ts:149): saves that reach over the end of a month, counts
\* that are tried again, and a link of the same client.
NeverInACircle ==
  \A S \in SUBSET Txs :
    S = {} \/ \E t \in S : \A u \in S \ {t} : ~WaitsFor(t, u)
=============================================================================
