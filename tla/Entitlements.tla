---------------------------- MODULE Entitlements ----------------------------
(***************************************************************************)
(* Which locations and ad accounts a client has turned on, under its plan  *)
(* (src/apps/ads/shared/src/entitlements.ts and the triggers of            *)
(* src/apps/ads/shared/drizzle/0006_plan_entitlements.sql), with the       *)
(* callers that link sites (api/src/sites.ts), turn locations on and off   *)
(* (api/src/entitlements.ts) and connect accounts (api/src/connect.ts).  A *)
(* Scholarship allows one active location and one active account on each   *)
(* platform; the accounts here are of one platform.                        *)
(*                                                                         *)
(* A request looks at rows without a lock, and then runs one transaction:  *)
(* lock the client row, read, write, commit.  What it wrote is seen by     *)
(* others from its commit on.                                              *)
(***************************************************************************)
EXTENDS Naturals, FiniteSets

CONSTANTS
  Clients,   \* rows of os.clients, made and to be made
  Made,      \* those that are there from the start
  Stores,    \* console sites, which are also the store ids of locations
  Rows,      \* rows of os.ad_accounts a client may have
  Exts,      \* external account ids on the platform
  Requests,  \* HTTP requests that run at the same time
  Planned,   \* clients whose plan is changed
  Turning,   \* clients whose locations are turned on and off
  Connecting \* clients that connect accounts

CONSTANTS
  NoClient, NoStore, NoRow,  \* none
  Pending    \* the id of an account that was never chosen

ASSUME TenantAssumption ==
  /\ Made \cup Planned \cup Turning \cup Connecting \subseteq Clients
  /\ NoClient \notin Clients
  /\ NoStore \notin Stores
  /\ NoRow \notin Rows
  /\ Pending \notin Exts

VARIABLES
  client,  \* os.clients: plan, linked site; and the site it was made for
  active,  \* os.locations with status active, by client
  account, \* os.ad_accounts, by client
  req      \* each request and its transaction

vars == <<client, active, account, req>>

Plans == {"paid", "scholarship"}
Sites == Stores \cup {NoStore}

\* A request that has read nothing yet.
At(pc, op, c, arg) ==
  [pc |-> pc, op |-> op, client |-> c, arg |-> arg,
   plan |-> "unread", site |-> NoStore, row |-> NoRow]

Idle == At("idle", "none", NoClient, NoStore)

Absent == [ext |-> Pending, status |-> "absent"]

\* Every client starts on the paid plan without a site; one that connected long
\* ago may have an account whose id was never chosen.
Init ==
  /\ client = [c \in Clients |-> [plan |-> IF c \in Made THEN "paid" ELSE "unmade",
                                  site |-> NoStore, born |-> NoStore]]
  /\ active = [c \in Clients |-> {}]
  /\ \E legacy \in SUBSET (Connecting \X Rows) :
       /\ \A p, q \in legacy : p[1] = q[1] => p = q
       /\ account = [c \in Clients |-> [a \in Rows |->
            IF <<c, a>> \in legacy THEN [ext |-> Pending, status |-> "connected"] ELSE Absent]]
  /\ req = [r \in Requests |-> Idle]

-----------------------------------------------------------------------------
(* The rules (packages/contracts/src/entitlements.ts) and the triggers.    *)

\* Seeded fault: an account in an error does not count.
IsActiveConnected(row) == row.status = "connected"

\* Everything but disconnected, as in the triggers.
IsActive(row) == row.status \notin {"absent", "disconnected"}

ActiveRows(c) == {a \in Rows : IsActive(account[c][a])}

\* decideLocationActivation and the trigger: the store that is turned off in the
\* same change does not count.
LocationFits(plan, on, replaced, s) ==
  plan = "scholarship" => (on \ {replaced}) \cup {s} = {s}

\* decideAdAccountActivation, by external id.
AccountFits(plan, c, replaced, ext) ==
  plan = "scholarship" =>
    \A a \in ActiveRows(c) : account[c][a].ext \in {replaced, ext}

\* A move to Scholarship, in setClientPlan and in its trigger.
DowngradeFits(c) ==
  /\ \A s, t \in active[c] : s = t
  /\ \A a, b \in ActiveRows(c) : a = b

\* The account trigger looks only at writes that can add an active row.
AccountTrigger(c, a, ext) ==
  IsActive(account[c][a]) \/ client[c].plan # "scholarship"
    \/ \A b \in ActiveRows(c) : b = a \/ account[c][b].ext = ext

-----------------------------------------------------------------------------
(* What a request looks at before its transaction.                         *)

IsMade(c) == client[c].plan # "unmade"
LinkedTo(s) == {c \in Clients : client[c].site = s}

Asks(r, op, c, arg) == req' = [req EXCEPT ![r] = At("asked", op, c, arg)]

\* PUT /sites/:siteId/client returns the client that is linked, or goes on.
EnsureSite(r, s) ==
  /\ req[r].pc = "idle"
  /\ LinkedTo(s) = {}
  /\ req' = [req EXCEPT ![r] = At("ensuring", "none", NoClient, s)]
  /\ UNCHANGED <<client, active, account>>

\* A client of the same name, which has no site when it is looked up.
Adopt(r, c) ==
  /\ req[r].pc = "ensuring"
  /\ IsMade(c)
  /\ client[c].site = NoStore
  /\ Asks(r, "assign", c, req[r].arg)
  /\ UNCHANGED <<client, active, account>>

\* POST /clients/:id/site refuses a site that is another's when it looks.
AskSite(r, c, s) ==
  /\ req[r].pc = "idle"
  /\ IsMade(c)
  /\ s = NoStore \/ LinkedTo(s) \subseteq {c}
  /\ Asks(r, "assign", c, s)
  /\ UNCHANGED <<client, active, account>>

\* POST /clients/:id/locations, and /locations/deactivate: any store.
AskLocation(r, op, c, s) ==
  /\ req[r].pc = "idle"
  /\ IsMade(c)
  /\ Asks(r, op, c, s)
  /\ UNCHANGED <<client, active, account>>

AskPlan(r, c, p) ==
  /\ req[r].pc = "idle"
  /\ IsMade(c)
  /\ Asks(r, "plan", c, p)
  /\ UNCHANGED <<client, active, account>>

\* One account of those chosen.  The batch's own check before it locks nothing and
\* refuses only what is refused here.
AskConnect(r, c, ext) ==
  /\ req[r].pc = "idle"
  /\ IsMade(c)
  /\ Asks(r, "connect", c, ext)
  /\ UNCHANGED <<client, active, account>>

-----------------------------------------------------------------------------
(* The transaction.                                                        *)

\* Seeded fault: the client row is read without its lock, so that only the
\* triggers take it.
HoldsLate(r, c) == req[r].client = c /\ req[r].pc = "written"

\* The transaction has locked the client row.
Holds(r, c) == req[r].client = c /\ req[r].pc \in {"locked", "decided", "written"}

LockFree(r, c) == \A q \in Requests \ {r} : ~Holds(q, c)

\* lockTenant: FOR NO KEY UPDATE.
LockTenant(r) ==
  LET c == req[r].client IN
  /\ req[r].pc = "asked"
  /\ LockFree(r, c)
  /\ req' = [req EXCEPT ![r] = [@ EXCEPT !.pc = "locked", !.plan = client[c].plan,
                                         !.site = client[c].site]]
  /\ UNCHANGED <<client, active, account>>

\* The location the change turns off.
Replaced(r) == IF req[r].op = "assign" THEN req[r].site ELSE NoStore

\* activateStore, and assignClientSite with a site.  Unlinking decides nothing.
DecideLocation(r) ==
  LET c == req[r].client s == req[r].arg IN
  /\ req[r].op \in {"assign", "activate"}
  /\ s = NoStore \/ LocationFits(req[r].plan, active[c], Replaced(r), s)
  /\ req' = [req EXCEPT ![r].pc = "decided"]

\* deactivateStore: a location that is off, or was never there, changes nothing.
DecideOff(r) ==
  /\ req[r].op = "deactivate"
  /\ req[r].arg \in active[req[r].client]
  /\ req' = [req EXCEPT ![r].pc = "decided"]

DecidePlan(r) ==
  /\ req[r].op = "plan"
  /\ req[r].plan # req[r].arg
  /\ req[r].arg = "scholarship" => DowngradeFits(req[r].client)
  /\ req' = [req EXCEPT ![r].pc = "decided"]

HasExt(c, ext) ==
  {a \in Rows : account[c][a].status # "absent" /\ account[c][a].ext = ext}

\* The row that is connected again: the one with this id, or the one whose id was
\* never chosen.
Matches(c, ext) == IF HasExt(c, ext) # {} THEN HasExt(c, ext) ELSE HasExt(c, Pending)

Fresh(c) == {a \in Rows : account[c][a].status = "absent"}

DecideConnect(r) ==
  LET c == req[r].client ext == req[r].arg IN
  /\ req[r].op = "connect"
  /\ \E a \in Matches(c, ext) \cup {NoRow} :
       /\ a = NoRow <=> Matches(c, ext) = {}
       /\ AccountFits(req[r].plan, c, IF a = NoRow THEN ext ELSE account[c][a].ext, ext)
       /\ req' = [req EXCEPT ![r] = [@ EXCEPT !.pc = "decided", !.row = a]]

Decide(r) ==
  /\ req[r].pc = "locked"
  /\ DecideLocation(r) \/ DecideOff(r) \/ DecidePlan(r) \/ DecideConnect(r)
  /\ UNCHANGED <<client, active, account>>

\* A site that another client has breaks the unique index; the look before the
\* transaction may be old by now.
SiteFree(c, s) == s = NoStore \/ LinkedTo(s) \subseteq {c}

\* The site a request takes, and the one it leaves.
Touches(q) ==
  CASE req[q].op = "assign" -> {req[q].arg, client[req[q].client].site}
    [] req[q].op = "deactivate" -> {req[q].arg} \cap {client[req[q].client].site}
    [] OTHER -> {}

\* The write waits for one that takes or leaves the same site.
SiteIsQuiet(r, s) ==
  \A q \in Requests \ {r} :
    req[q].pc = "written" /\ s # NoStore => s \notin Touches(q)

\* The location trigger counts what is active when the row is written.
WriteLocation(r) ==
  LET c == req[r].client s == req[r].arg IN
  /\ req[r].op \in {"assign", "activate"}
  /\ s = NoStore \/ LocationFits(client[c].plan, active[c], Replaced(r), s)
  /\ req[r].op = "assign" => SiteFree(c, s) /\ SiteIsQuiet(r, s)
  /\ req' = [req EXCEPT ![r].pc = "written"]

WriteOff(r) ==
  /\ req[r].op = "deactivate"
  /\ req' = [req EXCEPT ![r].pc = "written"]

WritePlan(r) ==
  /\ req[r].op = "plan"
  /\ req[r].arg = "scholarship" => DowngradeFits(req[r].client)
  /\ req' = [req EXCEPT ![r].pc = "written"]

\* The row that was found is updated, whatever its id is by now; a new row, or a
\* new id, must not be there yet.
WriteAccount(r) ==
  LET c == req[r].client ext == req[r].arg IN
  /\ req[r].op = "connect"
  /\ \E a \in IF req[r].row = NoRow THEN Fresh(c) ELSE {req[r].row} :
       /\ HasExt(c, ext) \subseteq {a}
       /\ AccountTrigger(c, a, ext)
       /\ req' = [req EXCEPT ![r] = [@ EXCEPT !.pc = "written", !.row = a]]

Write(r) ==
  /\ req[r].pc = "decided"
  /\ LockFree(r, req[r].client)
  /\ WriteLocation(r) \/ WriteOff(r) \/ WritePlan(r) \/ WriteAccount(r)
  /\ UNCHANGED <<client, active, account>>

\* Turned off: the replaced location, or the linked one.  Turned on: the new one.
CommitLocation(r) ==
  LET c == req[r].client s == req[r].arg IN
  /\ req[r].op \in {"assign", "activate"}
  /\ active' = [active EXCEPT ![c] = (@ \ {Replaced(r)}) \cup ({s} \ {NoStore})]
  /\ client' = IF req[r].op = "assign" THEN [client EXCEPT ![c].site = s] ELSE client
  /\ UNCHANGED account

\* A store that is turned off is unlinked, if it was the linked one.
CommitOff(r) ==
  LET c == req[r].client s == req[r].arg IN
  /\ req[r].op = "deactivate"
  /\ active' = [active EXCEPT ![c] = @ \ {s}]
  /\ client' = [client EXCEPT ![c].site = IF req[r].site = s THEN NoStore ELSE @]
  /\ UNCHANGED account

CommitPlan(r) ==
  /\ req[r].op = "plan"
  /\ client' = [client EXCEPT ![req[r].client].plan = req[r].arg]
  /\ UNCHANGED <<active, account>>

CommitAccount(r) ==
  /\ req[r].op = "connect"
  /\ account' = [account EXCEPT ![req[r].client][req[r].row] =
                   [ext |-> req[r].arg, status |-> "connected"]]
  /\ UNCHANGED <<client, active>>

Commit(r) ==
  /\ req[r].pc = "written"
  /\ CommitLocation(r) \/ CommitOff(r) \/ CommitPlan(r) \/ CommitAccount(r)
  /\ req' = [req EXCEPT ![r] = Idle]

\* Refused, failed or cut off: a transaction that is open is rolled back.
GiveUp(r) ==
  /\ req[r].pc # "idle"
  /\ req' = [req EXCEPT ![r] = Idle]
  /\ UNCHANGED <<client, active, account>>

\* No client of that name: one is inserted with the site, in a statement of its
\* own, and its location is turned on after it.  A site that has been linked
\* meanwhile inserts nothing.
Create(r, c) ==
  LET s == req[r].arg IN
  /\ req[r].pc = "ensuring"
  /\ ~IsMade(c)
  /\ SiteIsQuiet(r, s)
  /\ SiteFree(c, s)
  /\ client' = [client EXCEPT ![c] = [plan |-> "paid", site |-> s, born |-> s]]
  /\ Asks(r, "activate", c, s)
  /\ UNCHANGED <<active, account>>

-----------------------------------------------------------------------------
(* Writes of account rows that take no client lock.  They wait for a       *)
(* transaction that has written the row or the id.                         *)

RowIsQuiet(c, a) ==
  \A q \in Requests :
    ~(req[q].client = c /\ req[q].pc = "written" /\ req[q].op = "connect" /\ req[q].row = a)

Disconnect(c, a) ==
  /\ account[c][a].status # "absent"
  /\ RowIsQuiet(c, a)
  /\ account' = [account EXCEPT ![c][a].status = "disconnected"]
  /\ UNCHANGED <<client, active, req>>

\* A sync says how it went.
SyncStatus(c, a, status) ==
  /\ IsActive(account[c][a])
  /\ RowIsQuiet(c, a)
  /\ account' = [account EXCEPT ![c][a].status = status]
  /\ UNCHANGED <<client, active, req>>

\* It also stores the id the platform has for the account.
SyncNames(c, a, ext) ==
  /\ IsActive(account[c][a])
  /\ account[c][a].ext = Pending
  /\ RowIsQuiet(c, a)
  /\ HasExt(c, ext) = {}
  /\ \A q \in Requests : ~(req[q].client = c /\ req[q].pc = "written" /\ req[q].arg = ext)
  /\ account' = [account EXCEPT ![c][a].ext = ext]
  /\ UNCHANGED <<client, active, req>>

Ask(r) ==
  \/ \E s \in Stores : EnsureSite(r, s)
  \/ \E c \in Clients : Adopt(r, c) \/ Create(r, c)
  \/ \E c \in Clients, s \in Sites : AskSite(r, c, s)
  \/ \E op \in {"activate", "deactivate"}, c \in Turning, s \in Stores :
       AskLocation(r, op, c, s)
  \/ \E c \in Planned, p \in Plans : AskPlan(r, c, p)
  \/ \E c \in Connecting, ext \in Exts : AskConnect(r, c, ext)

Transaction(r) == LockTenant(r) \/ Decide(r) \/ Write(r) \/ Commit(r) \/ GiveUp(r)

Platform ==
  \E c \in Connecting, a \in Rows :
    \/ Disconnect(c, a)
    \/ \E status \in {"connected", "error"} : SyncStatus(c, a, status)
    \/ \E ext \in Exts : SyncNames(c, a, ext)

Next == Platform \/ \E r \in Requests : Ask(r) \/ Transaction(r)

Spec == Init /\ [][Next]_vars

-----------------------------------------------------------------------------
(* Properties.                                                             *)

Accounts == [ext : Exts \cup {Pending},
             status : {"absent", "disconnected", "connected", "error"}]

Request ==
  [pc : {"idle", "ensuring", "asked", "locked", "decided", "written"},
   op : {"none", "assign", "activate", "deactivate", "plan", "connect"},
   client : Clients \cup {NoClient}, arg : Sites \cup Plans \cup Exts,
   plan : Plans \cup {"unread", "unmade"}, site : Sites, row : Rows \cup {NoRow}]

\* The rows and the requests keep their shapes.
TypeOK ==
  /\ client \in [Clients -> [plan : Plans \cup {"unmade"}, site : Sites, born : Sites]]
  /\ active \in [Clients -> SUBSET Stores]
  /\ account \in [Clients -> [Rows -> Accounts]]
  /\ req \in [Requests -> Request]

\* A client on a Scholarship has one active location at most and one account that
\* is not disconnected, however links, connects, syncs and changes of the plan
\* fall together.
LimitsHold ==
  \A c \in Clients : client[c].plan = "scholarship" =>
    /\ \A s, t \in active[c] : s = t
    /\ \A a, b \in Rows :
         {account[c][a].status, account[c][b].status} \cap {"absent", "disconnected"} = {}
           => a = b

\* "One site stays linked to that one client" (sites.ts:162).
OneClientPerSite == \A s \in Stores : \A c, d \in LinkedTo(s) : c = d

\* A client's linked site is a location that is on ("Links or unlinks a site and
\* the matching location in one transaction", entitlements.ts:255), whoever links,
\* turns on or turns off at the same time; except for the site it was made for,
\* whose row and location are written one after the other (sites.ts:107-119).
LinkedIsActive ==
  \A c \in Clients : client[c].site \in active[c] \cup {NoStore, client[c].born}

AtOnce == INSTANCE TenantRows

\* Every transaction acts as if it looked, decided and wrote in one step, at its
\* commit: the site it replaces is the one that is linked, what it turns off is on,
\* a plan really changes, no other row has the id it connects, and the limits count
\* what is there then (entitlements.ts:79-105, entitlements.ts:183-305,
\* connect.ts:84-107).
ActsAtOnce == AtOnce!TenantSpec
=============================================================================
