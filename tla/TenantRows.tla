----------------------------- MODULE TenantRows -----------------------------
(***************************************************************************)
(* What the requests of Entitlements promise together: every change of a    *)
(* client's locations, plan and accounts happens at once, and is judged on  *)
(* the rows as they are then.  There are no requests here, no reads before  *)
(* a write and no locks.                                                    *)
(***************************************************************************)
CONSTANTS Clients, Stores, Rows, Exts, NoStore, Pending

VARIABLES client, active, account

tenantVars == <<client, active, account>>

Absent == [ext |-> Pending, status |-> "absent"]

AtMostOne(S) == \A x, y \in S : x = y

Counted(c) == {a \in Rows : account[c][a].status \notin {"absent", "disconnected"}}

\* The plan's limits (decideLocationActivation, decideAdAccountActivation and the
\* plan trigger): what a change leaves behind is within them.
WithinPlan(c) ==
  client[c].plan = "scholarship" => AtMostOne(active[c]) /\ AtMostOne(Counted(c))

TenantInit ==
  /\ client \in [Clients -> [plan : {"paid", "unmade"}, site : {NoStore}, born : {NoStore}]]
  /\ active = [c \in Clients |-> {}]
  /\ account \in [Clients -> [Rows -> {Absent, [ext |-> Pending, status |-> "connected"]}]]
  /\ \A c \in Clients : AtMostOne(Counted(c))

IsThere(c) == client[c].plan # "unmade"

NobodyElses(c, s) == \A d \in Clients \ {c} : client[d].site # s

\* The site the client has now is replaced, and its location with it.
Link(c, s) ==
  /\ NobodyElses(c, s)
  /\ active' = [active EXCEPT ![c] = (@ \ {client[c].site}) \cup {s}]
  /\ client' = [client EXCEPT ![c].site = s]
  /\ UNCHANGED account

Unlink(c) ==
  /\ active' = [active EXCEPT ![c] = @ \ {client[c].site}]
  /\ client' = [client EXCEPT ![c].site = NoStore]
  /\ UNCHANGED account

TurnOn(c, s) ==
  /\ active' = [active EXCEPT ![c] = @ \cup {s}]
  /\ UNCHANGED <<client, account>>

\* What is on is turned off, and is no longer linked.
TurnOff(c, s) ==
  /\ s \in active[c]
  /\ active' = [active EXCEPT ![c] = @ \ {s}]
  /\ client' = [client EXCEPT ![c].site = IF @ = s THEN NoStore ELSE @]
  /\ UNCHANGED account

ChangePlan(c, p) ==
  /\ p # client[c].plan
  /\ client' = [client EXCEPT ![c].plan = p]
  /\ UNCHANGED <<active, account>>

\* No other row of the client has the id.  Which row is connected is left open: a
\* sync takes no lock and may give the row that was found another id before.
Connect(c, a, ext) ==
  /\ \A b \in Rows \ {a} : account[c][b].status # "absent" => account[c][b].ext # ext
  /\ account' = [account EXCEPT ![c][a] = [ext |-> ext, status |-> "connected"]]
  /\ UNCHANGED <<client, active>>

Change(c) ==
  /\ IsThere(c)
  /\ \/ \E s \in Stores : Link(c, s) \/ TurnOn(c, s) \/ TurnOff(c, s)
     \/ Unlink(c)
     \/ \E p \in {"paid", "scholarship"} : ChangePlan(c, p)
     \/ \E a \in Rows, ext \in Exts : Connect(c, a, ext)
  /\ WithinPlan(c)'

Make(c, s) ==
  /\ ~IsThere(c)
  /\ NobodyElses(c, s)
  /\ client' = [client EXCEPT ![c] = [plan |-> "paid", site |-> s, born |-> s]]
  /\ UNCHANGED <<active, account>>

\* A row that is there may go off, one that counts may change its state or get
\* the id that was never chosen; neither adds to what counts.
Report(c, a) ==
  /\ \/ /\ account[c][a].status # "absent"
        /\ account' = [account EXCEPT ![c][a].status = "disconnected"]
     \/ /\ a \in Counted(c)
        /\ \E status \in {"connected", "error"} :
             account' = [account EXCEPT ![c][a].status = status]
     \/ /\ a \in Counted(c)
        /\ account[c][a].ext = Pending
        /\ \E ext \in Exts :
             /\ \A b \in Rows : account[c][b].status # "absent" => account[c][b].ext # ext
             /\ account' = [account EXCEPT ![c][a].ext = ext]
  /\ UNCHANGED <<client, active>>

TenantNext ==
  \E c \in Clients :
    \/ Change(c)
    \/ \E s \in Stores : Make(c, s)
    \/ \E a \in Rows : Report(c, a)

TenantSpec == TenantInit /\ [][TenantNext]_tenantVars
=============================================================================
