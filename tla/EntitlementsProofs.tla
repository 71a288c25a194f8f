------------------------- MODULE EntitlementsProofs -------------------------
(* Proofs about Entitlements: the limits of the plan, one client to a      *)
(* site, and the linked location that is on.                               *)
EXTENDS Entitlements, TLAPS

\* A request that has asked for its transaction names a client that is there.
Asked(x) == x.pc \in {"asked", "locked", "decided", "written"}

RequestOK(x) ==
  /\ x.pc = "ensuring" => x.arg \in Stores
  /\ Asked(x) =>
       /\ x.client \in Clients /\ IsMade(x.client)
       /\ \/ x.op = "assign" /\ x.arg \in Sites
          \/ x.op \in {"activate", "deactivate"} /\ x.arg \in Stores
          \/ x.op = "plan" /\ x.arg \in Plans
          \/ x.op = "connect" /\ x.arg \in Exts
  /\ x.pc = "written" /\ x.op = "connect" => x.row \in Rows

RequestsOK == \A r \in Requests : RequestOK(req[r])

\* The lock is one request's, and what was read under it is still so.
LockOK ==
  \A c \in Clients, r \in Requests : Holds(r, c) =>
    /\ req[r].plan = client[c].plan /\ req[r].site = client[c].site
    /\ \A q \in Requests : Holds(q, c) => q = r

\* Nothing belongs to a client that is not made.
UnmadeOK ==
  \A c \in Clients : ~IsMade(c) =>
    active[c] = {} /\ client[c].site = NoStore /\ client[c].born = NoStore

\* What has been written, and not committed, still fits.
Fits(r) ==
  LET c == req[r].client IN
  req[r].pc = "written" =>
    /\ req[r].op \in {"assign", "activate"} /\ req[r].arg # NoStore =>
         LocationFits(client[c].plan, active[c], Replaced(r), req[r].arg)
    /\ req[r].op = "plan" /\ req[r].arg = "scholarship" => DowngradeFits(c)
    /\ req[r].op = "connect" /\ client[c].plan = "scholarship" =>
         \A b \in ActiveRows(c) : b = req[r].row

FitsOK == \A r \in Requests : Fits(r)

\* A site that is being written is nobody else's, linked or written.
Links(r, s) == req[r].pc = "written" /\ req[r].op = "assign" /\ req[r].arg = s

SitesOK ==
  \A s \in Stores : \A r \in Requests : Links(r, s) =>
    /\ LinkedTo(s) \subseteq {req[r].client}
    /\ \A q \in Requests : Links(q, s) => q = r

IInv ==
  /\ TypeOK /\ RequestsOK /\ LockOK /\ UnmadeOK /\ FitsOK /\ SitesOK
  /\ LimitsHold /\ OneClientPerSite /\ LinkedIsActive

-----------------------------------------------------------------------------
(* The initial states.                                                     *)

LEMMA Initially == Init => IInv
<1> SUFFICES ASSUME Init PROVE IInv
  OBVIOUS
<1> USE TenantAssumption
<1>1. TypeOK
  <2>1. client \in [Clients -> [plan : Plans \cup {"unmade"}, site : Sites, born : Sites]]
    BY DEF Init, Plans, Sites
  <2>2. active \in [Clients -> SUBSET Stores]
    BY DEF Init
  <2>3. account \in [Clients -> [Rows -> Accounts]]
    BY DEF Init, Absent, Accounts
  <2>4. req \in [Requests -> Request]
    BY DEF Init, Idle, At, Request, Sites, Plans
  <2> QED
    BY <2>1, <2>2, <2>3, <2>4 DEF TypeOK
<1>2. \A r \in Requests : req[r].pc = "idle"
  BY DEF Init, Idle, At
<1>3. RequestsOK /\ LockOK /\ FitsOK /\ SitesOK
  BY <1>2 DEF RequestsOK, RequestOK, Asked, LockOK, Holds, FitsOK, Fits, SitesOK, Links
<1>4. UnmadeOK /\ OneClientPerSite /\ LinkedIsActive
  BY DEF Init, UnmadeOK, OneClientPerSite, LinkedTo, LinkedIsActive
<1>5. LimitsHold
  BY DEF Init, LimitsHold
<1> QED
  BY <1>1, <1>3, <1>4, <1>5 DEF IInv

-----------------------------------------------------------------------------
(* Steps of a request that leave the rows alone.                           *)

LEMMA RowsAlone ==
  ASSUME IInv, NEW r \in Requests, NEW x \in Request, RequestOK(x),
         req' = [req EXCEPT ![r] = x], UNCHANGED <<client, active, account>>
  PROVE  /\ TypeOK' /\ RequestsOK' /\ UnmadeOK'
         /\ LimitsHold' /\ OneClientPerSite' /\ LinkedIsActive'
         /\ req'[r] = x /\ \A q \in Requests : q # r => req'[q] = req[q]
<1>1. req'[r] = x /\ \A q \in Requests : q # r => req'[q] = req[q]
  BY DEF IInv, TypeOK
<1>2. TypeOK'
  BY DEF IInv, TypeOK
<1>3. RequestsOK'
  <2>1. \A y : RequestOK(y)' <=> RequestOK(y)
    BY DEF RequestOK, IsMade, Asked
  <2> QED
    BY <1>1 DEF IInv, RequestsOK, RequestOK, IsMade, Asked
<1>4. UnmadeOK' /\ OneClientPerSite' /\ LinkedIsActive' /\ LimitsHold'
  BY DEF IInv, UnmadeOK, IsMade, OneClientPerSite, LinkedTo, LinkedIsActive, LimitsHold
<1> QED
  BY <1>1, <1>2, <1>3, <1>4

\* A request that has nothing written before or after, and no lock after that it
\* had not before.
LEMMA Asking ==
  ASSUME IInv, NEW r \in Requests, NEW x \in Request, RequestOK(x),
         req' = [req EXCEPT ![r] = x], UNCHANGED <<client, active, account>>,
         x.pc \in {"idle", "ensuring", "asked"}
  PROVE  IInv'
<1>1. /\ TypeOK' /\ RequestsOK' /\ UnmadeOK'
      /\ LimitsHold' /\ OneClientPerSite' /\ LinkedIsActive'
      /\ req'[r] = x /\ \A q \in Requests : q # r => req'[q] = req[q]
  BY RowsAlone
<1>2. LockOK'
  BY <1>1 DEF IInv, LockOK, Holds
<1>3. FitsOK'
  <2> SUFFICES ASSUME NEW q \in Requests PROVE Fits(q)'
    BY DEF FitsOK
  <2>1. CASE q = r
    BY <2>1, <1>1 DEF Fits
  <2>2. CASE q # r
    BY <2>2, <1>1 DEF IInv, FitsOK, Fits, LocationFits, DowngradeFits, ActiveRows,
                      IsActive, Replaced
  <2> QED
    BY <2>1, <2>2
<1>4. SitesOK'
  BY <1>1 DEF IInv, SitesOK, Links, LinkedTo
<1> QED
  BY <1>1, <1>2, <1>3, <1>4 DEF IInv

LEMMA AskedOK ==
  ASSUME IInv, NEW r \in Requests, NEW c \in Clients, IsMade(c), NEW op, NEW arg,
         \/ op = "assign" /\ arg \in Sites
         \/ op \in {"activate", "deactivate"} /\ arg \in Stores
         \/ op = "plan" /\ arg \in Plans
         \/ op = "connect" /\ arg \in Exts,
         Asks(r, op, c, arg), UNCHANGED <<client, active, account>>
  PROVE  IInv'
<1> DEFINE x == At("asked", op, c, arg)
<1>1. req' = [req EXCEPT ![r] = x]
  BY DEF Asks
<1>2. x \in Request
  BY DEF At, Request, Sites, Plans
<1>3. RequestOK(x) /\ x.pc = "asked"
  BY DEF At, RequestOK, Asked
<1> HIDE DEF x
<1> QED
  BY <1>1, <1>2, <1>3, Asking

LEMMA AskStep ==
  ASSUME IInv, NEW r \in Requests,
         \/ \E s \in Stores : EnsureSite(r, s)
         \/ \E c \in Clients : Adopt(r, c)
         \/ \E c \in Clients, s \in Sites : AskSite(r, c, s)
         \/ \E op \in {"activate", "deactivate"}, c \in Clients, s \in Stores :
              AskLocation(r, op, c, s)
         \/ \E c \in Clients, p \in Plans : AskPlan(r, c, p)
         \/ \E c \in Clients, ext \in Exts : AskConnect(r, c, ext)
         \/ GiveUp(r)
  PROVE  IInv'
<1>1. ASSUME NEW s \in Stores, EnsureSite(r, s) PROVE IInv'
  <2> DEFINE x == At("ensuring", "none", NoClient, s)
  <2>1. req' = [req EXCEPT ![r] = x] /\ UNCHANGED <<client, active, account>>
    BY <1>1 DEF EnsureSite
  <2>2. x \in Request
    BY DEF At, Request, Sites, Plans
  <2>3. RequestOK(x) /\ x.pc = "ensuring"
    BY DEF At, RequestOK, Asked
  <2> HIDE DEF x
  <2> QED
    BY <2>1, <2>2, <2>3, Asking
<1>2. ASSUME NEW c \in Clients, Adopt(r, c) PROVE IInv'
  <2>1. req[r].arg \in Sites
    BY <1>2 DEF Adopt, IInv, RequestsOK, RequestOK, Sites
  <2> QED
    BY <1>2, <2>1, AskedOK DEF Adopt
<1>3. ASSUME NEW c \in Clients, NEW s \in Sites, AskSite(r, c, s) PROVE IInv'
  BY <1>3, AskedOK DEF AskSite
<1>4. ASSUME NEW c \in Clients, NEW p \in Plans, AskPlan(r, c, p) PROVE IInv'
  BY <1>4, AskedOK DEF AskPlan
<1>5. ASSUME NEW c \in Clients, NEW ext \in Exts, AskConnect(r, c, ext) PROVE IInv'
  BY <1>5, AskedOK DEF AskConnect
<1>6. ASSUME NEW op \in {"activate", "deactivate"}, NEW c \in Clients, NEW s \in Stores,
             AskLocation(r, op, c, s)
      PROVE  IInv'
  BY <1>6, AskedOK DEF AskLocation
<1>7. CASE GiveUp(r)
  <2>1. Idle \in Request /\ RequestOK(Idle) /\ Idle.pc = "idle"
    BY DEF Idle, At, Request, Sites, RequestOK, Asked
  <2> QED
    BY <1>7, <2>1, Asking DEF GiveUp
<1> QED
  BY <1>1, <1>2, <1>3, <1>4, <1>5, <1>6, <1>7

\* A request that goes on with what it asked for.
Going(r, pc, plan, site, row) ==
  [pc |-> pc, op |-> req[r].op, client |-> req[r].client, arg |-> req[r].arg,
   plan |-> plan, site |-> site, row |-> row]

\* What LockTenant, Decide and Write make of a request.
LEMMA Changed ==
  ASSUME NEW r \in Requests, req[r] \in Request, NEW pc, NEW plan, NEW site, NEW row
  PROVE  /\ [req[r] EXCEPT !.pc = pc, !.plan = plan, !.site = site]
               = Going(r, pc, plan, site, req[r].row)
         /\ [req[r] EXCEPT !.pc = pc, !.row = row]
               = Going(r, pc, req[r].plan, req[r].site, row)
<1> DEFINE x == [req[r] EXCEPT !.pc = pc]
           y == [x EXCEPT !.plan = plan]
<1>1. x = Going(r, pc, req[r].plan, req[r].site, req[r].row)
  BY DEF Going, Request
<1> HIDE DEF x
<1>2. y = Going(r, pc, plan, req[r].site, req[r].row)
  BY <1>1 DEF Going
<1>3. [x EXCEPT !.row = row] = Going(r, pc, req[r].plan, req[r].site, row)
  BY <1>1 DEF Going
<1> HIDE DEF y
<1>4. [y EXCEPT !.site = site] = Going(r, pc, plan, site, req[r].row)
  BY <1>2 DEF Going
<1> QED
  BY <1>3, <1>4 DEF x, y

LEMMA GoingOK ==
  ASSUME IInv, NEW r \in Requests, Asked(req[r]),
         NEW pc \in {"locked", "decided", "written"}, NEW plan \in Plans \cup {"unread", "unmade"},
         NEW site \in Sites, NEW row \in Rows \cup {NoRow},
         pc = "written" /\ req[r].op = "connect" => row \in Rows
  PROVE  Going(r, pc, plan, site, row) \in Request /\ RequestOK(Going(r, pc, plan, site, row))
<1>1. req[r] \in Request /\ RequestOK(req[r])
  BY DEF IInv, TypeOK, RequestsOK
<1>2. Going(r, pc, plan, site, row) \in Request
  BY <1>1 DEF Going, Request
<1> QED
  BY <1>1, <1>2 DEF Going, RequestOK, Asked

LEMMA LockStep == ASSUME IInv, NEW r \in Requests, LockTenant(r) PROVE IInv'
<1> DEFINE c == req[r].client
           x == Going(r, "locked", client[c].plan, client[c].site, req[r].row)
<1>1. Asked(req[r]) /\ c \in Clients /\ req[r] \in Request /\ RequestOK(req[r])
  BY DEF LockTenant, Asked, IInv, TypeOK, RequestsOK, RequestOK
<1>2. x \in Request /\ RequestOK(x)
  <2>1. client[c].plan \in Plans \cup {"unread", "unmade"} /\ client[c].site \in Sites
          /\ req[r].row \in Rows \cup {NoRow}
    BY <1>1 DEF IInv, TypeOK, Request
  <2> QED
    BY <1>1, <2>1, GoingOK
<1>3. req' = [req EXCEPT ![r] = x] /\ UNCHANGED <<client, active, account>>
  <2>1. req \in [Requests -> Request]
    BY DEF IInv, TypeOK
  <2>2. [req[r] EXCEPT !.pc = "locked", !.plan = client[c].plan, !.site = client[c].site] = x
    BY <1>1, Changed
  <2> QED
    BY <2>1, <2>2 DEF LockTenant
<1>4. x.pc = "locked" /\ x.client = c /\ x.plan = client[c].plan /\ x.site = client[c].site
  BY DEF Going
<1> HIDE DEF x
<1>5. /\ TypeOK' /\ RequestsOK' /\ UnmadeOK' /\ UNCHANGED <<client, active, account>>
      /\ LimitsHold' /\ OneClientPerSite' /\ LinkedIsActive'
      /\ req'[r] = x /\ \A q \in Requests : q # r => req'[q] = req[q]
  BY <1>2, <1>3, RowsAlone
<1>6. LockOK'
  <2>1. \A d \in Clients : /\ \A q \in Requests \ {r} : Holds(q, d)' <=> Holds(q, d)
                           /\ Holds(r, d)' <=> d = c
    BY <1>4, <1>5 DEF Holds
  <2>2. \A q \in Requests \ {r} : ~Holds(q, c)
    BY DEF LockTenant, LockFree
  <2> SUFFICES ASSUME NEW d \in Clients, NEW q \in Requests, Holds(q, d)'
               PROVE  /\ req'[q].plan = client[d].plan /\ req'[q].site = client[d].site
                      /\ \A p \in Requests : Holds(p, d)' => p = q
    BY <1>5 DEF LockOK
  <2>3. CASE q = r
    BY <2>1, <2>2, <2>3, <1>4, <1>5
  <2>4. CASE q # r
    BY <2>1, <2>2, <2>4, <1>5 DEF IInv, LockOK
  <2> QED
    BY <2>3, <2>4
<1>7. FitsOK'
  <2> SUFFICES ASSUME NEW q \in Requests PROVE Fits(q)'
    BY DEF FitsOK
  <2>1. CASE q = r
    BY <2>1, <1>4, <1>5 DEF Fits
  <2>2. CASE q # r
    BY <2>2, <1>5 DEF IInv, FitsOK, Fits, LocationFits, DowngradeFits, ActiveRows,
                      IsActive, Replaced
  <2> QED
    BY <2>1, <2>2
<1>8. SitesOK'
  BY <1>4, <1>5 DEF IInv, SitesOK, Links, LinkedTo
<1> QED
  BY <1>5, <1>6, <1>7, <1>8 DEF IInv

LEMMA DecideStep == ASSUME IInv, NEW r \in Requests, Decide(r) PROVE IInv'
<1> DEFINE x(a) == Going(r, "decided", req[r].plan, req[r].site, a)
<1>1. Asked(req[r]) /\ req[r].client \in Clients /\ req[r] \in Request
  BY DEF Decide, Asked, IInv, TypeOK, RequestsOK, RequestOK
<1>2. PICK a \in Rows \cup {NoRow} : req' = [req EXCEPT ![r] = x(a)]
  <2>1. CASE DecideLocation(r) \/ DecideOff(r) \/ DecidePlan(r)
    <3>1. req' = [req EXCEPT ![r] = x(req[r].row)] /\ req[r].row \in Rows \cup {NoRow}
      BY <2>1, <1>1 DEF DecideLocation, DecideOff, DecidePlan, Going, Request, IInv, TypeOK
    <3> QED
      BY <3>1
  <2>2. CASE DecideConnect(r)
    <3>1. PICK a \in Matches(req[r].client, req[r].arg) \cup {NoRow} :
            req' = [req EXCEPT ![r] = [@ EXCEPT !.pc = "decided", !.row = a]]
      BY <2>2 DEF DecideConnect
    <3>2. a \in Rows \cup {NoRow}
      BY DEF Matches, HasExt
    <3>3. req' = [req EXCEPT ![r] = x(a)]
      <4>1. req \in [Requests -> Request]
        BY DEF IInv, TypeOK
      <4>2. [req[r] EXCEPT !.pc = "decided", !.row = a] = x(a)
        BY <1>1, Changed
      <4> QED
        BY <3>1, <4>1, <4>2
    <3> QED
      BY <3>2, <3>3
  <2> QED
    BY <2>1, <2>2 DEF Decide
<1>3. x(a) \in Request /\ RequestOK(x(a))
  <2>1. req[r].plan \in Plans \cup {"unread", "unmade"} /\ req[r].site \in Sites
    BY <1>1 DEF Request
  <2> QED
    BY <1>1, <2>1, GoingOK
<1>4. /\ x(a).pc = "decided" /\ x(a).client = req[r].client
      /\ x(a).plan = req[r].plan /\ x(a).site = req[r].site
  BY DEF Going
<1> HIDE DEF x
<1>5. /\ TypeOK' /\ RequestsOK' /\ UnmadeOK' /\ UNCHANGED <<client, active, account>>
      /\ LimitsHold' /\ OneClientPerSite' /\ LinkedIsActive'
      /\ req'[r] = x(a) /\ \A q \in Requests : q # r => req'[q] = req[q]
  BY <1>2, <1>3, RowsAlone DEF Decide
<1>6. LockOK'
  BY <1>1, <1>4, <1>5 DEF Decide, IInv, LockOK, Holds
<1>7. FitsOK'
  <2> SUFFICES ASSUME NEW q \in Requests PROVE Fits(q)'
    BY DEF FitsOK
  <2>1. CASE q = r
    BY <2>1, <1>4, <1>5 DEF Fits
  <2>2. CASE q # r
    BY <2>2, <1>5 DEF IInv, FitsOK, Fits, LocationFits, DowngradeFits, ActiveRows,
                      IsActive, Replaced
  <2> QED
    BY <2>1, <2>2
<1>8. SitesOK'
  BY <1>4, <1>5 DEF IInv, SitesOK, Links, LinkedTo
<1> QED
  BY <1>5, <1>6, <1>7, <1>8 DEF IInv

LEMMA WriteStep == ASSUME IInv, NEW r \in Requests, Write(r) PROVE IInv'
<1> DEFINE c == req[r].client
           x(a) == Going(r, "written", req[r].plan, req[r].site, a)
<1>1. Asked(req[r]) /\ c \in Clients /\ req[r] \in Request /\ req[r].pc = "decided"
  BY DEF Write, Asked, IInv, TypeOK, RequestsOK, RequestOK
<1>2. PICK a \in Rows \cup {NoRow} :
        /\ req' = [req EXCEPT ![r] = x(a)]
        /\ req[r].op = "connect" =>
             a \in Rows /\ HasExt(c, req[r].arg) \subseteq {a} /\ AccountTrigger(c, a, req[r].arg)
  <2>1. CASE WriteLocation(r) \/ WriteOff(r) \/ WritePlan(r)
    <3>1. req' = [req EXCEPT ![r] = x(req[r].row)] /\ req[r].row \in Rows \cup {NoRow}
      BY <2>1, <1>1 DEF WriteLocation, WriteOff, WritePlan, Going, Request, IInv, TypeOK
    <3> QED
      BY <2>1, <3>1 DEF WriteLocation, WriteOff, WritePlan
  <2>2. CASE WriteAccount(r)
    <3>1. PICK a \in IF req[r].row = NoRow THEN Fresh(c) ELSE {req[r].row} :
            /\ HasExt(c, req[r].arg) \subseteq {a}
            /\ AccountTrigger(c, a, req[r].arg)
            /\ req' = [req EXCEPT ![r] = [@ EXCEPT !.pc = "written", !.row = a]]
      BY <2>2 DEF WriteAccount
    <3>2. a \in Rows
      BY <1>1, <3>1 DEF Fresh, Request
    <3>3. req' = [req EXCEPT ![r] = x(a)]
      <4>1. req \in [Requests -> Request]
        BY DEF IInv, TypeOK
      <4>2. [req[r] EXCEPT !.pc = "written", !.row = a] = x(a)
        BY <1>1, Changed
      <4> QED
        BY <3>1, <4>1, <4>2
    <3> QED
      BY <3>1, <3>2, <3>3
  <2> QED
    BY <2>1, <2>2 DEF Write
<1>3. x(a) \in Request /\ RequestOK(x(a))
  <2>1. req[r].plan \in Plans \cup {"unread", "unmade"} /\ req[r].site \in Sites
    BY <1>1 DEF Request
  <2> QED
    BY <1>1, <1>2, <2>1, GoingOK
<1>4. /\ x(a).pc = "written" /\ x(a).client = c /\ x(a).op = req[r].op
      /\ x(a).arg = req[r].arg /\ x(a).plan = req[r].plan /\ x(a).site = req[r].site
      /\ x(a).row = a
  BY DEF Going
<1> HIDE DEF x
<1>5. /\ TypeOK' /\ RequestsOK' /\ UnmadeOK' /\ UNCHANGED <<client, active, account>>
      /\ LimitsHold' /\ OneClientPerSite' /\ LinkedIsActive'
      /\ req'[r] = x(a) /\ \A q \in Requests : q # r => req'[q] = req[q]
  BY <1>2, <1>3, RowsAlone DEF Write
<1>6. LockOK'
  BY <1>1, <1>4, <1>5 DEF IInv, LockOK, Holds
<1>7. FitsOK'
  <2> SUFFICES ASSUME NEW q \in Requests PROVE Fits(q)'
    BY DEF FitsOK
  <2>1. CASE q = r
    <3>1. ASSUME req[r].op \in {"assign", "activate"}, req[r].arg # NoStore
          PROVE  LocationFits(client[c].plan, active[c], Replaced(r), req[r].arg)
      BY <3>1 DEF Write, WriteLocation, WriteOff, WritePlan, WriteAccount
    <3>2. Replaced(r)' = Replaced(r)
      BY <1>4, <1>5 DEF Replaced
    <3>3. ASSUME req[r].op = "plan", req[r].arg = "scholarship" PROVE DowngradeFits(c)
      BY <3>3 DEF Write, WriteLocation, WriteOff, WritePlan, WriteAccount
    <3>4. ASSUME req[r].op = "connect", client[c].plan = "scholarship",
                 NEW b \in ActiveRows(c)
          PROVE  b = a
      <4>1. \A d \in ActiveRows(c) : d \in Rows /\ account[c][d].status \notin {"absent", "disconnected"}
        BY DEF ActiveRows, IsActive
      <4>2. a \in Rows /\ HasExt(c, req[r].arg) \subseteq {a} /\ AccountTrigger(c, a, req[r].arg)
        BY <1>2, <3>4
      <4>3. CASE IsActive(account[c][a])
        BY <1>1, <3>4, <4>1, <4>2, <4>3 DEF IsActive, IInv, LimitsHold
      <4>4. CASE account[c][b].ext = req[r].arg
        BY <4>1, <4>2, <4>4 DEF HasExt
      <4> QED
        BY <3>4, <4>2, <4>3, <4>4 DEF AccountTrigger
    <3>5. /\ LocationFits(client[c].plan, active[c], Replaced(r), req[r].arg)'
               <=> LocationFits(client[c].plan, active[c], Replaced(r), req[r].arg)
          /\ DowngradeFits(c)' <=> DowngradeFits(c)
          /\ ActiveRows(c)' = ActiveRows(c)
      BY <1>4, <1>5, <3>2 DEF LocationFits, DowngradeFits, ActiveRows, IsActive
    <3> QED
      BY <2>1, <1>4, <1>5, <3>1, <3>2, <3>3, <3>4, <3>5 DEF Fits
  <2>2. CASE q # r
    BY <2>2, <1>5 DEF IInv, FitsOK, Fits, LocationFits, DowngradeFits, ActiveRows,
                      IsActive, Replaced
  <2> QED
    BY <2>1, <2>2
<1>8. SitesOK'
  <2> SUFFICES ASSUME NEW s \in Stores, NEW q \in Requests, Links(q, s)'
               PROVE  /\ LinkedTo(s) \subseteq {req'[q].client}
                      /\ \A p \in Requests : Links(p, s)' => p = q
    BY <1>5 DEF SitesOK, LinkedTo
  <2>1. \A p \in Requests : p # r => (Links(p, s)' <=> Links(p, s)) /\ req'[p] = req[p]
    BY <1>5 DEF Links
  <2>2. ASSUME Links(r, s)'
        PROVE  LinkedTo(s) \subseteq {c} /\ \A p \in Requests \ {r} : ~Links(p, s)
    <3>1. req[r].op = "assign" /\ req[r].arg = s /\ s # NoStore
      BY <2>2, <1>4, <1>5, TenantAssumption DEF Links
    <3>2. SiteFree(c, s) /\ SiteIsQuiet(r, s)
      BY <3>1 DEF Write, WriteLocation, WriteOff, WritePlan, WriteAccount
    <3> QED
      BY <3>1, <3>2 DEF SiteFree, SiteIsQuiet, Touches, Links
  <2>3. ~Links(r, s)
    BY <1>1 DEF Links
  <2>4. CASE q = r
    BY <2>1, <2>2, <2>4, <1>4, <1>5
  <2>5. CASE q # r
    BY <2>1, <2>2, <2>3, <2>5 DEF IInv, SitesOK
  <2> QED
    BY <2>4, <2>5
<1> QED
  BY <1>5, <1>6, <1>7, <1>8 DEF IInv

-----------------------------------------------------------------------------
(* Commits.                                                                *)

\* Others that have locked or written have done so for another client.
LEMMA CommitFacts ==
  ASSUME IInv, NEW r \in Requests, req[r].pc = "written", req' = [req EXCEPT ![r] = Idle]
  PROVE  /\ req[r].client \in Clients /\ IsMade(req[r].client) /\ RequestOK(req[r])
         /\ req[r] \in Request
         /\ Holds(r, req[r].client) /\ Fits(r)
         /\ \A q \in Requests \ {r} : ~Holds(q, req[r].client)
         /\ req' \in [Requests -> Request]
         /\ req'[r] = Idle /\ \A q \in Requests : q # r => req'[q] = req[q]
<1>1. RequestOK(req[r]) /\ Fits(r) /\ req[r] \in Request /\ req \in [Requests -> Request]
  BY DEF IInv, RequestsOK, FitsOK, TypeOK
<1>2. req[r].client \in Clients /\ IsMade(req[r].client)
  BY <1>1 DEF RequestOK, Asked
<1>3. Holds(r, req[r].client)
  BY DEF Holds
<1>4. \A q \in Requests \ {r} : ~Holds(q, req[r].client)
  BY <1>2, <1>3 DEF IInv, LockOK
<1>5. Idle \in Request
  BY DEF Idle, At, Request, Sites
<1> QED
  BY <1>1, <1>2, <1>3, <1>4, <1>5

LEMMA CommitLocationStep ==
  ASSUME IInv, NEW r \in Requests, req[r].pc = "written", CommitLocation(r),
         req' = [req EXCEPT ![r] = Idle]
  PROVE  IInv'
<1> DEFINE c == req[r].client
           s == req[r].arg
<1>1. /\ c \in Clients /\ IsMade(c) /\ RequestOK(req[r]) /\ req[r] \in Request
      /\ Holds(r, c) /\ Fits(r)
      /\ \A q \in Requests \ {r} : ~Holds(q, c)
      /\ req' \in [Requests -> Request]
      /\ req'[r] = Idle /\ \A q \in Requests : q # r => req'[q] = req[q]
  BY CommitFacts
<1>2. /\ client \in [Clients -> [plan : Plans \cup {"unmade"}, site : Sites, born : Sites]]
      /\ active \in [Clients -> SUBSET Stores]
      /\ account \in [Clients -> [Rows -> Accounts]]
  BY DEF IInv, TypeOK
<1>3. /\ req[r].op \in {"assign", "activate"} /\ s \in Sites
      /\ req[r].op = "activate" => s \in Stores
  BY <1>1 DEF CommitLocation, RequestOK, Asked, Sites
<1>4. /\ client' \in [Clients -> [plan : Plans \cup {"unmade"}, site : Sites, born : Sites]]
      /\ \A d \in Clients : client'[d].plan = client[d].plan /\ client'[d].born = client[d].born
      /\ \A d \in Clients : d # c \/ req[r].op = "activate" => client'[d].site = client[d].site
      /\ req[r].op = "assign" => client'[c].site = s
  BY <1>1, <1>2, <1>3 DEF CommitLocation
<1>5. /\ active' \in [Clients -> SUBSET Stores]
      /\ \A d \in Clients : d # c => active'[d] = active[d]
      /\ active'[c] = (active[c] \ {Replaced(r)}) \cup ({s} \ {NoStore})
      /\ account' = account
  BY <1>1, <1>2, <1>3 DEF CommitLocation, Sites
<1>6. TypeOK'
  BY <1>1, <1>2, <1>4, <1>5 DEF TypeOK
<1>7. \A d \in Clients : IsMade(d)' <=> IsMade(d)
  BY <1>4 DEF IsMade
<1>8. RequestsOK'
  <2> SUFFICES ASSUME NEW q \in Requests PROVE RequestOK(req[q])'
    BY DEF RequestsOK
  <2>1. CASE q = r
    BY <2>1, <1>1 DEF RequestOK, Asked, Idle, At
  <2>2. CASE q # r
    <3>1. RequestOK(req[q]) /\ req'[q] = req[q]
      BY <2>2, <1>1 DEF IInv, RequestsOK
    <3> QED
      BY <3>1, <1>4, <1>7 DEF RequestOK, Asked
  <2> QED
    BY <2>1, <2>2
<1>9. LockOK'
  <2>1. \A q \in Requests, d \in Clients : Holds(q, d)' => q # r /\ d # c /\ Holds(q, d)
    BY <1>1 DEF Holds, Idle, At
  <2>2. \A d \in Clients : d # c => client'[d].site = client[d].site
    BY <1>4
  <2> QED
    BY <2>1, <2>2, <1>1, <1>4 DEF IInv, LockOK
<1>10. UnmadeOK'
  <2>1. \A d \in Clients : ~IsMade(d) => d # c
    BY <1>1
  <2> QED
    BY <2>1, <1>4, <1>5, <1>7 DEF IInv, UnmadeOK
<1>11. FitsOK'
  <2> SUFFICES ASSUME NEW q \in Requests, req'[q].pc = "written" PROVE Fits(q)'
    BY DEF FitsOK, Fits
  <2>1. q # r /\ req'[q] = req[q] /\ req[q].client # c /\ req[q].client \in Clients
    <3>1. q # r
      BY <1>1 DEF Idle, At
    <3> QED
      BY <3>1, <1>1 DEF Holds, IInv, RequestsOK, RequestOK, Asked
  <2>2. Fits(q)
    BY DEF IInv, FitsOK
  <2> QED
    BY <2>1, <2>2, <1>4, <1>5 DEF Fits, LocationFits, DowngradeFits, ActiveRows,
                              IsActive, Replaced
<1>12. SitesOK'
  <2> SUFFICES ASSUME NEW t \in Stores, NEW q \in Requests, Links(q, t)'
               PROVE  /\ LinkedTo(t)' \subseteq {req'[q].client}
                      /\ \A p \in Requests : Links(p, t)' => p = q
    BY DEF SitesOK
  <2>1. q # r /\ req'[q] = req[q] /\ Links(q, t)
    BY <1>1 DEF Links, Idle, At
  <2>2. \A p \in Requests : Links(p, t)' => Links(p, t)
    BY <1>1 DEF Links, Idle, At
  <2>3. ~Links(r, t) /\ LinkedTo(t) \subseteq {req[q].client}
    BY <2>1 DEF IInv, SitesOK
  <2>4. LinkedTo(t)' \subseteq LinkedTo(t)
    BY <2>3, <1>3, <1>4 DEF LinkedTo, Links
  <2> QED
    BY <2>1, <2>2, <2>3, <2>4 DEF IInv, SitesOK
<1>13. LimitsHold'
  <2> SUFFICES ASSUME NEW d \in Clients, client[d].plan = "scholarship"
               PROVE  \A u, t \in active'[d] : u = t
    BY <1>4, <1>5 DEF LimitsHold, IInv
  <2>1. \A u, t \in active[d] : u = t
    BY DEF IInv, LimitsHold
  <2>2. CASE d = c /\ s # NoStore
    BY <2>2, <1>1, <1>3, <1>5 DEF Fits, LocationFits
  <2>3. CASE d # c \/ s = NoStore
    BY <2>1, <2>3, <1>5
  <2> QED
    BY <2>2, <2>3
<1>14. OneClientPerSite'
  <2> SUFFICES ASSUME NEW t \in Stores, NEW d \in LinkedTo(t)', NEW e \in LinkedTo(t)'
               PROVE  d = e
    BY DEF OneClientPerSite
  <2>1. CASE req[r].op = "assign" /\ t = s
    <3>1. LinkedTo(t) \subseteq {c}
      BY <2>1 DEF IInv, SitesOK, Links
    <3> QED
      BY <3>1, <1>4 DEF LinkedTo
  <2>2. CASE ~(req[r].op = "assign" /\ t = s)
    <3>1. LinkedTo(t)' \subseteq LinkedTo(t)
      BY <2>2, <1>3, <1>4 DEF LinkedTo
    <3> QED
      BY <3>1 DEF IInv, OneClientPerSite
  <2> QED
    BY <2>1, <2>2
<1>15. LinkedIsActive'
  <2> SUFFICES ASSUME NEW d \in Clients
               PROVE  client'[d].site \in active'[d] \cup {NoStore, client'[d].born}
    BY DEF LinkedIsActive
  <2>1. client[d].site \in active[d] \cup {NoStore, client[d].born}
    BY DEF IInv, LinkedIsActive
  <2>2. CASE d # c
    BY <2>1, <2>2, <1>4, <1>5
  <2>3. CASE d = c /\ req[r].op = "assign"
    BY <2>3, <1>4, <1>5
  <2>4. CASE d = c /\ req[r].op = "activate"
    <3>1. Replaced(r) = NoStore
      BY <2>4 DEF Replaced
    <3> QED
      BY <2>1, <2>4, <3>1, <1>1, <1>4, <1>5
  <2> QED
    BY <2>2, <2>3, <2>4, <1>3
<1> QED
  BY <1>6, <1>8, <1>9, <1>10, <1>11, <1>12, <1>13, <1>14, <1>15 DEF IInv

\* What is turned off leaves no link to it, as the site was read under the lock.
LEMMA CommitOffStep ==
  ASSUME IInv, NEW r \in Requests, req[r].pc = "written", CommitOff(r),
         req' = [req EXCEPT ![r] = Idle]
  PROVE  IInv'
<1> DEFINE c == req[r].client
           s == req[r].arg
<1>1. /\ c \in Clients /\ IsMade(c) /\ RequestOK(req[r]) /\ req[r] \in Request
      /\ Holds(r, c) /\ Fits(r)
      /\ \A q \in Requests \ {r} : ~Holds(q, c)
      /\ req' \in [Requests -> Request]
      /\ req'[r] = Idle /\ \A q \in Requests : q # r => req'[q] = req[q]
  BY CommitFacts
<1>2. req[r].site = client[c].site
  BY <1>1 DEF IInv, LockOK
<1>3. /\ client' \in [Clients -> [plan : Plans \cup {"unmade"}, site : Sites, born : Sites]]
      /\ \A d \in Clients : client'[d].plan = client[d].plan /\ client'[d].born = client[d].born
      /\ \A d \in Clients : d # c => client'[d].site = client[d].site
      /\ client'[c].site = IF client[c].site = s THEN NoStore ELSE client[c].site
  BY <1>1, <1>2 DEF CommitOff, IInv, TypeOK, Sites
<1>4. /\ active' \in [Clients -> SUBSET Stores]
      /\ \A d \in Clients : d # c => active'[d] = active[d]
      /\ active'[c] = active[c] \ {s}
      /\ account' = account
  BY <1>1 DEF CommitOff, IInv, TypeOK
<1>5. TypeOK'
  BY <1>1, <1>3, <1>4 DEF IInv, TypeOK
<1>6. \A d \in Clients : IsMade(d)' <=> IsMade(d)
  BY <1>3 DEF IsMade
<1>7. RequestsOK'
  <2> SUFFICES ASSUME NEW q \in Requests PROVE RequestOK(req[q])'
    BY DEF RequestsOK
  <2>1. CASE q = r
    BY <2>1, <1>1 DEF RequestOK, Asked, Idle, At
  <2>2. CASE q # r
    <3>1. RequestOK(req[q]) /\ req'[q] = req[q]
      BY <2>2, <1>1 DEF IInv, RequestsOK
    <3> QED
      BY <3>1, <1>6 DEF RequestOK, Asked
  <2> QED
    BY <2>1, <2>2
<1>8. LockOK'
  <2>1. \A q \in Requests, d \in Clients : Holds(q, d)' => q # r /\ d # c /\ Holds(q, d)
    BY <1>1 DEF Holds, Idle, At
  <2> QED
    BY <2>1, <1>1, <1>3 DEF IInv, LockOK
<1>9. UnmadeOK'
  <2>1. \A d \in Clients : ~IsMade(d) => d # c
    BY <1>1
  <2> QED
    BY <2>1, <1>3, <1>4, <1>6 DEF IInv, UnmadeOK
<1>10. FitsOK'
  <2> SUFFICES ASSUME NEW q \in Requests, req'[q].pc = "written" PROVE Fits(q)'
    BY DEF FitsOK, Fits
  <2>1. q # r /\ req'[q] = req[q] /\ req[q].client # c /\ req[q].client \in Clients
    <3>1. q # r
      BY <1>1 DEF Idle, At
    <3> QED
      BY <3>1, <1>1 DEF Holds, IInv, RequestsOK, RequestOK, Asked
  <2>2. Fits(q)
    BY DEF IInv, FitsOK
  <2> QED
    BY <2>1, <2>2, <1>3, <1>4 DEF Fits, LocationFits, DowngradeFits, ActiveRows,
                              IsActive, Replaced
<1>11. \A t \in Stores : LinkedTo(t)' \subseteq LinkedTo(t)
  BY <1>3, TenantAssumption DEF LinkedTo
<1>12. SitesOK'
  <2>1. \A q \in Requests, t \in Stores :
          Links(q, t)' => q # r /\ req'[q] = req[q] /\ Links(q, t)
    BY <1>1 DEF Links, Idle, At
  <2> QED
    BY <2>1, <1>11 DEF IInv, SitesOK
<1>13. OneClientPerSite'
  BY <1>11 DEF IInv, OneClientPerSite
<1>14. LimitsHold'
  <2>1. \A d \in Clients : active'[d] \subseteq active[d]
    BY <1>4
  <2> QED
    BY <2>1, <1>3, <1>4 DEF IInv, LimitsHold
<1>15. LinkedIsActive'
  BY <1>3, <1>4 DEF IInv, LinkedIsActive
<1> QED
  BY <1>5, <1>7, <1>8, <1>9, <1>10, <1>12, <1>13, <1>14, <1>15 DEF IInv

LEMMA CommitPlanStep ==
  ASSUME IInv, NEW r \in Requests, req[r].pc = "written", CommitPlan(r),
         req' = [req EXCEPT ![r] = Idle]
  PROVE  IInv'
<1> DEFINE c == req[r].client
           p == req[r].arg
<1>1. /\ c \in Clients /\ IsMade(c) /\ RequestOK(req[r]) /\ req[r] \in Request
      /\ Holds(r, c) /\ Fits(r)
      /\ \A q \in Requests \ {r} : ~Holds(q, c)
      /\ req' \in [Requests -> Request]
      /\ req'[r] = Idle /\ \A q \in Requests : q # r => req'[q] = req[q]
  BY CommitFacts
<1>2. req[r].op = "plan" /\ p \in Plans
  BY <1>1 DEF CommitPlan, RequestOK, Asked
<1>3. /\ client' \in [Clients -> [plan : Plans \cup {"unmade"}, site : Sites, born : Sites]]
      /\ \A d \in Clients : /\ client'[d].site = client[d].site
                            /\ client'[d].born = client[d].born
                            /\ d # c => client'[d].plan = client[d].plan
      /\ client'[c].plan = p
  BY <1>1, <1>2 DEF CommitPlan, IInv, TypeOK
<1>4. active' = active /\ account' = account
  BY DEF CommitPlan
<1>5. TypeOK'
  BY <1>1, <1>3, <1>4 DEF IInv, TypeOK
<1>6. \A d \in Clients : IsMade(d)' <=> IsMade(d)
  BY <1>1, <1>2, <1>3 DEF IsMade, Plans
<1>7. RequestsOK'
  <2> SUFFICES ASSUME NEW q \in Requests PROVE RequestOK(req[q])'
    BY DEF RequestsOK
  <2>1. CASE q = r
    BY <2>1, <1>1 DEF RequestOK, Asked, Idle, At
  <2>2. CASE q # r
    <3>1. RequestOK(req[q]) /\ req'[q] = req[q]
      BY <2>2, <1>1 DEF IInv, RequestsOK
    <3> QED
      BY <3>1, <1>3, <1>6 DEF RequestOK, Asked
  <2> QED
    BY <2>1, <2>2
<1>8. LockOK'
  <2>1. \A q \in Requests, d \in Clients : Holds(q, d)' => q # r /\ d # c /\ Holds(q, d)
    BY <1>1 DEF Holds, Idle, At
  <2> QED
    BY <2>1, <1>1, <1>3 DEF IInv, LockOK
<1>9. UnmadeOK' /\ OneClientPerSite' /\ LinkedIsActive'
  BY <1>3, <1>4, <1>6 DEF IInv, UnmadeOK, OneClientPerSite, LinkedTo, LinkedIsActive
<1>10. FitsOK'
  <2> SUFFICES ASSUME NEW q \in Requests, req'[q].pc = "written" PROVE Fits(q)'
    BY DEF FitsOK, Fits
  <2>1. q # r /\ req'[q] = req[q] /\ req[q].client # c /\ req[q].client \in Clients
    <3>1. q # r
      BY <1>1 DEF Idle, At
    <3> QED
      BY <3>1, <1>1 DEF Holds, IInv, RequestsOK, RequestOK, Asked
  <2>2. Fits(q)
    BY DEF IInv, FitsOK
  <2> QED
    BY <2>1, <2>2, <1>3, <1>4 DEF Fits, LocationFits, DowngradeFits, ActiveRows,
                              IsActive, Replaced
<1>11. SitesOK'
  <2>1. \A q \in Requests, s \in Stores : Links(q, s)' => q # r /\ Links(q, s)
    BY <1>1 DEF Links, Idle, At
  <2>2. \A s \in Stores : LinkedTo(s)' = LinkedTo(s)
    BY <1>3 DEF LinkedTo
  <2> QED
    BY <2>1, <2>2, <1>1 DEF IInv, SitesOK
<1>12. LimitsHold'
  <2> SUFFICES ASSUME NEW d \in Clients, client'[d].plan = "scholarship"
               PROVE  /\ \A s, t \in active[d] : s = t
                      /\ \A a, b \in Rows :
                           {account[d][a].status, account[d][b].status}
                             \cap {"absent", "disconnected"} = {} => a = b
    BY <1>4 DEF LimitsHold
  <2>1. CASE d = c
    <3>1. DowngradeFits(c)
      BY <2>1, <1>1, <1>2, <1>3 DEF Fits
    <3> QED
      BY <2>1, <3>1 DEF DowngradeFits, ActiveRows, IsActive
  <2>2. CASE d # c
    BY <2>2, <1>3 DEF IInv, LimitsHold
  <2> QED
    BY <2>1, <2>2
<1> QED
  BY <1>5, <1>7, <1>8, <1>9, <1>10, <1>11, <1>12 DEF IInv

\* Steps that change the accounts of one client and at most end requests.
LEMMA AccountsOnly ==
  ASSUME IInv, NEW c \in Clients, UNCHANGED <<client, active>>,
         account' \in [Clients -> [Rows -> Accounts]],
         \A d \in Clients : d # c => account'[d] = account[d],
         \A q \in Requests : req'[q] \in {req[q], Idle},
         req' \in [Requests -> Request],
         \A q \in Requests : req'[q].pc = "written" /\ req'[q].client = c =>
                             ActiveRows(c)' \subseteq ActiveRows(c),
         client[c].plan = "scholarship" => \A a, b \in ActiveRows(c)' : a = b
  PROVE  IInv'
<1>1. TypeOK'
  BY DEF IInv, TypeOK
<1>2. RequestsOK'
  <2> SUFFICES ASSUME NEW q \in Requests PROVE RequestOK(req[q])'
    BY DEF RequestsOK
  <2>1. CASE req'[q] = Idle
    BY <2>1 DEF RequestOK, Asked, Idle, At
  <2>2. CASE req'[q] = req[q]
    BY <2>2 DEF IInv, RequestsOK, RequestOK, Asked, IsMade
  <2> QED
    BY <2>1, <2>2
<1>3. \A q \in Requests : req'[q].pc # "idle" => req'[q] = req[q]
  BY DEF Idle, At
<1>4. LockOK'
  <2>1. \A q \in Requests, d \in Clients : Holds(q, d)' => req'[q] = req[q] /\ Holds(q, d)
    BY <1>3 DEF Holds
  <2> QED
    BY <2>1 DEF IInv, LockOK
<1>5. UnmadeOK' /\ OneClientPerSite' /\ LinkedIsActive'
  BY DEF IInv, UnmadeOK, IsMade, OneClientPerSite, LinkedTo, LinkedIsActive
<1>6. FitsOK'
  <2> SUFFICES ASSUME NEW q \in Requests, req'[q].pc = "written" PROVE Fits(q)'
    BY DEF FitsOK, Fits
  <2>1. req'[q] = req[q] /\ Fits(q) /\ req[q].client \in Clients
    BY <1>3 DEF IInv, FitsOK, RequestsOK, RequestOK, Asked
  <2>2. ActiveRows(req[q].client)' \subseteq ActiveRows(req[q].client)
    <3>1. CASE req[q].client = c
      BY <2>1, <3>1
    <3>2. CASE req[q].client # c
      BY <2>1, <3>2 DEF ActiveRows, IsActive
    <3> QED
      BY <3>1, <3>2
  <2> QED
    BY <2>1, <2>2 DEF Fits, LocationFits, DowngradeFits, Replaced
<1>7. SitesOK'
  <2>1. \A q \in Requests, s \in Stores : Links(q, s)' => req'[q] = req[q] /\ Links(q, s)
    BY <1>3 DEF Links
  <2> QED
    BY <2>1 DEF IInv, SitesOK, LinkedTo
<1>8. LimitsHold'
  <2> SUFFICES ASSUME NEW d \in Clients, client[d].plan = "scholarship",
                      NEW a \in Rows, NEW b \in Rows,
                      {account'[d][a].status, account'[d][b].status}
                        \cap {"absent", "disconnected"} = {}
               PROVE  a = b
    BY DEF IInv, LimitsHold
  <2>1. CASE d = c
    BY <2>1 DEF ActiveRows, IsActive
  <2>2. CASE d # c
    BY <2>2 DEF IInv, LimitsHold
  <2> QED
    BY <2>1, <2>2
<1> QED
  BY <1>1, <1>2, <1>4, <1>5, <1>6, <1>7, <1>8 DEF IInv

LEMMA CommitAccountStep ==
  ASSUME IInv, NEW r \in Requests, req[r].pc = "written", CommitAccount(r),
         req' = [req EXCEPT ![r] = Idle]
  PROVE  IInv'
<1>0. PICK c \in Clients, a \in Rows : c = req[r].client /\ a = req[r].row
  BY CommitFacts DEF CommitAccount, RequestOK, Asked
<1>1. /\ RequestOK(req[r]) /\ Fits(r)
      /\ \A q \in Requests \ {r} : ~Holds(q, c)
      /\ req' \in [Requests -> Request]
      /\ req'[r] = Idle /\ \A q \in Requests : q # r => req'[q] = req[q]
  BY <1>0, CommitFacts
<1>2. req[r].op = "connect" /\ req[r].arg \in Exts
  BY <1>1 DEF CommitAccount, RequestOK, Asked
<1>3. /\ account' \in [Clients -> [Rows -> Accounts]]
      /\ \A d \in Clients : d # c => account'[d] = account[d]
      /\ \A b \in Rows : b # a => account'[c][b] = account[c][b]
  BY <1>0, <1>2 DEF CommitAccount, IInv, TypeOK, Accounts
<1>4. \A q \in Requests : req'[q] \in {req[q], Idle}
  BY <1>1
<1>5. \A q \in Requests : ~(req'[q].pc = "written" /\ req'[q].client = c)
  BY <1>1 DEF Holds, Idle, At
<1>6. client[c].plan = "scholarship" => \A b, d \in ActiveRows(c)' : b = d
  <2>1. ASSUME client[c].plan = "scholarship", NEW b \in ActiveRows(c)' PROVE b = a
    <3>1. \A d \in ActiveRows(c) : d = a
      BY <2>1, <1>0, <1>1, <1>2 DEF Fits
    <3>2. CASE b # a
      <4>1. b \in Rows /\ account'[c][b] = account[c][b] /\ IsActive(account'[c][b])
        BY <3>2, <1>3 DEF ActiveRows, IsActive
      <4>2. b \in ActiveRows(c)
        BY <4>1 DEF ActiveRows
      <4> QED
        BY <3>1, <4>2
    <3> QED
      BY <3>2
  <2> QED
    BY <2>1
<1>7. UNCHANGED <<client, active>>
  BY DEF CommitAccount
<1> QED
  BY <1>1, <1>3, <1>4, <1>5, <1>6, <1>7, AccountsOnly

-----------------------------------------------------------------------------
(* A new client, and the writes that take no lock.                         *)

LEMMA CreateStep ==
  ASSUME IInv, NEW r \in Requests, NEW c \in Clients, Create(r, c) PROVE IInv'
<1>1. PICK s \in Stores : s = req[r].arg /\ s # NoStore
  BY TenantAssumption DEF Create, IInv, RequestsOK, RequestOK
<1> DEFINE x == At("asked", "activate", c, s)
<1>2. /\ ~IsMade(c) /\ client[c].plan = "unmade"
      /\ active[c] = {} /\ client[c].site = NoStore /\ client[c].born = NoStore
  BY DEF Create, IInv, UnmadeOK, IsMade
<1>3. x \in Request /\ x.pc = "asked" /\ x.op = "activate" /\ x.client = c /\ x.arg = s
  BY <1>1 DEF At, Request, Sites, Plans
<1>4. req' = [req EXCEPT ![r] = x]
  BY <1>1 DEF Create, Asks
<1> HIDE DEF x
<1>5. /\ req' \in [Requests -> Request]
      /\ req'[r] = x /\ \A q \in Requests : q # r => req'[q] = req[q]
  BY <1>3, <1>4 DEF IInv, TypeOK
<1>6. /\ client' \in [Clients -> [plan : Plans \cup {"unmade"}, site : Sites, born : Sites]]
      /\ \A d \in Clients : d # c => client'[d] = client[d]
      /\ client'[c].plan = "paid" /\ client'[c].site = s /\ client'[c].born = s
      /\ active' = active /\ account' = account
  BY <1>1 DEF Create, IInv, TypeOK, Plans, Sites
<1>7. TypeOK'
  BY <1>5, <1>6 DEF IInv, TypeOK
<1>8. \A q \in Requests : Asked(req[q]) => req[q].client # c
  BY <1>2 DEF IInv, RequestsOK, RequestOK
<1>9. RequestsOK'
  <2> SUFFICES ASSUME NEW q \in Requests PROVE RequestOK(req[q])'
    BY DEF RequestsOK
  <2>1. CASE q = r
    BY <2>1, <1>1, <1>3, <1>5, <1>6 DEF RequestOK, Asked, IsMade
  <2>2. CASE q # r
    <3>1. RequestOK(req[q]) /\ req'[q] = req[q]
      BY <2>2, <1>5 DEF IInv, RequestsOK
    <3> QED
      BY <3>1, <1>6, <1>8 DEF RequestOK, Asked, IsMade
  <2> QED
    BY <2>1, <2>2
<1>10. LockOK'
  <2>1. \A q \in Requests, d \in Clients : Holds(q, d)' => q # r /\ d # c /\ Holds(q, d)
    BY <1>3, <1>5, <1>8 DEF Holds, Asked
  <2> QED
    BY <2>1, <1>5, <1>6 DEF IInv, LockOK
<1>11. UnmadeOK'
  BY <1>6 DEF IInv, UnmadeOK, IsMade
<1>12. FitsOK'
  <2> SUFFICES ASSUME NEW q \in Requests, req'[q].pc = "written" PROVE Fits(q)'
    BY DEF FitsOK, Fits
  <2>1. q # r /\ req'[q] = req[q] /\ req[q].client # c /\ req[q].client \in Clients
    <3>1. q # r
      BY <1>3, <1>5
    <3> QED
      BY <3>1, <1>5, <1>8 DEF IInv, RequestsOK, RequestOK, Asked
  <2>2. Fits(q)
    BY DEF IInv, FitsOK
  <2> QED
    BY <2>1, <2>2, <1>6 DEF Fits, LocationFits, DowngradeFits, ActiveRows, IsActive, Replaced
<1>13. \A q \in Requests, t \in Stores : Links(q, t)' => q # r /\ t # s /\ Links(q, t)
  <2>1. SiteIsQuiet(r, s)
    BY <1>1 DEF Create
  <2> QED
    BY <2>1, <1>1, <1>3, <1>5 DEF Links, SiteIsQuiet, Touches
<1>14. LinkedTo(s)' = {c} /\ \A t \in Stores : t # s => LinkedTo(t)' = LinkedTo(t)
  <2>1. LinkedTo(s) \subseteq {c}
    BY <1>1 DEF Create, SiteFree
  <2>2. LinkedTo(s)' = {c}
    BY <2>1, <1>6 DEF LinkedTo
  <2>3. ASSUME NEW t \in Stores, t # s PROVE LinkedTo(t)' = LinkedTo(t)
    <3>1. \A d \in Clients : client'[d].site = t <=> client[d].site = t
      BY <2>3, <1>2, <1>6, TenantAssumption
    <3> QED
      BY <3>1 DEF LinkedTo
  <2> QED
    BY <2>2, <2>3
<1>15. SitesOK'
  BY <1>5, <1>13, <1>14 DEF IInv, SitesOK
<1>16. OneClientPerSite'
  <2> SUFFICES ASSUME NEW t \in Stores PROVE (\A d, e \in LinkedTo(t) : d = e)'
    BY DEF OneClientPerSite
  <2>1. CASE t = s
    BY <2>1, <1>14
  <2>2. CASE t # s
    BY <2>2, <1>14 DEF IInv, OneClientPerSite
  <2> QED
    BY <2>1, <2>2
<1>17. LinkedIsActive'
  <2>1. \A d \in Clients : d # c => client'[d] = client[d] /\ active'[d] = active[d]
    BY <1>6
  <2>2. active'[c] = {} /\ client'[c].site = client'[c].born
    BY <1>2, <1>6
  <2> QED
    BY <2>1, <2>2 DEF IInv, LinkedIsActive
<1>18. LimitsHold'
  BY <1>6 DEF IInv, LimitsHold
<1> QED
  BY <1>7, <1>9, <1>10, <1>11, <1>12, <1>15, <1>16, <1>17, <1>18 DEF IInv

LEMMA UnlockedStep ==
  ASSUME IInv, NEW c \in Clients, NEW a \in Rows,
         \/ Disconnect(c, a)
         \/ \E status \in {"connected", "error"} : SyncStatus(c, a, status)
         \/ \E ext \in Exts : SyncNames(c, a, ext)
  PROVE  IInv'
<1>1. PICK x \in Accounts :
        /\ account' = [account EXCEPT ![c][a] = x]
        /\ IsActive(x) => IsActive(account[c][a])
  <2>1. account[c][a] \in Accounts
    BY DEF IInv, TypeOK
  <2>2. CASE Disconnect(c, a)
    BY <2>1, <2>2 DEF Disconnect, Accounts, IsActive
  <2>3. CASE \E status \in {"connected", "error"} : SyncStatus(c, a, status)
    BY <2>1, <2>3 DEF SyncStatus, Accounts, IsActive
  <2>4. CASE \E ext \in Exts : SyncNames(c, a, ext)
    BY <2>1, <2>4 DEF SyncNames, Accounts, IsActive
  <2> QED
    BY <2>2, <2>3, <2>4
<1>2. UNCHANGED <<client, active, req>>
  BY DEF Disconnect, SyncStatus, SyncNames
<1>3. /\ account' \in [Clients -> [Rows -> Accounts]]
      /\ \A d \in Clients : d # c => account'[d] = account[d]
      /\ ActiveRows(c)' \subseteq ActiveRows(c)
  <2>1. /\ account' \in [Clients -> [Rows -> Accounts]]
        /\ \A d \in Clients : d # c => account'[d] = account[d]
        /\ \A b \in Rows : b # a => account'[c][b] = account[c][b]
        /\ account'[c][a] = x
    BY <1>1 DEF IInv, TypeOK
  <2> QED
    BY <2>1, <1>1 DEF ActiveRows, IsActive
<1>4. client[c].plan = "scholarship" => \A b, d \in ActiveRows(c)' : b = d
  BY <1>3 DEF IInv, LimitsHold, ActiveRows, IsActive
<1>5. req' \in [Requests -> Request] /\ \A q \in Requests : req'[q] \in {req[q], Idle}
  BY <1>2 DEF IInv, TypeOK
<1> QED
  BY <1>2, <1>3, <1>4, <1>5, AccountsOnly

-----------------------------------------------------------------------------
(* What was decided under the lock is so until the commit.                 *)

Judged(r) ==
  LET c == req[r].client IN
  /\ req[r].pc \in {"decided", "written"} /\ req[r].op = "deactivate" =>
       req[r].arg \in active[c]
  /\ req[r].pc \in {"decided", "written"} /\ req[r].op = "plan" =>
       req[r].arg # req[r].plan
  /\ req[r].pc = "written" /\ req[r].op = "connect" =>
       HasExt(c, req[r].arg) \subseteq {req[r].row}

JudgedOK == \A r \in Requests : Judged(r)

LEMMA InitiallyJudged == Init => JudgedOK
  BY DEF Init, JudgedOK, Judged, Idle, At

\* A request that does not move keeps what it found, if its client's rows do.
LEMMA JudgedKept ==
  ASSUME NEW q \in Requests, Judged(q), req'[q] = req[q],
         req[q].pc \in {"decided", "written"} => active'[req[q].client] = active[req[q].client],
         req[q].pc = "written" /\ req[q].op = "connect" =>
           HasExt(req[q].client, req[q].arg)' \subseteq HasExt(req[q].client, req[q].arg)
  PROVE  Judged(q)'
  BY DEF Judged

\* Steps of one request that leave the rows alone, but for a new client.
LEMMA JudgedMove ==
  ASSUME IInv, JudgedOK, NEW r \in Requests, NEW x, req' = [req EXCEPT ![r] = x],
         Judged(r)', UNCHANGED <<active, account>>
  PROVE  JudgedOK'
<1> SUFFICES ASSUME NEW q \in Requests, q # r PROVE Judged(q)'
  BY DEF JudgedOK
<1>1. Judged(q) /\ req'[q] = req[q]
  BY DEF JudgedOK, IInv, TypeOK
<1>2. HasExt(req[q].client, req[q].arg)' = HasExt(req[q].client, req[q].arg)
  BY <1>1 DEF HasExt
<1> QED
  BY <1>1, <1>2, JudgedKept

LEMMA JudgedAsk ==
  ASSUME IInv, JudgedOK, NEW r \in Requests, Ask(r) \/ GiveUp(r) \/ LockTenant(r)
  PROVE  JudgedOK'
<1>1. PICK x : /\ req' = [req EXCEPT ![r] = x]
               /\ x.pc \notin {"decided", "written"}
  <2>1. CASE Ask(r)
    <3>1. \E pc, op, c, arg : /\ pc \in {"ensuring", "asked"}
                              /\ req' = [req EXCEPT ![r] = At(pc, op, c, arg)]
      BY <2>1 DEF Ask, EnsureSite, Adopt, Create, AskSite, AskLocation, AskPlan, AskConnect, Asks
    <3>2. PICK pc, op, c, arg : /\ pc \in {"ensuring", "asked"}
                                /\ req' = [req EXCEPT ![r] = At(pc, op, c, arg)]
      BY <3>1
    <3> DEFINE x == At(pc, op, c, arg)
    <3>3. x.pc \in {"ensuring", "asked"}
      BY <3>2 DEF At
    <3> HIDE DEF x
    <3>4. req' = [req EXCEPT ![r] = x]
      BY <3>2 DEF x
    <3> QED
      BY <3>3, <3>4
  <2>2. CASE GiveUp(r)
    <3>1. req' = [req EXCEPT ![r] = Idle]
      BY <2>2 DEF GiveUp
    <3>2. Idle.pc = "idle"
      BY DEF Idle, At
    <3> QED
      BY <3>1, <3>2
  <2>3. CASE LockTenant(r)
    <3> DEFINE c == req[r].client
               x == Going(r, "locked", client[c].plan, client[c].site, req[r].row)
    <3>1. req \in [Requests -> Request] /\ req[r] \in Request
      BY DEF IInv, TypeOK
    <3>2. [req[r] EXCEPT !.pc = "locked", !.plan = client[c].plan, !.site = client[c].site] = x
      BY <3>1, Changed
    <3>3. req' = [req EXCEPT ![r] = x]
      BY <2>3, <3>1, <3>2 DEF LockTenant
    <3>4. x.pc = "locked"
      BY DEF Going
    <3> QED
      BY <3>3, <3>4
  <2> QED
    BY <2>1, <2>2, <2>3
<1>2. UNCHANGED <<active, account>>
  BY DEF Ask, EnsureSite, Adopt, Create, AskSite, AskLocation, AskPlan, AskConnect, GiveUp,
         LockTenant
<1>3. req'[r] = x
  BY <1>1 DEF IInv, TypeOK
<1>4. Judged(r)'
  BY <1>1, <1>3 DEF Judged
<1> QED
  BY <1>1, <1>2, <1>4, JudgedMove

LEMMA JudgedDecide ==
  ASSUME IInv, JudgedOK, NEW r \in Requests, Decide(r) PROVE JudgedOK'
<1>1. req \in [Requests -> Request] /\ req[r] \in Request
  BY DEF IInv, TypeOK
<1>2. PICK x : /\ req' = [req EXCEPT ![r] = x]
               /\ x.pc = "decided" /\ x.op = req[r].op /\ x.client = req[r].client
               /\ x.arg = req[r].arg /\ x.plan = req[r].plan
  <2>1. CASE DecideLocation(r) \/ DecideOff(r) \/ DecidePlan(r)
    <3> DEFINE x == Going(r, "decided", req[r].plan, req[r].site, req[r].row)
    <3>1. req' = [req EXCEPT ![r] = x]
      BY <2>1, <1>1 DEF DecideLocation, DecideOff, DecidePlan, Going, Request
    <3>2. /\ x.pc = "decided" /\ x.op = req[r].op /\ x.client = req[r].client
          /\ x.arg = req[r].arg /\ x.plan = req[r].plan
      BY DEF Going
    <3> HIDE DEF x
    <3> QED
      BY <3>1, <3>2
  <2>2. CASE DecideConnect(r)
    <3>1. PICK a \in Matches(req[r].client, req[r].arg) \cup {NoRow} :
            req' = [req EXCEPT ![r] = [@ EXCEPT !.pc = "decided", !.row = a]]
      BY <2>2 DEF DecideConnect
    <3> DEFINE x == Going(r, "decided", req[r].plan, req[r].site, a)
    <3>2. [req[r] EXCEPT !.pc = "decided", !.row = a] = x
      <4>1. req[r] \in Request
        BY <1>1
      <4> QED
        BY <4>1, Changed
    <3>3. req' = [req EXCEPT ![r] = x]
      BY <1>1, <3>1, <3>2
    <3>4. /\ x.pc = "decided" /\ x.op = req[r].op /\ x.client = req[r].client
          /\ x.arg = req[r].arg /\ x.plan = req[r].plan /\ x.row = a
      BY DEF Going
    <3> HIDE DEF x
    <3> QED
      BY <3>3, <3>4
  <2> QED
    BY <2>1, <2>2 DEF Decide
<1>3. req'[r] = x
  BY <1>1, <1>2
<1>4. UNCHANGED <<active, account>>
  BY DEF Decide
<1>5. req[r].op = "deactivate" => req[r].arg \in active[req[r].client]
  BY DEF Decide, DecideLocation, DecideOff, DecidePlan, DecideConnect
<1>6. req[r].op = "plan" => req[r].arg # req[r].plan
  BY DEF Decide, DecideLocation, DecideOff, DecidePlan, DecideConnect
<1>7. Judged(r)'
  BY <1>2, <1>3, <1>4, <1>5, <1>6 DEF Judged
<1> QED
  BY <1>2, <1>4, <1>7, JudgedMove

LEMMA JudgedWrite ==
  ASSUME IInv, JudgedOK, NEW r \in Requests, Write(r) PROVE JudgedOK'
<1>1. req \in [Requests -> Request] /\ req[r] \in Request /\ req[r].pc = "decided" /\ Judged(r)
  BY DEF IInv, TypeOK, JudgedOK, Write
<1>2. PICK x : /\ req' = [req EXCEPT ![r] = x]
               /\ x.pc = "written" /\ x.op = req[r].op /\ x.client = req[r].client
               /\ x.arg = req[r].arg /\ x.plan = req[r].plan
               /\ req[r].op = "connect" => HasExt(req[r].client, req[r].arg) \subseteq {x.row}
  <2>1. CASE WriteLocation(r) \/ WriteOff(r) \/ WritePlan(r)
    <3> DEFINE x == Going(r, "written", req[r].plan, req[r].site, req[r].row)
    <3>1. req' = [req EXCEPT ![r] = x]
      BY <2>1, <1>1 DEF WriteLocation, WriteOff, WritePlan, Going, Request
    <3>2. req[r].op # "connect"
      BY <2>1 DEF WriteLocation, WriteOff, WritePlan
    <3>3. /\ x.pc = "written" /\ x.op = req[r].op /\ x.client = req[r].client
          /\ x.arg = req[r].arg /\ x.plan = req[r].plan
      BY DEF Going
    <3> HIDE DEF x
    <3> QED
      BY <3>1, <3>2, <3>3
  <2>2. CASE WriteAccount(r)
    <3>1. PICK a \in IF req[r].row = NoRow THEN Fresh(req[r].client) ELSE {req[r].row} :
            /\ req' = [req EXCEPT ![r] = [@ EXCEPT !.pc = "written", !.row = a]]
            /\ HasExt(req[r].client, req[r].arg) \subseteq {a}
      BY <2>2 DEF WriteAccount
    <3> DEFINE x == Going(r, "written", req[r].plan, req[r].site, a)
    <3>2. [req[r] EXCEPT !.pc = "written", !.row = a] = x
      <4>1. req[r] \in Request
        BY <1>1
      <4> QED
        BY <4>1, Changed
    <3>3. req' = [req EXCEPT ![r] = x]
      BY <1>1, <3>1, <3>2
    <3>4. /\ x.pc = "written" /\ x.op = req[r].op /\ x.client = req[r].client
          /\ x.arg = req[r].arg /\ x.plan = req[r].plan /\ x.row = a
      BY DEF Going
    <3> HIDE DEF x
    <3> QED
      BY <3>1, <3>3, <3>4
  <2> QED
    BY <2>1, <2>2 DEF Write
<1>3. req'[r] = x
  BY <1>1, <1>2
<1>4. UNCHANGED <<active, account>>
  BY DEF Write
<1>5. Judged(r)'
  BY <1>1, <1>2, <1>3, <1>4 DEF Judged, HasExt
<1> QED
  BY <1>2, <1>4, <1>5, JudgedMove

\* Nobody else has decided anything for the client whose lock is held.
LEMMA JudgedCommit ==
  ASSUME IInv, JudgedOK, NEW r \in Requests, Commit(r) PROVE JudgedOK'
<1>1. req[r].pc = "written" /\ req' = [req EXCEPT ![r] = Idle]
  BY DEF Commit
<1>2. /\ req[r].client \in Clients
      /\ \A q \in Requests \ {r} : ~Holds(q, req[r].client)
      /\ req'[r] = Idle /\ \A q \in Requests : q # r => req'[q] = req[q]
  BY <1>1, CommitFacts
<1>3. \A d \in Clients : d # req[r].client => active'[d] = active[d] /\ account'[d] = account[d]
  BY DEF Commit, CommitLocation, CommitOff, CommitPlan, CommitAccount, IInv, TypeOK
<1> SUFFICES ASSUME NEW q \in Requests PROVE Judged(q)'
  BY DEF JudgedOK
<1>4. CASE q = r \/ req[q].pc \notin {"decided", "written"}
  BY <1>2, <1>4 DEF Judged, Idle, At
<1>5. CASE q # r /\ req[q].pc \in {"decided", "written"}
  <2>1. req[q].client # req[r].client /\ req[q].client \in Clients
    BY <1>2, <1>5 DEF Holds, IInv, RequestsOK, RequestOK, Asked
  <2>2. Judged(q) /\ req'[q] = req[q] /\ active'[req[q].client] = active[req[q].client]
    BY <1>2, <1>3, <1>5, <2>1 DEF JudgedOK
  <2>3. HasExt(req[q].client, req[q].arg)' = HasExt(req[q].client, req[q].arg)
    BY <1>3, <2>1, <2>2 DEF HasExt
  <2> QED
    BY <2>2, <2>3, JudgedKept
<1> QED
  BY <1>4, <1>5

\* A sync gives an account an id only if nobody has written it.
LEMMA JudgedPlatform ==
  ASSUME IInv, JudgedOK, NEW c \in Clients, NEW a \in Rows,
         \/ Disconnect(c, a)
         \/ \E status \in {"connected", "error"} : SyncStatus(c, a, status)
         \/ \E ext \in Exts : SyncNames(c, a, ext)
  PROVE  JudgedOK'
<1>1. UNCHANGED <<active, req>>
  BY DEF Disconnect, SyncStatus, SyncNames
<1>2. account \in [Clients -> [Rows -> Accounts]]
  BY DEF IInv, TypeOK
<1> SUFFICES ASSUME NEW q \in Requests PROVE Judged(q)'
  BY DEF JudgedOK
<1>3. ASSUME req[q].pc = "written"
      PROVE  HasExt(req[q].client, req[q].arg)' \subseteq HasExt(req[q].client, req[q].arg)
  <2>1. req[q].client \in Clients
    BY <1>3 DEF IInv, RequestsOK, RequestOK, Asked
  <2> SUFFICES ASSUME NEW b \in Rows, account'[req[q].client][b].status # "absent",
                      account'[req[q].client][b].ext = req[q].arg
               PROVE  /\ account[req[q].client][b].status # "absent"
                      /\ account[req[q].client][b].ext = req[q].arg
    BY <1>1 DEF HasExt
  <2>2. CASE ~(req[q].client = c /\ b = a)
    BY <1>2, <2>1, <2>2 DEF Disconnect, SyncStatus, SyncNames
  <2>3. CASE req[q].client = c /\ b = a
    <3>1. account[c][a] \in Accounts
      BY <1>2
    <3>2. CASE Disconnect(c, a)
      BY <1>2, <2>3, <3>1, <3>2 DEF Disconnect, Accounts
    <3>3. CASE \E status \in {"connected", "error"} : SyncStatus(c, a, status)
      BY <1>2, <2>3, <3>1, <3>3 DEF SyncStatus, Accounts, IsActive
    <3>4. CASE \E ext \in Exts : SyncNames(c, a, ext)
      <4>1. PICK ext \in Exts : SyncNames(c, a, ext)
        BY <3>4
      <4>2. account'[c][a].ext = ext
        BY <1>2, <3>1, <4>1 DEF SyncNames, Accounts
      <4> QED
        BY <1>3, <2>3, <4>1, <4>2 DEF SyncNames
    <3> QED
      BY <3>2, <3>3, <3>4
  <2> QED
    BY <2>2, <2>3
<1> QED
  BY <1>1, <1>3, JudgedKept DEF JudgedOK

LEMMA JudgedInductive == IInv /\ JudgedOK /\ [Next]_vars => JudgedOK'
<1> SUFFICES ASSUME IInv, JudgedOK, [Next]_vars PROVE JudgedOK'
  OBVIOUS
<1>1. CASE Platform
  BY <1>1, JudgedPlatform, TenantAssumption DEF Platform
<1>2. ASSUME NEW r \in Requests, Ask(r) \/ Transaction(r) PROVE JudgedOK'
  BY <1>2, JudgedAsk, JudgedDecide, JudgedWrite, JudgedCommit DEF Transaction
<1>3. CASE UNCHANGED vars
  BY <1>3 DEF vars, JudgedOK, Judged, HasExt
<1> QED
  BY <1>1, <1>2, <1>3 DEF Next

-----------------------------------------------------------------------------
(* A commit is one change of TenantRows; other steps are none of its.      *)

LEMMA WithinAfter ==
  ASSUME LimitsHold', NEW c \in Clients PROVE AtOnce!WithinPlan(c)'
  BY DEF LimitsHold, AtOnce!WithinPlan, AtOnce!AtMostOne, AtOnce!Counted

LEMMA LocationAtOnce ==
  ASSUME IInv, IInv', NEW r \in Requests, Commit(r), CommitLocation(r)
  PROVE  AtOnce!TenantNext
<1>a. PICK c \in Clients : c = req[r].client
  BY CommitFacts DEF Commit
<1>b. PICK s : s = req[r].arg
  OBVIOUS
<1>0. c = req[r].client /\ s = req[r].arg
  BY <1>a, <1>b
<1>1. IsMade(c) /\ RequestOK(req[r]) /\ Holds(r, c) /\ req[r].pc = "written"
  BY <1>0, CommitFacts DEF Commit
<1>2. req[r].site = client[c].site
  BY <1>1 DEF IInv, LockOK
<1>3. active' = [active EXCEPT ![c] = (@ \ {Replaced(r)}) \cup ({s} \ {NoStore})]
  BY <1>0 DEF CommitLocation
<1>4. account' = account
  BY DEF CommitLocation
<1>5. AtOnce!WithinPlan(c)' /\ AtOnce!IsThere(c)
  BY <1>1, WithinAfter DEF IInv, AtOnce!IsThere, IsMade
<1>6. CASE req[r].op = "assign" /\ s \in Stores
  <2>1. AtOnce!NobodyElses(c, s)
    BY <1>0, <1>1, <1>6 DEF IInv, SitesOK, Links, LinkedTo, AtOnce!NobodyElses
  <2>2. s # NoStore /\ Replaced(r) = client[c].site
    BY <1>2, <1>6, TenantAssumption DEF Replaced
  <2>3. active' = [active EXCEPT ![c] = (@ \ {client[c].site}) \cup {s}]
    <3>1. {s} \ {NoStore} = {s}
      BY <2>2
    <3> QED
      BY <1>3, <2>2, <3>1
  <2>4. client' = [client EXCEPT ![c].site = s]
    BY <1>0, <1>6 DEF CommitLocation
  <2>5. AtOnce!Link(c, s)
    BY <1>4, <2>1, <2>3, <2>4 DEF AtOnce!Link
  <2> QED
    BY <1>1, <1>5, <1>6, <2>5 DEF AtOnce!TenantNext, AtOnce!Change
<1>7. CASE req[r].op = "assign" /\ s = NoStore
  <2>1. active' = [active EXCEPT ![c] = @ \ {client[c].site}]
    <3>1. (active[c] \ {Replaced(r)}) \cup ({s} \ {NoStore}) = active[c] \ {client[c].site}
      BY <1>2, <1>7 DEF Replaced
    <3> QED
      BY <1>3, <3>1
  <2>2. client' = [client EXCEPT ![c].site = NoStore]
    BY <1>0, <1>7 DEF CommitLocation
  <2>3. AtOnce!Unlink(c)
    BY <1>4, <2>1, <2>2 DEF AtOnce!Unlink
  <2> QED
    BY <1>1, <1>5, <2>3 DEF AtOnce!TenantNext, AtOnce!Change
<1>8. CASE req[r].op = "activate" /\ s \in Stores
  <2>1. active[c] \subseteq Stores
    BY <1>1 DEF IInv, TypeOK
  <2>2. active' = [active EXCEPT ![c] = @ \cup {s}]
    <3>1. (active[c] \ {Replaced(r)}) \cup ({s} \ {NoStore}) = active[c] \cup {s}
      BY <1>8, <2>1, TenantAssumption DEF Replaced
    <3> QED
      BY <1>3, <3>1
  <2>3. client' = client
    BY <1>8 DEF CommitLocation
  <2>4. AtOnce!TurnOn(c, s)
    BY <1>4, <2>2, <2>3 DEF AtOnce!TurnOn
  <2> QED
    BY <1>1, <1>5, <1>8, <2>4 DEF AtOnce!TenantNext, AtOnce!Change
<1> QED
  BY <1>0, <1>1, <1>6, <1>7, <1>8 DEF CommitLocation, RequestOK, Asked, Sites

LEMMA OtherCommitsAtOnce ==
  ASSUME IInv, IInv', JudgedOK, NEW r \in Requests, Commit(r),
         CommitOff(r) \/ CommitPlan(r) \/ CommitAccount(r)
  PROVE  AtOnce!TenantNext
<1>a. PICK c \in Clients : c = req[r].client
  BY CommitFacts DEF Commit
<1>b. PICK arg : arg = req[r].arg
  OBVIOUS
<1>0. c = req[r].client /\ arg = req[r].arg
  BY <1>a, <1>b
<1>1. /\ IsMade(c) /\ RequestOK(req[r]) /\ Holds(r, c)
      /\ req[r].pc = "written" /\ Judged(r)
  BY <1>0, CommitFacts DEF Commit, JudgedOK
<1>2. req[r].site = client[c].site /\ req[r].plan = client[c].plan
  BY <1>1 DEF IInv, LockOK
<1>3. AtOnce!WithinPlan(c)' /\ AtOnce!IsThere(c)
  BY <1>1, WithinAfter DEF IInv, AtOnce!IsThere, IsMade
<1>4. CASE CommitOff(r)
  <2>1. arg \in Stores /\ arg \in active[c]
    BY <1>0, <1>1, <1>4 DEF CommitOff, RequestOK, Asked, Judged
  <2>2. AtOnce!TurnOff(c, arg)
    <3>1. client' = [client EXCEPT ![c].site = IF @ = arg THEN NoStore ELSE @]
      BY <1>0, <1>2, <1>4 DEF CommitOff
    <3> QED
      BY <1>0, <1>4, <2>1, <3>1 DEF CommitOff, AtOnce!TurnOff
  <2> QED
    BY <1>1, <1>3, <2>1, <2>2 DEF AtOnce!TenantNext, AtOnce!Change
<1>5. CASE CommitPlan(r)
  <2>1. arg \in {"paid", "scholarship"} /\ arg # client[c].plan
    BY <1>0, <1>1, <1>2, <1>5 DEF CommitPlan, RequestOK, Asked, Plans, Judged
  <2>2. AtOnce!ChangePlan(c, arg)
    BY <1>0, <1>5, <2>1 DEF CommitPlan, AtOnce!ChangePlan
  <2> QED
    BY <1>1, <1>3, <2>1, <2>2 DEF AtOnce!TenantNext, AtOnce!Change
<1>6. CASE CommitAccount(r)
  <2>1. req[r].op = "connect" /\ arg \in Exts /\ req[r].row \in Rows
    BY <1>0, <1>1, <1>6 DEF CommitAccount, RequestOK, Asked
  <2>2. \A b \in Rows \ {req[r].row} :
          account[c][b].status # "absent" => account[c][b].ext # arg
    BY <1>0, <1>1, <2>1 DEF Judged, HasExt
  <2>3. AtOnce!Connect(c, req[r].row, arg)
    BY <1>0, <1>6, <2>2 DEF CommitAccount, AtOnce!Connect
  <2> QED
    BY <1>1, <1>3, <2>1, <2>3 DEF AtOnce!TenantNext, AtOnce!Change
<1> QED
  BY <1>4, <1>5, <1>6

LEMMA CreateAtOnce ==
  ASSUME IInv, NEW r \in Requests, NEW c \in Clients, Create(r, c)
  PROVE  AtOnce!TenantNext
<1>1. PICK s \in Stores : s = req[r].arg
  BY DEF Create, IInv, RequestsOK, RequestOK
<1>2. s # NoStore
  BY TenantAssumption
<1>3. AtOnce!Make(c, s)
  BY <1>1, <1>2 DEF Create, IsMade, SiteFree, LinkedTo, AtOnce!Make, AtOnce!IsThere, AtOnce!NobodyElses
<1> QED
  BY <1>3 DEF AtOnce!TenantNext

LEMMA PlatformAtOnce ==
  ASSUME NEW c \in Clients, NEW a \in Rows,
         \/ Disconnect(c, a)
         \/ \E status \in {"connected", "error"} : SyncStatus(c, a, status)
         \/ \E ext \in Exts : SyncNames(c, a, ext)
  PROVE  AtOnce!TenantNext
<1>1. AtOnce!Report(c, a)
  <2>1. CASE Disconnect(c, a)
    BY <2>1 DEF Disconnect, AtOnce!Report
  <2>2. CASE \E status \in {"connected", "error"} : SyncStatus(c, a, status)
    BY <2>2 DEF SyncStatus, IsActive, AtOnce!Report, AtOnce!Counted
  <2>3. CASE \E ext \in Exts : SyncNames(c, a, ext)
    BY <2>3 DEF SyncNames, IsActive, HasExt, AtOnce!Report, AtOnce!Counted
  <2> QED
    BY <2>1, <2>2, <2>3
<1> QED
  BY <1>1 DEF AtOnce!TenantNext

LEMMA StepsAtOnce ==
  IInv /\ IInv' /\ JudgedOK /\ [Next]_vars => [AtOnce!TenantNext]_AtOnce!tenantVars
<1> SUFFICES ASSUME IInv, IInv', JudgedOK, [Next]_vars
             PROVE  AtOnce!TenantNext \/ UNCHANGED <<client, active, account>>
  BY DEF AtOnce!tenantVars
<1>1. CASE Platform
  BY <1>1, PlatformAtOnce, TenantAssumption DEF Platform
<1>2. ASSUME NEW r \in Requests, Ask(r)
      PROVE  AtOnce!TenantNext \/ UNCHANGED <<client, active, account>>
  BY <1>2, CreateAtOnce DEF Ask, EnsureSite, Adopt, AskSite, AskLocation, AskPlan, AskConnect
<1>3. ASSUME NEW r \in Requests, Transaction(r)
      PROVE  AtOnce!TenantNext \/ UNCHANGED <<client, active, account>>
  <2>1. CASE Commit(r)
    BY <2>1, LocationAtOnce, OtherCommitsAtOnce DEF Commit
  <2> QED
    BY <1>3, <2>1 DEF Transaction, LockTenant, Decide, Write, GiveUp
<1>4. CASE UNCHANGED vars
  BY <1>4 DEF vars
<1> QED
  BY <1>1, <1>2, <1>3, <1>4 DEF Next

LEMMA StartsAtOnce == Init => AtOnce!TenantInit
<1> SUFFICES ASSUME Init PROVE AtOnce!TenantInit
  OBVIOUS
<1>1. client \in [Clients -> [plan : {"paid", "unmade"}, site : {NoStore}, born : {NoStore}]]
  BY DEF Init
<1>2. active = [c \in Clients |-> {}]
  BY DEF Init
<1>3. PICK legacy \in SUBSET (Connecting \X Rows) :
        /\ \A p, q \in legacy : p[1] = q[1] => p = q
        /\ account = [c \in Clients |-> [a \in Rows |->
             IF <<c, a>> \in legacy THEN [ext |-> Pending, status |-> "connected"] ELSE Absent]]
  BY DEF Init
<1>4. account \in [Clients -> [Rows -> {AtOnce!Absent, [ext |-> Pending, status |-> "connected"]}]]
  BY <1>3 DEF Absent, AtOnce!Absent
<1>5. \A c \in Clients : AtOnce!AtMostOne(AtOnce!Counted(c))
  <2> SUFFICES ASSUME NEW c \in Clients, NEW a \in AtOnce!Counted(c), NEW b \in AtOnce!Counted(c)
               PROVE  a = b
    BY DEF AtOnce!AtMostOne
  <2>1. <<c, a>> \in legacy /\ <<c, b>> \in legacy
    BY <1>3 DEF AtOnce!Counted, Absent
  <2>2. <<c, a>> = <<c, b>>
    BY <2>1, <1>3
  <2> QED
    BY <2>2
<1> QED
  BY <1>1, <1>2, <1>4, <1>5 DEF AtOnce!TenantInit

-----------------------------------------------------------------------------
(* The theorems.                                                           *)

LEMMA Stutter == ASSUME IInv, UNCHANGED vars PROVE IInv'
<1>1. UNCHANGED <<client, active, account, req>>
  BY DEF vars
<1>2. TypeOK' /\ LockOK' /\ UnmadeOK' /\ SitesOK'
  BY <1>1 DEF IInv, TypeOK, LockOK, Holds, UnmadeOK, IsMade, SitesOK, Links, LinkedTo
<1>3. RequestsOK' /\ FitsOK'
  BY <1>1 DEF IInv, RequestsOK, RequestOK, Asked, IsMade, FitsOK, Fits, LocationFits,
              DowngradeFits, ActiveRows, IsActive, Replaced
<1>4. LimitsHold' /\ OneClientPerSite' /\ LinkedIsActive'
  BY <1>1 DEF IInv, LimitsHold, OneClientPerSite, LinkedTo, LinkedIsActive
<1> QED
  BY <1>2, <1>3, <1>4 DEF IInv

LEMMA Inductive == IInv /\ [Next]_vars => IInv'
<1> SUFFICES ASSUME IInv, Next PROVE IInv'
  BY Stutter
<1>1. CASE Platform
  BY <1>1, UnlockedStep, TenantAssumption DEF Platform
<1>2. ASSUME NEW r \in Requests, Ask(r) PROVE IInv'
  <2>1. ASSUME NEW c \in Clients, Create(r, c) PROVE IInv'
    BY <2>1, CreateStep
  <2> QED
    BY <1>2, <2>1, AskStep, TenantAssumption DEF Ask
<1>3. ASSUME NEW r \in Requests, Transaction(r) PROVE IInv'
  <2>1. CASE LockTenant(r)
    BY <2>1, LockStep
  <2>2. CASE Decide(r)
    BY <2>2, DecideStep
  <2>3. CASE Write(r)
    BY <2>3, WriteStep
  <2>4. CASE Commit(r)
    BY <2>4, CommitLocationStep, CommitOffStep, CommitPlanStep, CommitAccountStep DEF Commit
  <2>5. CASE GiveUp(r)
    BY <2>5, AskStep
  <2> QED
    BY <1>3, <2>1, <2>2, <2>3, <2>4, <2>5 DEF Transaction
<1> QED
  BY <1>1, <1>2, <1>3 DEF Next

LEMMA Invariance == Spec => []IInv
<1> QED
  BY Initially, Inductive, PTL DEF Spec

\* The rows and requests keep their shapes.
THEOREM TypeCorrect == Spec => []TypeOK
<1>1. IInv => TypeOK
  BY DEF IInv
<1> QED
  BY <1>1, Invariance, PTL

\* A Scholarship is never over its one location and its one account, because a
\* write counts again under the lock what its decision counted (activateStoreLocked
\* and the triggers), whatever the number of requests.
THEOREM LimitsCorrect == Spec => []LimitsHold
<1>1. IInv => LimitsHold
  BY DEF IInv
<1> QED
  BY <1>1, Invariance, PTL

\* A site has one client, by the unique index of 0004_site_clients.sql, although
\* both callers look before they lock.
THEOREM OneClientPerSiteCorrect == Spec => []OneClientPerSite
<1>1. IInv => OneClientPerSite
  BY DEF IInv
<1> QED
  BY <1>1, Invariance, PTL

\* The linked site's location is on, as whoever turns it off (deactivateStoreLocked)
\* compares it with the site it read under the lock.
THEOREM LinkedIsActiveCorrect == Spec => []LinkedIsActive
<1>1. IInv => LinkedIsActive
  BY DEF IInv
<1> QED
  BY <1>1, Invariance, PTL

\* What is judged under the client's lock is still true at the commit, so that the
\* requests together are no more than a row of changes made one at a time
\* (withTenantWriteLock, lockTenant and the triggers); a sync, which takes no lock,
\* spoils nothing as it waits for what is written.
THEOREM AtOnceCorrect == Spec => ActsAtOnce
<1>1. Init => AtOnce!TenantInit
  BY StartsAtOnce
<1>2. Spec => []JudgedOK
  BY Invariance, InitiallyJudged, JudgedInductive, PTL DEF Spec
<1> QED
  BY <1>1, <1>2, StepsAtOnce, Invariance, PTL DEF Spec, ActsAtOnce, AtOnce!TenantSpec
=============================================================================
