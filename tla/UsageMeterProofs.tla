-------------------------- MODULE UsageMeterProofs --------------------------
(* Proofs about UsageMeter: counters agree with events, a gated create     *)
(* keeps its room, and no circle of waiting transactions.                  *)
EXTENDS UsageMeter, FiniteSetTheorems, TLAPS

\* The locks a transaction has tell how far it has come.
Behind(x, l) ==
  /\ l.mode \in {"only", "share", "row", "key"}
  /\ l.kind = "store" => x.pc \notin {"idle", "store"}
  /\ l.kind = "month" => x.pc \in {"insert", "check", "load", "write", "reference", "commit"}
  /\ l.kind \in {"event", "counter"} => x.pc \in {"reference", "commit"}
  /\ l.kind = "site" => x.pc = "commit"
  /\ l.kind = "client" =>
       \/ l.mode = "share" /\ x.pc \in {"load", "write", "reference", "commit"}
       \/ l.mode = "row" /\ x.pc \in {"link", "commit"}
       \/ l.mode = "key" /\ x.pc = "commit"

\* A transaction, and the locks it has at each statement.
Writes(x) == x.op \in {"save", "count", "gate"} /\ x.item \in Items

Fine(x, h) ==
  /\ x.pc \in {"store", "bySite", "byLocation"} => Writes(x) /\ x.op = "count"
  /\ x.pc \in {"month", "load", "write", "reference"} => Writes(x) /\ x.client \in Clients
  /\ x.pc = "insert" => Writes(x) /\ x.op = "save" /\ x.client \in Clients
  /\ x.pc = "check" => Writes(x) /\ x.op = "gate" /\ x.client \in Clients
  /\ x.pc \in {"tenant", "link"} => x.op = "assign" /\ x.client \in Clients
  /\ x.pc = "commit" => (Writes(x) \/ x.op = "assign") /\ x.client \in Clients
  /\ x.pc = "idle" => h = {}
  /\ \A l \in h : Behind(x, l)
  /\ x.pc \in {"insert", "check", "load", "write", "reference", "commit"} /\ x.op # "assign" =>
       Lock("month", <<x.client, x.month>>, "only") \in h
  /\ x.pc = "link" => Lock("client", x.client, "row") \in h
  /\ x.pc \in {"reference", "commit"} /\ x.fresh =>
       Lock("event", <<x.client, x.item>>, "only") \in h
  /\ x.pc \notin {"reference", "commit"} => ~x.fresh

TxOK == \A t \in Txs : Fine(tx[t], held[t])

\* Locks of two transactions go together.
NoClash == \A t, u \in Txs : t # u => \A a \in held[t], b \in held[u] : ~Clash(a, b)

\* An event that is to be inserted is not there yet.
FreshOK == \A t \in Txs : tx[t].fresh => ~Recorded(tx[t].client, tx[t].item)

IInv ==
  /\ TypeOK /\ TxOK /\ NoClash /\ FreshOK /\ IsFiniteSet(events)
  /\ RoomIsKept /\ CountersAgree

-----------------------------------------------------------------------------
(* Beginnings and ends.                                                    *)

LEMMA ClashCases ==
  ASSUME NEW a, NEW b, Clash(a, b)
  PROVE  /\ a.kind = b.kind /\ a.of = b.of
         /\ ~(a.mode = "share" /\ b.mode = "share")
         /\ ~(a.mode = "share" /\ b.mode = "row")
         /\ ~(a.mode = "row" /\ b.mode = "share")
         /\ Clash(b, a)
<1>1. {a.mode, b.mode} = {b.mode, a.mode}
  OBVIOUS
<1> QED
  BY <1>1 DEF Clash

LEMMA Initially == Init => IInv
<1> SUFFICES ASSUME Init PROVE IInv
  OBVIOUS
<1> USE MeterAssumption
<1>1. NoTx \in Transaction
  BY DEF NoTx, Transaction, Pcs
<1>2. TypeOK
  BY <1>1 DEF Init, TypeOK, Kinds
<1>3. TxOK
  BY DEF Init, TxOK, Fine, NoTx
<1>4. NoClash /\ FreshOK
  BY DEF Init, NoClash, FreshOK, NoTx
<1>5. IsFiniteSet(events)
  BY FS_EmptySet DEF Init
<1>6. RoomIsKept
  BY DEF Init, RoomIsKept, NoTx
<1>7. CountersAgree
  <2> SUFFICES ASSUME NEW c \in Clients, NEW k \in Kinds, NEW m \in 1 .. LastMonth
               PROVE  used[c][k][m] = Cardinality(CountedIn(c, k, m))
    BY DEF CountersAgree
  <2>1. CountedIn(c, k, m) = {}
    BY DEF Init, CountedIn
  <2>2. used[c][k][m] = 0
    BY DEF Init
  <2> QED
    BY <2>1, <2>2, FS_EmptySet
<1> QED
  BY <1>2, <1>3, <1>4, <1>5, <1>6, <1>7 DEF IInv

\* A transaction begins, goes on or ends, and nothing is counted.
LEMMA GoesOn ==
  ASSUME IInv, NEW t \in Txs, NEW x \in Transaction, NEW h,
         UNCHANGED <<events, used, month>>,
         site' \in Clients \cup {NoClient}, on' \subseteq Clients,
         tx' = [tx EXCEPT ![t] = x], held' = [held EXCEPT ![t] = h],
         Fine(x, h),
         \A u \in Txs \ {t} : \A a \in h, b \in held[u] : ~Clash(a, b),
         x.fresh => ~Recorded(x.client, x.item),
         x.op = "gate" /\ x.pc \in {"load", "write", "reference", "commit"}
           /\ x.client \in Capped => used[x.client][Kind(x.item)][x.month] < Cap
  PROVE  IInv'
<1>1. /\ tx'[t] = x /\ held'[t] = h
      /\ \A u \in Txs : u # t => tx'[u] = tx[u] /\ held'[u] = held[u]
  BY DEF IInv, TypeOK
<1>2. TypeOK'
  BY DEF IInv, TypeOK
<1>3. TxOK'
  <2> SUFFICES ASSUME NEW u \in Txs PROVE Fine(tx'[u], held'[u])
    BY DEF TxOK, Fine, Behind, Writes
  <2>1. CASE u = t
    BY <2>1, <1>1
  <2>2. CASE u # t
    BY <2>2, <1>1 DEF IInv, TxOK
  <2> QED
    BY <2>1, <2>2
<1>4. NoClash'
  <2> SUFFICES ASSUME NEW u \in Txs, NEW v \in Txs, u # v,
                      NEW a \in held'[u], NEW b \in held'[v]
               PROVE  ~Clash(a, b)
    BY DEF NoClash, Clash
  <2>1. CASE u = t
    BY <2>1, <1>1
  <2>2. CASE v = t
    <3>1. ~Clash(b, a)
      BY <2>2, <1>1
    <3> QED
      BY <3>1, ClashCases
  <2>3. CASE u # t /\ v # t
    BY <2>3, <1>1 DEF IInv, NoClash
  <2> QED
    BY <2>1, <2>2, <2>3
<1>5. FreshOK'
  BY <1>1 DEF IInv, FreshOK, Recorded
<1>6. IsFiniteSet(events)'
  BY DEF IInv
<1>7. RoomIsKept'
  BY <1>1 DEF IInv, RoomIsKept, UsedBy, Kind
<1>8. CountersAgree'
  BY DEF IInv, CountersAgree, CountedIn, Kind
<1> QED
  BY <1>2, <1>3, <1>4, <1>5, <1>6, <1>7, <1>8 DEF IInv

LEMMA Begins ==
  ASSUME IInv, NEW t \in Txs, NEW op, NEW pc, NEW c \in Clients \cup {NoClient},
         NEW item \in Items \cup {Store},
         \/ op \in {"save", "gate"} /\ pc = "month" /\ c \in Clients /\ item \in Items
         \/ op = "count" /\ pc = "store" /\ item \in Items
         \/ op = "assign" /\ pc = "tenant" /\ c \in Clients,
         Begin(t, pc, op, c, item)
  PROVE  IInv'
<1> DEFINE x == [pc |-> pc, op |-> op, client |-> c, item |-> item,
                 month |-> month, counted |-> FALSE, fresh |-> FALSE]
<1>1. x \in Transaction
  BY DEF Transaction, Pcs, IInv, TypeOK
<1>2. held[t] = {} /\ held' = [held EXCEPT ![t] = {}]
  BY DEF Begin, IInv, TxOK, Fine, TypeOK
<1>3. Fine(x, {})
  BY DEF Fine, Writes
<1>4. /\ tx' = [tx EXCEPT ![t] = x] /\ UNCHANGED <<events, used, month>>
      /\ site' \in Clients \cup {NoClient} /\ on' \subseteq Clients
  BY DEF Begin, IInv, TypeOK
<1>5. ~x.fresh /\ x.pc \notin {"load", "write", "reference", "commit"}
  OBVIOUS
<1> HIDE DEF x
<1> QED
  BY <1>1, <1>2, <1>3, <1>4, <1>5, GoesOn

LEMMA StartsStep == ASSUME IInv, NEW t \in Txs, Starts(t) PROVE IInv'
<1>1. CASE \E c \in Clients, idea \in Ideas : BeginSave(t, c, idea)
  BY <1>1, Begins DEF BeginSave, Items
<1>2. CASE \E job \in Jobs : BeginCount(t, job)
  BY <1>2, Begins DEF BeginCount, Items
<1>3. CASE \E c \in Clients, job \in Jobs : BeginGate(t, c, job)
  BY <1>3, Begins DEF BeginGate, Items
<1>4. CASE \E c \in Clients : BeginAssign(t, c)
  BY <1>4, Begins DEF BeginAssign, Items
<1> QED
  BY <1>1, <1>2, <1>3, <1>4 DEF Starts

-----------------------------------------------------------------------------
(* Statements.                                                             *)

LEMMA RunsOn ==
  ASSUME IInv, NEW t \in Txs, NEW from, NEW x \in Transaction, Runs(t, from, x),
         Fine(x, held[t] \cup Wanted(t)),
         x.fresh => ~Recorded(x.client, x.item),
         x.op = "gate" /\ x.pc \in {"load", "write", "reference", "commit"}
           /\ x.client \in Capped => used[x.client][Kind(x.item)][x.month] < Cap
  PROVE  IInv'
<1> DEFINE h == held[t] \cup Wanted(t)
<1>1. \A u \in Txs \ {t} : \A a \in h, b \in held[u] : ~Clash(a, b)
  BY DEF Runs, WaitsFor, IInv, NoClash
<1>2. /\ UNCHANGED <<events, used, month>>
      /\ site' \in Clients \cup {NoClient} /\ on' \subseteq Clients
      /\ tx' = [tx EXCEPT ![t] = x] /\ held' = [held EXCEPT ![t] = h]
  BY DEF Runs, IInv, TypeOK
<1> HIDE DEF h
<1>3. Fine(x, h)
  BY DEF h
<1> QED
  BY <1>1, <1>2, <1>3, GoesOn

\* What a statement makes of its transaction.
Moved(x, pc, c) ==
  [pc |-> pc, op |-> x.op, client |-> c, item |-> x.item,
   month |-> x.month, counted |-> x.counted, fresh |-> x.fresh]

LEMMA ChangedPc ==
  ASSUME NEW x \in Transaction, NEW pc
  PROVE  [x EXCEPT !.pc = pc] = Moved(x, pc, x.client)
BY DEF Transaction, Moved

LEMMA ChangedClient ==
  ASSUME NEW x \in Transaction, NEW pc, NEW c
  PROVE  [x EXCEPT !.pc = pc, !.client = c] = Moved(x, pc, c)
<1> DEFINE y == [x EXCEPT !.pc = pc]
<1>1. y = Moved(x, pc, x.client)
  BY ChangedPc
<1> HIDE DEF y
<1>2. [y EXCEPT !.client = c] = Moved(x, pc, c)
  BY <1>1 DEF Moved
<1> QED
  BY <1>2 DEF y

LEMMA ChangedEvent ==
  ASSUME NEW x \in Transaction, NEW pc, NEW b, NEW f
  PROVE  [x EXCEPT !.pc = pc, !.counted = b, !.fresh = f] =
           [pc |-> pc, op |-> x.op, client |-> x.client, item |-> x.item,
            month |-> x.month, counted |-> b, fresh |-> f]
<1> DEFINE y == [x EXCEPT !.pc = pc]
           z == [y EXCEPT !.counted = b]
<1>1. y = Moved(x, pc, x.client)
  BY ChangedPc
<1> HIDE DEF y
<1>2. z = [pc |-> pc, op |-> x.op, client |-> x.client, item |-> x.item,
           month |-> x.month, counted |-> b, fresh |-> x.fresh]
  BY <1>1 DEF Moved
<1> HIDE DEF z
<1>3. [z EXCEPT !.fresh = f] =
        [pc |-> pc, op |-> x.op, client |-> x.client, item |-> x.item,
         month |-> x.month, counted |-> b, fresh |-> f]
  BY <1>2
<1> QED
  BY <1>3 DEF y, z

\* A statement that is not the insert of the event.
LEMMA MovesOn ==
  ASSUME IInv, NEW t \in Txs, NEW from, NEW pc,
         NEW c \in Clients \cup {NoClient}, Runs(t, from, Moved(tx[t], pc, c)),
         Fine(Moved(tx[t], pc, c), held[t] \cup Wanted(t)),
         \/ <<from, pc>> \in {<<"bySite", "byLocation">>, <<"byLocation", "month">>}
         \/ /\ c = tx[t].client
            /\ \/ <<from, pc>> \in {<<"store", "bySite">>, <<"month", "insert">>,
                                    <<"month", "check">>, <<"load", "write">>,
                                    <<"reference", "commit">>, <<"tenant", "link">>,
                                    <<"link", "commit">>}
               \/ /\ <<from, pc>> \in {<<"month", "load">>, <<"insert", "load">>,
                                       <<"check", "load">>}
                  /\ tx[t].op = "gate" /\ c \in Capped => UsedBy(t) < Cap
  PROVE  IInv'
<1> DEFINE x == Moved(tx[t], pc, c)
<1>1. tx[t] \in Transaction /\ tx[t].pc = from /\ Fine(tx[t], held[t])
  BY DEF IInv, TypeOK, TxOK, Runs
<1>2. x \in Transaction
  BY <1>1 DEF Moved, Transaction, Pcs
<1>3. /\ x.pc = pc /\ x.op = tx[t].op /\ x.client = c /\ x.item = tx[t].item
      /\ x.month = tx[t].month /\ x.fresh = tx[t].fresh
  BY DEF Moved
<1>4. x.fresh => ~Recorded(x.client, x.item)
  <2>1. from \in {"bySite", "byLocation"} => ~tx[t].fresh
    BY <1>1 DEF Fine
  <2> QED
    BY <1>3, <2>1 DEF IInv, FreshOK
<1>5. x.op = "gate" /\ x.pc \in {"load", "write", "reference", "commit"}
        /\ x.client \in Capped => used[x.client][Kind(x.item)][x.month] < Cap
  <2> SUFFICES ASSUME x.op = "gate", pc \in {"load", "write", "commit"}, c \in Capped
               PROVE  UsedBy(t) < Cap /\ c = tx[t].client
    BY <1>3 DEF UsedBy
  <2>1. c = tx[t].client
    BY <1>1, <1>3 DEF Fine
  <2>2. CASE pc = "load"
    BY <2>1, <2>2, <1>3
  <2>3. CASE pc \in {"write", "commit"}
    <3>1. from \in {"load", "reference", "link"}
      BY <2>3
    <3>2. from # "link"
      BY <1>1, <1>3 DEF Fine
    <3> QED
      BY <1>1, <1>3, <2>1, <3>1, <3>2 DEF IInv, RoomIsKept
  <2> QED
    BY <2>1, <2>2, <2>3
<1> HIDE DEF x
<1>6. Runs(t, from, x) /\ Fine(x, held[t] \cup Wanted(t))
  BY DEF x
<1> QED
  BY <1>2, <1>4, <1>5, <1>6, RunsOn

\* The locks of each statement.
LEMMA WantedBy ==
  ASSUME NEW t \in Txs
  PROVE  /\ tx[t].pc \in {"bySite", "byLocation", "check", "load"} => Wanted(t) = {}
         /\ tx[t].pc = "store" => Wanted(t) = {Lock("store", Store, "only")}
         /\ tx[t].pc = "month" =>
              Wanted(t) = {Lock("month", <<tx[t].client, tx[t].month>>, "only")}
         /\ tx[t].pc = "insert" => Wanted(t) = {Lock("client", tx[t].client, "share")}
         /\ tx[t].pc = "reference" =>
              Wanted(t) \subseteq {Lock("client", tx[t].client, "share")}
         /\ tx[t].pc = "write" =>
              Wanted(t) = WriteLocks(tx[t].client, tx[t].item, tx[t].month)
         /\ tx[t].pc = "tenant" => Wanted(t) = {Lock("client", tx[t].client, "row")}
         /\ tx[t].pc = "link" =>
              Wanted(t) = {Lock("client", tx[t].client, "key"), Lock("site", Store, "only")}
         /\ tx[t].pc \in {"idle", "commit"} => Wanted(t) = {}
<1>1. CASE tx[t].pc \in {"bySite", "byLocation", "check", "load", "idle", "commit"}
  BY <1>1 DEF Wanted, LoadLocks
<1>2. CASE tx[t].pc \in {"store", "month", "insert", "write", "tenant", "link"}
  BY <1>2 DEF Wanted, StoreLock, MonthLock
<1>3. CASE tx[t].pc = "reference"
  BY <1>3 DEF Wanted
<1> QED
  BY <1>1, <1>2, <1>3

LEMMA CountSteps ==
  ASSUME IInv, NEW t \in Txs, LockStore(t) \/ BySite(t) \/ ByLocation(t)
  PROVE  IInv'
<1>1. tx[t] \in Transaction /\ Fine(tx[t], held[t])
  BY DEF IInv, TypeOK, TxOK
<1>2. CASE LockStore(t)
  <2>1. tx[t].pc = "store" /\ Wanted(t) = {Lock("store", Store, "only")}
    BY <1>2, WantedBy DEF LockStore, Runs
  <2>2. Runs(t, "store", Moved(tx[t], "bySite", tx[t].client))
    BY <1>1, <1>2, ChangedPc DEF LockStore
  <2>3. Fine(Moved(tx[t], "bySite", tx[t].client), held[t] \cup Wanted(t))
    BY <1>1, <2>1 DEF Fine, Behind, Writes, Moved, Lock
  <2> QED
    BY <1>1, <2>2, <2>3, MovesOn DEF Pcs, Transaction
<1>3. CASE BySite(t)
  <2>1. tx[t].pc = "bySite" /\ Wanted(t) = {} /\ site \in Clients \cup {NoClient}
    BY <1>3, WantedBy DEF BySite, Runs, IInv, TypeOK
  <2>2. Runs(t, "bySite", Moved(tx[t], "byLocation", site))
    BY <1>1, <1>3, ChangedClient DEF BySite
  <2>3. Fine(Moved(tx[t], "byLocation", site), held[t] \cup Wanted(t))
    BY <1>1, <2>1 DEF Fine, Behind, Writes, Moved
  <2> QED
    BY <2>1, <2>2, <2>3, MovesOn DEF Pcs
<1>4. CASE ByLocation(t)
  <2>1. PICK c \in Clients : Runs(t, "byLocation", [tx[t] EXCEPT !.pc = "month", !.client = c])
    BY <1>4 DEF ByLocation
  <2>2. tx[t].pc = "byLocation" /\ Wanted(t) = {}
    BY <2>1, WantedBy DEF Runs
  <2>3. Runs(t, "byLocation", Moved(tx[t], "month", c))
    BY <1>1, <2>1, ChangedClient
  <2>4. Fine(Moved(tx[t], "month", c), held[t] \cup Wanted(t))
    BY <1>1, <2>2 DEF Fine, Behind, Writes, Moved
  <2> QED
    BY <2>3, <2>4, MovesOn DEF Pcs
<1> QED
  BY <1>2, <1>3, <1>4

LEMMA MonthStep == ASSUME IInv, NEW t \in Txs, LockMonth(t) PROVE IInv'
<1>1. tx[t] \in Transaction /\ Fine(tx[t], held[t]) /\ tx[t].pc = "month"
  BY DEF IInv, TypeOK, TxOK, LockMonth, Runs
<1>2. Wanted(t) = {Lock("month", <<tx[t].client, tx[t].month>>, "only")}
  BY <1>1, WantedBy
<1>3. PICK pc \in {"insert", "check", "load"} :
        /\ LockMonth(t) <=> Runs(t, "month", [tx[t] EXCEPT !.pc = pc])
        /\ pc = "insert" => tx[t].op = "save"
        /\ pc = "check" => tx[t].op = "gate"
        /\ pc = "load" => tx[t].op = "count"
  <2>1. tx[t].op \in {"save", "gate", "count"}
    BY <1>1 DEF Fine, Writes
  <2>2. CASE tx[t].op = "save"
    BY <2>2 DEF LockMonth
  <2>3. CASE tx[t].op = "gate"
    BY <2>3 DEF LockMonth
  <2>4. CASE tx[t].op = "count"
    BY <2>4 DEF LockMonth
  <2> QED
    BY <2>1, <2>2, <2>3, <2>4
<1>4. Runs(t, "month", Moved(tx[t], pc, tx[t].client))
  BY <1>1, <1>3, ChangedPc
<1>5. Fine(Moved(tx[t], pc, tx[t].client), held[t] \cup Wanted(t))
  BY <1>1, <1>2, <1>3 DEF Fine, Behind, Writes, Moved, Lock
<1> QED
  BY <1>1, <1>3, <1>4, <1>5, MovesOn DEF Pcs, Transaction

LEMMA WriterSteps ==
  ASSUME IInv, NEW t \in Txs,
         InsertIdea(t) \/ WithinCap(t) \/ LoadClient(t) \/ Reference(t)
  PROVE  IInv'
<1>1. tx[t] \in Transaction /\ Fine(tx[t], held[t]) /\ tx[t].client \in Clients \cup {NoClient}
  BY DEF IInv, TypeOK, TxOK, Transaction
<1>2. CASE InsertIdea(t)
  <2>1. tx[t].pc = "insert" /\ Wanted(t) = {Lock("client", tx[t].client, "share")}
    BY <1>2, WantedBy DEF InsertIdea, Runs
  <2>2. Runs(t, "insert", Moved(tx[t], "load", tx[t].client))
    BY <1>1, <1>2, ChangedPc DEF InsertIdea
  <2>3. Fine(Moved(tx[t], "load", tx[t].client), held[t] \cup Wanted(t))
    BY <1>1, <2>1 DEF Fine, Behind, Writes, Moved, Lock
  <2>4. tx[t].op # "gate"
    BY <1>1, <2>1 DEF Fine
  <2> QED
    BY <1>1, <2>2, <2>3, <2>4, MovesOn DEF Pcs
<1>3. CASE WithinCap(t)
  <2>1. tx[t].pc = "check" /\ Wanted(t) = {}
    BY <1>3, WantedBy DEF WithinCap, Runs
  <2>2. /\ Runs(t, "check", Moved(tx[t], "load", tx[t].client))
        /\ tx[t].client \in Capped => UsedBy(t) < Cap
    BY <1>1, <1>3, ChangedPc DEF WithinCap
  <2>3. Fine(Moved(tx[t], "load", tx[t].client), held[t] \cup Wanted(t))
    BY <1>1, <2>1 DEF Fine, Behind, Writes, Moved
  <2> QED
    BY <1>1, <2>2, <2>3, MovesOn DEF Pcs
<1>4. CASE LoadClient(t)
  <2>1. tx[t].pc = "load" /\ Wanted(t) = {}
    BY <1>4, WantedBy DEF LoadClient, Runs
  <2>2. Runs(t, "load", Moved(tx[t], "write", tx[t].client))
    BY <1>1, <1>4, ChangedPc DEF LoadClient
  <2>3. Fine(Moved(tx[t], "write", tx[t].client), held[t] \cup Wanted(t))
    BY <1>1, <2>1 DEF Fine, Behind, Writes, Moved
  <2> QED
    BY <1>1, <2>2, <2>3, MovesOn DEF Pcs
<1>5. CASE Reference(t)
  <2>1. tx[t].pc = "reference" /\ Wanted(t) \subseteq {Lock("client", tx[t].client, "share")}
    BY <1>5, WantedBy DEF Reference, Runs
  <2>2. Runs(t, "reference", Moved(tx[t], "commit", tx[t].client))
    BY <1>1, <1>5, ChangedPc DEF Reference
  <2>3. Fine(Moved(tx[t], "commit", tx[t].client), held[t] \cup Wanted(t))
    BY <1>1, <2>1 DEF Fine, Behind, Writes, Moved, Lock
  <2> QED
    BY <1>1, <2>2, <2>3, MovesOn DEF Pcs
<1> QED
  BY <1>2, <1>3, <1>4, <1>5

LEMMA AssignSteps == ASSUME IInv, NEW t \in Txs, LockTenant(t) \/ LinkSite(t) PROVE IInv'
<1>1. tx[t] \in Transaction /\ Fine(tx[t], held[t]) /\ tx[t].client \in Clients \cup {NoClient}
  BY DEF IInv, TypeOK, TxOK, Transaction
<1>2. CASE LockTenant(t)
  <2>1. tx[t].pc = "tenant" /\ Wanted(t) = {Lock("client", tx[t].client, "row")}
    BY <1>2, WantedBy DEF LockTenant, Runs
  <2>2. Runs(t, "tenant", Moved(tx[t], "link", tx[t].client))
    BY <1>1, <1>2, ChangedPc DEF LockTenant
  <2>3. Fine(Moved(tx[t], "link", tx[t].client), held[t] \cup Wanted(t))
    BY <1>1, <2>1 DEF Fine, Behind, Writes, Moved, Lock
  <2> QED
    BY <1>1, <2>2, <2>3, MovesOn DEF Pcs
<1>3. CASE LinkSite(t)
  <2>1. /\ tx[t].pc = "link"
        /\ Wanted(t) = {Lock("client", tx[t].client, "key"), Lock("site", Store, "only")}
    BY <1>3, WantedBy DEF LinkSite, Runs
  <2>2. Runs(t, "link", Moved(tx[t], "commit", tx[t].client))
    BY <1>1, <1>3, ChangedPc DEF LinkSite
  <2>3. Fine(Moved(tx[t], "commit", tx[t].client), held[t] \cup Wanted(t))
    BY <1>1, <2>1 DEF Fine, Behind, Writes, Moved, Lock
  <2> QED
    BY <1>1, <2>2, <2>3, MovesOn DEF Pcs
<1> QED
  BY <1>2, <1>3

LEMMA EventStep == ASSUME IInv, NEW t \in Txs, InsertEvent(t) PROVE IInv'
<1>1. PICK counted \in BOOLEAN :
        Runs(t, "write", [tx[t] EXCEPT !.pc = "reference", !.counted = counted,
                                       !.fresh = ~Recorded(tx[t].client, tx[t].item)])
  BY DEF InsertEvent
<1>2. PICK f \in BOOLEAN : f <=> ~Recorded(tx[t].client, tx[t].item)
  OBVIOUS
<1> DEFINE x == [pc |-> "reference", op |-> tx[t].op, client |-> tx[t].client,
                 item |-> tx[t].item, month |-> tx[t].month, counted |-> counted,
                 fresh |-> f]
<1>3. tx[t] \in Transaction /\ Fine(tx[t], held[t]) /\ tx[t].pc = "write"
  BY <1>1 DEF IInv, TypeOK, TxOK, Runs
<1>4. Runs(t, "write", x)
  <2>1. f = ~Recorded(tx[t].client, tx[t].item)
    BY <1>2 DEF Recorded
  <2>2. [tx[t] EXCEPT !.pc = "reference", !.counted = counted, !.fresh = f] = x
    BY <1>3, ChangedEvent
  <2> QED
    BY <1>1, <2>1, <2>2
<1>5. x \in Transaction
  BY <1>3 DEF Transaction, Pcs
<1>6. Fine(x, held[t] \cup Wanted(t))
  <2>1. \A l \in Wanted(t) : l.kind \in {"event", "counter"} /\ l.mode = "only"
    BY <1>3, WantedBy DEF WriteLocks, Lock
  <2>2. f => Lock("event", <<tx[t].client, tx[t].item>>, "only") \in Wanted(t)
    BY <1>2, <1>3, WantedBy DEF WriteLocks
  <2>3. /\ x.pc = "reference" /\ x.op = tx[t].op /\ x.client = tx[t].client
        /\ x.item = tx[t].item /\ x.month = tx[t].month /\ x.fresh = f
    OBVIOUS
  <2> HIDE DEF x
  <2>4. \A l \in held[t] \cup Wanted(t) : Behind(x, l)
    BY <1>3, <2>1, <2>3 DEF Fine, Behind
  <2> QED
    BY <1>3, <2>2, <2>3, <2>4 DEF Fine, Writes
<1>7. x.fresh => ~Recorded(x.client, x.item)
  BY <1>2
<1>8. x.op = "gate" /\ x.client \in Capped => used[x.client][Kind(x.item)][x.month] < Cap
  BY <1>3 DEF IInv, RoomIsKept, UsedBy
<1> HIDE DEF x
<1> QED
  BY <1>4, <1>5, <1>6, <1>7, <1>8, RunsOn

-----------------------------------------------------------------------------
(* Ends.                                                                   *)

LEMMA NoTxOK == NoTx \in Transaction /\ Fine(NoTx, {}) /\ ~NoTx.fresh /\ NoTx.op = "none"
BY MeterAssumption DEF NoTx, Transaction, Pcs, Fine

LEMMA EndStep ==
  ASSUME IInv, NEW t \in Txs, Rollback(t) \/ CommitAssign(t) \/ CommitTurn(t)
  PROVE  IInv'
<1>1. /\ UNCHANGED <<events, used, month>>
      /\ tx' = [tx EXCEPT ![t] = NoTx] /\ held' = [held EXCEPT ![t] = {}]
  BY DEF Rollback, CommitAssign, CommitTurn, Ends
<1>2. site' \in Clients \cup {NoClient} /\ on' \subseteq Clients
  <2>1. CASE Rollback(t)
    BY <2>1 DEF Rollback, IInv, TypeOK
  <2>2. CASE CommitAssign(t)
    <3>1. tx[t].client \in Clients
      BY <2>2 DEF CommitAssign, IInv, TxOK, Fine
    <3> QED
      BY <2>2, <3>1 DEF CommitAssign, IInv, TypeOK
  <2>3. CASE CommitTurn(t)
    <3>1. tx[t].client \in Clients
      BY <2>3 DEF CommitTurn, IInv, TxOK, Fine
    <3> QED
      BY <2>3, <3>1 DEF CommitTurn, IInv, TypeOK
  <2> QED
    BY <2>1, <2>2, <2>3
<1> QED
  BY <1>1, <1>2, NoTxOK, GoesOn

LEMMA MonthEnds == ASSUME IInv, NextMonth PROVE IInv'
<1>1. /\ UNCHANGED <<events, used, site, on, tx, held>>
      /\ month' \in 1 .. LastMonth
  BY MeterAssumption DEF NextMonth, IInv, TypeOK
<1>2. TypeOK'
  BY <1>1 DEF IInv, TypeOK
<1>3. TxOK' /\ NoClash' /\ FreshOK'
  BY <1>1 DEF IInv, TxOK, NoClash, FreshOK, Recorded
<1>4. IsFiniteSet(events)' /\ RoomIsKept' /\ CountersAgree'
  BY <1>1 DEF IInv, RoomIsKept, UsedBy, CountersAgree, CountedIn
<1> QED
  BY <1>2, <1>3, <1>4 DEF IInv

LEMMA CommitStep == ASSUME IInv, NEW t \in Txs, CommitUsage(t) PROVE IInv'
<1>1. PICK c \in Clients, item \in Items, m \in 1 .. LastMonth :
        c = tx[t].client /\ item = tx[t].item /\ m = tx[t].month
  BY DEF CommitUsage, IInv, TypeOK, TxOK, Fine, Writes, Transaction
<1> DEFINE k == Kind(item)
           e == [client |-> c, item |-> item, month |-> m, counted |-> tx[t].counted]
<1>2. k \in Kinds /\ Fine(tx[t], held[t]) /\ tx[t] \in Transaction /\ tx[t].pc = "commit"
  BY DEF Kind, Kinds, IInv, TxOK, TypeOK, CommitUsage
<1>3. /\ Lock("month", <<c, m>>, "only") \in held[t]
      /\ tx[t].fresh => Lock("event", <<c, item>>, "only") \in held[t]
      /\ tx[t].fresh => ~Recorded(c, item)
  BY <1>1, <1>2 DEF Fine, CommitUsage, IInv, FreshOK
<1>4. /\ events' = events \cup (IF tx[t].fresh THEN {e} ELSE {})
      /\ used' = [used EXCEPT ![c][k][m] = IF Bumps(t) THEN @ + 1 ELSE @]
      /\ UNCHANGED <<site, on, month>>
  BY <1>1 DEF CommitUsage, Event, Ends
<1>5. /\ tx' = [tx EXCEPT ![t] = NoTx] /\ held' = [held EXCEPT ![t] = {}]
      /\ tx'[t] = NoTx /\ held'[t] = {}
      /\ \A u \in Txs : u # t => tx'[u] = tx[u] /\ held'[u] = held[u]
  BY DEF CommitUsage, Ends, IInv, TypeOK
<1>6. e \in [client : Clients, item : Items, month : 1 .. LastMonth, counted : BOOLEAN]
  BY <1>1, <1>2 DEF Transaction
<1>7. /\ used' \in [Clients -> [Kinds -> [1 .. LastMonth -> Nat]]]
      /\ \A d \in Clients, j \in Kinds, n \in 1 .. LastMonth :
           used'[d][j][n] = IF d = c /\ j = k /\ n = m /\ Bumps(t)
                            THEN used[d][j][n] + 1 ELSE used[d][j][n]
  <2>1. used \in [Clients -> [Kinds -> [1 .. LastMonth -> Nat]]]
    BY DEF IInv, TypeOK
  <2>2. used[c][k][m] \in Nat
    <3>1. used[c] \in [Kinds -> [1 .. LastMonth -> Nat]]
      BY <2>1
    <3>2. used[c][k] \in [1 .. LastMonth -> Nat]
      BY <3>1, <1>2
    <3> QED
      BY <3>2
  <2>3. PICK v \in Nat : v = IF Bumps(t) THEN used[c][k][m] + 1 ELSE used[c][k][m]
    BY <2>2
  <2> HIDE DEF k
  <2>4. used' = [used EXCEPT ![c][k][m] = v]
    <3>1. CASE Bumps(t)
      BY <3>1, <1>4, <2>3
    <3>2. CASE ~Bumps(t)
      BY <3>2, <1>4, <2>3
    <3> QED
      BY <3>1, <3>2
  <2>5. used' \in [Clients -> [Kinds -> [1 .. LastMonth -> Nat]]]
    BY <1>2, <2>1, <2>4
  <2>6. ASSUME NEW d \in Clients, NEW j \in Kinds, NEW n \in 1 .. LastMonth
        PROVE  used'[d][j][n] = IF d = c /\ j = k /\ n = m THEN v ELSE used[d][j][n]
    BY <1>2, <2>1, <2>4
  <2> QED
    BY <2>3, <2>5, <2>6
<1> HIDE DEF k
<1>8. TypeOK'
  BY <1>4, <1>5, <1>6, <1>7, NoTxOK DEF IInv, TypeOK
<1>9. TxOK'
  <2> SUFFICES ASSUME NEW u \in Txs PROVE Fine(tx'[u], held'[u])
    BY DEF TxOK, Fine, Behind, Writes
  <2>1. CASE u = t
    BY <2>1, <1>5, NoTxOK
  <2>2. CASE u # t
    BY <2>2, <1>5 DEF IInv, TxOK
  <2> QED
    BY <2>1, <2>2
<1>10. NoClash'
  <2> SUFFICES ASSUME NEW u \in Txs, NEW v \in Txs, u # v,
                      NEW a \in held'[u], NEW b \in held'[v]
               PROVE  ~Clash(a, b)
    BY DEF NoClash, Clash
  <2> QED
    BY <1>5 DEF IInv, NoClash
<1>11. FreshOK'
  <2> SUFFICES ASSUME NEW u \in Txs, tx'[u].fresh,
                      NEW f \in events', f.client = tx'[u].client, f.item = tx'[u].item
               PROVE  FALSE
    BY DEF FreshOK, Recorded
  <2>1. u # t /\ tx'[u] = tx[u] /\ held'[u] = held[u]
    BY <1>5, NoTxOK
  <2>2. f \notin events
    BY <2>1 DEF IInv, FreshOK, Recorded
  <2>3. tx[t].fresh /\ f = e
    BY <2>2, <1>4
  <2>4. Lock("event", <<c, item>>, "only") \in held[u]
    BY <2>1, <2>3 DEF IInv, TxOK, Fine
  <2>5. Clash(Lock("event", <<c, item>>, "only"), Lock("event", <<c, item>>, "only"))
    BY DEF Clash, Lock
  <2> QED
    BY <2>1, <2>3, <2>4, <2>5, <1>3 DEF IInv, NoClash
<1>12. IsFiniteSet(events)'
  BY <1>4, FS_AddElement DEF IInv
<1>13. RoomIsKept'
  <2> SUFFICES ASSUME NEW u \in Txs, tx'[u].op = "gate",
                      tx'[u].pc \in {"load", "write", "reference", "commit"},
                      tx'[u].client \in Capped
               PROVE  used'[tx'[u].client][Kind(tx'[u].item)][tx'[u].month] < Cap
    BY DEF RoomIsKept, UsedBy, Kind
  <2>1. u # t /\ tx'[u] = tx[u] /\ held'[u] = held[u]
    BY <1>5, NoTxOK
  <2>2. UsedBy(u) < Cap
    BY <2>1 DEF IInv, RoomIsKept
  <2>3. Lock("month", <<tx[u].client, tx[u].month>>, "only") \in held[u]
    BY <2>1 DEF IInv, TxOK, Fine
  <2>4. ~(tx[u].client = c /\ tx[u].month = m)
    <3> SUFFICES ASSUME tx[u].client = c, tx[u].month = m PROVE FALSE
      OBVIOUS
    <3>1. Clash(Lock("month", <<c, m>>, "only"), Lock("month", <<c, m>>, "only"))
      BY DEF Clash, Lock
    <3> QED
      BY <2>1, <2>3, <3>1, <1>3 DEF IInv, NoClash
  <2>5. tx[u].client \in Clients /\ Kind(tx[u].item) \in Kinds /\ tx[u].month \in 1 .. LastMonth
    BY <2>1 DEF IInv, TypeOK, TxOK, Fine, Kind, Kinds, Transaction
  <2> QED
    BY <2>1, <2>2, <2>4, <2>5, <1>7 DEF UsedBy
<1>14. CountersAgree'
  <2> SUFFICES ASSUME NEW d \in Clients, NEW j \in Kinds, NEW n \in 1 .. LastMonth
               PROVE  used'[d][j][n] = Cardinality(CountedIn(d, j, n)')
    BY DEF CountersAgree, CountedIn
  <2>1. /\ used[d][j][n] = Cardinality(CountedIn(d, j, n))
        /\ used[d][j][n] \in Nat
    <3>1. used[d][j][n] = Cardinality(CountedIn(d, j, n))
      <4>1. CountersAgree
        BY DEF IInv
      <4> QED
        BY <4>1 DEF CountersAgree
    <3>2. used[d][j][n] \in Nat
      <4>1. used \in [Clients -> [Kinds -> [1 .. LastMonth -> Nat]]]
        BY DEF IInv, TypeOK
      <4>2. used[d] \in [Kinds -> [1 .. LastMonth -> Nat]]
        BY <4>1
      <4>3. used[d][j] \in [1 .. LastMonth -> Nat]
        BY <4>2
      <4> QED
        BY <4>3
    <3> QED
      BY <3>1, <3>2
  <2>2. CASE d = c /\ j = k /\ n = m /\ Bumps(t)
    <3>1. tx[t].fresh /\ tx[t].counted
      BY <2>2 DEF Bumps
    <3>2. e \notin events
      BY <3>1, <1>3 DEF Recorded
    <3>3. CountedIn(d, j, n)' = CountedIn(d, j, n) \cup {e} /\ e \notin CountedIn(d, j, n)
      BY <2>2, <3>1, <3>2, <1>4 DEF CountedIn, k
    <3>4. IsFiniteSet(CountedIn(d, j, n))
      BY FS_Subset DEF IInv, CountedIn
    <3>5. Cardinality(CountedIn(d, j, n) \cup {e}) = Cardinality(CountedIn(d, j, n)) + 1
      BY <3>3, <3>4, FS_AddElement
    <3> QED
      BY <2>1, <2>2, <3>3, <3>5, <1>7
  <2>3. CASE ~(d = c /\ j = k /\ n = m /\ Bumps(t))
    <3>1. CountedIn(d, j, n)' = CountedIn(d, j, n)
      BY <2>3, <1>4 DEF CountedIn, Bumps, k
    <3> QED
      BY <2>1, <2>3, <3>1, <1>7
  <2> QED
    BY <2>2, <2>3
<1> QED
  BY <1>8, <1>9, <1>10, <1>11, <1>12, <1>13, <1>14 DEF IInv

LEMMA Stutter == ASSUME IInv, UNCHANGED vars PROVE IInv'
<1>1. UNCHANGED <<events, used, site, on, month, tx, held>>
  BY DEF vars
<1>2. TypeOK'
  BY <1>1 DEF IInv, TypeOK
<1>3. TxOK' /\ NoClash' /\ FreshOK'
  BY <1>1 DEF IInv, TxOK, NoClash, FreshOK, Recorded
<1>4. IsFiniteSet(events)' /\ RoomIsKept' /\ CountersAgree'
  BY <1>1 DEF IInv, RoomIsKept, UsedBy, CountersAgree, CountedIn
<1> QED
  BY <1>2, <1>3, <1>4 DEF IInv

LEMMA Inductive == IInv /\ [Next]_vars => IInv'
<1> SUFFICES ASSUME IInv, Next PROVE IInv'
  BY Stutter
<1>1. CASE NextMonth
  BY <1>1, MonthEnds
<1>2. ASSUME NEW t \in Txs, Starts(t) PROVE IInv'
  BY <1>2, StartsStep
<1>3. ASSUME NEW t \in Txs, Statement(t) PROVE IInv'
  BY <1>3, CountSteps, MonthStep, WriterSteps, EventStep, AssignSteps DEF Statement
<1>4. ASSUME NEW t \in Txs,
             CommitUsage(t) \/ CommitAssign(t) \/ CommitTurn(t) \/ Rollback(t)
      PROVE  IInv'
  BY <1>4, CommitStep, EndStep
<1> QED
  BY <1>1, <1>2, <1>3, <1>4 DEF Next

LEMMA Invariance == Spec => []IInv
<1> QED
  BY Initially, Inductive, PTL DEF Spec

-----------------------------------------------------------------------------
(* Waiting goes up.                                                        *)

\* How far a transaction has come, in the order in which locks are taken.
Rank(t) ==
  LET pc == tx[t].pc IN
  CASE pc \in {"idle", "store"} -> 0
    [] pc \in {"bySite", "byLocation"} -> 1
    [] pc \in {"month", "tenant"} -> 2
    [] pc \in {"insert", "check", "link"} -> 3
    [] pc = "load" -> 4
    [] pc = "write" -> 5
    [] pc = "reference" -> 6
    [] OTHER -> 7

LEMMA WaitsUp ==
  ASSUME IInv, NEW t \in Txs, NEW u \in Txs, t # u, WaitsFor(t, u)
  PROVE  Rank(t) < Rank(u)
<1>1. PICK a \in Wanted(t), b \in held[u] : Clash(a, b)
  BY DEF WaitsFor
<1>2. /\ a.kind = b.kind /\ a.of = b.of
      /\ ~(a.mode = "share" /\ b.mode = "share")
      /\ ~(a.mode = "share" /\ b.mode = "row")
      /\ ~(a.mode = "row" /\ b.mode = "share")
  BY <1>1, ClashCases
<1>3. /\ Fine(tx[t], held[t]) /\ Fine(tx[u], held[u]) /\ Behind(tx[u], b)
      /\ tx[t].pc \in Pcs /\ tx[u].pc \in Pcs /\ tx[u].pc # "idle"
  BY <1>1 DEF IInv, TxOK, TypeOK, Transaction, Fine
<1>4. tx[t].pc \in {"store", "month", "insert", "write", "reference", "tenant", "link"}
  BY <1>1, <1>3, WantedBy DEF Pcs
<1>5. CASE tx[t].pc = "store"
  <2>1. b.kind = "store"
    BY <1>1, <1>2, <1>5, WantedBy DEF Lock
  <2> QED
    BY <2>1, <1>3, <1>5 DEF Rank, Behind, Pcs
<1>6. CASE tx[t].pc = "month"
  <2>1. b.kind = "month"
    BY <1>1, <1>2, <1>6, WantedBy DEF Lock
  <2> QED
    BY <2>1, <1>3, <1>6 DEF Rank, Behind
<1>7. CASE tx[t].pc \in {"insert", "reference"}
  <2>1. b.kind = "client" /\ a.mode = "share"
    BY <1>1, <1>2, <1>7, WantedBy DEF Lock
  <2> QED
    BY <2>1, <1>2, <1>3, <1>7 DEF Rank, Behind
<1>8. CASE tx[t].pc = "write"
  <2>1. b.kind \in {"event", "counter"}
    BY <1>1, <1>2, <1>8, WantedBy DEF Lock, WriteLocks
  <2> QED
    BY <2>1, <1>3, <1>8 DEF Rank, Behind
<1>9. CASE tx[t].pc = "tenant"
  <2>1. b.kind = "client" /\ a.mode = "row"
    BY <1>1, <1>2, <1>9, WantedBy DEF Lock
  <2> QED
    BY <2>1, <1>2, <1>3, <1>9 DEF Rank, Behind
<1>10. CASE tx[t].pc = "link"
  <2>1. CASE b.kind = "site"
    BY <2>1, <1>3, <1>10 DEF Rank, Behind
  <2>2. CASE b.kind # "site"
    <3>1. b.kind = "client" /\ b.of = tx[t].client
      BY <2>2, <1>1, <1>2, <1>10, WantedBy DEF Lock
    <3>2. b.mode # "row"
      <4>1. Lock("client", tx[t].client, "row") \in held[t]
        BY <1>3, <1>10 DEF Fine
      <4>2. b.mode = "row" => Clash(Lock("client", tx[t].client, "row"), b)
        BY <3>1 DEF Clash, Lock
      <4> QED
        BY <1>1, <4>1, <4>2 DEF IInv, NoClash
    <3> QED
      BY <3>1, <3>2, <1>3, <1>10 DEF Rank, Behind
  <2> QED
    BY <2>1, <2>2
<1> QED
  BY <1>4, <1>5, <1>6, <1>7, <1>8, <1>9, <1>10

\* Of any transactions, one has come furthest.
LEMMA Furthest ==
  ASSUME NEW S \in SUBSET Txs, S # {}
  PROVE  \E t \in S : \A u \in S : Rank(u) <= Rank(t)
<1>1. \A t \in S : Rank(t) \in 0 .. 7
  BY DEF Rank
<1> DEFINE Reach(n) == \E t \in S : Rank(t) >= n
<1>2. ASSUME NEW n \in 0 .. 7, Reach(n), ~Reach(n + 1)
      PROVE  \E t \in S : \A u \in S : Rank(u) <= Rank(t)
  BY <1>1, <1>2
<1>3. Reach(0) /\ ~Reach(8)
  BY <1>1
<1>4. PICK n \in 0 .. 7 : Reach(n) /\ ~Reach(n + 1)
  <2> HIDE DEF Reach
  <2>1. \E n \in {0, 1, 2, 3, 4, 5, 6, 7} : Reach(n) /\ ~Reach(n + 1)
    <3>1. 0 + 1 = 1 /\ 1 + 1 = 2 /\ 2 + 1 = 3 /\ 3 + 1 = 4
      OBVIOUS
    <3>2. 4 + 1 = 5 /\ 5 + 1 = 6 /\ 6 + 1 = 7 /\ 7 + 1 = 8
      OBVIOUS
    <3> QED
      BY <1>3, <3>1, <3>2
  <2> QED
    BY <2>1
<1> QED
  BY <1>2, <1>4

-----------------------------------------------------------------------------
(* The theorems.                                                           *)

\* The tables and transactions keep their shapes.
THEOREM TypeCorrect == Spec => []TypeOK
<1>1. IInv => TypeOK
  BY DEF IInv
<1> QED
  BY <1>1, Invariance, PTL

\* Counters agree with events: the statement that inserts an event is the one that
\* moves its counter (writeUsage), and an event that is waited for is not inserted
\* again.
THEOREM CountersCorrect == Spec => []CountersAgree
<1>1. IInv => CountersAgree
  BY DEF IInv
<1> QED
  BY <1>1, Invariance, PTL

\* The room assertWithinCap has found is kept to the commit, by the month lock that
\* every writer of that client and month takes before it writes.
THEOREM RoomCorrect == Spec => []RoomIsKept
<1>1. IInv => RoomIsKept
  BY DEF IInv
<1> QED
  BY <1>1, Invariance, PTL

\* However many transactions there are, none wait for each other in a circle: who
\* waits has come less far than who is waited for.
THEOREM CircleCorrect == Spec => []NeverInACircle
<1>1. IInv => NeverInACircle
  <2> SUFFICES ASSUME IInv, NEW S \in SUBSET Txs, S # {}
               PROVE  \E t \in S : \A u \in S \ {t} : ~WaitsFor(t, u)
    BY DEF NeverInACircle
  <2>1. PICK t \in S : \A u \in S : Rank(u) <= Rank(t)
    BY Furthest
  <2>2. ASSUME NEW u \in S \ {t}, WaitsFor(t, u) PROVE FALSE
    <3>1. Rank(t) < Rank(u)
      BY <2>2, WaitsUp
    <3>2. Rank(u) <= Rank(t) /\ Rank(t) \in Nat /\ Rank(u) \in Nat
      BY <2>1 DEF Rank
    <3> QED
      BY <3>1, <3>2
  <2> QED
    BY <2>2
<1> QED
  BY <1>1, Invariance, PTL
=============================================================================
