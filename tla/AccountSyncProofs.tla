-------------------------- MODULE AccountSyncProofs --------------------------
(***************************************************************************)
(* What AccountSync promises for any number of syncs and applies, on Meta  *)
(* and on Google.  IInv is the inductive invariant.                        *)
(***************************************************************************)
EXTENDS AccountSync, TLAPS

Calls == [pc : Places, prev : {"none", "syncing", "connected", "error"}, late : BOOLEAN]

\* An apply has no step of its own between a start and its tokens; a sync under
\* way remembers the status it found.
Roles ==
  /\ \A a \in Applies : at[a].pc \notin {"dead", "mark", "load", "write"}
  /\ \A s \in Syncs : at[s].pc \in {"idle", "dead"} \/ at[s].prev # "none"

\* While an account needs a reconnect, a call that is not late has either not
\* passed its look at the account or has just been refused.
LateCalls ==
  account.status = "needs_reconnect" =>
    /\ \A s \in Syncs : at[s].late \/ at[s].pc \in {"idle", "dead", "mark"}
    /\ \A a \in Applies : at[a].late \/ at[a].pc \in {"idle", "loaded", "expired"}

\* Nobody leaves an error on a disconnected account.
DisconnectedIsBare == account.status = "disconnected" => account.error = "none"

IInv == TypeOK /\ ReconnectAgrees /\ Roles /\ LateCalls /\ DisconnectedIsBare

USE CallersAssumption DEF CallersAssumption, Callers, Storers

\* A fresh start: nothing is late and nothing is refused.
LEMMA InitHolds == Init => IInv
  BY DEF Init, IInv, TypeOK, ReconnectAgrees, Roles, LateCalls, DisconnectedIsBare,
    Statuses, LastErrors,
    Places, Failures, Rest

\* Marking an account keeps the invariant: whoever is past its look becomes late.
LEMMA MarkKeeps ==
  ASSUME IInv, NEW c \in Callers, NEW f \in [Storers -> Calls],
         \A d \in Storers \ {c} : f[d] = at[d],
         \/ f[c] = Rest
         \/ /\ f[c].pc = "expired" /\ at[c].pc = "reject"
            /\ f[c].late = at[c].late /\ f[c].prev = at[c].prev,
         MarkReconnect, at' = NoteLate(f), UNCHANGED <<stored, pulls>>
  PROVE  IInv'
<1>1. TypeOK'
  <2>1. at' \in [Storers -> Calls]
    BY DEF NoteLate, Calls
  <2>2. account' \in [status : Statuses, error : LastErrors] /\ audits' \in {0, 1}
    BY DEF IInv, TypeOK, MarkReconnect, Set, Statuses, LastErrors
  <2> QED BY <2>1, <2>2 DEF IInv, TypeOK, Calls
<1>2. ReconnectAgrees'
  BY DEF IInv, ReconnectAgrees, MarkReconnect, Set
<1>6. DisconnectedIsBare'
  BY DEF IInv, DisconnectedIsBare, MarkReconnect, Set
<1>3. \A d \in Storers : at'[d].pc = f[d].pc
  BY DEF NoteLate, Calls
<1>4. Roles'
  <2>1. \A d \in Storers : at'[d].prev = f[d].prev
    BY DEF NoteLate, Calls
  <2> QED BY <1>3, <2>1 DEF Roles, IInv, Rest
<1>5. LateCalls'
  <2>1. CASE account.status = "disconnected"
    BY <2>1 DEF MarkReconnect, LateCalls
  <2>2. CASE account.status = "needs_reconnect"
    <3>1. at' = f
      BY <2>2 DEF NoteLate, StillOpen
    <3> QED BY <2>2, <3>1 DEF IInv, LateCalls, Rest, Roles
  <2>3. CASE StillOpen
    <3>1. \A d \in Callers : at'[d] = [f[d] EXCEPT !.late = f[d].pc \notin {"idle", "dead", "mark"}]
      BY <2>3 DEF NoteLate
    <3>2. \A d \in Callers : f[d].pc \notin {"idle", "dead", "mark"} => at'[d].late
      <4> SUFFICES ASSUME NEW d \in Callers, f[d].pc \notin {"idle", "dead", "mark"}
                   PROVE  at'[d].late
        OBVIOUS
      <4>1. at'[d] = [f[d] EXCEPT !.late = TRUE]
        BY <3>1
      <4> QED BY <4>1 DEF Calls
    <3>3. \A a \in Applies : at'[a].pc \notin {"dead", "mark"}
      BY <1>4 DEF Roles
    <3> QED BY <1>3, <3>2, <3>3 DEF LateCalls
  <2> QED BY <2>1, <2>2, <2>3 DEF StillOpen
<1> QED BY <1>1, <1>2, <1>4, <1>5, <1>6 DEF IInv

\* Steps of a sync that no apply takes.
LEMMA SyncKeeps == ASSUME IInv, NEW s \in Syncs, Sync(s) PROVE IInv'
<1> USE DEF IInv, TypeOK, ReconnectAgrees, Roles, LateCalls, DisconnectedIsBare,
      Statuses, LastErrors, Places,
      Failures, Rest, Go, Return, Set
<1>1. CASE SyncStart(s)
  BY <1>1 DEF SyncStart, MayBegin, NeedsReconnect
<1>2. CASE SyncNotStarted(s)
  BY <1>2 DEF SyncNotStarted
<1>3. CASE SyncMark(s)
  BY <1>3 DEF SyncMark, StillOpen
<1>4. CASE SyncMarkRefused(s)
  BY <1>4 DEF SyncMarkRefused
<1>5. CASE SyncLoad(s)
  BY <1>5 DEF SyncLoad
<1>6. CASE SyncBlocked(s)
  BY <1>6 DEF SyncBlocked, BlockError
<1>7. CASE Pull(s)
  BY <1>7 DEF Pull
<1>8. CASE SyncWrite(s)
  BY <1>8 DEF SyncWrite
<1>9. CASE SyncLater(s)
  BY <1>9 DEF SyncLater, Restored
<1>10. CASE SyncDenied(s)
  BY <1>10 DEF SyncDenied, StillOpen
<1>11. CASE SyncBroken(s)
  BY <1>11 DEF SyncBroken
<1> QED
  BY <1>1, <1>2, <1>3, <1>4, <1>5, <1>6, <1>7, <1>8, <1>9, <1>10, <1>11 DEF Sync

\* Steps of an apply that no sync takes.
LEMMA ApplyKeeps == ASSUME IInv, NEW a \in Applies, Apply(a) PROVE IInv'
<1> USE DEF IInv, TypeOK, ReconnectAgrees, Roles, LateCalls, DisconnectedIsBare,
      Statuses, LastErrors, Places,
      Failures, Rest, Go, Return, Set
<1>1. CASE ApplyStart(a)
  BY <1>1 DEF ApplyStart
<1>2. CASE Mutate(a)
  BY <1>2 DEF Mutate
<1>3. CASE ApplyFailed(a)
  BY <1>3 DEF ApplyFailed, StillOpen
<1> QED BY <1>1, <1>2, <1>3 DEF Apply

\* Steps that take tokens to the platform or learn that they were refused.
LEMMA TokensKeep == ASSUME IInv, NEW c \in Callers, Tokens(c) PROVE IInv'
<1>1. CASE FreshRefused(c)
  BY <1>1 DEF FreshRefused, IInv, TypeOK, ReconnectAgrees, Roles, LateCalls,
    DisconnectedIsBare, Places, Failures, Go
<1>2. CASE FreshRead(c)
  BY <1>2 DEF FreshRead, TokensRefused, NeedsReconnect, IInv, TypeOK, ReconnectAgrees,
    Roles,
    LateCalls, DisconnectedIsBare, Places, Failures, Go
<1>3. CASE Refresh(c)
  BY <1>3 DEF Refresh, RefreshAnswers, IInv, TypeOK, ReconnectAgrees, Roles, LateCalls,
    DisconnectedIsBare,
    Places, Failures, Go
<1>4. CASE UseFailed(c)
  BY <1>4 DEF UseFailed, UseAnswers, IInv, TypeOK, ReconnectAgrees, Roles, LateCalls,
    DisconnectedIsBare,
    Places, Failures, Go
<1>5. CASE Reject(c)
  <2> DEFINE f == [at EXCEPT ![c].pc = "expired"]
  <2>1. f \in [Storers -> Calls] /\ \A d \in Storers \ {c} : f[d] = at[d]
    BY DEF IInv, TypeOK, Calls, Places, Failures
  <2>2. f[c].pc = "expired" /\ f[c].late = at[c].late /\ f[c].prev = at[c].prev
    BY DEF IInv, TypeOK
  <2> QED BY <1>5, <2>1, <2>2, MarkKeeps DEF Reject
<1>6. CASE Expired(c)
  <2> DEFINE f == [at EXCEPT ![c] = Rest]
  <2>1. f \in [Storers -> Calls] /\ (\A d \in Storers \ {c} : f[d] = at[d]) /\ f[c] = Rest
    BY DEF IInv, TypeOK, Calls, Places, Rest
  <2> QED BY <1>6, <2>1, MarkKeeps DEF Expired
<1> QED BY <1>1, <1>2, <1>3, <1>4, <1>5, <1>6 DEF Tokens

\* A call whose tokens are stored goes on to use them; a connect is over.
LEMMA StoredKeeps ==
  ASSUME IInv, NEW c \in Storers, at[c].pc \in {"store", "insert"}, AfterStore(c),
         stored' \in BOOLEAN, UNCHANGED <<account, pulls, audits>>
  PROVE  IInv'
<1>1. CASE c = Owner
  <2>1. at' = [at EXCEPT ![c] = Rest]
    BY <1>1 DEF AfterStore
  <2>2. \A d \in Callers : at'[d] = at[d]
    BY <1>1, <2>1 DEF IInv, TypeOK
  <2>3. TypeOK'
    BY <2>1 DEF IInv, TypeOK, Rest, Places, Failures
  <2> QED BY <2>2, <2>3 DEF IInv, ReconnectAgrees, Roles, LateCalls, DisconnectedIsBare
<1>2. CASE c # Owner
  <2>1. at' = [at EXCEPT ![c].pc = "use"] /\ c \in Callers
    BY <1>2 DEF AfterStore, Go
  <2>2. TypeOK'
    BY <2>1 DEF IInv, TypeOK, Places, Failures
  <2>3. \A d \in Callers :
          /\ at'[d].late = at[d].late /\ at'[d].prev = at[d].prev
          /\ at'[d].pc = IF d = c THEN "use" ELSE at[d].pc
    BY <2>1 DEF IInv, TypeOK
  <2>4. Roles'
    BY <2>3 DEF IInv, Roles
  <2>5. LateCalls'
    BY <2>3 DEF IInv, LateCalls
  <2> QED BY <2>2, <2>4, <2>5 DEF IInv, ReconnectAgrees, DisconnectedIsBare
<1> QED BY <1>1, <1>2

\* Storing tokens, by a call or by a connect, and a process that ends.
LEMMA StoreKeeps == ASSUME IInv, NEW c \in Storers, Store(c) PROVE IInv'
<1>1. CASE StoreUpdate(c)
  BY <1>1, StoredKeeps DEF StoreUpdate, IInv, TypeOK
<1>2. CASE StoreMissing(c)
  BY <1>2 DEF StoreMissing, IInv, TypeOK, ReconnectAgrees, Roles, LateCalls,
    DisconnectedIsBare, Places,
    Failures, Go
<1>3. CASE StoreInsert(c)
  BY <1>3, StoredKeeps DEF StoreInsert
<1>4. CASE Crash(c)
  BY <1>4 DEF Crash, IInv, TypeOK, ReconnectAgrees, Roles, LateCalls,
    DisconnectedIsBare, Places, Failures, Rest
<1> QED BY <1>1, <1>2, <1>3, <1>4 DEF Store

\* Owners end whatever the account was.
LEMMA OwnersKeep == ASSUME IInv, Connect \/ Disconnect PROVE IInv'
<1> USE DEF IInv, TypeOK, ReconnectAgrees, Roles, LateCalls, DisconnectedIsBare,
      Statuses, LastErrors, Places,
      Failures, Go, Set
<1>1. CASE Connect
  BY <1>1 DEF Connect
<1>2. CASE Disconnect
  BY <1>2 DEF Disconnect
<1> QED BY <1>1, <1>2

\* The inductive invariant of AccountSync, for any callers and both platforms.
THEOREM Invariance == Spec => []IInv
<1>1. Init => IInv
  BY InitHolds
<1>2. IInv /\ [Next]_vars => IInv'
  <2> SUFFICES ASSUME IInv, [Next]_vars PROVE IInv'
    OBVIOUS
  <2>1. CASE UNCHANGED vars
    BY <2>1 DEF vars, IInv, TypeOK, ReconnectAgrees, Roles, LateCalls, DisconnectedIsBare
  <2>2. CASE Next
    BY <2>2, SyncKeeps, ApplyKeeps, TokensKeep, StoreKeeps, OwnersKeep DEF Next
  <2> QED BY <2>1, <2>2
<1> QED BY <1>1, <1>2, PTL DEF Spec

\* Every variable keeps its shape, whatever the callers and the platform.
THEOREM TypeCorrect == Spec => []TypeOK
  BY Invariance, PTL DEF IInv

\* The status and the error of an account agree on whether its tokens were
\* rejected, so that the checks that read one of them and those that read both
\* are the same check.
THEOREM StatusAndErrorAgree == Spec => []ReconnectAgrees
  BY Invariance, PTL DEF IInv

\* No call that looks at an account once its tokens were rejected takes them to
\* the platform: however many syncs and applies overlap, only those that were
\* under way when it was marked still may.
THEOREM RejectedTokensRest == Spec => []RejectedIsNotUsed
<1>1. IInv => RejectedIsNotUsed
  BY DEF IInv, TypeOK, LateCalls, RejectedIsNotUsed, Taken
<1> QED BY <1>1, Invariance, PTL

\* What a step does to the row and to the two counters, by who takes it.  The
\* conditions in the updates of sync.ts, mutate.ts and meta-token.ts are all
\* that is used here.
Marks == MarkReconnect /\ pulls' = pulls
Leaves == UNCHANGED <<account, pulls, audits>>
Notes(c) ==
  /\ account.status # "disconnected" /\ account'.error # "reconnect"
  /\ account'.status \in Statuses \ {"disconnected", "needs_reconnect"}
  /\ audits' = audits
  /\ account.status = "needs_reconnect" => c \in Syncs /\ at[c].late /\ at'[c] # at[c]
ConnectStep ==
  /\ at[Owner].pc = "idle" /\ at'[Owner].pc = "store" /\ account'.status = "connected"
  /\ UNCHANGED <<pulls, audits>>
DisconnectStep ==
  account' = [status |-> "disconnected", error |-> "none"] /\ UNCHANGED <<pulls, audits>>

\* Every step leaves the row alone, marks it, notes an outcome in it, or is an
\* owner's.
LEMMA StepKinds ==
  ASSUME IInv, Next
  PROVE  Leaves \/ Marks \/ (\E c \in Callers : Notes(c)) \/ ConnectStep \/ DisconnectStep
<1> USE DEF IInv, TypeOK, Leaves
<1>1. CASE \E s \in Syncs : Sync(s)
  <2> PICK s \in Syncs : Sync(s)
    BY <1>1
  <2> SUFFICES ASSUME ~Leaves PROVE Notes(s)
    OBVIOUS
  <2> USE DEF Notes, Set, Statuses, Roles, LateCalls, Go, Return, Rest
  <2>1. CASE SyncMark(s)
    BY <2>1 DEF SyncMark, StillOpen
  <2>2. CASE SyncBlocked(s)
    BY <2>2 DEF SyncBlocked, BlockError
  <2>3. CASE SyncWrite(s)
    BY <2>3 DEF SyncWrite
  <2>4. CASE SyncLater(s)
    BY <2>4 DEF SyncLater, Restored
  <2>5. CASE SyncDenied(s)
    BY <2>5 DEF SyncDenied, StillOpen
  <2>6. CASE SyncBroken(s)
    BY <2>6 DEF SyncBroken
  <2> QED
    BY <2>1, <2>2, <2>3, <2>4, <2>5, <2>6
      DEF Sync, SyncStart, SyncNotStarted, SyncMarkRefused, SyncLoad, Pull
<1>2. CASE \E a \in Applies : Apply(a)
  BY <1>2 DEF Apply, ApplyStart, Mutate, ApplyFailed, Notes, Set, StillOpen, Statuses
<1>3. CASE \E c \in Callers : Tokens(c)
  BY <1>3 DEF Tokens, FreshRefused, FreshRead, Refresh, UseFailed, Reject, Expired, Marks
<1>4. CASE \E c \in Storers : Store(c)
  BY <1>4 DEF Store, StoreUpdate, StoreMissing, StoreInsert, Crash
<1>5. CASE Connect
  BY <1>5 DEF Connect, ConnectStep, Set, Go
<1>6. CASE Disconnect
  BY <1>6 DEF Disconnect, DisconnectStep, Set
<1> QED BY <1>1, <1>2, <1>3, <1>4, <1>5, <1>6 DEF Next

\* A call that is still under way when an owner disconnects the account neither
\* writes to it nor reopens it, however many calls there are.
THEOREM DisconnectSticks == Spec => OnlyConnectReopens
<1> DEFINE Holds ==
      account.status = "disconnected" =>
        /\ pulls' = pulls
        /\ account' = account \/ (at[Owner].pc = "idle" /\ at'[Owner].pc = "store")
<1>1. ASSUME IInv, [Next]_vars PROVE Holds \/ UNCHANGED vars
  <2>1. account.status = "disconnected" => account = [status |-> "disconnected", error |-> "none"]
    BY <1>1 DEF IInv, TypeOK, DisconnectedIsBare
  <2> QED BY <1>1, <2>1, StepKinds DEF Leaves, Marks, MarkReconnect, Notes,
      ConnectStep, DisconnectStep
<1> QED BY <1>1, Invariance, PTL DEF Spec, OnlyConnectReopens

\* An account whose tokens were rejected stays so until an owner acts, but for the
\* syncs that were under way when it was marked.
THEOREM ReconnectSticks == Spec => ReconnectLeftOnlyByLate
<1> DEFINE Holds ==
      account.status = "needs_reconnect" /\ account'.status # "needs_reconnect" =>
        \/ account'.status = "disconnected"
        \/ at[Owner].pc = "idle" /\ at'[Owner].pc = "store"
        \/ \E s \in Syncs : at[s].late /\ at'[s] # at[s]
<1>1. ASSUME IInv, [Next]_vars PROVE Holds \/ UNCHANGED vars
  BY <1>1, StepKinds DEF Leaves, Marks, MarkReconnect, Set, Notes, ConnectStep,
    DisconnectStep
<1> QED BY <1>1, Invariance, PTL DEF Spec, ReconnectLeftOnlyByLate

\* The audit trail has one row for each time an account comes to need a
\* reconnect, on both platforms: that the two columns agree makes their two
\* conditions the same.
THEOREM OneAudit == Spec => OneAuditPerTransition
<1> DEFINE Holds ==
      audits' # audits <=>
        account.status # "needs_reconnect" /\ account'.status = "needs_reconnect"
<1>1. ASSUME IInv, [Next]_vars PROVE Holds \/ UNCHANGED vars
  <2>1. CASE Marks
    BY <1>1, <2>1 DEF Marks, MarkReconnect, Set, AlreadyNoted, NeedsReconnect, IInv,
    TypeOK,
      ReconnectAgrees
  <2> QED
    BY <1>1, <2>1, StepKinds DEF Leaves, Notes, ConnectStep, DisconnectStep, IInv
<1> QED BY <1>1, Invariance, PTL DEF Spec, OneAuditPerTransition

ShowsSyncing == account.status = "syncing" /\ account.error = "none"

\* Only a sync's own mark makes an account "syncing" and clears its error: what a
\* blocked sync writes back has one.
LEMMA SyncingIsNewlySet ==
  ASSUME IInv, Next, ~ShowsSyncing, ShowsSyncing'
  PROVE  \E s \in Syncs : SyncMark(s)
<1> USE DEF IInv, TypeOK, Set, ShowsSyncing, BlockError
<1>1. CASE \E s \in Syncs : Sync(s)
  BY <1>1 DEF Sync, SyncStart, SyncNotStarted, SyncMarkRefused, SyncLoad, SyncBlocked,
    Pull,
    SyncWrite, SyncLater, Restored, SyncDenied, SyncBroken
<1>2. CASE \E a \in Applies : Apply(a)
  BY <1>2 DEF Apply, ApplyStart, Mutate, ApplyFailed
<1>3. CASE \E c \in Callers : Tokens(c)
  BY <1>3 DEF Tokens, FreshRefused, FreshRead, Refresh, UseFailed, Reject, Expired,
    MarkReconnect
<1>4. CASE \E c \in Storers : Store(c)
  BY <1>4 DEF Store, StoreUpdate, StoreMissing, StoreInsert, Crash
<1>5. CASE Connect \/ Disconnect
  BY <1>5 DEF Connect, Disconnect
<1> QED BY <1>1, <1>2, <1>3, <1>4, <1>5 DEF Next

\* A sync that ends or gives up leaves no "syncing" behind, or an error with it.
LEMMA SyncingIsLeft ==
  ASSUME IInv, Next, ShowsSyncing, ShowsSyncing', NEW s \in Syncs, at[s].pc # "idle"
  PROVE  at'[s].pc # "idle"
<1> USE DEF IInv, TypeOK, Set, Go, Return, Rest, ShowsSyncing, BlockError
<1>1. CASE \E t \in Syncs : Sync(t)
  <2> PICK t \in Syncs : Sync(t)
    BY <1>1
  <2>1. CASE SyncNotStarted(t)
    BY <2>1 DEF SyncNotStarted, MayBegin, NeedsReconnect, ReconnectAgrees
  <2>2. CASE SyncMarkRefused(t) \/ SyncDenied(t)
    BY <2>2 DEF SyncMarkRefused, SyncDenied, StillOpen
  <2>3. CASE SyncLater(t)
    BY <2>3 DEF SyncLater, Restored
  <2>4. CASE SyncWrite(t) \/ SyncBroken(t) \/ SyncBlocked(t)
    BY <2>4 DEF SyncWrite, SyncBroken, SyncBlocked
  <2>5. CASE SyncStart(t) \/ SyncMark(t) \/ SyncLoad(t) \/ Pull(t)
    BY <2>5 DEF SyncStart, SyncMark, SyncLoad, Pull
  <2> QED BY <2>1, <2>2, <2>3, <2>4, <2>5 DEF Sync
<1>2. CASE \E a \in Applies : Apply(a)
  BY <1>2 DEF Apply, ApplyStart, Mutate, ApplyFailed
<1>3. CASE \E c \in Callers : Tokens(c)
  <2> PICK c \in Callers : Tokens(c)
    BY <1>3
  <2>1. CASE Reject(c) \/ Expired(c)
    BY <2>1 DEF Reject, Expired, MarkReconnect
  <2>2. CASE FreshRefused(c)
    BY <2>2 DEF FreshRefused
  <2>3. CASE FreshRead(c)
    BY <2>3 DEF FreshRead
  <2>4. CASE Refresh(c)
    BY <2>4 DEF Refresh, RefreshAnswers
  <2>5. CASE UseFailed(c)
    BY <2>5 DEF UseFailed, UseAnswers
  <2> QED BY <2>1, <2>2, <2>3, <2>4, <2>5 DEF Tokens
<1>4. CASE \E c \in Storers : Store(c)
  <2> PICK c \in Storers : Store(c)
    BY <1>4
  <2>1. CASE StoreUpdate(c)
    BY <2>1 DEF StoreUpdate, AfterStore
  <2>2. CASE StoreMissing(c)
    BY <2>2 DEF StoreMissing
  <2>3. CASE StoreInsert(c)
    BY <2>3 DEF StoreInsert, AfterStore
  <2>4. CASE Crash(c)
    BY <2>4 DEF Crash
  <2> QED BY <2>1, <2>2, <2>3, <2>4 DEF Store
<1>5. CASE Connect \/ Disconnect
  BY <1>5 DEF Connect, Disconnect
<1> QED BY <1>1, <1>2, <1>3, <1>4, <1>5 DEF Next

\* Whatever blocks the syncs and whoever crashes, an account that shows "syncing"
\* without an error is attended: some sync is under way or will be run again.
THEOREM Attended == Spec => []SyncingIsAttended
<1> USE DEF SyncingIsAttended
<1>1. Init => SyncingIsAttended
  BY DEF Init
<1>2. ASSUME IInv, SyncingIsAttended, [Next]_vars PROVE SyncingIsAttended'
  <2> USE <1>2 DEF IInv, TypeOK
  <2>1. CASE UNCHANGED vars
    BY <2>1 DEF vars
  <2>2. ASSUME ShowsSyncing', ~ShowsSyncing
        PROVE  SyncingIsAttended'
    <3>1. PICK s \in Syncs : SyncMark(s)
      BY <2>2, SyncingIsNewlySet DEF vars, ShowsSyncing
    <3> QED BY <3>1 DEF SyncMark, Go
  <2>3. ASSUME ShowsSyncing', ShowsSyncing, Next
        PROVE  SyncingIsAttended'
    <3> PICK s \in Syncs : at[s].pc # "idle"
      BY <2>3 DEF ShowsSyncing
    <3> SUFFICES ASSUME at'[s].pc = "idle" PROVE FALSE
      OBVIOUS
    <3> QED BY <2>3, SyncingIsLeft
  <2> QED BY <2>1, <2>2, <2>3 DEF ShowsSyncing
<1> QED BY <1>1, <1>2, Invariance, PTL DEF Spec
=============================================================================
