----------------------------- MODULE AccountSync -----------------------------
(***************************************************************************)
(* The connection of one ad account: its status, its stored tokens, and    *)
(* everybody who writes them.  runAdAccountSync (sync.ts) marks the        *)
(* account, refreshes the tokens, pulls from the platform and writes what  *)
(* it found; executeMutation (mutate.ts) refreshes the same tokens before  *)
(* a live write; owners connect and disconnect (connect.ts).  Syncs of one *)
(* account overlap: the account-sync function runs one at a time, the stub *)
(* sync functions call the same code with no such limit.                   *)
(* Each action is one statement or transaction on the database or one call *)
(* of the platform.  Accounts with mock tokens never reach a platform and  *)
(* are left out.                                                           *)
(***************************************************************************)
EXTENDS Integers, FiniteSets

CONSTANTS
  Syncs,      \* callers of runAdAccountSync
  Applies,    \* callers of executeMutation on a live account
  Owner,      \* whoever finishes an OAuth connect
  Google,     \* TRUE for a Google account, FALSE for a Meta account
  Blocks      \* what may keep a sync from the platform: see below

ASSUME CallersAssumption ==
  /\ Syncs \cap Applies = {}
  /\ Owner \notin Syncs \cup Applies
  /\ Google \in BOOLEAN
  /\ Blocks \subseteq {"off", "setup"}

Callers == Syncs \cup Applies
Storers == Callers \cup {Owner}

VARIABLES
  account,   \* connection_status and last_error of the ad_accounts row
  stored,    \* whether oauth_credentials has a row for the account
  pulls,     \* pulls written to the entity and metric tables, counted modulo 2
  audits,    \* reconnect_required audit rows, counted modulo 2
  at         \* where each call is, the status its sync found, and (history)
             \* whether it was under way when the account became needs_reconnect

vars == <<account, stored, pulls, audits, at>>

Statuses == {"disconnected", "syncing", "connected", "needs_reconnect", "error"}

\* "reconnect" is META_TOKEN_EXPIRED or GOOGLE_REFRESH_REJECTED; "code" is any
\* other last_error.
LastErrors == {"none", "reconnect", "code"}

\* What the platform answers when it does not do as asked: the token is refused,
\* a Meta rate limit, a missing permission or a wrong OAuth setup, try again
\* later, anything else.
Failures == {"expired", "limited", "denied", "later", "broken"}

Places == {"idle", "dead", "mark", "load", "loaded", "refresh", "reject", "store",
           "insert", "use", "write"} \cup Failures

Rest == [pc |-> "idle", prev |-> "none", late |-> FALSE]

Init ==
  /\ account = [status |-> "connected", error |-> "none"]
  /\ stored = TRUE
  /\ pulls = 0
  /\ audits = 0
  /\ at = [c \in Storers |-> Rest]

Go(c, place) == at' = [at EXCEPT ![c].pc = place]
Return(c) == at' = [at EXCEPT ![c] = Rest]
Set(status, error) == account' = [status |-> status, error |-> error]

NeedsReconnect == account.status = "needs_reconnect" \/ account.error = "reconnect"

\* Seeded fault: an update's condition forgets that the account may be disconnected.
StillOpenUnlessRejected == account.status # "needs_reconnect"
\* Seeded fault: or that its tokens may be rejected.
StillOpenUnlessDisconnected == account.status # "disconnected"

\* The condition of the updates that neither reopen an account nor hide that its
\* tokens were rejected; the row may have changed since it was read.
StillOpen == account.status \notin {"disconnected", "needs_reconnect"}

\* What a sync asks of the row it reads first.
MayBegin == account.status # "disconnected" /\ ~NeedsReconnect

-----------------------------------------------------------------------------
(* markMetaReconnectRequired and markGoogleReconnectRequired, one          *)
(* transaction that holds the account's row.                               *)

\* Seeded fault: each rejection is audited.
AlreadyNotedNever == FALSE

\* The two platforms ask differently whether the audit row is already there.
AlreadyNoted ==
  IF Google THEN NeedsReconnect
  ELSE account.status = "needs_reconnect" /\ account.error = "reconnect"

\* History: every call past its own look at the account is late from here on.
NoteLate(f) ==
  IF ~StillOpen THEN f
  ELSE [c \in Storers |-> [f[c] EXCEPT !.late = f[c].pc \notin {"idle", "dead", "mark"}]]

MarkReconnect ==
  IF account.status = "disconnected" THEN UNCHANGED <<account, audits>>
  ELSE /\ Set("needs_reconnect", "reconnect")
       /\ audits' = IF AlreadyNoted THEN audits ELSE 1 - audits

-----------------------------------------------------------------------------
(* runAdAccountSync up to its tokens.                                      *)

SyncStart(s) ==
  /\ at[s].pc \in {"idle", "dead"}
  /\ MayBegin
  /\ at' = [at EXCEPT ![s] = [pc |-> "mark", prev |-> account.status, late |-> FALSE]]
  /\ UNCHANGED <<account, stored, pulls, audits>>

\* A step that is run again finds nothing to do.
SyncNotStarted(s) ==
  /\ at[s].pc = "dead"
  /\ ~MayBegin
  /\ Return(s)
  /\ UNCHANGED <<account, stored, pulls, audits>>

SyncMark(s) ==
  /\ at[s].pc = "mark"
  /\ StillOpen
  /\ Set("syncing", "none")
  /\ Go(s, "load")
  /\ UNCHANGED <<stored, pulls, audits>>

SyncMarkRefused(s) ==
  /\ at[s].pc = "mark"
  /\ ~StillOpen
  /\ Return(s)
  /\ UNCHANGED <<account, stored, pulls, audits>>

\* No stored tokens is an error like any other.
SyncLoad(s) ==
  /\ at[s].pc = "load"
  /\ Go(s, IF stored THEN "loaded" ELSE "broken")
  /\ UNCHANGED <<account, stored, pulls, audits>>

\* Seeded fault: a sync that sync.live keeps from the platform leaves no error.
BlockErrorForSetup(block) == IF block = "setup" THEN "code" ELSE "none"

\* Either block leaves its own reason.
BlockError(block) == "code"

\* The platform is not set up on this server, or sync.live is off: then the
\* status the sync found is written back as it was, be it another sync's "syncing".
SyncBlocked(s) ==
  /\ at[s].pc = "loaded"
  /\ \E block \in Blocks :
       IF account.status = "disconnected" THEN UNCHANGED account
       ELSE Set(IF block = "setup" THEN "error" ELSE at[s].prev, BlockError(block))
  /\ Return(s)
  /\ UNCHANGED <<stored, pulls, audits>>

ApplyStart(a) ==
  /\ at[a].pc = "idle"
  /\ stored
  /\ Go(a, "loaded")
  /\ UNCHANGED <<account, stored, pulls, audits>>

-----------------------------------------------------------------------------
(* ensureFreshPlatformTokens, for a sync and for an apply alike, and       *)
(* storeTokens, for a refresh and for a connect alike.                     *)

\* Seeded fault: a stored rejection is not looked at.
TokensRefusedNever == FALSE

\* The account says that its tokens were rejected.
TokensRefused == NeedsReconnect

FreshRefused(c) ==
  /\ at[c].pc = "loaded"
  /\ TokensRefused
  /\ Go(c, "expired")
  /\ UNCHANGED <<account, stored, pulls, audits>>

\* Good for use, near their end, or (Meta) past it.
FreshRead(c) ==
  /\ at[c].pc = "loaded"
  /\ ~TokensRefused
  /\ \E place \in {"use", "refresh"} \cup (IF Google THEN {} ELSE {"reject"}) : Go(c, place)
  /\ UNCHANGED <<account, stored, pulls, audits>>

\* A Google refresh that returns the same token counts as rejected.
RefreshAnswers ==
  {"store", "reject", "denied", "later", "broken"} \cup (IF Google THEN {} ELSE {"limited"})

Refresh(c) ==
  /\ at[c].pc = "refresh"
  /\ \E answer \in RefreshAnswers : Go(c, answer)
  /\ UNCHANGED <<account, stored, pulls, audits>>

\* Marked here, and once more where the error is caught.
Reject(c) ==
  /\ at[c].pc = "reject"
  /\ MarkReconnect
  /\ at' = NoteLate([at EXCEPT ![c].pc = "expired"])
  /\ UNCHANGED <<stored, pulls>>

\* Where a call goes on once the tokens are stored.
AfterStore(c) == IF c = Owner THEN at' = [at EXCEPT ![c] = Rest] ELSE Go(c, "use")

\* storeTokens looks for a row first.  Updating it changes what it holds and not
\* that it is there; if it was deleted since, the update finds nothing.
StoreUpdate(c) ==
  /\ at[c].pc = "store"
  /\ stored
  /\ AfterStore(c)
  /\ UNCHANGED <<account, stored, pulls, audits>>

StoreMissing(c) ==
  /\ at[c].pc = "store"
  /\ ~stored
  /\ Go(c, "insert")
  /\ UNCHANGED <<account, stored, pulls, audits>>

StoreInsert(c) ==
  /\ at[c].pc = "insert"
  /\ stored' = TRUE
  /\ AfterStore(c)
  /\ UNCHANGED <<account, pulls, audits>>

-----------------------------------------------------------------------------
(* The call itself and what is written after it.                           *)

\* A Google pull or mutate does not classify a refused token.
UseAnswers ==
  {"broken"} \cup IF Google THEN {"later"} ELSE {"expired", "limited", "denied"}

UseFailed(c) ==
  /\ at[c].pc = "use"
  /\ \E answer \in UseAnswers : Go(c, answer)
  /\ UNCHANGED <<account, stored, pulls, audits>>

Pull(s) ==
  /\ at[s].pc = "use"
  /\ Go(s, "write")
  /\ UNCHANGED <<account, stored, pulls, audits>>

Mutate(a) ==
  /\ at[a].pc = "use"
  /\ Return(a)
  /\ UNCHANGED <<account, stored, pulls, audits>>

\* One transaction that holds the account's row.  Google may have pulled a part.
SyncWrite(s) ==
  /\ at[s].pc = "write"
  /\ IF account.status = "disconnected" THEN UNCHANGED <<account, pulls>>
     ELSE /\ pulls' = 1 - pulls
          /\ \E error \in {"none"} \cup (IF Google THEN {"code"} ELSE {}) :
               Set("connected", error)
  /\ Return(s)
  /\ UNCHANGED <<stored, audits>>

\* The token was refused: a sync and an apply both mark the account.
Expired(c) ==
  /\ at[c].pc = "expired"
  /\ MarkReconnect
  /\ at' = NoteLate([at EXCEPT ![c] = Rest])
  /\ UNCHANGED <<stored, pulls>>

\* "syncing" was another sync's, which may have ended since.
Restored(prev) == IF prev = "syncing" THEN "connected" ELSE prev

\* A rate limit, a failed refresh, no answer: Google's 5xx leaves no error.
SyncLater(s) ==
  /\ at[s].pc \in {"limited", "later"}
  /\ IF account.status = "disconnected" THEN UNCHANGED account
     ELSE \E error \in {"code"} \cup (IF Google THEN {"none"} ELSE {}) :
            Set(Restored(at[s].prev), error)
  /\ Return(s)
  /\ UNCHANGED <<stored, pulls, audits>>

\* A missing permission, a wrong OAuth setup.
SyncDenied(s) ==
  /\ at[s].pc = "denied"
  /\ IF StillOpen THEN Set("error", "code") ELSE UNCHANGED account
  /\ Return(s)
  /\ UNCHANGED <<stored, pulls, audits>>

SyncBroken(s) ==
  /\ at[s].pc = "broken"
  /\ IF account.status = "disconnected" THEN UNCHANGED account ELSE Set("error", "code")
  /\ Return(s)
  /\ UNCHANGED <<stored, pulls, audits>>

\* An apply notes Meta's rate limit and missing permission, and nothing else.
ApplyFailed(a) ==
  /\ at[a].pc \in Failures \ {"expired"}
  /\ IF ~Google /\ at[a].pc \in {"limited", "denied"} /\ StillOpen
     THEN Set(account.status, "code") ELSE UNCHANGED account
  /\ Return(a)
  /\ UNCHANGED <<stored, pulls, audits>>

-----------------------------------------------------------------------------
(* Owners, and the process that runs a call.                               *)

\* upsertConnectedAccount: the row in its transaction, the tokens after it.
Connect ==
  /\ at[Owner].pc = "idle"
  /\ Set("connected", "none")
  /\ Go(Owner, "store")
  /\ UNCHANGED <<stored, pulls, audits>>

\* One transaction that holds the row.
Disconnect ==
  /\ Set("disconnected", "none")
  /\ stored' = FALSE
  /\ UNCHANGED <<pulls, audits, at>>

\* A sync's step is run again from its start.
Crash(c) ==
  /\ at[c].pc \notin {"idle", "dead"}
  /\ at' = [at EXCEPT ![c] = IF c \in Syncs THEN [Rest EXCEPT !.pc = "dead"] ELSE Rest]
  /\ UNCHANGED <<account, stored, pulls, audits>>

Sync(s) ==
  \/ SyncStart(s) \/ SyncNotStarted(s) \/ SyncMark(s) \/ SyncMarkRefused(s)
  \/ SyncLoad(s) \/ SyncBlocked(s) \/ Pull(s) \/ SyncWrite(s)
  \/ SyncLater(s) \/ SyncDenied(s) \/ SyncBroken(s)
Apply(a) == ApplyStart(a) \/ Mutate(a) \/ ApplyFailed(a)
Tokens(c) ==
  \/ FreshRefused(c) \/ FreshRead(c) \/ Refresh(c) \/ Reject(c)
  \/ UseFailed(c) \/ Expired(c)
Store(c) == StoreUpdate(c) \/ StoreMissing(c) \/ StoreInsert(c) \/ Crash(c)

Next ==
  \/ \E s \in Syncs : Sync(s)
  \/ \E a \in Applies : Apply(a)
  \/ \E c \in Callers : Tokens(c)
  \/ \E c \in Storers : Store(c)
  \/ Connect
  \/ Disconnect

Spec == Init /\ [][Next]_vars

-----------------------------------------------------------------------------
(* Properties.                                                             *)

\* Every variable has its shape; a sync never remembers a status at which it
\* would not have begun.
TypeOK ==
  /\ account \in [status : Statuses, error : LastErrors]
  /\ stored \in BOOLEAN
  /\ pulls \in {0, 1}
  /\ audits \in {0, 1}
  /\ at \in [Storers -> [pc : Places, prev : {"none", "syncing", "connected", "error"},
                         late : BOOLEAN]]

\* The two columns that say that tokens were rejected agree: no writer sets or
\* clears one without the other, so the checks of either one find the same.
ReconnectAgrees == account.status = "needs_reconnect" <=> account.error = "reconnect"

\* Once an account needs a new connection, no call that looked at it afterwards
\* takes its tokens to the platform, be it a sync or an apply (sync.ts:69-93,
\* meta-token.ts:79-93).
Taken == {"refresh", "store", "insert", "use", "write", "reject"}
RejectedIsNotUsed ==
  account.status = "needs_reconnect" =>
    \A c \in Callers : at[c].pc \in Taken => at[c].late

\* needs_reconnect is left by an owner, or else by a sync that was already under
\* way when the account was marked; a later one never sets it back to connected.
ReconnectLeftOnlyByLate ==
  [][account.status = "needs_reconnect" /\ account'.status # "needs_reconnect" =>
       \/ account'.status = "disconnected"
       \/ at[Owner].pc = "idle" /\ at'[Owner].pc = "store"
       \/ \E s \in Syncs : at[s].late /\ at'[s] # at[s]]_vars

\* A disconnected account is left alone by every call still under way: only a
\* connect changes its row, and no pull is written for it (connect.ts:135-168,
\* and the condition of each update in sync.ts).
OnlyConnectReopens ==
  [][account.status = "disconnected" =>
       /\ pulls' = pulls
       /\ account' = account \/ (at[Owner].pc = "idle" /\ at'[Owner].pc = "store")]_vars

\* One reconnect audit for each time the account comes to need a reconnect,
\* however many calls are refused together (meta-token.ts:23-26).
OneAuditPerTransition ==
  [][audits' # audits <=>
       account.status # "needs_reconnect" /\ account'.status = "needs_reconnect"]_vars

\* An account that shows "syncing" and no error has a sync under way or about to be
\* retried.  A "syncing" that nobody works on was written back by a sync that found
\* sync.live off (sync.ts:137-147), and it carries an error, which that sync left or
\* an apply wrote over it.
SyncingIsAttended ==
  account.status = "syncing" /\ account.error = "none" => \E s \in Syncs : at[s].pc # "idle"
=============================================================================
