---------------------------- MODULE McpAdmission ----------------------------
(***************************************************************************)
(* The MCP service's way in (src/apps/mcp/src/app.ts): what a call is      *)
(* charged before its token is looked up at the ads API, the cached        *)
(* connector switch, the lookup, and what is given back.  JavaScript runs  *)
(* a handler without interruption between two awaits, so each action is    *)
(* the handler from one await to the next.                                 *)
(* The environment's kill switch is not set and flushing of denied audits  *)
(* is on: neither changes what is charged.                                 *)
(***************************************************************************)
EXTENDS Integers, FiniteSets, Sequences

CONSTANTS
  Calls,          \* requests that may be under way at once
  Addresses,      \* client addresses
  Tokens,         \* bearer tokens people present, by their hash
  Good,           \* those that belong to an identity
  Senders,        \* see Sender
  Capacity,       \* lookups the shared bucket holds
  DenialCapacity, \* denials the other bucket holds
  DenialLimit,    \* denied calls an address may make in a window
  MaxIps,         \* addresses the denial map holds
  FailureLimit,   \* failed lookups an address may make in a window
  CallLimit,      \* calls an identity may make in a window
  ProtectedMax,   \* first lookups outside the bucket in a window
  WaitingMax,     \* refused callers that are remembered
  MaxCalls,       \* bound on the calls made
  MaxRefills      \* bound on the seconds that refill the buckets

NoToken == "no token"

\* Who calls: an address, and the token it presents in a well-formed call.
\* A call without one is any that is no lookup: no bearer, a GET, a bad origin.
Sender == [ip : Addresses, token : Tokens \cup {NoToken}]

ASSUME McpAssumption ==
  /\ IsFiniteSet(Calls)
  /\ Good \subseteq Tokens
  /\ NoToken \notin Tokens
  /\ Senders \subseteq Sender
  /\ Capacity \in Nat /\ DenialCapacity \in Nat /\ DenialLimit \in Nat
  /\ MaxIps \in Nat /\ FailureLimit \in Nat /\ CallLimit \in Nat
  /\ ProtectedMax \in Nat /\ WaitingMax \in Nat \ {0}
  /\ MaxCalls \in Nat /\ MaxRefills \in Nat

VARIABLES
  call,      \* each request: where it is, who sends it, what it holds
  lookups,   \* tokens in the lookup bucket
  denials,   \* tokens in the denial bucket
  waiting,   \* callers refused for want of a token, oldest first
  failed,    \* failed lookups in the window, by address
  protected, \* addresses that had a first lookup outside the bucket
  hits,      \* denied calls in the window, by address
  window,    \* calls in the window, by token
  verified,  \* tokens that were found good lately
  switch,    \* the workspace's connector switch, at the ads API
  cached,    \* what is remembered of it
  pending,   \* the read of it under way
  revoked,   \* tokens whose identity is revoked, at the ads API
  count,     \* history: calls, lookups spent, refills, slots recorded
  since      \* history: callers remembered after each one that waits

vars == <<call, lookups, denials, waiting, failed, protected, hits, window,
          verified, switch, cached, pending, revoked, count, since>>

switchVars == <<switch, cached, pending>>
tokenVars == <<window, verified, revoked>>
addressVars == <<failed, protected>>
waitVars == <<waiting, since>>

Nobody == [ip |-> "no address", token |-> NoToken]

\* dark: came while the switch was tripped and nothing was known of it.
\* late: was sent to the ads API after the identity was revoked.
Idle == [at |-> "idle", who |-> Nobody, holds |-> "nothing", charged |-> FALSE,
         found |-> FALSE, dark |-> FALSE, late |-> FALSE]

Init ==
  /\ call = [c \in Calls |-> Idle]
  /\ lookups = Capacity
  /\ denials = DenialCapacity
  /\ waiting = <<>>
  /\ failed = [ip \in Addresses |-> 0]
  /\ protected = {}
  /\ hits = [ip \in Addresses |-> 0]
  /\ window = [t \in Tokens |-> 0]
  /\ verified = {}
  /\ switch = "clear"
  /\ cached = "none"
  /\ pending = "none"
  /\ revoked = {}
  /\ count = [calls |-> 0, spent |-> 0, back |-> 0, slots |-> 0]
  /\ since = [s \in {} |-> {}]

-----------------------------------------------------------------------------
(* What a call is charged, before anything is awaited.                      *)

IsLookup(s) == s.token # NoToken

\* An address the denial map has no room for.
MapFull(ip) ==
  hits[ip] = 0 /\ Cardinality({a \in Addresses : hits[a] > 0}) >= MaxIps

Waits(s) == \E i \in DOMAIN waiting : waiting[i] = s

\* Nobody is remembered twice.
Place(s) == CHOOSE i \in DOMAIN waiting : waiting[i] = s

Dropped(s) ==
  IF Waits(s)
  THEN SubSeq(waiting, 1, Place(s) - 1) \o SubSeq(waiting, Place(s) + 1, Len(waiting))
  ELSE waiting

\* Seeded fault: a full set takes nobody in.
NotedIfRoom(s) ==
  IF Waits(s) \/ Len(waiting) < WaitingMax THEN Append(Dropped(s), s) ELSE waiting

\* A caller that is remembered becomes the youngest; a full set drops its oldest.
Noted(s) ==
  Append(IF ~Waits(s) /\ Len(waiting) >= WaitingMax THEN Tail(waiting)
         ELSE Dropped(s), s)

NotedSince(s) ==
  [w \in DOMAIN since \cup {s} |->
     IF w = s THEN {} ELSE since[w] \cup {s}]

ForgottenSince(s) == [w \in DOMAIN since \ {s} |-> since[w]]

\* A retry from an address without a failure, once per address and window.
MayRetryFree(s) ==
  /\ Waits(s)
  /\ failed[s.ip] = 0
  /\ s.ip \notin protected
  /\ Cardinality(protected) < ProtectedMax

\* New callers leave one token to a caller that waits.
Leaves(s) == IF Capacity > 1 /\ ~Waits(s) /\ waiting # <<>> THEN 1 ELSE 0

\* Where a call goes that was let in: the switch is remembered, or is read.
Onward == IF cached = "none" THEN "switch" ELSE IF cached = "clear" THEN "body" ELSE "closed"

Entered(s, holds, charged) ==
  [at |-> Onward, who |-> s, holds |-> holds, charged |-> charged, found |-> FALSE,
   dark |-> switch = "tripped" /\ cached = "none" /\ pending \in {"none", "asked"},
   late |-> FALSE]

Admitted(c, s, holds, charged) ==
  /\ call' = [call EXCEPT ![c] = Entered(s, holds, charged)]
  /\ pending' = IF cached = "none" /\ pending = "none" THEN "asked" ELSE pending
  /\ UNCHANGED <<switch, cached>>

\* 429: nothing is charged and nothing awaited.
TooMany == UNCHANGED <<call, lookups, denials, hits, switchVars, tokenVars, addressVars>>

\* A token found good lately: the identity's window is charged, not the bucket.
AdmitKnown(c, s) ==
  /\ s.token \in verified
  /\ IF window[s.token] >= CallLimit
     THEN TooMany
     ELSE /\ window' = [window EXCEPT ![s.token] = @ + 1]
          /\ Admitted(c, s, "nothing", TRUE)
          /\ UNCHANGED <<lookups, denials, hits, verified, revoked, addressVars>>
  /\ UNCHANGED waitVars

AdmitFree(c, s) ==
  /\ protected' = protected \cup {s.ip}
  /\ waiting' = Dropped(s)
  /\ since' = ForgottenSince(s)
  /\ Admitted(c, s, "nothing", FALSE)
  /\ UNCHANGED <<lookups, denials, hits, failed, tokenVars>>

AdmitPaid(c, s) ==
  /\ lookups' = lookups - 1
  /\ waiting' = Dropped(s)
  /\ since' = ForgottenSince(s)
  /\ Admitted(c, s, "lookup", FALSE)
  /\ UNCHANGED <<denials, hits, tokenVars, addressVars>>

\* No token: the caller is remembered.
Remember(s) ==
  /\ waiting' = Noted(s)
  /\ since' = NotedSince(s)
  /\ TooMany

AdmitUnknown(c, s) ==
  /\ s.token \notin verified
  /\ IF failed[s.ip] >= FailureLimit
     THEN TooMany /\ UNCHANGED waitVars
     ELSE IF MayRetryFree(s) THEN AdmitFree(c, s)
     ELSE IF lookups >= 1 + Leaves(s) THEN AdmitPaid(c, s)
     ELSE Remember(s)

\* Any other call holds a denial until it is refused.
AdmitOther(c, s) ==
  /\ IF MapFull(s.ip) \/ hits[s.ip] >= DenialLimit \/ denials < 1
     THEN TooMany
     ELSE /\ denials' = denials - 1
          /\ Admitted(c, s, "denial", FALSE)
          /\ UNCHANGED <<lookups, hits, tokenVars, addressVars>>
  /\ UNCHANGED waitVars

Arrive(c, s) ==
  /\ call[c] = Idle
  /\ count.calls < MaxCalls
  /\ count' = [count EXCEPT !.calls = @ + 1]
  /\ IF ~IsLookup(s) THEN AdmitOther(c, s)
     ELSE IF MapFull(s.ip) THEN TooMany /\ UNCHANGED waitVars
     ELSE AdmitKnown(c, s) \/ AdmitUnknown(c, s)

-----------------------------------------------------------------------------
(* Refusals.                                                               *)

GivenBack(tokens, capacity) == IF tokens < capacity THEN tokens + 1 ELSE tokens

\* Seeded fault: a refused lookup gives its token back.
SpendsNever(c) == FALSE

\* Only a lookup that failed (401) keeps the token.
Spends(c) == call[c].at = "answered"

\* Seeded fault: a refusal is recorded though the bucket is empty.
TakesSlotAlways(c) == TRUE

\* The slot is paid with the token the call holds, or one it takes now.
TakesSlot(c) == call[c].holds = "denial" \/ denials >= 1

Reject(c) ==
  LET ip == call[c].who.ip
      recorded == TakesSlot(c) /\ ~MapFull(ip) IN
  /\ lookups' = IF call[c].holds = "lookup" /\ ~Spends(c)
                THEN GivenBack(lookups, Capacity) ELSE lookups
  /\ denials' = IF call[c].holds # "denial" /\ denials >= 1 THEN denials - 1 ELSE denials
  /\ hits' = IF recorded THEN [hits EXCEPT ![ip] = @ + 1] ELSE hits
  /\ count' = [count EXCEPT
       !.spent = IF call[c].holds = "lookup" /\ call[c].at = "answered" THEN @ + 1 ELSE @,
       !.slots = IF recorded THEN @ + 1 ELSE @]
  /\ call' = [call EXCEPT ![c] = Idle]

\* The connector is off.
RefuseClosed(c) ==
  /\ call[c].at = "closed"
  /\ Reject(c)
  /\ UNCHANGED <<switchVars, tokenVars, addressVars, waitVars>>

\* A bad origin (whatever the switch is), method or body.
RefuseShape(c) ==
  /\ \/ call[c].at = "body"
     \/ call[c].at \in {"switch", "closed"} /\ ~IsLookup(call[c].who)
  /\ Reject(c)
  /\ UNCHANGED <<switchVars, tokenVars, addressVars, waitVars>>

-----------------------------------------------------------------------------
(* The connector switch.  One read serves every call that waits for it.     *)

Seen(s) == IF s = "clear" THEN "clear" ELSE "closed"

\* Seeded fault: an ads API that cannot be reached counts as a clear switch.
UnreachableIsClear == "clear"

\* Whatever is no clear answer keeps the connector off.
Unreachable == "closed"

\* The ads API answers, or cannot be reached.
SwitchIsRead ==
  /\ pending = "asked"
  /\ pending' \in {Seen(switch), Unreachable}
  /\ UNCHANGED <<call, lookups, denials, hits, switch, cached, tokenVars, addressVars, waitVars, count>>

SwitchArrives ==
  /\ pending \in {"clear", "closed"}
  /\ cached' = pending
  /\ pending' = "none"
  /\ call' = [c \in Calls |->
       IF call[c].at = "switch"
       THEN [call[c] EXCEPT !.at = IF pending = "clear" THEN "body" ELSE "closed"]
       ELSE call[c]]
  /\ UNCHANGED <<lookups, denials, hits, switch, tokenVars, addressVars, waitVars, count>>

\* Five seconds after it was stored.
SwitchExpires ==
  /\ cached # "none"
  /\ cached' = "none"
  /\ UNCHANGED <<call, lookups, denials, hits, switch, pending, tokenVars, addressVars, waitVars, count>>

-----------------------------------------------------------------------------
(* The lookup.                                                             *)

\* Seeded fault: a token found good lately is not looked up again.
SkipsLookup(c) == call[c].who.token \in verified

\* Every call that came this far is looked up.
Trusted(c) == FALSE

Ask(c) ==
  /\ call[c].at = "body"
  /\ IsLookup(call[c].who)
  /\ call' = [call EXCEPT ![c].at = IF Trusted(c) THEN "answered" ELSE "asked",
                          ![c].found = Trusted(c),
                          ![c].late = call[c].who.token \in revoked]
  /\ UNCHANGED <<lookups, denials, hits, switchVars, tokenVars, addressVars, waitVars, count>>

\* The ads API looks the hash up among the identities that are not revoked, or
\* cannot be reached.  Whatever is no answer is taken for a refusal.
LookUp(c) ==
  /\ call[c].at = "asked"
  /\ \E reached \in BOOLEAN :
       call' = [call EXCEPT ![c].at = "answered",
                  ![c].found = reached /\ call[c].who.token \in Good \ revoked]
  /\ UNCHANGED <<lookups, denials, hits, switchVars, tokenVars, addressVars, waitVars, count>>

Unauthenticated(c) ==
  LET s == call[c].who IN
  /\ call[c].at = "answered"
  /\ ~call[c].found
  /\ verified' = verified \ {s.token}
  /\ failed' = [failed EXCEPT ![s.ip] = @ + 1]
  /\ Reject(c)
  /\ UNCHANGED <<switchVars, waitVars, window, revoked, protected>>

\* The token is good: what was held is given back, the identity is charged if it
\* was not, and the token is remembered.
Recognised(c) ==
  LET t == call[c].who.token IN
  /\ call[c].at = "answered"
  /\ call[c].found
  /\ lookups' = IF call[c].holds = "lookup" THEN GivenBack(lookups, Capacity) ELSE lookups
  /\ window' = IF call[c].charged \/ window[t] >= CallLimit THEN window
               ELSE [window EXCEPT ![t] = @ + 1]
  /\ verified' = verified \cup {t}
  /\ UNCHANGED <<switchVars, revoked, addressVars, waitVars>>

Authenticated(c) ==
  /\ Recognised(c)
  /\ call' = [call EXCEPT ![c].at = "served", ![c].holds = "nothing"]
  /\ UNCHANGED <<denials, hits, count>>

\* The identity may not use the tool: a refusal that is recorded like a denial.
OutOfScope(c) ==
  LET ip == call[c].who.ip
      recorded == denials >= 1 /\ ~MapFull(ip) IN
  /\ Recognised(c)
  /\ denials' = IF denials >= 1 THEN denials - 1 ELSE denials
  /\ hits' = IF recorded THEN [hits EXCEPT ![ip] = @ + 1] ELSE hits
  /\ count' = [count EXCEPT !.slots = IF recorded THEN @ + 1 ELSE @]
  /\ call' = [call EXCEPT ![c] = Idle]

\* The tool runs and the answer leaves.
Finish(c) ==
  /\ call[c].at = "served"
  /\ call' = [call EXCEPT ![c] = Idle]
  /\ UNCHANGED <<lookups, denials, hits, switchVars, tokenVars, addressVars, waitVars, count>>

-----------------------------------------------------------------------------
(* Time, which lets entries fall out of their windows, and the owner.       *)

Refill ==
  /\ lookups < Capacity \/ denials < DenialCapacity
  /\ count.back < MaxRefills
  /\ lookups' = GivenBack(lookups, Capacity)
  /\ denials' = GivenBack(denials, DenialCapacity)
  /\ count' = [count EXCEPT !.back = @ + 1]
  /\ UNCHANGED <<call, hits, switchVars, tokenVars, addressVars, waitVars>>

\* A minute: the windows are empty again.  What was found good stays for ten.
Minute ==
  /\ failed' = [ip \in Addresses |-> 0]
  /\ protected' = {}
  /\ hits' = [ip \in Addresses |-> 0]
  /\ window' = [t \in Tokens |-> 0]
  /\ verified' \in {verified, {}}
  /\ UNCHANGED <<call, lookups, denials, switchVars, revoked, waitVars, count>>

\* The one that was noted first has waited longest.
WaitIsOver ==
  /\ waiting # <<>>
  /\ waiting' = Tail(waiting)
  /\ since' = ForgottenSince(Head(waiting))
  /\ UNCHANGED <<call, lookups, denials, hits, switchVars, tokenVars, addressVars, count>>

FlipSwitch ==
  /\ switch' = IF switch = "clear" THEN "tripped" ELSE "clear"
  /\ call' = [c \in Calls |-> [call[c] EXCEPT !.dark = FALSE]]
  /\ UNCHANGED <<lookups, denials, hits, cached, pending, tokenVars, addressVars, waitVars, count>>

Revoke(t) ==
  /\ t \in Good \ revoked
  /\ revoked' = revoked \cup {t}
  /\ UNCHANGED <<call, lookups, denials, hits, switchVars, window, verified, addressVars, waitVars, count>>

Handle(c) ==
  \/ RefuseClosed(c) \/ RefuseShape(c) \/ Ask(c) \/ LookUp(c)
  \/ Unauthenticated(c) \/ Authenticated(c) \/ OutOfScope(c) \/ Finish(c)

Time == Refill \/ Minute \/ WaitIsOver \/ SwitchExpires

Next ==
  \/ \E c \in Calls, s \in Senders : Arrive(c, s)
  \/ \E c \in Calls : Handle(c)
  \/ SwitchIsRead \/ SwitchArrives
  \/ Time
  \/ FlipSwitch
  \/ \E t \in Tokens : Revoke(t)

Spec == Init /\ [][Next]_vars

-----------------------------------------------------------------------------
(* Properties.                                                             *)

Places == {"idle", "switch", "closed", "body", "asked", "answered", "served"}

CallType == [at : Places, who : Senders \cup {Nobody},
             holds : {"nothing", "lookup", "denial"}, charged : BOOLEAN,
             found : BOOLEAN, dark : BOOLEAN, late : BOOLEAN]

CallsOK ==
  /\ call \in [Calls -> CallType]
  /\ \A c \in Calls : call[c].at = "idle" \/ call[c].who \in Senders
  /\ \A c \in Calls :
       call[c].at \in {"asked", "answered", "served"} => IsLookup(call[c].who)

ChargesOK ==
  /\ lookups \in 0 .. Capacity
  /\ denials \in 0 .. DenialCapacity
  /\ count \in [calls : Nat, spent : Nat, back : Nat, slots : Nat]
  /\ waiting \in Seq(Senders)
  /\ DOMAIN since \subseteq Senders
  /\ failed \in [Addresses -> Nat]
  /\ protected \subseteq Addresses
  /\ hits \in [Addresses -> Nat]

TokensOK ==
  /\ window \in [Tokens -> 0 .. CallLimit]
  /\ verified \subseteq Tokens
  /\ revoked \subseteq Good

SwitchOK ==
  /\ switch \in {"clear", "tripped"}
  /\ cached \in {"none", "clear", "closed"}
  /\ pending \in {"none", "asked", "clear", "closed"}

\* Every variable holds what it may, and no bucket or window overflows
\* (limiter.ts:233-241, 300-330).
TypeOK == CallsOK /\ ChargesOK /\ TokensOK /\ SwitchOK

Holding(what) == {c \in Calls : call[c].holds = what}

LookupsArePaid ==
  count.spent + Cardinality(Holding("lookup")) + lookups <= Capacity + count.back

SlotsArePaid ==
  count.slots + Cardinality(Holding("denial")) + denials <= DenialCapacity + count.back

\* However calls interleave, both buckets add up.  The failed lookups that were paid
\* for, those still under way and the tokens left are never more than the bucket was
\* ever given: giving a held token back never mints a lookup (app.ts:227-233,
\* 460-464).  And a burst of refusals fills the denial map no faster than its bucket
\* allows: every recorded slot was paid with a token (app.ts:234-240).
BucketsAddUp == LookupsArePaid /\ SlotsArePaid

\* A call whose lookup was sent after its identity was revoked is never served,
\* although its token may still be remembered as good (limiter.ts:134-139).
RevokedIsRefused == \A c \in Calls : call[c].late => call[c].at # "served"

\* A call that comes while the switch is tripped, nothing of it is remembered and
\* no read has been answered yet is refused (kill-switch-cache.ts:12-28).
TrippedIsClosed ==
  \A c \in Calls : call[c].dark => call[c].at \in {"switch", "closed"}

\* A refused caller is remembered until it is let in, its wait is over, or
\* WaitingMax other callers were refused after it (limiter.ts:245-288).
WaiterIsRemembered ==
  \A s \in DOMAIN since : Cardinality(since[s]) < WaitingMax => Waits(s)
=============================================================================
