------------------------- MODULE McpAdmissionProofs -------------------------
(***************************************************************************)
(* What McpAdmission promises for any number of calls, addresses, tokens   *)
(* and for buckets and windows of any size.                                *)
(***************************************************************************)
EXTENDS McpAdmission, TLAPS, FiniteSetTheorems, SequenceTheorems

LEMMA Limits ==
  /\ Capacity \in Nat /\ DenialCapacity \in Nat /\ CallLimit \in Nat
  /\ WaitingMax \in Nat \ {0} /\ IsFiniteSet(Calls)
  BY McpAssumption DEF McpAssumption

LEMMA SenderParts ==
  ASSUME NEW s \in Senders
  PROVE  s.ip \in Addresses /\ s.token \in Tokens \cup {NoToken}
  BY McpAssumption DEF McpAssumption, Sender

LEMMA IdleType == Idle \in CallType
  BY DEF Idle, CallType, Places

\* A call may end where it is, or be replaced by one of a sender.
LEMMA SetCall ==
  ASSUME CallsOK, NEW c \in Calls, NEW r \in CallType,
         r.at = "idle" \/ r.who \in Senders,
         r.at \in {"asked", "answered", "served"} => IsLookup(r.who), call' = [call EXCEPT ![c] = r]
  PROVE  CallsOK'
  BY DEF CallsOK

\* The sender of a call that is under way is a sender.
LEMMA SenderOf ==
  ASSUME CallsOK, NEW c \in Calls, call[c].at # "idle"
  PROVE  /\ call[c].who \in Senders
         /\ call[c].who.ip \in Addresses
         /\ call[c].who.token \in Tokens \cup {NoToken}
  BY SenderParts DEF CallsOK

\* Every variable holds what it may at the start.
LEMMA InitTypeOK == Init => TypeOK
<1> SUFFICES ASSUME Init PROVE TypeOK
  OBVIOUS
<1>1. CallsOK
  BY IdleType DEF Init, CallsOK, Idle
<1>2. ChargesOK
  BY Limits DEF Init, ChargesOK
<1>3. TokensOK /\ SwitchOK
  BY Limits DEF Init, TokensOK, SwitchOK
<1> QED BY <1>1, <1>2, <1>3 DEF TypeOK

\* A refusal changes buckets, slots and the call, and none leaves its range.
LEMMA RejectTypeOK ==
  ASSUME TypeOK, NEW c \in Calls, call[c].at # "idle", Reject(c)
  PROVE  /\ CallsOK'
         /\ lookups' \in 0 .. Capacity
         /\ denials' \in 0 .. DenialCapacity
         /\ hits' \in [Addresses -> Nat]
         /\ count' \in [calls : Nat, spent : Nat, back : Nat, slots : Nat]
<1>1. call[c].who.ip \in Addresses
  BY SenderOf DEF TypeOK
<1>2. CallsOK'
  BY IdleType, SetCall DEF TypeOK, Reject, Idle
<1>3. lookups' \in 0 .. Capacity
  <2>1. lookups' \in {lookups, IF lookups < Capacity THEN lookups + 1 ELSE lookups}
    BY DEF Reject, GivenBack
  <2> QED BY <2>1, Limits DEF TypeOK, ChargesOK
<1>6. denials' \in 0 .. DenialCapacity
  <2>1. denials' = denials \/ (denials >= 1 /\ denials' = denials - 1)
    BY DEF Reject
  <2> QED BY <2>1, Limits DEF TypeOK, ChargesOK
<1>4. hits' \in [Addresses -> Nat]
  <2>1. hits' = hits \/ hits' = [hits EXCEPT ![call[c].who.ip] = @ + 1]
    BY DEF Reject
  <2>2. hits[call[c].who.ip] + 1 \in Nat
    BY <1>1 DEF TypeOK, ChargesOK
  <2> QED BY <1>1, <2>1, <2>2 DEF TypeOK, ChargesOK
<1>5. count' \in [calls : Nat, spent : Nat, back : Nat, slots : Nat]
  <2>1. count.spent \in Nat /\ count.slots \in Nat
    BY DEF TypeOK, ChargesOK
  <2>2. count' = [count EXCEPT !.spent = count'.spent, !.slots = count'.slots]
    BY DEF Reject, TypeOK, ChargesOK
  <2>3. count'.spent \in Nat /\ count'.slots \in Nat
    BY <2>1 DEF Reject, TypeOK, ChargesOK
  <2> QED BY <2>2, <2>3 DEF TypeOK, ChargesOK
<1> QED BY <1>2, <1>3, <1>4, <1>5, <1>6

\* A caller may be dropped from the waiting ones.
LEMMA DroppedType ==
  ASSUME TypeOK, NEW s \in Senders
  PROVE  Dropped(s) \in Seq(Senders)
<1>1. CASE Waits(s)
  <2>1. Place(s) \in 1 .. Len(waiting)
    BY <1>1 DEF Waits, Place, TypeOK, ChargesOK
  <2> QED BY <1>1, <2>1 DEF Dropped, TypeOK, ChargesOK
<1>2. CASE ~Waits(s)
  BY <1>2 DEF Dropped, TypeOK, ChargesOK
<1> QED BY <1>1, <1>2

\* What letting a call in does to the calls and to the read of the switch.
LEMMA AdmittedTypeOK ==
  ASSUME TypeOK, NEW c \in Calls, NEW s \in Senders, NEW charged \in BOOLEAN,
         NEW what \in {"nothing", "lookup", "denial"}, Admitted(c, s, what, charged)
  PROVE  CallsOK' /\ SwitchOK'
<1>2. Entered(s, what, charged) \in CallType /\ Entered(s, what, charged).who \in Senders
  BY DEF CallType, Entered, Onward, Places
<1>3. call' = [call EXCEPT ![c] = Entered(s, what, charged)]
  BY DEF Admitted
<1>4. CallsOK'
  BY <1>2, <1>3, SetCall DEF TypeOK, Entered, Onward
<1>5. SwitchOK'
  BY DEF TypeOK, SwitchOK, Admitted
<1> QED BY <1>4, <1>5

\* An arrival keeps every variable in its range.
LEMMA ArriveTypeOK ==
  ASSUME TypeOK, NEW c \in Calls, NEW s \in Senders, Arrive(c, s)
  PROVE  TypeOK'
<1> USE Limits DEF Arrive
<1>0. count' \in [calls : Nat, spent : Nat, back : Nat, slots : Nat]
  <2>1. count' = [count EXCEPT !.calls = @ + 1]
    OBVIOUS
  <2>2. count \in [calls : Nat, spent : Nat, back : Nat, slots : Nat] /\ count.calls + 1 \in Nat
    BY DEF TypeOK, ChargesOK
  <2> HIDE DEF Arrive
  <2> QED BY <2>1, <2>2
<1>1. s.ip \in Addresses /\ s.token \in Tokens \cup {NoToken}
  BY SenderParts
<1>2. ASSUME TooMany, UNCHANGED waitVars PROVE TypeOK'
  BY <1>0, <1>2 DEF TooMany, TypeOK, CallsOK, ChargesOK, TokensOK, SwitchOK, waitVars,
    switchVars, tokenVars, addressVars
<1>3. CASE ~IsLookup(s) /\ AdmitOther(c, s) /\ ~TooMany
  <2>0. denials \in Nat
    BY DEF TypeOK, ChargesOK
  <2>1. /\ ~(denials < 1)
        /\ Admitted(c, s, "denial", FALSE) /\ denials' = denials - 1
        /\ UNCHANGED <<lookups, hits, tokenVars, addressVars, waitVars>>
    BY <1>3 DEF AdmitOther
  <2>2. CallsOK' /\ SwitchOK'
    BY <2>1, AdmittedTypeOK
  <2>3. denials' \in 0 .. DenialCapacity
    BY <2>0, <2>1 DEF TypeOK, ChargesOK
  <2> QED BY <1>0, <2>1, <2>2, <2>3 DEF TypeOK, ChargesOK, TokensOK, waitVars,
    tokenVars, addressVars
<1>4. CASE IsLookup(s) /\ AdmitKnown(c, s) /\ ~TooMany
  <2>1. /\ ~(window[s.token] >= CallLimit)
        /\ window' = [window EXCEPT ![s.token] = @ + 1]
        /\ Admitted(c, s, "nothing", TRUE)
        /\ UNCHANGED <<lookups, denials, hits, verified, revoked, addressVars, waitVars>>
    BY <1>4 DEF AdmitKnown
  <2>0. s.token \in Tokens /\ window[s.token] \in Nat
    BY <1>1, <1>4 DEF IsLookup, TypeOK, TokensOK
  <2>2. CallsOK' /\ SwitchOK'
    BY <2>1, AdmittedTypeOK
  <2>3. window' \in [Tokens -> 0 .. CallLimit]
    BY <2>0, <2>1 DEF TypeOK, TokensOK
  <2> QED BY <1>0, <2>1, <2>2, <2>3 DEF TypeOK, ChargesOK, TokensOK, waitVars, addressVars
<1>5. CASE IsLookup(s) /\ AdmitUnknown(c, s) /\ ~(TooMany /\ UNCHANGED waitVars)
  <2>1. CASE AdmitFree(c, s)
    <3>1. CallsOK' /\ SwitchOK'
      BY <2>1, AdmittedTypeOK DEF AdmitFree
    <3> QED BY <1>0, <1>1, <2>1, <3>1, DroppedType DEF AdmitFree, ForgottenSince, TypeOK,
      ChargesOK, TokensOK, tokenVars
  <2>2. CASE AdmitPaid(c, s) /\ lookups >= 1 + Leaves(s)
    <3>1. CallsOK' /\ SwitchOK'
      BY <2>2, AdmittedTypeOK DEF AdmitPaid
    <3>2. lookups - 1 \in 0 .. Capacity
      BY <2>2 DEF Leaves, TypeOK, ChargesOK
    <3> QED BY <1>0, <2>2, <3>1, <3>2, DroppedType DEF AdmitPaid, ForgottenSince, TypeOK,
      ChargesOK, TokensOK, tokenVars, addressVars
  <2>3. CASE Remember(s)
    <3>1. ASSUME ~Waits(s), Len(waiting) >= WaitingMax PROVE Noted(s) \in Seq(Senders)
      <4>1. waiting # <<>> /\ waiting \in Seq(Senders)
        BY <3>1 DEF TypeOK, ChargesOK
      <4> QED BY <3>1, <4>1 DEF Noted
    <3>2. Noted(s) \in Seq(Senders)
      BY <3>1, DroppedType DEF Noted
    <3>3. DOMAIN NotedSince(s) \subseteq Senders
      BY DEF NotedSince, TypeOK, ChargesOK
    <3> QED BY <1>0, <2>3, <3>2, <3>3 DEF Remember, TooMany, TypeOK, CallsOK, ChargesOK,
      TokensOK, SwitchOK, switchVars, tokenVars, addressVars
  <2> QED BY <1>5, <2>1, <2>2, <2>3 DEF AdmitUnknown
<1>6. AdmitKnown(c, s) \/ AdmitOther(c, s) => UNCHANGED waitVars
  BY DEF AdmitKnown, AdmitOther
<1> QED BY <1>2, <1>3, <1>4, <1>5, <1>6

\* What a call does while it is handled keeps every variable in its range.
LEMMA HandleTypeOK ==
  ASSUME TypeOK, NEW c \in Calls, Handle(c)
  PROVE  TypeOK'
<1>1. CASE RefuseClosed(c) \/ RefuseShape(c)
  <2>1. call[c].at # "idle" /\ Reject(c)
    BY <1>1 DEF RefuseClosed, RefuseShape
  <2>2. UNCHANGED <<switchVars, tokenVars, addressVars, waitVars>>
    BY <1>1 DEF RefuseClosed, RefuseShape
  <2> QED BY <2>1, <2>2, RejectTypeOK DEF TypeOK, ChargesOK, TokensOK, SwitchOK,
    switchVars, tokenVars, addressVars, waitVars
<1>2. CASE Unauthenticated(c)
  <2>1. call[c].at # "idle" /\ Reject(c)
    BY <1>2 DEF Unauthenticated
  <2>2. failed' \in [Addresses -> Nat]
    <3>1. call[c].who.ip \in Addresses
      BY <2>1, SenderOf DEF TypeOK
    <3>2. failed' = [failed EXCEPT ![call[c].who.ip] = @ + 1]
      BY <1>2 DEF Unauthenticated
    <3> QED BY <3>1, <3>2 DEF TypeOK, ChargesOK
  <2>3. verified' \subseteq Tokens
    BY <1>2 DEF Unauthenticated, TypeOK, TokensOK
  <2>4. UNCHANGED <<switchVars, waitVars, window, revoked, protected>>
    BY <1>2 DEF Unauthenticated
  <2> QED BY <2>1, <2>2, <2>3, <2>4, RejectTypeOK DEF TypeOK, ChargesOK, TokensOK, SwitchOK,
    switchVars, waitVars
<1>3. CASE Ask(c) \/ LookUp(c) \/ Finish(c)
  <2>1. CallsOK'
    <3>1. CASE Ask(c)
      <4>1. Trusted(c) \in BOOLEAN
        BY DEF Trusted
      <4>2. call[c] \in CallType /\ call[c].who \in Senders /\ IsLookup(call[c].who)
        BY <3>1 DEF Ask, TypeOK, CallsOK
      <4> DEFINE r == [call[c] EXCEPT !.at = IF Trusted(c) THEN "answered" ELSE "asked",
                         !.found = Trusted(c), !.late = call[c].who.token \in revoked]
      <4>0. /\ r.at \in {"asked", "answered"} /\ r.found \in BOOLEAN /\ r.late \in BOOLEAN
            /\ r = [call[c] EXCEPT !.at = r.at, !.found = r.found, !.late = r.late]
        BY <4>1, <4>2 DEF CallType
      <4>3. r \in CallType /\ r.who = call[c].who
        <5> HIDE DEF r
        <5> QED BY <4>0, <4>2 DEF CallType, Places
      <4>4. call' = [call EXCEPT ![c] = r]
        BY <3>1, <4>2 DEF Ask, TypeOK, CallsOK
      <4> QED BY <4>2, <4>3, <4>4, SetCall DEF TypeOK
    <3>2. CASE LookUp(c)
      <4>1. PICK reached \in BOOLEAN :
              call' = [call EXCEPT ![c].at = "answered",
                         ![c].found = reached /\ call[c].who.token \in Good \ revoked]
        BY <3>2 DEF LookUp
      <4>2. call[c] \in CallType /\ call[c].who \in Senders /\ IsLookup(call[c].who)
        BY <3>2 DEF LookUp, TypeOK, CallsOK
      <4> DEFINE r == [call[c] EXCEPT !.at = "answered",
                         !.found = reached /\ call[c].who.token \in Good \ revoked]
      <4>3. r \in CallType /\ r.who = call[c].who
        BY <4>2 DEF CallType, Places
      <4>4. call' = [call EXCEPT ![c] = r]
        BY <4>1, <4>2 DEF TypeOK, CallsOK
      <4> QED BY <4>2, <4>3, <4>4, SetCall DEF TypeOK
    <3>3. CASE Finish(c)
      BY <3>3, IdleType, SetCall DEF Finish, TypeOK, Idle
    <3> QED BY <1>3, <3>1, <3>2, <3>3
  <2>2. UNCHANGED <<lookups, denials, hits, switchVars, tokenVars, addressVars, waitVars, count>>
    BY <1>3 DEF Ask, LookUp, Finish
  <2> QED BY <2>1, <2>2 DEF TypeOK, ChargesOK, TokensOK, SwitchOK, switchVars, tokenVars,
    addressVars, waitVars
<1>4. CASE Authenticated(c) \/ OutOfScope(c)
  <2>1. /\ call[c] \in CallType /\ call[c].who \in Senders
        /\ IsLookup(call[c].who) /\ call[c].who.token \in Tokens /\ call[c].who.ip \in Addresses
    <3>1. call[c].at = "answered"
      BY <1>4 DEF Authenticated, OutOfScope, Recognised
    <3> QED BY <3>1, SenderOf DEF TypeOK, CallsOK, IsLookup
  <2>7. Recognised(c)
    BY <1>4 DEF Authenticated, OutOfScope
  <2> DEFINE r == [call[c] EXCEPT !.at = "served", !.holds = "nothing"]
  <2>2. CallsOK'
    <3>1. r \in CallType /\ r.who = call[c].who
      BY <2>1 DEF CallType, Places
    <3>2. call' = [call EXCEPT ![c] = r] \/ call' = [call EXCEPT ![c] = Idle]
      BY <1>4, <2>1 DEF Authenticated, OutOfScope, TypeOK, CallsOK
    <3>3. Idle.at = "idle"
      BY DEF Idle
    <3> HIDE DEF r
    <3> QED BY <2>1, <3>1, <3>2, <3>3, IdleType, SetCall DEF TypeOK
  <2>3. lookups' \in 0 .. Capacity
    <3>1. lookups' \in {lookups, IF lookups < Capacity THEN lookups + 1 ELSE lookups}
      BY <2>7 DEF Recognised, GivenBack
    <3> QED BY <3>1, Limits DEF TypeOK, ChargesOK
  <2>4. window' \in [Tokens -> 0 .. CallLimit]
    <3>1. \/ window' = window
          \/ /\ ~(window[call[c].who.token] >= CallLimit)
             /\ window' = [window EXCEPT ![call[c].who.token] = @ + 1]
      BY <2>7 DEF Recognised
    <3> QED BY <2>1, <3>1, Limits DEF TypeOK, TokensOK
  <2>5. verified' \subseteq Tokens
    BY <2>1, <2>7 DEF Recognised, TypeOK, TokensOK
  <2>6. UNCHANGED <<switchVars, revoked, addressVars, waitVars>>
    BY <2>7 DEF Recognised
  <2>8. /\ denials' \in 0 .. DenialCapacity
        /\ hits' \in [Addresses -> Nat]
        /\ count' \in [calls : Nat, spent : Nat, back : Nat, slots : Nat]
    <3>1. CASE UNCHANGED <<denials, hits, count>>
      BY <3>1 DEF TypeOK, ChargesOK
    <3>2. CASE OutOfScope(c)
      <4>1. denials' = denials \/ (denials >= 1 /\ denials' = denials - 1)
        BY <3>2 DEF OutOfScope
      <4>2. hits' = hits \/ hits' = [hits EXCEPT ![call[c].who.ip] = @ + 1]
        BY <3>2 DEF OutOfScope
      <4>3. hits[call[c].who.ip] + 1 \in Nat /\ count.slots + 1 \in Nat
        BY <2>1 DEF TypeOK, ChargesOK
      <4>4. count' = count \/ count' = [count EXCEPT !.slots = @ + 1]
        BY <3>2 DEF OutOfScope, TypeOK, ChargesOK
      <4>5. denials' \in 0 .. DenialCapacity
        BY <4>1, Limits DEF TypeOK, ChargesOK
      <4>6. hits' \in [Addresses -> Nat]
        BY <2>1, <4>2, <4>3 DEF TypeOK, ChargesOK
      <4>7. count' \in [calls : Nat, spent : Nat, back : Nat, slots : Nat]
        BY <4>3, <4>4 DEF TypeOK, ChargesOK
      <4> QED BY <4>5, <4>6, <4>7
    <3> QED BY <1>4, <3>1, <3>2 DEF Authenticated
  <2> QED BY <2>2, <2>3, <2>4, <2>5, <2>6, <2>8 DEF TypeOK, ChargesOK, TokensOK, SwitchOK,
    switchVars, addressVars, waitVars
<1> QED BY <1>1, <1>2, <1>3, <1>4 DEF Handle

\* Time, the read of the switch and the owner keep every variable in its range.
LEMMA OtherTypeOK ==
  ASSUME TypeOK, SwitchIsRead \/ SwitchArrives \/ Time \/ FlipSwitch \/ (\E t \in Tokens : Revoke(t))
  PROVE  TypeOK'
<1> USE DEF switchVars, tokenVars, addressVars, waitVars
<1>1. CASE SwitchIsRead
  BY <1>1 DEF SwitchIsRead, Seen, Unreachable, TypeOK, CallsOK, ChargesOK, TokensOK, SwitchOK
<1>2. CASE SwitchArrives
  <2>1. \A c \in Calls : /\ call'[c] \in CallType
                        /\ call'[c].who = call[c].who
                        /\ \/ call'[c].at = call[c].at
                           \/ /\ call[c].at = "switch"
                              /\ call'[c].at \in {"body", "closed"}
    <3> SUFFICES ASSUME NEW c \in Calls
                 PROVE  /\ call'[c] \in CallType
                        /\ call'[c].who = call[c].who
                        /\ \/ call'[c].at = call[c].at
                           \/ /\ call[c].at = "switch"
                              /\ call'[c].at \in {"body", "closed"}
      OBVIOUS
    <3>1. call[c] \in CallType
      BY DEF TypeOK, CallsOK
    <3>2. \/ call'[c] = call[c]
          \/ /\ call[c].at = "switch"
             /\ call'[c] = [call[c] EXCEPT !.at = IF pending = "clear" THEN "body" ELSE "closed"]
      BY <1>2 DEF SwitchArrives
    <3> QED BY <3>1, <3>2 DEF CallType, Places
  <2>2. call' \in [Calls -> CallType]
    BY <1>2, <2>1 DEF SwitchArrives
  <2>3. CallsOK'
    BY <2>1, <2>2 DEF TypeOK, CallsOK
  <2> QED BY <1>2, <2>3 DEF SwitchArrives, TypeOK, ChargesOK, TokensOK, SwitchOK
<1>3. CASE SwitchExpires
  BY <1>3 DEF SwitchExpires, TypeOK, CallsOK, ChargesOK, TokensOK, SwitchOK
<1>4. CASE Refill
  <2>1. /\ lookups' \in {lookups, IF lookups < Capacity THEN lookups + 1 ELSE lookups}
        /\ denials' \in {denials, IF denials < DenialCapacity THEN denials + 1 ELSE denials}
        /\ count' = [count EXCEPT !.back = @ + 1]
        /\ UNCHANGED <<call, hits, switchVars, tokenVars, addressVars, waitVars>>
    BY <1>4 DEF Refill, GivenBack
  <2>2. /\ lookups \in 0 .. Capacity /\ denials \in 0 .. DenialCapacity
        /\ count \in [calls : Nat, spent : Nat, back : Nat, slots : Nat] /\ count.back + 1 \in Nat
    BY DEF TypeOK, ChargesOK
  <2>3. lookups' \in 0 .. Capacity /\ denials' \in 0 .. DenialCapacity
    BY <2>1, <2>2, Limits
  <2>4. count' \in [calls : Nat, spent : Nat, back : Nat, slots : Nat]
    BY <2>1, <2>2
  <2> QED BY <2>1, <2>3, <2>4 DEF TypeOK, CallsOK, ChargesOK, TokensOK, SwitchOK
<1>5. CASE Minute
  BY <1>5, Limits DEF Minute, TypeOK, CallsOK, ChargesOK, TokensOK, SwitchOK
<1>6. CASE WaitIsOver
  <2>1. waiting' \in Seq(Senders) /\ DOMAIN since' \subseteq Senders
    BY <1>6 DEF WaitIsOver, ForgottenSince, TypeOK, ChargesOK
  <2> QED BY <1>6, <2>1 DEF WaitIsOver, TypeOK, CallsOK, ChargesOK, TokensOK, SwitchOK
<1>7. CASE FlipSwitch
  <2>1. \A c \in Calls : /\ call'[c] \in CallType
                        /\ call'[c].who = call[c].who /\ call'[c].at = call[c].at
    BY <1>7 DEF FlipSwitch, TypeOK, CallsOK, CallType
  <2>2. call' \in [Calls -> CallType]
    BY <1>7, <2>1 DEF FlipSwitch
  <2>3. CallsOK'
    BY <2>1, <2>2 DEF TypeOK, CallsOK
  <2> QED BY <1>7, <2>3 DEF FlipSwitch, TypeOK, ChargesOK, TokensOK, SwitchOK
<1>8. CASE \E t \in Tokens : Revoke(t)
  BY <1>8 DEF Revoke, TypeOK, CallsOK, ChargesOK, TokensOK, SwitchOK
<1> QED BY <1>1, <1>2, <1>3, <1>4, <1>5, <1>6, <1>7, <1>8 DEF Time

\* A step that changes nothing keeps every variable in its range.
LEMMA StutterTypeOK == TypeOK /\ UNCHANGED vars => TypeOK'
  BY DEF vars, TypeOK, CallsOK, ChargesOK, TokensOK, SwitchOK

\* Every variable holds what it may, and no bucket or window overflows, for any
\* number of calls (limiter.ts:233-241, 300-330).
THEOREM TypeCorrect == Spec => []TypeOK
<1>1. TypeOK /\ [Next]_vars => TypeOK'
  BY ArriveTypeOK, HandleTypeOK, OtherTypeOK, StutterTypeOK DEF Next
<1> QED BY <1>1, InitTypeOK, PTL DEF Spec

-----------------------------------------------------------------------------
(* The two ledgers.                                                        *)

Weight(r, what) == IF r.holds = what THEN 1 ELSE 0

\* Changing one call changes the number of holders by what that call holds.
LEMMA Recount ==
  ASSUME NEW c \in Calls, NEW what,
         \A d \in Calls \ {c} : call'[d].holds = call[d].holds
  PROVE  /\ Cardinality(Holding(what)) \in Nat
         /\ Cardinality(Holding(what)') =
              Cardinality(Holding(what)) - Weight(call[c], what) + Weight(call'[c], what)
<1> DEFINE others == {d \in Calls \ {c} : call[d].holds = what}
<1>1. IsFiniteSet(others)
  BY Limits, FS_Subset
<1>2. Cardinality(others) \in Nat /\ c \notin others
  BY <1>1, FS_CardinalityType
<1>3. Cardinality(others \cup {c}) = Cardinality(others) + 1
  BY <1>1, <1>2, FS_AddElement
<1>4. Holding(what) = IF call[c].holds = what THEN others \cup {c} ELSE others
  BY DEF Holding
<1>5. Holding(what)' = IF call'[c].holds = what THEN others \cup {c} ELSE others
  BY DEF Holding
<1> HIDE DEF others
<1> QED BY <1>2, <1>3, <1>4, <1>5 DEF Weight

\* Nothing changes hands when no call changes what it holds.
LEMMA SameHolders ==
  ASSUME NEW what, \A d \in Calls : call'[d].holds = call[d].holds
  PROVE  Cardinality(Holding(what)') = Cardinality(Holding(what))
  BY DEF Holding

LEMMA Numbers ==
  ASSUME TypeOK
  PROVE  /\ lookups \in Nat /\ denials \in Nat
         /\ count.spent \in Nat /\ count.back \in Nat /\ count.slots \in Nat
         /\ Cardinality(Holding("lookup")) \in Nat
         /\ Cardinality(Holding("denial")) \in Nat
<1>1. \A what : IsFiniteSet(Holding(what))
  BY Limits, FS_Subset DEF Holding
<1> QED BY <1>1, FS_CardinalityType, Limits DEF TypeOK, ChargesOK

\* A call that is set to r leaves the others alone.
LEMMA SetOne ==
  ASSUME TypeOK, NEW c \in Calls, NEW r, call' = [call EXCEPT ![c] = r]
  PROVE  call'[c] = r /\ \A d \in Calls \ {c} : call'[d].holds = call[d].holds
  BY DEF TypeOK, CallsOK

LEMMA InitLedgers == Init => BucketsAddUp
<1> SUFFICES ASSUME Init PROVE BucketsAddUp
  OBVIOUS
<1>1. Holding("lookup") = {} /\ Holding("denial") = {}
  BY DEF Init, Holding, Idle
<1>2. count.spent = 0 /\ count.back = 0 /\ count.slots = 0
  BY DEF Init
<1>3. Cardinality(Holding("lookup")) = 0 /\ Cardinality(Holding("denial")) = 0
  BY <1>1, FS_EmptySet
<1>4. lookups = Capacity /\ denials = DenialCapacity
  BY DEF Init
<1> QED BY <1>2, <1>3, <1>4, Limits DEF BucketsAddUp, LookupsArePaid, SlotsArePaid

\* A refusal spends, gives back or records no more than the call held or took.
LEMMA RejectLedgers ==
  ASSUME TypeOK, BucketsAddUp, NEW c \in Calls, Reject(c)
  PROVE  BucketsAddUp'
<1>1. call'[c] = Idle /\ \A d \in Calls \ {c} : call'[d].holds = call[d].holds
  BY SetOne DEF Reject
<1>2. \A what \in {"lookup", "denial"} :
        Cardinality(Holding(what)') = Cardinality(Holding(what)) - Weight(call[c], what)
  BY <1>1, Recount DEF Weight, Idle
<1>3. /\ count'.back = count.back
      /\ count'.spent = IF call[c].holds = "lookup" /\ call[c].at = "answered"
                        THEN count.spent + 1 ELSE count.spent
      /\ count'.slots = IF TakesSlot(c) /\ ~MapFull(call[c].who.ip)
                        THEN count.slots + 1 ELSE count.slots
  BY DEF Reject, TypeOK, ChargesOK
<1>4. LookupsArePaid'
  <2>1. lookups' = IF call[c].holds = "lookup" /\ call[c].at # "answered" /\ lookups < Capacity
                   THEN lookups + 1 ELSE lookups
    BY DEF Reject, Spends, GivenBack
  <2> QED BY <1>2, <1>3, <2>1, Numbers, Limits DEF Weight, BucketsAddUp, LookupsArePaid
<1>5. SlotsArePaid'
  <2>1. denials' = IF call[c].holds # "denial" /\ denials >= 1 THEN denials - 1 ELSE denials
    BY DEF Reject
  <2> QED BY <1>2, <1>3, <2>1, Numbers, Limits DEF Weight, TakesSlot, BucketsAddUp, SlotsArePaid
<1> QED BY <1>4, <1>5 DEF BucketsAddUp

\* What an arrival takes from a bucket, it holds.
LEMMA ArriveLedgers ==
  ASSUME TypeOK, BucketsAddUp, NEW c \in Calls, NEW s \in Senders, Arrive(c, s)
  PROVE  BucketsAddUp'
<1>1. call[c].holds = "nothing"
  BY DEF Arrive, Idle
<1>2. /\ count'.back = count.back /\ count'.spent = count.spent
      /\ count'.slots = count.slots
  BY DEF Arrive, TypeOK, ChargesOK
<1>3. ASSUME UNCHANGED <<call, lookups, denials>> PROVE BucketsAddUp'
  <2>1. \A what : Cardinality(Holding(what)') = Cardinality(Holding(what))
    BY <1>3, SameHolders
  <2> QED BY <1>2, <1>3, <2>1 DEF BucketsAddUp, LookupsArePaid, SlotsArePaid
<1>4. ASSUME NEW what \in {"nothing", "lookup", "denial"}, NEW charged, Admitted(c, s, what, charged),
             lookups' = lookups - (IF what = "lookup" THEN 1 ELSE 0),
             denials' = denials - (IF what = "denial" THEN 1 ELSE 0)
      PROVE  BucketsAddUp'
  <2>1. call'[c].holds = what /\ \A d \in Calls \ {c} : call'[d].holds = call[d].holds
    <3>1. call' = [call EXCEPT ![c] = Entered(s, what, charged)]
      BY <1>4 DEF Admitted
    <3>2. Entered(s, what, charged).holds = what
      BY DEF Entered
    <3> QED BY <3>1, <3>2, SetOne
  <2>2. \A w \in {"lookup", "denial"} :
          Cardinality(Holding(w)') = Cardinality(Holding(w)) + (IF what = w THEN 1 ELSE 0)
    BY <1>1, <2>1, Recount, Numbers DEF Weight
  <2> QED BY <1>2, <1>4, <2>2, Numbers, Limits DEF BucketsAddUp, LookupsArePaid, SlotsArePaid
<1>5. CASE TooMany
  BY <1>3, <1>5 DEF TooMany
<1>6. CASE AdmitOther(c, s) /\ ~TooMany
  <2>1. Admitted(c, s, "denial", FALSE) /\ denials' = denials - 1 /\ lookups' = lookups
    BY <1>6 DEF AdmitOther
  <2>2. /\ lookups' = lookups - (IF "denial" = "lookup" THEN 1 ELSE 0)
        /\ denials' = denials - (IF "denial" = "denial" THEN 1 ELSE 0)
    BY <2>1, Numbers
  <2> QED BY <1>4, <2>1, <2>2
<1>7. CASE AdmitKnown(c, s) /\ ~TooMany
  <2>1. Admitted(c, s, "nothing", TRUE) /\ UNCHANGED <<lookups, denials>>
    BY <1>7 DEF AdmitKnown
  <2>2. /\ lookups' = lookups - (IF "nothing" = "lookup" THEN 1 ELSE 0)
        /\ denials' = denials - (IF "nothing" = "denial" THEN 1 ELSE 0)
    BY <2>1, Numbers
  <2> QED BY <1>4, <2>1, <2>2
<1>8. CASE AdmitFree(c, s)
  <2>1. Admitted(c, s, "nothing", FALSE) /\ UNCHANGED <<lookups, denials>>
    BY <1>8 DEF AdmitFree
  <2>2. /\ lookups' = lookups - (IF "nothing" = "lookup" THEN 1 ELSE 0)
        /\ denials' = denials - (IF "nothing" = "denial" THEN 1 ELSE 0)
    BY <2>1, Numbers
  <2> QED BY <1>4, <2>1, <2>2
<1>9. CASE AdmitPaid(c, s)
  <2>1. Admitted(c, s, "lookup", FALSE) /\ lookups' = lookups - 1 /\ denials' = denials
    BY <1>9 DEF AdmitPaid
  <2>2. /\ lookups' = lookups - (IF "lookup" = "lookup" THEN 1 ELSE 0)
        /\ denials' = denials - (IF "lookup" = "denial" THEN 1 ELSE 0)
    BY <2>1, Numbers
  <2> QED BY <1>4, <2>1, <2>2
<1>10. CASE Remember(s)
  BY <1>3, <1>10 DEF Remember, TooMany
<1> QED BY <1>5, <1>6, <1>7, <1>8, <1>9, <1>10 DEF Arrive, AdmitUnknown

\* The other steps of a call, and of time, keep the ledgers.
LEMMA OtherLedgers ==
  ASSUME TypeOK, BucketsAddUp,
         \/ \E c \in Calls : Ask(c) \/ LookUp(c) \/ Authenticated(c) \/ OutOfScope(c) \/ Finish(c)
         \/ SwitchIsRead \/ SwitchArrives \/ Time \/ FlipSwitch
         \/ \E t \in Tokens : Revoke(t)
         \/ UNCHANGED vars
  PROVE  BucketsAddUp'
<1>1. ASSUME \A d \in Calls : call'[d].holds = call[d].holds, UNCHANGED <<lookups, denials, count>>
      PROVE  BucketsAddUp'
  <2>1. \A what : Cardinality(Holding(what)') = Cardinality(Holding(what))
    BY <1>1, SameHolders
  <2> QED BY <1>1, <2>1 DEF BucketsAddUp, LookupsArePaid, SlotsArePaid
<1>2. ASSUME NEW c \in Calls, Ask(c) \/ LookUp(c) PROVE BucketsAddUp'
  <2>1. \A d \in Calls : call[d] \in CallType
    BY DEF TypeOK, CallsOK
  <2>2. \A d \in Calls \ {c} : call'[d] = call[d]
    BY <1>2 DEF Ask, LookUp, TypeOK, CallsOK
  <2>3. call'[c].holds = call[c].holds
    <3>1. CASE Ask(c)
      <4>1. call'[c] = [call[c] EXCEPT !.at = IF Trusted(c) THEN "answered" ELSE "asked",
                          !.found = Trusted(c), !.late = call[c].who.token \in revoked]
        BY <3>1 DEF Ask, TypeOK, CallsOK
      <4> QED BY <2>1, <4>1 DEF CallType
    <3>2. CASE LookUp(c)
      <4>1. PICK reached \in BOOLEAN :
              call'[c] = [call[c] EXCEPT !.at = "answered",
                            !.found = reached /\ call[c].who.token \in Good \ revoked]
        BY <3>2 DEF LookUp, TypeOK, CallsOK
      <4> QED BY <2>1, <4>1 DEF CallType
    <3> QED BY <1>2, <3>1, <3>2
  <2>4. UNCHANGED <<lookups, denials, count>>
    BY <1>2 DEF Ask, LookUp
  <2> QED BY <1>1, <2>2, <2>3, <2>4
<1>3. ASSUME NEW c \in Calls, Finish(c) PROVE BucketsAddUp'
  <2>1. call'[c].holds = "nothing" /\ \A d \in Calls \ {c} : call'[d].holds = call[d].holds
    <3>1. call' = [call EXCEPT ![c] = Idle] /\ Idle.holds = "nothing"
      BY <1>3 DEF Finish, Idle
    <3> QED BY <3>1, SetOne
  <2>2. \A w \in {"lookup", "denial"} :
          Cardinality(Holding(w)') <= Cardinality(Holding(w))
    BY <2>1, Recount, Numbers DEF Weight
  <2>3. UNCHANGED <<lookups, denials, count>>
    BY <1>3 DEF Finish
  <2>4. Cardinality(Holding("lookup")') \in Int /\ Cardinality(Holding("denial")') \in Int
    BY <2>1, Recount, Numbers DEF Weight
  <2> QED BY <2>2, <2>3, <2>4, Numbers, Limits DEF BucketsAddUp, LookupsArePaid, SlotsArePaid
<1>4. ASSUME NEW c \in Calls, Authenticated(c) \/ OutOfScope(c) PROVE BucketsAddUp'
  <2>1. call'[c].holds = "nothing" /\ \A d \in Calls \ {c} : call'[d].holds = call[d].holds
    <3>1. CASE Authenticated(c)
      BY <3>1 DEF Authenticated, TypeOK, CallsOK, CallType
    <3>2. CASE OutOfScope(c)
      <4>1. call' = [call EXCEPT ![c] = Idle] /\ Idle.holds = "nothing"
        BY <3>2 DEF OutOfScope, Idle
      <4> QED BY <4>1, SetOne
    <3> QED BY <1>4, <3>1, <3>2
  <2>2. \A w \in {"lookup", "denial"} :
          Cardinality(Holding(w)') = Cardinality(Holding(w)) - Weight(call[c], w)
    BY <2>1, Recount, Numbers DEF Weight
  <2>3. lookups' = IF call[c].holds = "lookup" /\ lookups < Capacity THEN lookups + 1 ELSE lookups
    BY <1>4 DEF Authenticated, OutOfScope, Recognised, GivenBack
  <2>4. /\ count'.back = count.back /\ count'.spent = count.spent
        /\ \/ denials' = denials /\ count'.slots = count.slots
           \/ /\ denials >= 1
              /\ denials' = denials - 1
              /\ count'.slots \in {count.slots, count.slots + 1}
    BY <1>4 DEF Authenticated, OutOfScope, TypeOK, ChargesOK
  <2>5. LookupsArePaid'
    BY <2>2, <2>3, <2>4, Numbers, Limits DEF Weight, BucketsAddUp, LookupsArePaid
  <2>6. SlotsArePaid'
    BY <2>2, <2>4, Numbers, Limits DEF Weight, BucketsAddUp, SlotsArePaid
  <2> QED BY <2>5, <2>6 DEF BucketsAddUp
<1>5. CASE Refill
  <2>1. \A what : Cardinality(Holding(what)') = Cardinality(Holding(what))
    BY <1>5, SameHolders DEF Refill
  <2>2. /\ lookups' <= lookups + 1 /\ denials' <= denials + 1
        /\ lookups' \in Int /\ denials' \in Int
    BY <1>5, Numbers, Limits DEF Refill, GivenBack
  <2>3. /\ count'.back = count.back + 1 /\ count'.spent = count.spent
        /\ count'.slots = count.slots
    BY <1>5 DEF Refill, TypeOK, ChargesOK
  <2> QED BY <2>1, <2>2, <2>3, Numbers, Limits DEF BucketsAddUp, LookupsArePaid, SlotsArePaid
<1>6. CASE SwitchIsRead \/ SwitchExpires \/ Minute \/ WaitIsOver \/ (\E t \in Tokens : Revoke(t))
           \/ UNCHANGED vars
  BY <1>1, <1>6 DEF SwitchIsRead, SwitchExpires, Minute, WaitIsOver, Revoke, vars
<1>7. CASE SwitchArrives \/ FlipSwitch
  <2>1. UNCHANGED <<lookups, denials, count>>
    BY <1>7 DEF SwitchArrives, FlipSwitch
  <2>2. \A d \in Calls : call'[d].holds = call[d].holds
    BY <1>7 DEF SwitchArrives, FlipSwitch, TypeOK, CallsOK, CallType
  <2> QED BY <1>1, <2>1, <2>2
<1> QED BY <1>2, <1>3, <1>4, <1>5, <1>6, <1>7 DEF Time

LEMMA NextLedgers == TypeOK /\ BucketsAddUp /\ [Next]_vars => BucketsAddUp'
<1> SUFFICES ASSUME TypeOK, BucketsAddUp, [Next]_vars PROVE BucketsAddUp'
  OBVIOUS
<1>1. ASSUME NEW c \in Calls, Handle(c) PROVE BucketsAddUp'
  BY <1>1, RejectLedgers, OtherLedgers DEF Handle, RefuseClosed, RefuseShape, Unauthenticated
<1> QED BY <1>1, ArriveLedgers, OtherLedgers DEF Next

\* However calls interleave, neither bucket pays for more failed lookups or recorded
\* denials than it was given tokens (app.ts:227-240, 460-464).
THEOREM BucketsCorrect == Spec => []BucketsAddUp
  BY TypeCorrect, InitLedgers, NextLedgers, PTL DEF Spec

-----------------------------------------------------------------------------
(* What was known when a call came, or was sent to the ads API.             *)

\* A late call has not been found, and its token stays revoked.
LateOK(c) ==
  call[c].late => /\ call[c].at \in {"asked", "answered"}
                  /\ call[c].who.token \in revoked
                  /\ call[c].at = "answered" => ~call[c].found

\* A dark call that waits for the switch will hear of the tripped one.
DarkOK(c) ==
  call[c].dark => /\ switch = "tripped"
                  /\ call[c].at \in {"switch", "closed"}
                  /\ call[c].at = "switch" => cached = "none" /\ pending \in {"asked", "closed"}

Refused == \A c \in Calls : LateOK(c) /\ DarkOK(c)

LEMMA InitRefused == Init => Refused
  BY DEF Init, Refused, LateOK, DarkOK, Idle

\* A call that ends, or that a sender begins anew, was not late.
LEMMA ArriveRefused ==
  ASSUME TypeOK, Refused, NEW c \in Calls, NEW s \in Senders, Arrive(c, s)
  PROVE  Refused'
<1>1. ASSUME UNCHANGED <<call, switchVars, revoked>> PROVE Refused'
  BY <1>1 DEF Refused, LateOK, DarkOK, switchVars
<1>2. ASSUME NEW what, NEW charged, Admitted(c, s, what, charged), UNCHANGED revoked
      PROVE  Refused'
  <2>1. /\ call' = [call EXCEPT ![c] = Entered(s, what, charged)]
        /\ switch' = switch /\ cached' = cached
        /\ pending' = IF cached = "none" /\ pending = "none" THEN "asked" ELSE pending
    BY <1>2 DEF Admitted
  <2>2. \A d \in Calls \ {c} : LateOK(d)' /\ DarkOK(d)'
    BY <1>2, <2>1 DEF Refused, LateOK, DarkOK, TypeOK, CallsOK
  <2>3. call'[c] = Entered(s, what, charged)
    BY <2>1 DEF TypeOK, CallsOK
  <2>4. /\ call'[c].late = FALSE
        /\ call'[c].at = Onward
        /\ call'[c].dark = (switch = "tripped" /\ cached = "none" /\ pending \in {"none", "asked"})
    BY <2>3 DEF Entered
  <2>5. LateOK(c)' /\ DarkOK(c)'
    BY <2>1, <2>4 DEF LateOK, DarkOK, Onward
  <2> QED BY <2>2, <2>5 DEF Refused
<1>3. \/ UNCHANGED <<call, switchVars, revoked>>
      \/ \E what, charged : Admitted(c, s, what, charged) /\ UNCHANGED revoked
  <2>1. CASE AdmitOther(c, s)
    BY <2>1 DEF AdmitOther, TooMany, tokenVars
  <2>2. CASE AdmitKnown(c, s)
    BY <2>2 DEF AdmitKnown, TooMany, tokenVars
  <2>3. CASE AdmitUnknown(c, s)
    BY <2>3 DEF AdmitUnknown, AdmitFree, AdmitPaid, Remember, TooMany, tokenVars
  <2>4. CASE TooMany
    BY <2>4 DEF TooMany, tokenVars
  <2> QED BY <2>1, <2>2, <2>3, <2>4 DEF Arrive
<1> QED BY <1>1, <1>2, <1>3

\* What a call does while it is handled.
LEMMA HandleRefused ==
  ASSUME TypeOK, Refused, NEW c \in Calls, Handle(c)
  PROVE  Refused'
<1>1. UNCHANGED <<switchVars, revoked>> /\ \A d \in Calls \ {c} : call'[d] = call[d]
  BY DEF Handle, RefuseClosed, RefuseShape, Ask, LookUp, Unauthenticated, Authenticated,
    OutOfScope, Recognised, Finish, Reject, tokenVars, TypeOK, CallsOK
<1>2. \A d \in Calls \ {c} : LateOK(d)' /\ DarkOK(d)'
  BY <1>1 DEF Refused, LateOK, DarkOK, switchVars
<1>3. call[c] \in CallType /\ LateOK(c) /\ DarkOK(c)
  BY DEF Refused, TypeOK, CallsOK
<1>4. LateOK(c)' /\ DarkOK(c)'
  <2>1. CASE RefuseClosed(c) \/ RefuseShape(c) \/ Unauthenticated(c) \/ OutOfScope(c) \/ Finish(c)
    <3>1. call'[c] = Idle
      BY <2>1 DEF RefuseClosed, RefuseShape, Unauthenticated, OutOfScope, Finish, Reject, TypeOK, CallsOK
    <3> QED BY <3>1 DEF LateOK, DarkOK, Idle
  <2>2. CASE Ask(c)
    <3>1. /\ call[c].at = "body"
          /\ call'[c] = [call[c] EXCEPT !.at = IF Trusted(c) THEN "answered" ELSE "asked",
                           !.found = Trusted(c), !.late = call[c].who.token \in revoked]
      BY <2>2 DEF Ask, TypeOK, CallsOK
    <3>2. ~call[c].dark
      BY <1>3, <3>1 DEF DarkOK
    <3>3. /\ call'[c].at = "asked" /\ call'[c].dark = call[c].dark
          /\ call'[c].who = call[c].who /\ call'[c].late = (call[c].who.token \in revoked)
      BY <1>3, <3>1 DEF Trusted, CallType
    <3> QED BY <1>1, <3>2, <3>3 DEF LateOK, DarkOK
  <2>3. CASE LookUp(c)
    <3>1. PICK reached \in BOOLEAN :
            /\ call[c].at = "asked"
            /\ call'[c] = [call[c] EXCEPT !.at = "answered",
                             !.found = reached /\ call[c].who.token \in Good \ revoked]
      BY <2>3 DEF LookUp, TypeOK, CallsOK
    <3>2. ~call[c].dark
      BY <1>3, <3>1 DEF DarkOK
    <3>3. /\ call'[c].at = "answered" /\ call'[c].dark = call[c].dark
          /\ call'[c].who = call[c].who /\ call'[c].late = call[c].late
          /\ call'[c].found = (reached /\ call[c].who.token \in Good \ revoked)
      BY <1>3, <3>1 DEF CallType
    <3> QED BY <1>1, <1>3, <3>2, <3>3 DEF LateOK, DarkOK
  <2>4. CASE Authenticated(c)
    <3>1. /\ call[c].at = "answered" /\ call[c].found
          /\ call'[c] = [call[c] EXCEPT !.at = "served", !.holds = "nothing"]
      BY <2>4 DEF Authenticated, Recognised, TypeOK, CallsOK
    <3>2. ~call[c].dark /\ ~call[c].late
      BY <1>3, <3>1 DEF DarkOK, LateOK
    <3>3. call'[c].dark = call[c].dark /\ call'[c].late = call[c].late
      BY <1>3, <3>1 DEF CallType
    <3> QED BY <3>2, <3>3 DEF LateOK, DarkOK
  <2> QED BY <2>1, <2>2, <2>3, <2>4 DEF Handle
<1> QED BY <1>2, <1>4 DEF Refused

\* The read of the switch, time and the owner.
LEMMA OtherRefused ==
  ASSUME TypeOK, Refused,
         \/ SwitchIsRead \/ SwitchArrives \/ Time \/ FlipSwitch
         \/ \E t \in Tokens : Revoke(t)
         \/ UNCHANGED vars
  PROVE  Refused'
<1> SUFFICES ASSUME NEW c \in Calls PROVE LateOK(c)' /\ DarkOK(c)'
  BY DEF Refused
<1>0. call[c] \in CallType /\ LateOK(c) /\ DarkOK(c)
  BY DEF Refused, TypeOK, CallsOK
<1>1. CASE SwitchIsRead
  BY <1>0, <1>1 DEF SwitchIsRead, Seen, Unreachable, LateOK, DarkOK, tokenVars
<1>2. CASE SwitchArrives
  <2>1. /\ \/ call'[c] = call[c] /\ call[c].at # "switch"
           \/ /\ call[c].at = "switch"
              /\ call'[c] = [call[c] EXCEPT !.at = IF pending = "clear" THEN "body" ELSE "closed"]
        /\ UNCHANGED <<switch, revoked>>
    BY <1>2 DEF SwitchArrives, tokenVars
  <2>2. CASE call[c].at = "switch"
    <3>1. ~call[c].late /\ (call[c].dark => pending # "clear" /\ switch = "tripped")
      BY <1>0, <1>2, <2>2 DEF LateOK, DarkOK
    <3>2. /\ call'[c].late = call[c].late /\ call'[c].dark = call[c].dark
          /\ call'[c].at = IF pending = "clear" THEN "body" ELSE "closed"
      BY <1>0, <2>1, <2>2 DEF CallType
    <3> QED BY <2>1, <3>1, <3>2 DEF LateOK, DarkOK
  <2>3. CASE call[c].at # "switch"
    BY <1>0, <2>1, <2>3 DEF LateOK, DarkOK
  <2> QED BY <2>2, <2>3
<1>3. CASE SwitchExpires \/ Refill \/ Minute \/ WaitIsOver \/ UNCHANGED vars
  BY <1>0, <1>3 DEF SwitchExpires, Refill, Minute, WaitIsOver, vars, switchVars, tokenVars,
    LateOK, DarkOK
<1>4. CASE FlipSwitch
  <2>1. call'[c] = [call[c] EXCEPT !.dark = FALSE] /\ UNCHANGED revoked
    BY <1>4 DEF FlipSwitch, tokenVars
  <2>2. /\ call'[c].dark = FALSE /\ call'[c].late = call[c].late /\ call'[c].at = call[c].at
        /\ call'[c].who = call[c].who /\ call'[c].found = call[c].found
    BY <1>0, <2>1 DEF CallType
  <2> QED BY <1>0, <2>1, <2>2 DEF LateOK, DarkOK
<1>5. CASE \E t \in Tokens : Revoke(t)
  BY <1>0, <1>5 DEF Revoke, switchVars, LateOK, DarkOK
<1> QED BY <1>1, <1>2, <1>3, <1>4, <1>5 DEF Time

LEMMA RefusedCorrect == Spec => []Refused
<1>1. TypeOK /\ Refused /\ [Next]_vars => Refused'
  <2> SUFFICES ASSUME TypeOK, Refused, [Next]_vars PROVE Refused'
    OBVIOUS
  <2> QED BY ArriveRefused, HandleRefused, OtherRefused DEF Next
<1> QED BY <1>1, InitRefused, TypeCorrect, PTL DEF Spec

\* A call whose lookup was sent after its identity was revoked is never served
\* (limiter.ts:134-139).
THEOREM RevokedCorrect == Spec => []RevokedIsRefused
<1>1. Refused => RevokedIsRefused
  BY DEF Refused, LateOK, RevokedIsRefused
<1> QED BY <1>1, RefusedCorrect, PTL

\* A call that comes while the switch is tripped and nothing is remembered of it
\* is refused (kill-switch-cache.ts:12-28).
THEOREM TrippedCorrect == Spec => []TrippedIsClosed
<1>1. Refused => TrippedIsClosed
  BY DEF Refused, DarkOK, TrippedIsClosed
<1> QED BY <1>1, RefusedCorrect, PTL

-----------------------------------------------------------------------------
(* Who is remembered.                                                      *)

\* The callers in the waiting set differ, and each was followed by the younger ones.
Lined ==
  /\ \A i, j \in DOMAIN waiting : i < j => waiting[i] # waiting[j]
  /\ \A i, j \in DOMAIN waiting : i < j => waiting[j] \in since[waiting[i]]
  /\ \A i \in DOMAIN waiting : waiting[i] \in DOMAIN since
  /\ \A s \in DOMAIN since : IsFiniteSet(since[s])

\* The waiting set, in its order, without s.
Without(w, s) ==
  /\ w \in Seq(Senders)
  /\ \A i \in DOMAIN w : w[i] # s
  /\ \A i \in DOMAIN w : \E k \in DOMAIN waiting : w[i] = waiting[k]
  /\ \A i, j \in DOMAIN w : i < j =>
       \E k, l \in DOMAIN waiting : k < l /\ w[i] = waiting[k] /\ w[j] = waiting[l]

Keeps(w, s) == \A k \in DOMAIN waiting : waiting[k] # s => \E i \in DOMAIN w : w[i] = waiting[k]

LEMMA DroppedIsWithout ==
  ASSUME TypeOK, Lined, NEW s \in Senders
  PROVE  Without(Dropped(s), s) /\ Keeps(Dropped(s), s)
<1> DEFINE w == Dropped(s)
           n == Len(waiting)
<1>1. waiting \in Seq(Senders) /\ n \in Nat /\ DOMAIN waiting = 1 .. n
  BY DEF TypeOK, ChargesOK
<1>2. CASE ~Waits(s)
  <2>1. w = waiting
    BY <1>2 DEF Dropped
  <2> QED
    BY <1>1, <1>2, <2>1 DEF Without, Keeps, Waits
<1>3. CASE Waits(s)
  <2> DEFINE p == Place(s)
  <2>1. p \in 1 .. n /\ waiting[p] = s
    BY <1>1, <1>3 DEF Waits, Place
  <2>2. \A k \in 1 .. n : k # p => waiting[k] # s
    BY <1>1, <2>1 DEF Lined
  <2>3. /\ w \in Seq(Senders) /\ DOMAIN w = 1 .. (n - 1)
        /\ \A i \in 1 .. (n - 1) : w[i] = IF i < p THEN waiting[i] ELSE waiting[i + 1]
    <3> DEFINE a == SubSeq(waiting, 1, p - 1)
               b == SubSeq(waiting, p + 1, n)
    <3>1. /\ a \in Seq(Senders) /\ Len(a) = p - 1 /\ \A i \in 1 .. (p - 1) : a[i] = waiting[i]
      BY <1>1, <2>1, SubSeqProperties
    <3>2. /\ b \in Seq(Senders) /\ Len(b) = n - p
          /\ \A i \in 1 .. (n - p) : b[i] = waiting[p + i]
      BY <1>1, <2>1, SubSeqProperties
    <3>3. w = a \o b
      BY <1>3 DEF Dropped
    <3> HIDE DEF a, b, w, p
    <3>6. Len(a) + Len(b) = n - 1
      BY <1>1, <2>1, <3>1, <3>2
    <3>4. /\ w \in Seq(Senders) /\ Len(w) = n - 1
          /\ \A i \in 1 .. (n - 1) : w[i] = IF i <= p - 1 THEN a[i] ELSE b[i - (p - 1)]
      BY <3>1, <3>2, <3>3, <3>6, ConcatProperties
    <3>5. ASSUME NEW i \in 1 .. (n - 1)
          PROVE  w[i] = IF i < p THEN waiting[i] ELSE waiting[i + 1]
      BY <1>1, <2>1, <3>1, <3>2, <3>4
    <3> QED
      BY <3>4, <3>5
  <2> HIDE DEF p, w
  <2> DEFINE at(i) == IF i < p THEN i ELSE i + 1
  <2>4. ASSUME NEW i \in 1 .. (n - 1)
        PROVE  at(i) \in 1 .. n /\ at(i) # p /\ w[i] = waiting[at(i)]
    BY <1>1, <2>1, <2>3
  <2>5. \A i, j \in 1 .. (n - 1) : i < j => at(i) < at(j)
    BY <1>1, <2>1
  <2>6. \A k \in 1 .. n : k # p => \E i \in 1 .. (n - 1) : at(i) = k
    <3> SUFFICES ASSUME NEW k \in 1 .. n, k # p
                 PROVE  \E i \in 1 .. (n - 1) : at(i) = k
      OBVIOUS
    <3>1. CASE k < p
      BY <1>1, <2>1, <3>1
    <3>2. CASE k > p
      <4>1. k - 1 \in 1 .. (n - 1) /\ at(k - 1) = k
        BY <1>1, <2>1, <3>2
      <4> QED
        BY <4>1
    <3> QED
      BY <1>1, <2>1, <3>1, <3>2
  <2> HIDE DEF at
  <2>7. Without(w, s)
    BY <1>1, <2>2, <2>3, <2>4, <2>5 DEF Without
  <2>8. Keeps(w, s)
    <3> SUFFICES ASSUME NEW k \in 1 .. n, waiting[k] # s
                 PROVE  \E i \in 1 .. (n - 1) : w[i] = waiting[k]
      BY <1>1, <2>3 DEF Keeps
    <3>1. PICK i \in 1 .. (n - 1) : at(i) = k
      BY <2>1, <2>6
    <3> QED
      BY <2>4, <3>1
  <2> QED
    BY <2>7, <2>8 DEF w
<1> QED
  BY <1>2, <1>3

\* So is the set without its oldest.
LEMMA TailIsWithout ==
  ASSUME TypeOK, Lined, waiting # <<>>
  PROVE  /\ Head(waiting) = waiting[1] /\ 1 \in DOMAIN waiting
         /\ Without(Tail(waiting), Head(waiting)) /\ Keeps(Tail(waiting), Head(waiting))
<1> DEFINE n == Len(waiting)
           w == Tail(waiting)
<1>1. waiting \in Seq(Senders) /\ n \in Nat \ {0} /\ DOMAIN waiting = 1 .. n
  BY DEF TypeOK, ChargesOK
<1>2. /\ w \in Seq(Senders) /\ DOMAIN w = 1 .. (n - 1)
      /\ \A i \in 1 .. (n - 1) : w[i] = waiting[i + 1]
  BY <1>1, HeadTailProperties
<1>3. Head(waiting) = waiting[1] /\ 1 \in DOMAIN waiting
  BY <1>1
<1> HIDE DEF w
<1>4. \A i \in 1 .. (n - 1) : i + 1 \in 1 .. n /\ 1 < i + 1
  BY <1>1
<1>5. Without(w, waiting[1])
  <2>1. \A i \in DOMAIN w : w[i] # waiting[1]
    BY <1>1, <1>2, <1>3, <1>4 DEF Lined
  <2>2. \A i, j \in DOMAIN w : i < j =>
       \E k, l \in DOMAIN waiting : k < l /\ w[i] = waiting[k] /\ w[j] = waiting[l]
    <3> SUFFICES ASSUME NEW i \in DOMAIN w, NEW j \in DOMAIN w, i < j
                 PROVE  \E k, l \in DOMAIN waiting :
                          k < l /\ w[i] = waiting[k] /\ w[j] = waiting[l]
      OBVIOUS
    <3>1. /\ i + 1 \in DOMAIN waiting /\ j + 1 \in DOMAIN waiting /\ i + 1 < j + 1
          /\ w[i] = waiting[i + 1] /\ w[j] = waiting[j + 1]
      BY <1>1, <1>2, <1>4
    <3> QED
      BY <3>1
  <2> QED
    BY <1>1, <1>2, <1>4, <2>1, <2>2 DEF Without
<1>6. Keeps(w, waiting[1])
  <2> SUFFICES ASSUME NEW k \in 1 .. n, waiting[k] # waiting[1]
               PROVE  \E i \in 1 .. (n - 1) : w[i] = waiting[k]
    BY <1>1, <1>2 DEF Keeps
  <2>1. k - 1 \in 1 .. (n - 1) /\ w[k - 1] = waiting[k]
    BY <1>1, <1>2
  <2> QED
    BY <2>1
<1> QED
  BY <1>3, <1>5, <1>6 DEF w

\* One caller is no longer waited for.
LEMMA ForgetKeeps ==
  ASSUME Lined, WaiterIsRemembered, NEW s,
         Without(waiting', s), Keeps(waiting', s), since' = ForgottenSince(s)
  PROVE  Lined' /\ WaiterIsRemembered'
<1>1. /\ DOMAIN since' = DOMAIN since \ {s}
      /\ \A x \in DOMAIN since \ {s} : since'[x] = since[x]
  BY DEF ForgottenSince
<1>2. Lined'
  BY <1>1 DEF Lined, Without
<1>3. WaiterIsRemembered'
  BY <1>1 DEF WaiterIsRemembered, Waits, Keeps
<1> QED
  BY <1>2, <1>3

\* Who waits in a full set has seen all others come, and sees the next.
LEMMA FullSet ==
  ASSUME TypeOK, Lined, NEW s, ~Waits(s), Len(waiting) >= WaitingMax
  PROVE  ~(Cardinality(since[waiting[1]] \cup {s}) < WaitingMax)
<1> DEFINE n == Len(waiting)
           T == since[waiting[1]] \cup {s}
           f == [i \in 1 .. n |-> IF i = 1 THEN s ELSE waiting[i]]
<1>1. n \in Nat \ {0} /\ DOMAIN waiting = 1 .. n
  BY Limits DEF TypeOK, ChargesOK
<1>2. IsFiniteSet(T)
  <2>1. IsFiniteSet(since[waiting[1]])
    BY <1>1 DEF Lined
  <2> QED
    BY <2>1, FS_AddElement
<1>3. \A i \in 1 .. n : i # 1 => waiting[i] \in since[waiting[1]]
  BY <1>1 DEF Lined
<1>4. \A i, j \in 1 .. n : i # j => f[i] # f[j]
  BY <1>1 DEF Lined, Waits
<1>5. f \in [1 .. n -> T]
  BY <1>3
<1>6. f \in Injection(1 .. n, T)
  BY <1>4, <1>5 DEF Injection, IsInjective
<1>7. Cardinality(1 .. n) = n
  BY <1>1, FS_Interval
<1> HIDE DEF f, T
<1>8. n <= Cardinality(T) /\ Cardinality(T) \in Nat
  BY <1>2, <1>6, <1>7, FS_Injection, FS_CardinalityType
<1> QED
  BY <1>1, <1>8, Limits DEF T

\* A refused caller is the youngest now.
LEMMA RememberKeeps ==
  ASSUME TypeOK, Lined, WaiterIsRemembered, NEW s \in Senders, Remember(s)
  PROVE  Lined' /\ WaiterIsRemembered'
<1> DEFINE full == ~Waits(s) /\ Len(waiting) >= WaitingMax
           w == IF full THEN Tail(waiting) ELSE Dropped(s)
           m == Len(w)
<1>1. Without(w, s)
  <2>1. CASE full
    <3>1. waiting # <<>>
      BY <2>1, Limits
    <3> QED
      BY <2>1, <3>1, TailIsWithout DEF Without, Waits
  <2> QED
    BY <2>1, DroppedIsWithout
<1>2. /\ waiting' = Append(w, s) /\ since' = NotedSince(s)
  BY DEF Remember, Noted
<1>3. \A x \in DOMAIN since : x = s \/ Cardinality(since[x] \cup {s}) < WaitingMax =>
          x = s \/ (Waits(x) => \E i \in DOMAIN w : w[i] = x)
  <2> SUFFICES ASSUME NEW x \in DOMAIN since, x # s, Waits(x),
                      Cardinality(since[x] \cup {s}) < WaitingMax
               PROVE  \E i \in DOMAIN w : w[i] = x
    OBVIOUS
  <2>1. CASE full
    <3>1. waiting # <<>>
      BY <2>1, Limits
    <3>2. x # waiting[1]
      BY <2>1, FullSet
    <3> QED
      BY <2>1, <3>1, <3>2, TailIsWithout DEF Keeps, Waits
  <2>2. CASE ~full
    BY <2>2, DroppedIsWithout DEF Keeps, Waits
  <2> QED
    BY <2>1, <2>2
<1> HIDE DEF w, full
<1>4. /\ w \in Seq(Senders) /\ m \in Nat /\ DOMAIN w = 1 .. m
      /\ DOMAIN waiting' = 1 .. (m + 1) /\ waiting'[m + 1] = s
      /\ \A i \in 1 .. m : waiting'[i] = w[i]
  BY <1>1, <1>2 DEF Without
<1>5. /\ DOMAIN since' = DOMAIN since \cup {s} /\ since'[s] = {}
      /\ \A x \in DOMAIN since : x # s => since'[x] = since[x] \cup {s}
  BY <1>2 DEF NotedSince
<1>6. \A i \in 1 .. m : w[i] # s /\ w[i] \in DOMAIN since
  BY <1>1, <1>4 DEF Without, Lined
<1>7. \A i, j \in 1 .. m : i < j => w[i] # w[j] /\ w[j] \in since[w[i]]
  BY <1>1, <1>4 DEF Without, Lined
<1>8. \A x \in DOMAIN since' : IsFiniteSet(since'[x])
  <2> SUFFICES ASSUME NEW x \in DOMAIN since' PROVE IsFiniteSet(since'[x])
    OBVIOUS
  <2>1. CASE x = s
    BY <1>5, <2>1, FS_EmptySet
  <2>2. CASE x # s
    <3>1. IsFiniteSet(since[x]) /\ since'[x] = since[x] \cup {s}
      BY <1>5, <2>2 DEF Lined
    <3> QED
      BY <3>1, FS_AddElement
  <2> QED
    BY <2>1, <2>2
<1>9. Lined'
  <2>1. ASSUME NEW i \in 1 .. (m + 1), NEW j \in 1 .. (m + 1), i < j
        PROVE  waiting'[i] # waiting'[j] /\ waiting'[j] \in since'[waiting'[i]]
    <3>1. i \in 1 .. m /\ waiting'[i] = w[i] /\ since'[w[i]] = since[w[i]] \cup {s}
      BY <1>4, <1>5, <1>6, <2>1
    <3>2. CASE j = m + 1
      BY <1>4, <1>6, <3>1, <3>2
    <3>3. CASE j \in 1 .. m
      BY <1>4, <1>7, <2>1, <3>1, <3>3
    <3> QED
      BY <1>4, <3>2, <3>3
  <2>2. \A i \in 1 .. (m + 1) : waiting'[i] \in DOMAIN since'
    BY <1>4, <1>5, <1>6
  <2> QED
    BY <1>4, <1>8, <2>1, <2>2 DEF Lined
<1>10. WaiterIsRemembered'
  <2> SUFFICES ASSUME NEW x \in DOMAIN since', Cardinality(since'[x]) < WaitingMax
               PROVE  \E i \in 1 .. (m + 1) : waiting'[i] = x
    BY <1>4 DEF WaiterIsRemembered, Waits
  <2>1. CASE x = s
    BY <1>4, <2>1
  <2>2. CASE x # s
    <3>1. x \in DOMAIN since /\ since'[x] = since[x] \cup {s}
      BY <1>5, <2>2
    <3>2. IsFiniteSet(since[x])
      BY <3>1 DEF Lined
    <3>3. Cardinality(since[x]) <= Cardinality(since[x] \cup {s})
          /\ Cardinality(since[x]) \in Nat /\ Cardinality(since[x] \cup {s}) \in Nat
      BY <3>2, FS_AddElement, FS_Subset, FS_CardinalityType
    <3>4. Cardinality(since[x]) < WaitingMax
      BY <3>1, <3>3, Limits
    <3>5. Waits(x)
      BY <3>1, <3>4 DEF WaiterIsRemembered
    <3>6. PICK i \in DOMAIN w : w[i] = x
      BY <1>3, <2>2, <3>1, <3>5
    <3> QED
      BY <1>4, <3>6
  <2> QED
    BY <2>1, <2>2
<1> QED
  BY <1>9, <1>10

\* The waiting set changes only when a call comes, or its oldest has waited enough.
LEMMA WaitSteps ==
  ASSUME [Next]_vars
  PROVE  \/ UNCHANGED waitVars
         \/ \E s \in Senders : \/ waiting' = Dropped(s) /\ since' = ForgottenSince(s)
                               \/ Remember(s)
         \/ WaitIsOver
<1>1. ASSUME NEW c \in Calls, NEW s \in Senders, Arrive(c, s)
      PROVE  \/ UNCHANGED waitVars
             \/ waiting' = Dropped(s) /\ since' = ForgottenSince(s)
             \/ Remember(s)
  BY <1>1 DEF Arrive, AdmitOther, AdmitKnown, AdmitUnknown, AdmitFree, AdmitPaid
<1>2. ASSUME NEW c \in Calls, Handle(c) PROVE UNCHANGED waitVars
  BY <1>2 DEF Handle, RefuseClosed, RefuseShape, Ask, LookUp, Unauthenticated, Authenticated,
     OutOfScope, Recognised, Finish
<1>3. CASE SwitchIsRead \/ SwitchArrives \/ FlipSwitch \/ \E t \in Tokens : Revoke(t)
  BY <1>3 DEF SwitchIsRead, SwitchArrives, FlipSwitch, Revoke
<1>4. CASE Time
  BY <1>4 DEF Time, Refill, Minute, SwitchExpires
<1>5. CASE UNCHANGED vars
  BY <1>5 DEF vars, waitVars
<1> QED
  BY <1>1, <1>2, <1>3, <1>4, <1>5 DEF Next

\* However calls, retries and windows interleave, a waiting caller is forgotten only
\* when let in, when its wait is over, or behind WaitingMax others.
THEOREM WaiterCorrect == Spec => []WaiterIsRemembered
<1>1. Init => Lined /\ WaiterIsRemembered
  BY DEF Init, Lined, WaiterIsRemembered
<1>2. TypeOK /\ Lined /\ WaiterIsRemembered /\ [Next]_vars => Lined' /\ WaiterIsRemembered'
  <2> SUFFICES ASSUME TypeOK, Lined, WaiterIsRemembered, [Next]_vars
               PROVE  Lined' /\ WaiterIsRemembered'
    OBVIOUS
  <2>1. CASE UNCHANGED waitVars
    BY <2>1 DEF waitVars, Lined, WaiterIsRemembered, Waits
  <2>2. ASSUME NEW s \in Senders, waiting' = Dropped(s), since' = ForgottenSince(s)
        PROVE  Lined' /\ WaiterIsRemembered'
    BY <2>2, DroppedIsWithout, ForgetKeeps
  <2>3. CASE WaitIsOver
    BY <2>3, TailIsWithout, ForgetKeeps DEF WaitIsOver
  <2> QED
    BY <2>1, <2>2, <2>3, RememberKeeps, WaitSteps
<1> QED
  BY <1>1, <1>2, TypeCorrect, PTL DEF Spec
=============================================================================
