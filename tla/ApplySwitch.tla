---------------------------- MODULE ApplySwitch ----------------------------
(* ApplyEngine with a count of the requests to a live Google account, whose *)
(* writes re-read the kill switch, that have left since it was turned on.   *)
EXTENDS ApplyEngine

VARIABLE sinceKill

SentNow == RereadsSwitch /\ \E r \in Runners : runner[r].pc # "sent" /\ runner'[r].pc = "sent"

Count ==
  sinceKill' = IF ws' # "killed" THEN 0
               ELSE IF ws # "killed" THEN 0
               ELSE IF SentNow THEN sinceKill + 1 ELSE sinceKill

SwitchSpec == Init /\ sinceKill = 0 /\ [][Next /\ Count]_<<vars, sinceKill>>

\* On an account whose writes re-read the switch, one request at most leaves
\* while the switch is on: the one that was past its re-read already, of the one
\* run that can still hold the claim.  The other runs and mutations stop.
OneSendAfterSwitch == sinceKill <= 1
=============================================================================
