\* Two requests: two bids on a live Google account, whose writes look at the
\* switch again, two bids on Meta, or one ad made on Meta, creative first.  Three
\* runners, one owner, two claims; the lease is three call budgets.
CONSTANTS
  Runners = {r1, r2, r3}
  Askers = {q1}
  RequestCount = 2
  Plans <- WritePlans
  MaxAttempts = 2
  Lease = 3
  Call = 1
  MaxInFlight = 2
SPECIFICATION SwitchSpec
SYMMETRY Symmetry
INVARIANT OneClaimOnTheWire
INVARIANT NoRepeatedWrite
INVARIANT NoMeansNothingSent
INVARIANT LandedIsKnown
INVARIANT OneSendAfterSwitch
PROPERTY OnlyHolderSends
