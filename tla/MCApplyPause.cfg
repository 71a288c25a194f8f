\* A pause on a live Google account, which may be requeued after a reconciling
\* read, and two owners.  The lease is three call budgets, to keep the run small.
CONSTANTS
  Runners = {r1, r2}
  Askers = {q1, q2}
  RequestCount = 1
  Plans <- GooglePause
  MaxAttempts = 2
  Lease = 3
  Call = 1
  MaxInFlight = 2
SPECIFICATION Spec
SYMMETRY Symmetry
INVARIANT QuietClaimHasNoCall
INVARIANT ReconciledIsProof
PROPERTY ImplementsPromise
PROPERTY LivesAsPromised
