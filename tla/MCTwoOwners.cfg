\* Two owners requeue the same failed bid change on Meta.
CONSTANTS
  Runners = {r1, r2}
  Askers = {q1, q2}
  RequestCount = 1
  Plans <- MetaBid
  MaxAttempts = 3
  Lease = 4
  Call = 1
  MaxInFlight = 2
SPECIFICATION Spec
SYMMETRY Symmetry
INVARIANT NoRepeatedWrite
