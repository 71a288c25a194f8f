\* Two calls at once, four in all; two lookups, one waiting caller.
CONSTANTS
  a = a
  b = b
  agent = agent
  forged = forged
  Calls = {c1, c2}
  Addresses = {a, b}
  Tokens = {agent, forged}
  Good = {agent}
  Senders <- People
  Capacity = 2
  DenialCapacity = 1
  DenialLimit = 2
  MaxIps = 1
  FailureLimit = 2
  CallLimit = 2
  ProtectedMax = 1
  WaitingMax = 1
  MaxCalls = 4
  MaxRefills = 1
SPECIFICATION Spec
SYMMETRY Symmetry
INVARIANT BucketsAddUp
INVARIANT RevokedIsRefused
INVARIANT TrippedIsClosed
INVARIANT WaiterIsRemembered
