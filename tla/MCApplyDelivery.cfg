\* The worker, one inline request, two claims, one retry per step.
CONSTANTS
  MaxDraws = 2
  Worker = w
  Inliners = {h1}
  Retries = 1
SPECIFICATION DeliverySpec
INVARIANT OneAuditor
PROPERTY WatchedClaimEnds
CHECK_DEADLOCK FALSE
