\* A client with accounts and a plan, and one that is made for a site; two
\* requests at a time.
CONSTANTS
  c1 = c1
  c2 = c2
  Clients = {c1, c2}
  Made = {c1}
  Stores = {s1, s2}
  Rows = {a1, a2}
  Exts = {x1, x2}
  Requests = {r1, r2}
  Planned = {c1}
  Turning = {c1, c2}
  Connecting = {c1}
  NoClient = NoClient
  NoStore = NoStore
  NoRow = NoRow
  Pending = Pending
SPECIFICATION Spec
SYMMETRY Symmetry
INVARIANT LimitsHold
INVARIANT LinkedIsActive
PROPERTY ActsAtOnce
