\* Two clients with a limit of one item a month; a job and two ideas over two
\* months; two transactions at a time.
CONSTANTS
  c1 = c1
  c2 = c2
  Clients = {c1, c2}
  Capped = {c1, c2}
  Store = Store
  Jobs = {j1}
  Ideas = {i1, i2}
  Txs = {t1, t2}
  Cap = 1
  LastMonth = 2
  NoClient = NoClient
SPECIFICATION Spec
SYMMETRY Symmetry
INVARIANT CountersAgree
INVARIANT RoomIsKept
INVARIANT NeverInACircle
