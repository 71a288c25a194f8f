\* Three requests at once.
CONSTANTS
  Requests = {p1, p2, p3}
SPECIFICATION Spec
SYMMETRY Symmetry
INVARIANTS ApprovedOnce NoLeavesNothing StampsInOrder
PROPERTIES FirstNoWins LivesAsPromised
