\* Three invocations of any of five checkouts against five databases.
CONSTANTS
  Runs = {r1, r2, r3}
  Bundles <- Checkouts
  Ledgers <- Databases
  Statements = 2
SPECIFICATION Spec
SYMMETRY Symmetry
INVARIANTS SchemaIsLedger ReportsAreTrue
PROPERTY WritesExtendABundle
CHECK_DEADLOCK FALSE
