\* A Meta account: two overlapping syncs, an apply, owners who connect and
\* disconnect, and a server on which the platform may not be set up or the
\* workspace may have turned sync.live off.
CONSTANTS
  Syncs = {s1, s2}
  Applies = {a1}
  Owner = owner
  Google = FALSE
  Blocks = {"setup", "off"}
SPECIFICATION Spec
SYMMETRY Symmetry
INVARIANTS RejectedIsNotUsed SyncingIsAttended
PROPERTIES OnlyConnectReopens OneAuditPerTransition ReconnectLeftOnlyByLate
