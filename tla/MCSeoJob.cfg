SPECIFICATION Spec
CONSTANTS
  Runs = {r1}
  First = r1
  Retries = 1
  MaxEvents = 1
  Works <- Jobs
  Starts <- Default
  Moves = {"approval", "gate"}
  Given = {"approved", "edited", "other", "rejected", "snoozed", "denied", "blank"}
  Fragile = {"draft", "approval", "close", "publish"}
INVARIANTS NothingBeforeApproval PublishedIsRecorded GateHolds
CHECK_DEADLOCK FALSE
