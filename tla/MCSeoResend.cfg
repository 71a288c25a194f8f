SPECIFICATION Spec
CONSTANTS
  Runs = {r1, r2}
  First = r1
  Retries = 1
  MaxEvents = 1
  Works <- SentAgain
  Starts <- Default
  Moves = {}
  Given = {"approved", "rejected"}
  Fragile = {"draft", "publish"}
INVARIANT PageMadeOnce
PROPERTY RunEnds
CHECK_DEADLOCK FALSE
