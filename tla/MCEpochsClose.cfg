SPECIFICATION FairSpec
CONSTANTS
  Reader = {r1, r2}
  Writer = writer
  Epoch = {e1, e2, e3}
  None = none
  Ops = {"current", "oneoff", "publish", "close", "destroy"}
  MaxSeq = 1
  MaxTries = 1
  CacheSlots = 1
CHECK_DEADLOCK FALSE
INVARIANTS HeldAlive
PROPERTIES CloseDecides
