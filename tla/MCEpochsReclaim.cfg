SPECIFICATION Spec
CONSTANTS
  Reader = {r1, r2}
  Writer = writer
  Epoch = {e1, e2, e3}
  None = none
  Ops = {"current", "publish"}
  MaxSeq = 1
  MaxTries = 2
  CacheSlots = 1
SYMMETRY Symmetry
INVARIANTS ReclaimedOnce
