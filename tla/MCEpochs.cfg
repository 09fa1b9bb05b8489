SPECIFICATION Spec
CONSTANTS
  Reader = {r1, r2}
  Writer = writer
  Epoch = {e1, e2, e3}
  None = none
  Ops = {"at", "publish", "vacuum"}
  MaxSeq = 2
  MaxTries = 1
  CacheSlots = 1
SYMMETRY Symmetry
INVARIANTS HeldAlive SnapshotExact NothingLeaks
PROPERTIES ImplementsRetention
