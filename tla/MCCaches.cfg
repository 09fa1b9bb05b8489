SPECIFICATION Spec
CONSTANTS
  fact1 = fact1  fact2 = fact2  worker = worker  finalizer = finalizer
  Fact = {fact1, fact2}
  Bucket = {1}
  BucketOf <- OneBucket
  SlotCount = 1
  FilterCount = 2
  Window = 2
  MaxIdentities = 2
  Top = 4
  Actor = {worker, finalizer}
  Worker = worker
  Requests <- Batches
  Ways = 1
  MaxChain = 2
  MaxCommits = 3
  MaxReopens = 1
CHECK_DEADLOCK FALSE
INVARIANTS
  ProofsSound
  DecisionsHold
  ChainsCurrent
