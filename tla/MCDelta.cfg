SPECIFICATION FairSpec
CONSTANTS
  r1 = r1  r2 = r2
  Reader <- Queries
  MaxSeq = 3
  BaseSeq = 0
  RecoveredSeq = 0
  Call <- MaintenanceCalls
  QueueCapacity = 2
  HardMemory = 2
  MaxLag = 1
CHECK_DEADLOCK FALSE
INVARIANTS CoverageContiguous LeaseExact AdmittedAccounted MemoryBounded NoRetiredLeak
PROPERTIES WorkerServes TransitionEnds
