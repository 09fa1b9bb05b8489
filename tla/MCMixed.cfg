SPECIFICATION Spec
CONSTANTS
  t1 = t1  t2 = t2  t3 = t3  p1 = p1
  a = a  b = b
  Txn = {t1, t2, t3}
  Prepared = {}
  Identity = {a, b}
  ValidTime = {1}
  Writes <- MixedWrites
  Reads <- MixedReads
  Mode <- MixedMode
  BlindPut = {t1, t2, t3}
  MaxBatch = 2
  MaxQueue = 2
  MaxReserved = 3
  MaxMailbox = 2
INVARIANTS
  SeriallyValid
  ResultsMatchLog
  AckedIsDurable
  DrainedIsComplete
  ReservationExact
  PredictionSound
PROPERTIES
  ImplementsCommitLog
