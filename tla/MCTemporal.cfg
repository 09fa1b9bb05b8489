SPECIFICATION Spec
CONSTANTS
  t1 = t1  t2 = t2  t3 = t3  p1 = p1
  a = a  b = b
  Txn = {t1, t2, t3}
  Prepared = {}
  Identity = {a, b}
  ValidTime = {1, 2, 3}
  Writes <- TemporalWrites
  Reads <- TemporalReads
  Mode <- TemporalMode
  BlindPut = {t3}
  MaxBatch = 2
  MaxQueue = 3
  MaxReserved = 2
  MaxMailbox = 1
INVARIANTS
  FirstCommitterWins
  StrictReadsStable
