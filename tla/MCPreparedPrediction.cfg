SPECIFICATION Spec
CONSTANTS
  t1 = t1  t2 = t2  t3 = t3  p1 = p1
  a = a  b = b
  Txn = {t1, t2}
  Prepared = {p1}
  Identity = {a, b}
  ValidTime = {1}
  Writes <- PreparedWrites
  Reads <- PreparedReads
  Mode <- PreparedMode
  BlindPut = {t1, t2}
  MaxBatch = 2
  MaxQueue = 2
  MaxReserved = 2
  MaxMailbox = 1
INVARIANT
  PredictionSound
