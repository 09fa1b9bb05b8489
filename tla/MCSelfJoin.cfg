SPECIFICATION Spec
CONSTANTS
  c1 = c1
  c2 = c2
  Client = {c1, c2}
  Modes <- RefreshAlone
  MaxCalls = 2
  MaxCloses = 1
CHECK_DEADLOCK FALSE
INVARIANT NoSelfJoin
