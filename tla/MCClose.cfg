SPECIFICATION FairSpec
CONSTANTS
  c1 = c1
  c2 = c2
  Client = {c1, c2}
  Modes <- AllPairs
  MaxCalls = 2
  MaxCloses = 1
CHECK_DEADLOCK FALSE
INVARIANTS NoAdmitAfterClose OpenIsUsable TeardownOrdered StoppedIsComplete AnswersHold
PROPERTIES CloseReturns
