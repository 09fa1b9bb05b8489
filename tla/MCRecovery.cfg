SPECIFICATION FairSpec
CONSTANTS
  MaxId <- MCMaxId
  External = {11}
  Certificate = {"c"}
  Fact = {1, 2}
  Writes <- MCWrites
  Kind = {"transaction"}
  LeaseSize = 1
  FirstLease = 2
  Policy = {"finalize_on_open", "await_external_decision"}
  PruneRecords = TRUE
  PruneSync = FALSE
  MaxSeq = 3
  MaxCrashes = 2
  MaxFailures = 1
INVARIANTS EveryImageOpens DecisionsBinding AnswersSurvive IdsFresh ReadsPreserved
PROPERTIES OpenCompletes
