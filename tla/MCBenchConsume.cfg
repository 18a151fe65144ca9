SPECIFICATION FairSpec
CONSTANTS
  NumClients = 2
  NumMsg = 3
  Clamp = FALSE
  Kinds = {"core", "ordered", "consume", "fetch", "oldpush", "oldpull", "oldordered", "getsync", "getbatch", "kvget"}
  NumStored = 4
  BatchSize = 2
  AckOutcomes = {TRUE, FALSE}
INVARIANTS
  TypeOK
  MeasuresTheRun
  ReportingNeverBlocks
  ResultsAreComplete
PROPERTIES
  Terminates
CHECK_DEADLOCK FALSE
