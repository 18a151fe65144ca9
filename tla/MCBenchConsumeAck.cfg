SPECIFICATION FairSpec
CONSTANTS
  NumClients = 2
  NumMsg = 3
  Clamp = FALSE
  Kinds = {"consume"}
  NumStored = 3
  BatchSize = 2
  AckOutcomes = {TRUE, FALSE}
INVARIANTS
  ReturnsItsErrors
CHECK_DEADLOCK FALSE
