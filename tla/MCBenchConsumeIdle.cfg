SPECIFICATION FairSpec
CONSTANTS
  NumClients = 3
  NumMsg = 2
  Clamp = FALSE
  Kinds = {"fetch"}
  NumStored = 2
  BatchSize = 2
  AckOutcomes = {TRUE}
PROPERTIES
  Terminates
CHECK_DEADLOCK FALSE
