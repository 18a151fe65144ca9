SPECIFICATION FairSpec
CONSTANTS
  NumClients = 3
  NumMsg = 4
  Clamp = TRUE
INVARIANTS
  TypeOK
  ReportingNeverBlocks
  TriggerBarrier
  EveryMessageOnce
PROPERTIES
  Terminates
  ImplementsRun
CHECK_DEADLOCK FALSE
