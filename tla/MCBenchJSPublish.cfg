SPECIFICATION FairSpec
CONSTANTS
  NumMsg = 7
  BatchSize = 3
  Types = {"sync", "async", "atomic", "fast"}
INVARIANTS
  TypeOK
  LatenciesFit
  StoredOnce
  BatchesAreAtomic
  OneBatchAtATime
PROPERTIES
  Returns
CHECK_DEADLOCK FALSE
