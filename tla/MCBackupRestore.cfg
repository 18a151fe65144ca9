SPECIFICATION Spec
CONSTANTS
  Streams <- MCStreams
  Chunks = 2
INVARIANTS
  TypeOK
  SuccessIsWhole
  EveryStreamIsTried
  NothingRestoredInVain
  RestoreIsComplete
  RoundTrip
PROPERTIES
  BackupEnds
CHECK_DEADLOCK FALSE
