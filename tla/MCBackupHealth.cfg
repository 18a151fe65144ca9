SPECIFICATION Spec
CONSTANTS
  Streams <- MCStreams
  Chunks = 2
INVARIANTS
  HealthCheckIsAwaited
CHECK_DEADLOCK FALSE
