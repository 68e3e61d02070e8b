CONSTANTS
  ShardLength = 5
  Existing = 2
  ChunkSize = 2
  Unreliable = TRUE
  Faults = FALSE
  Reconnects = FALSE
SPECIFICATION Spec
INVARIANT ConfirmedMeansStored
CHECK_DEADLOCK FALSE
