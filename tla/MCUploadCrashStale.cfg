CONSTANTS
  ShardLength = 3
  Existing = 0
  ChunkSize = 2
  Unreliable = TRUE
  Faults = TRUE
  Reconnects = TRUE
SPECIFICATION Spec
INVARIANTS ConfirmedMeansStored
CHECK_DEADLOCK FALSE
