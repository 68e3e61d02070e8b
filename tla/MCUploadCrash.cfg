CONSTANTS
  ShardLength = 5
  Existing = 0
  ChunkSize = 2
  Unreliable = TRUE
  Faults = TRUE
  Reconnects = FALSE
SPECIFICATION Spec
INVARIANTS ShardIsPrefix ConfirmedMeansStored
PROPERTY ResumeIsExact
CHECK_DEADLOCK FALSE
