SPECIFICATION SpecUnderPurge
CONSTANTS
  ShardLength = 3
  Existing = 0
  ChunkSize = 2
  Unreliable = FALSE
  Faults = FALSE
  Reconnects = TRUE
  shard = shard
  ContractAtStart = FALSE
  BackendFails = FALSE
INVARIANT ContractedIsKept
CHECK_DEADLOCK FALSE
