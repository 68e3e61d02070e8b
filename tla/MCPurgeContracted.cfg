SPECIFICATION HostFairUnderPurge
CONSTANTS
  ShardLength = 3
  Existing = 0
  ChunkSize = 2
  Unreliable = TRUE
  Faults = FALSE
  Reconnects = TRUE
  shard = shard
  ContractAtStart = TRUE
  BackendFails = TRUE
INVARIANT ContractedIsKept
PROPERTY ReturnsUnderPurge
CHECK_DEADLOCK FALSE
