CONSTANTS
  ShardLength = 5
  ChunkSize = 2
  Unreliable = TRUE
  Faults = TRUE
SPECIFICATION HostFairSpec
INVARIANTS TypeOK AssembledIsPrefix
PROPERTIES Promise SendReturns DownloadCompletes
CHECK_DEADLOCK FALSE
