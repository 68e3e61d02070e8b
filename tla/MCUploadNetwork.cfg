CONSTANTS
  ShardLength = 5
  Existing = 0
  ChunkSize = 2
  Unreliable = TRUE
  Faults = FALSE
  Reconnects = TRUE
SPECIFICATION HostFairSpec
INVARIANTS TypeOK ShardIsPrefix ConfirmedMeansStored StopAndWait
PROPERTIES ResumeIsExact Promise ReceiveReturns UploadCompletes
CHECK_DEADLOCK FALSE
