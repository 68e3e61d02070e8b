SPECIFICATION FairSpec
CONSTANTS
  Fragments = {f1, f2, f3}
  ContractAtStart = TRUE
  PortInURL = FALSE
  BackendFails = TRUE
  ListsContracts = TRUE
  Faults = TRUE
INVARIANTS TypeOK Judged
PROPERTIES RemovesOnlyExpired ExpiredIsRemoved
CHECK_DEADLOCK FALSE
