SPECIFICATION Spec
CONSTANTS
  Fragments = {f1, f2}
  ContractAtStart = TRUE
  PortInURL = TRUE
  BackendFails = FALSE
  ListsContracts = FALSE
  Faults = FALSE
INVARIANT WithdrawalTolerated
