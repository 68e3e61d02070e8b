CONSTANTS
  Requests = {r1, r2}
  Ports = {p1, p2}
  NoPort = NoPort
  Backlog = 1
  Faults = TRUE
SPECIFICATION FairSpec
INVARIANTS TypeOK AcceptedIsPending
PROPERTIES ToldIsServed RequestsAnswered
