CONSTANTS
  Tokens = {t1, t2}
  Shards = {s1}
  Ips = {lan1, lan2, wan1, NoIp}
  Ports = {1, 2, 3}
  OpenPorts = {1, 2, 3}
  NoToken = NoToken
  NoAddress = NoAddress
  Routers = {g1, g2}
  Lans = {lan1, lan2}
  Wans = {wan1}
  NoIp = NoIp
  NoFile = NoFile
  Empty = Empty
  Closed = Closed
  StartingPort = 1
  MaxEvents = 2
SPECIFICATION FairSpec
INVARIANTS TypeOK ReportedIsServed ServedIsForwarded ConfirmedIsListed
PROPERTIES StartsAgain
CHECK_DEADLOCK FALSE
