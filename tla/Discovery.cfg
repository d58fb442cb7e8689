SPECIFICATION FairSpec
CONSTANTS
  a = a
  b = b
  tx = tx
  NoType = NoType
  Nodes = {a, b}
  HostOf <- Hosts
  TypeOf <- OneType
  Roles <- OneReader
  Leavers = {a}
  Crashers = {b}
  Lossy = TRUE
  MaxEid = 2
  MaxFlight = 2
CHECK_DEADLOCK FALSE
INVARIANTS PictureAgrees
PROPERTIES Converges
