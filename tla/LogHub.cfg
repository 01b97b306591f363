SPECIFICATION FairSpec
CONSTANTS
  Loggers = {p1, p2}
  Clients = {c1}
  LineKinds = {"error", "debug"}
  Filters <- MCFilters
  BacklogSizes = {0, 1, 3}
  BufferCap = 2
  ChannelCap = 2
  Nobody = Nobody
  MaxLines = 4
INVARIANTS LogHubTypeOK DeliveredInOrder
PROPERTIES KeepsFeedPromise FollowersCatchUp
CHECK_DEADLOCK FALSE
