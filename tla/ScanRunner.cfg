SPECIFICATION FairSpec
CONSTANTS
  h1 = h1
  h2 = h2
  h3 = h3
  p1 = p1
  p2 = p2
  Hosts = {h1, h2, h3}
  Ports = {p1, p2}
  BadPorts = {p2}
  HostLimit = 2
  QueueSize = 2
INVARIANTS
  StoredStatsMatchRows
  CompletedIsComplete
  RowsAreScanned
  ScanOverWhenSaid
  HostsBounded
PROPERTIES
  RunEnds
  ContractKept
CHECK_DEADLOCK FALSE
