SPECIFICATION FairSpec
CONSTANTS
  NumPorts = 4
  Starts = {0, 4}
  Token = 2
  Capacity = 3
  Concurrency = 2
  ConnectTimeout = 2
  BannerTimeout = 1
  CloseTimeout = 1
  MaxLate = 1
INVARIANTS
  TypeOK
  GrantsPaced
  FirstComeFirstServed
  OneNapIsEnough
  ConnectionsBounded
PROPERTIES
  AllScanned
CHECK_DEADLOCK FALSE
