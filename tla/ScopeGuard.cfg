SPECIFICATION Spec
CONSTANTS
  Addr4 <- MCAddr4
  Addr6 <- MCAddr6
  Blocks <- MCBlocks
  AllowLists <- MCAllowLists
  DenyLists <- MCDenyLists
  RequestLists <- MCRequestLists
  Width4 = 4
  MaxAllow = 2
  MaxDeny = 2
  MaxRequests = 2
INVARIANTS
  LoopInv
  AuthorizedInScope
  ResultPartitions
  CompleteFor4
  HostCountExact
CHECK_DEADLOCK FALSE
