SPECIFICATION Spec
CONSTANTS
  Addr4 <- MCAddr4
  Addr6 <- MCAddr6
  Blocks <- MCBlocks
  AllowLists <- MCAllowLists
  DenyLists <- MCDenyLists
  RequestLists <- MCRequestLists
  Width4 = 2
  MaxAllow = 1
  MaxDeny = 1
  MaxRequests = 1
INVARIANTS
  InScopeIsAuthorized
CHECK_DEADLOCK FALSE
