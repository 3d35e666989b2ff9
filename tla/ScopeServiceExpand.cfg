SPECIFICATION ServiceSpec
CONSTANTS
  Addr4 <- MCAddr4
  Addr6 = {}
  Blocks <- MCBlocks
  AllowLists = {}
  DenyLists = {}
  RequestLists <- MCRequestLists
  Times <- MCTimes
  Engagements <- MCEngagements
  RowLists <- MCRowLists
  Never = Never
  Cap = 8
  Width4 = 8
  MaxRows = 2
INVARIANTS
  AuthorizedHostsExpanded
CHECK_DEADLOCK FALSE
