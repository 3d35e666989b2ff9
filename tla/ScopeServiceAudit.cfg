SPECIFICATION ServiceSpec
CONSTANTS
  Addr4 <- MCAddr4
  Addr6 = {}
  Blocks <- MCBlocks
  AllowLists = {}
  DenyLists = {}
  RequestLists <- MCRequestLists
  Times <- MCTimes
  Engagements <- MCEngagements
  RowLists <- MCRowLists
  Never = Never
  Cap = 3
  Width4 = 4
  MaxRows = 1
INVARIANTS
  RejectionsAudited
CHECK_DEADLOCK FALSE
