SPECIFICATION FairSpec
CONSTANTS
  j1 = j1
  j2 = j2
  Jobs = {j1, j2}
  Requests = {r1, r2, r3}
  Direct = {d1, d2}
  Target <- MCTarget
  MaxFaults = 2
  FaultKinds = {"commit", "read", "crash"}
INVARIANTS
  TypeOK
  AtMostOneRun
  AuditMatchesStatus
  RunningHasRun
  RunSeesStatus
PROPERTIES
  ContractKept
  JobsFinishUnlessFault
CHECK_DEADLOCK FALSE
