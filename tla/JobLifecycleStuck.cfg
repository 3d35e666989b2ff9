SPECIFICATION FairSpec
CONSTANTS
  j1 = j1
  j2 = j2
  Jobs = {j1, j2}
  Requests = {r1}
  Direct = {}
  Target <- MCTarget
  MaxFaults = 1
  FaultKinds = {"commit"}
PROPERTIES
  RunningJobsFinish
CHECK_DEADLOCK FALSE
