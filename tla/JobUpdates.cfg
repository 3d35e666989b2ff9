SPECIFICATION FairSpec
CONSTANTS
  e1 = e1
  e2 = e2
  j1 = j1
  Engagements = {e1, e2}
  Jobs = {j1}
  Of <- MCOf
  Commits <- MCCommits
  Stored = e1
  MaxSockets = 3
  Room = 1
  Waiting = 1
INVARIANTS
  LiveIsCurrent
PROPERTIES
  NeverOlder
  Settles
CHECK_DEADLOCK FALSE
