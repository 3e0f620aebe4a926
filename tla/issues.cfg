SPECIFICATION Spec
CONSTANTS
  i1 = i1  i2 = i2  None = None
  Issues <- TwoIssues
  Rounds <- OneRound
  MaxCiFixes = 1
  MaxCommits = 3
  MaxFaults = 1
  MaxPushes = 1
  MaxRuns = 2
CHECK_DEADLOCK FALSE
INVARIANTS DeliveredIsVerified
PROPERTIES MergesInOrder NoWorkLost RunEnds
