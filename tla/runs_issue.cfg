SPECIFICATION FairSpec
CONSTANTS
  a1 = a1  a2 = a2  i1 = i1  i2 = i2
  Agents <- TwoAgents
  Issues <- OneIssue
  MaxConcurrentRuns = 1
  Services = {"routes"}
  WakeKinds = {"comment"}
  Outcomes = {"succeeded"}
  RunCount = 2
  MaxWakes = 2
  Wakers = 2
  Boards = 0
  Reapers = 0
  MaxCancels = 1
  MaxBoardCalls = 0
  MaxLate = 1
  MaxFaults = 0
  MaxCrashes = 0
  NoAgent = NoAgent
  NoIssue = NoIssue
INVARIANTS TypeOK IssueIsHandedOn
PROPERTIES DeferredWakesArePromoted QueuedRunsEnd
