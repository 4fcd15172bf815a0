SPECIFICATION FairSpec
CONSTANTS
  a1 = a1  a2 = a2  i1 = i1  i2 = i2
  Agents <- OneAgent
  Issues <- OneIssue
  MaxConcurrentRuns = 1
  Services = {"timer", "routes"}
  WakeKinds = {"plain"}
  Outcomes = {"succeeded"}
  RunCount = 3
  MaxWakes = 1
  Wakers = 1
  Boards = 0
  Reapers = 1
  MaxCancels = 0
  MaxBoardCalls = 0
  MaxLate = 0
  MaxFaults = 0
  MaxCrashes = 2
  NoAgent = NoAgent
  NoIssue = NoIssue
INVARIANTS RetriedOnce
PROPERTIES LiveChildrenKeepTheirRun RunningRunsEnd
