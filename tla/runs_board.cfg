SPECIFICATION Spec
CONSTANTS
  a1 = a1  a2 = a2  i1 = i1  i2 = i2
  Agents <- TwoAgents
  Issues <- OneIssue
  MaxConcurrentRuns = 1
  Services = {"routes"}
  WakeKinds = {"timer", "plain"}
  Outcomes = {"failed"}
  RunCount = 2
  MaxWakes = 2
  Wakers = 1
  Boards = 1
  Reapers = 0
  MaxCancels = 0
  MaxBoardCalls = 1
  MaxLate = 1
  MaxFaults = 1
  MaxCrashes = 0
  NoAgent = NoAgent
  NoIssue = NoIssue
SYMMETRY Symmetry
INVARIANTS ChildrenKeepTheirSlot
PROPERTIES ImplementsRunSlots
