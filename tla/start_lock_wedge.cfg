SPECIFICATION FairSpec
CONSTANTS
  a1 = a1  a2 = a2  x1 = x1  x2 = x2  x3 = x3  x4 = x4
  Agents <- TwoAgents
  RunCount = 2
  Activations <- FourActivations
  MaxRoots = 2
  MaxConcurrentRuns = 1
  MaxLate = 1
  MaxDeferred = 0
  BudgetStops = TRUE
  AgentPauses = FALSE
  NoAgent = NoAgent
  NoActivation = NoActivation
PROPERTIES QueuedRunsAreDriven
