SPECIFICATION Spec
CONSTANTS
  a1 = a1  a2 = a2  x1 = x1  x2 = x2  x3 = x3  x4 = x4
  Agents <- TwoAgents
  RunCount = 3
  Activations <- FourActivations
  MaxRoots = 2
  MaxConcurrentRuns = 2
  MaxLate = 1
  MaxDeferred = 1
  BudgetStops = TRUE
  AgentPauses = TRUE
  NoAgent = NoAgent
  NoActivation = NoActivation
SYMMETRY Symmetry
INVARIANTS TypeOK MutualExclusion SlotBound
PROPERTIES OldestFirst ImplementsRunSlots
