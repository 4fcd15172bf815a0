SPECIFICATION ServicesSpec
CONSTANTS
  a1 = a1  a2 = a2  co = co  e1 = e1  e2 = e2  c1 = c1  p1 = p1
  q1 = q1  q2 = q2  q3 = q3  o1 = o1  j1 = j1  r1 = r1  r2 = r2  r3 = r3
  NoOne = NoOne  Board = Board  NoJob = NoJob  NoDoc = NoDoc
  NoKey = "none"  NoDecl = NoDecl  NoService = NoService
  Agents = {a1, a2}  Runs = {r1, r2, r3}  AgentOf <- OwnerOf  Changes <- Reassign
  Requests = {q1, q2}  MaxRequests = 2
  Docs = {"d1", "d2"}  Writers = {q1, q2, q3}  MaxRevisions = 3
  Staff = {a1}  Company = co  Policed = {a1}  Evaluators = {e1, e2}  Starters = {c1}
  RunCount = 1  Amounts = {0, 1, 2}  WarnPercent = 50  MaxSpend = 1  MaxDecisions = 1  MaxPauses = 1  MaxRouted = 1
  Approvals = {p1}  Deciders = {q1, q2, q3}  MaxDeciding = 6  MaxServerCrashes = 1
  Operators = {o1}  MaxHandles = 3  MaxProcs = 3  MaxConsecutiveCrashes = 2
  Jobs = {j1}  JobRuns = {r1, r2}  Callers = {c1}  MaxConcurrent = 1
  MaxJobFaults = 1  MaxOutages = 1  MaxUnloads = 1  MaxHostCrashes = 1
  LeaseRuns = {1, 2}  Wants <- TwoWants  MaxServices = 3  MaxSaveFaults = 1  MaxCloses = 1
SYMMETRY Symmetry
CHECK_DEADLOCK FALSE
INVARIANTS ServicesTypeOK NoWorkOverLimit OpenIncidentsAreDecidable HiredOnce DecisionsTakeEffect CheckoutHoldsExecution OneProcess NoOrphans ScheduledRunsDoNotOverlap JobsAreReleased UnleasedServicesStop DocumentsAreWhole
PROPERTIES BoardPauseIsKept LiveCheckoutIsKept LeasedServicesAreKept
