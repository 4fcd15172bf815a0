SPECIFICATION FairSpec
CONSTANTS
  t1 = t1  c1 = c1  w1 = w1
  Timers <- OneTimer
  Callers <- OneCaller
  Workers <- OneWorker
  AlwaysEnqueue = FALSE
  CatchUp = TRUE
  MaxCatchUp = 2
  Connections = 3
  IssueCount = 2
  MaxTime = 2
  MaxCalls = 1
  MaxUpsets = 2
  NoDispatcher = NoDispatcher
INVARIANTS TypeOK NoLiveIssueIsMissed CreatedIssuesAreWoken
PROPERTIES DispatchesFinish DueTicksFire
