SPECIFICATION BudgetsSpec
CONSTANTS
  a1 = a1  co = co  e1 = e1  e2 = e2  c1 = c1
  Staff <- OneAgent
  Company = co
  Policed <- OneAgent
  Evaluators <- TwoEvaluators
  Starters <- OneStarter
  RunCount = 0
  Amounts = {0, 2}
  WarnPercent = 50
  MaxSpend = 2
  MaxDecisions = 0
  MaxPauses = 0
  MaxRouted = 0
CHECK_DEADLOCK FALSE
INVARIANTS HardStopPauses
