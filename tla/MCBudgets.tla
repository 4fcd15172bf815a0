------------------------------ MODULE MCBudgets ------------------------------
(* One agent with a budget, two cost events at once. *)
EXTENDS Budgets

CONSTANTS a1, co, e1, e2, c1

OneAgent == {a1}
TwoEvaluators == {e1, e2}
OneStarter == {c1}
=============================================================================
