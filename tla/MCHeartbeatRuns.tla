--------------------------- MODULE MCHeartbeatRuns ---------------------------
(* Small instances of HeartbeatRuns. *)
EXTENDS HeartbeatRuns

CONSTANTS a1, a2, i1, i2

TwoAgents == {a1, a2}
OneAgent == {a1}
OneIssue == {i1}
TwoIssues == {i1, i2}
Symmetry == Permutations(TwoAgents) \cup Permutations(TwoIssues)
=============================================================================
