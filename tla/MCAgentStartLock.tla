-------------------------- MODULE MCAgentStartLock --------------------------
(* Small instances of AgentStartLock. *)
EXTENDS AgentStartLock, TLC

CONSTANTS a1, a2, x1, x2, x3, x4

TwoAgents == {a1, a2}
FourActivations == {x1, x2, x3, x4}
Symmetry == Permutations(TwoAgents) \cup Permutations(FourActivations)
=============================================================================
