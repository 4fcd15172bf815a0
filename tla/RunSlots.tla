------------------------------ MODULE RunSlots ------------------------------
(***************************************************************************)
(* What the heartbeat service promises of the runs of an agent, with no    *)
(* lock, no database and no process: a run is queued for an agent, starts  *)
(* only while the agent has a free slot, and once it has ended it never    *)
(* comes back.  AgentStartLock and HeartbeatRuns are shown to implement it.*)
(***************************************************************************)
EXTENDS Naturals, FiniteSets

CONSTANTS
    Agents,             \* the agents of a company
    Runs,               \* ids of heartbeat runs
    MaxConcurrentRuns,  \* heartbeat.maxConcurrentRuns of every agent
    NoAgent             \* the owner of a run that does not exist yet

VARIABLES
    phase,              \* "none" | "queued" | "running" | "ended" of each run
    owner               \* the agent each run was created for

vars == <<phase, owner>>

Init ==
    /\ phase = [r \in Runs |-> "none"]
    /\ owner = [r \in Runs |-> NoAgent]

RunningOf(a) == {r \in Runs : phase[r] = "running" /\ owner[r] = a}

Enqueue(r, a) ==
    /\ phase[r] = "none"
    /\ phase' = [phase EXCEPT ![r] = "queued"]
    /\ owner' = [owner EXCEPT ![r] = a]

Start(r) ==
    /\ phase[r] = "queued"
    /\ Cardinality(RunningOf(owner[r])) < MaxConcurrentRuns
    /\ phase' = [phase EXCEPT ![r] = "running"]
    /\ UNCHANGED owner

End(r) ==
    /\ phase[r] \in {"queued", "running"}
    /\ phase' = [phase EXCEPT ![r] = "ended"]
    /\ UNCHANGED owner

Next ==
    \E r \in Runs :
        \/ \E a \in Agents : Enqueue(r, a)
        \/ Start(r)
        \/ End(r)

Spec == Init /\ [][Next]_vars
=============================================================================
