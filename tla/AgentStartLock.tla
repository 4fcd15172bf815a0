--------------------------- MODULE AgentStartLock ---------------------------
(***************************************************************************)
(* The start lock of server/src/services/heartbeat.ts.  Every place that   *)
(* may free or fill a slot of an agent ends in                             *)
(* startNextQueuedRunForAgent, whose body runs under withAgentStartLock: a *)
(* chain of promises per agent, so a FIFO queue of activations.  The body  *)
(* claims the oldest queued runs.  A claim may instead cancel the run, and *)
(* cancelRunInternal awaits startNextQueuedRunForAgent again, twice: for   *)
(* the agent of a promoted deferred wake, and for the agent of the run it  *)
(* cancelled.                                                              *)
(*                                                                         *)
(* An activation is one call in progress: of startNextQueuedRunForAgent,   *)
(* or of the code that ends a run (cancelRunInternal, the end of           *)
(* executeRun).  A nested call is an activation of its own, and its parent *)
(* waits for it.  One step is the code between two awaits.                 *)
(*                                                                         *)
(* startLocksByAgent is a Map of one process, and this module is about one *)
(* process; HeartbeatRuns has the runs that the worker process starts.     *)
(***************************************************************************)
EXTENDS Naturals, FiniteSets, Sequences

CONSTANTS
    Agents,             \* the agents of a company
    RunCount,           \* bound: how many runs are ever created
    MaxLate,            \* bound: how many older runs may still wait in their transactions
    Activations,        \* bound: calls in progress at a time
    MaxRoots,           \* bound: calls in progress at a time that no other call made
    MaxConcurrentRuns,  \* heartbeat.maxConcurrentRuns of every agent
    MaxDeferred,        \* bound: deferred wakes over the whole behaviour
    BudgetStops,        \* whether a budget hard stop may block the company
    AgentPauses,        \* whether the board may pause and resume agents
    NoAgent,            \* no agent
    NoActivation        \* no activation

Runs == 1 .. RunCount

ASSUME ConstantsAssumption ==
    /\ RunCount \in Nat
    /\ MaxConcurrentRuns \in Nat \ {0}
    /\ NoAgent \notin Agents
    /\ NoActivation \notin Activations

VARIABLES
    status,     \* heartbeat_runs.status; the terminal statuses are all "ended"
    agentOf,    \* heartbeat_runs.agent_id
    ahead,      \* history: the younger runs already selected when each run appeared
    invokable,  \* agents.status is none of paused, terminated, pending_approval
    blocked,    \* budgets.getInvocationBlock finds a block: the company is stopped
    deferred,   \* deferred_issue_execution wakes of each agent still waiting
    deferrals,  \* how many wakes were ever deferred
    queue,      \* startLocksByAgent: the chain of activations, its head holds the lock
    pc,         \* where each activation stands
    agent,      \* the agent an activation starts runs of
    slots,      \* its local availableSlots
    todo,       \* the queued runs it has selected and not claimed yet
    run,        \* the run it is cancelling or finishing
    parent      \* the activation that awaits it

rows == <<status, agentOf, ahead, invokable, blocked, deferred, deferrals>>
locals == <<agent, slots, todo, run, parent>>
vars == <<status, agentOf, ahead, invokable, blocked, deferred, deferrals, queue, pc,
          agent, slots, todo, run, parent>>

RunStatus == {"none", "queued", "running", "ended"}

\* Inside the function withAgentStartLock runs.
Critical == {"scan", "select", "check", "claim", "unlock"}

PCs == Critical \cup {"idle", "wait", "end", "release", "tail", "promoteWait", "tailWait"}

Init ==
    /\ status = [r \in Runs |-> "none"]
    /\ agentOf = [r \in Runs |-> NoAgent]
    /\ ahead = [r \in Runs |-> {}]
    /\ invokable = [a \in Agents |-> TRUE]
    /\ blocked = FALSE
    /\ deferred = [a \in Agents |-> 0]
    /\ deferrals = 0
    /\ queue = [a \in Agents |-> <<>>]
    /\ pc = [x \in Activations |-> "idle"]
    /\ agent = [x \in Activations |-> NoAgent]
    /\ slots = [x \in Activations |-> 0]
    /\ todo = [x \in Activations |-> {}]
    /\ run = [x \in Activations |-> 0]
    /\ parent = [x \in Activations |-> NoActivation]

-----------------------------------------------------------------------------
(* The run table *)

Active(r) == status[r] \in {"queued", "running"}
RunningOf(a) == {r \in Runs : status[r] = "running" /\ agentOf[r] = a}
QueuedOf(a) == {r \in Runs : status[r] = "queued" /\ agentOf[r] = a}

\* Runs are numbered in the order of createdAt, the start of the transaction that
\* inserts them.  That transaction may wait for the row of the issue meanwhile, so a
\* run may appear after younger ones.
NewRun(r) ==
    /\ status[r] = "none"
    /\ Cardinality({q \in 1 .. r : status[q] = "none"}) <= MaxLate + 1

\* The runs of agent a younger than r that are selected and not dealt with yet.
Overtaking(r, a) == {q \in Runs : r < q /\ \E x \in Activations : agent[x] = a /\ q \in todo[x]}

InsertQueued(r, a) ==
    /\ NewRun(r)
    /\ status' = [status EXCEPT ![r] = "queued"]
    /\ agentOf' = [agentOf EXCEPT ![r] = a]
    /\ ahead' = [ahead EXCEPT ![r] = Overtaking(r, a)]

\* Mutant: no limit.
OldestQueuedUnlimited(T, a, k) == T = QueuedOf(a) /\ k \in Nat

\* orderBy(asc(createdAt)).limit(k): the k oldest queued runs of agent a.
OldestQueued(T, a, k) ==
    /\ T \subseteq QueuedOf(a)
    /\ Cardinality(T) <= k
    /\ \A r \in T, q \in QueuedOf(a) : q < r => q \in T
    /\ Cardinality(T) = k \/ T = QueuedOf(a)

\* Mutant: the runs are claimed in no order.
FirstUnordered(T, r) == r \in T

\* The next run of the loop over queuedRuns.
First(T, r) == r \in T /\ \A q \in T : r <= q

-----------------------------------------------------------------------------
(* withAgentStartLock *)

\* Activation x runs, or awaits a call made, inside the lock of its agent.
Holds(x) ==
    /\ agent[x] \in Agents
    /\ queue[agent[x]] # <<>>
    /\ Head(queue[agent[x]]) = x

\* Activation y begins startNextQueuedRunForAgent(a) on behalf of p.
Chain(y, a, p) ==
    /\ pc[y] = "idle"
    /\ queue' = [queue EXCEPT ![a] = Append(@, y)]
    /\ agent' = [agent EXCEPT ![y] = a]
    /\ parent' = [parent EXCEPT ![y] = p]

\* Mutant: the function runs without waiting for the ones chained before it.
AcquireEager(x) ==
    /\ pc[x] = "wait"
    /\ pc' = [pc EXCEPT ![x] = "scan"]
    /\ UNCHANGED <<rows, queue, locals>>

\* previous.then(fn): the activations chained before x have settled.
Acquire(x) ==
    /\ pc[x] = "wait"
    /\ Holds(x)
    /\ pc' = [pc EXCEPT ![x] = "scan"]
    /\ UNCHANGED <<rows, queue, locals>>

\* Where an activation goes on when the call it awaits returns.
Resumed(x) ==
    IF pc[x] = "promoteWait" THEN "tail"
    ELSE IF ~Holds(x) THEN "idle"
    ELSE IF todo[x] = {} THEN "unlock" ELSE "check"

\* The finally block of withAgentStartLock; the caller's await resolves.
Unlock(x) ==
    /\ pc[x] = "unlock"
    /\ queue' = [queue EXCEPT ![agent[x]] = Tail(@)]
    /\ pc' = [y \in Activations |->
                IF y = x THEN "idle" ELSE IF y = parent[x] THEN Resumed(y) ELSE pc[y]]
    /\ parent' = [parent EXCEPT ![x] = NoActivation]
    /\ agent' = [y \in Activations |-> IF pc'[y] = "idle" THEN NoAgent ELSE agent[y]]
    /\ UNCHANGED <<rows, slots, todo, run>>

-----------------------------------------------------------------------------
(* startNextQueuedRunForAgent *)

\* Mutant: one slot too few.
ScanOffByOne(x) ==
    /\ pc[x] = "scan"
    /\ LET free == MaxConcurrentRuns - Cardinality(RunningOf(agent[x])) IN
       IF invokable[agent[x]] /\ free > 1
       THEN /\ slots' = [slots EXCEPT ![x] = free]
            /\ pc' = [pc EXCEPT ![x] = "select"]
       ELSE /\ pc' = [pc EXCEPT ![x] = "unlock"]
            /\ UNCHANGED slots
    /\ UNCHANGED <<rows, queue, agent, todo, run, parent>>

\* Read the agent and count its running runs.
Scan(x) ==
    /\ pc[x] = "scan"
    /\ LET free == MaxConcurrentRuns - Cardinality(RunningOf(agent[x])) IN
       IF invokable[agent[x]] /\ free > 0
       THEN /\ slots' = [slots EXCEPT ![x] = free]
            /\ pc' = [pc EXCEPT ![x] = "select"]
       ELSE /\ pc' = [pc EXCEPT ![x] = "unlock"]
            /\ UNCHANGED slots
    /\ UNCHANGED <<rows, queue, agent, todo, run, parent>>

\* Read the oldest queued runs, as many as there are free slots.
Select(x) ==
    /\ pc[x] = "select"
    /\ \E T \in SUBSET QueuedOf(agent[x]) :
        /\ OldestQueued(T, agent[x], slots[x])
        /\ todo' = [todo EXCEPT ![x] = T]
        /\ pc' = [pc EXCEPT ![x] = IF T = {} THEN "unlock" ELSE "check"]
    /\ slots' = [slots EXCEPT ![x] = 0]
    /\ UNCHANGED <<rows, queue, agent, run, parent>>

\* claimQueuedRun: read the agent and its budgets; a run that may not start
\* is cancelled.
Check(x) ==
    /\ pc[x] = "check"
    /\ \E r \in todo[x] :
        /\ First(todo[x], r)
        /\ IF invokable[agent[x]] /\ ~blocked
           THEN /\ pc' = [pc EXCEPT ![x] = "claim"]
                /\ UNCHANGED <<todo, run>>
           ELSE /\ pc' = [pc EXCEPT ![x] = "end"]
                /\ run' = [run EXCEPT ![x] = r]
                /\ todo' = [todo EXCEPT ![x] = @ \ {r}]
    /\ UNCHANGED <<rows, queue, agent, slots, parent>>

\* Mutant: the UPDATE does not ask for status = 'queued'.
ClaimUnguarded(x) ==
    /\ pc[x] = "claim"
    /\ \E r \in todo[x] :
        /\ First(todo[x], r)
        /\ status' = [status EXCEPT ![r] = "running"]
        /\ todo' = [todo EXCEPT ![x] = @ \ {r}]
        /\ pc' = [pc EXCEPT ![x] = IF todo[x] = {r} THEN "unlock" ELSE "check"]
    /\ UNCHANGED <<agentOf, ahead, invokable, blocked, deferred, deferrals, queue, agent, slots, run, parent>>

\* claimQueuedRun: UPDATE ... SET status = 'running' WHERE status = 'queued'.
Claim(x) ==
    /\ pc[x] = "claim"
    /\ \E r \in todo[x] :
        /\ First(todo[x], r)
        /\ status' = IF status[r] = "queued" THEN [status EXCEPT ![r] = "running"] ELSE status
        /\ todo' = [todo EXCEPT ![x] = @ \ {r}]
        /\ pc' = [pc EXCEPT ![x] = IF todo[x] = {r} THEN "unlock" ELSE "check"]
    /\ UNCHANGED <<agentOf, ahead, invokable, blocked, deferred, deferrals, queue, agent, slots, run, parent>>

-----------------------------------------------------------------------------
(* The end of a run: cancelRunInternal, and what follows the adapter in     *)
(* executeRun, make the same calls in the same order.                       *)

\* Read the run and store its terminal status; a run that is no longer active
\* is left alone.  (What happens between the two is HeartbeatRuns's subject.)
EndRun(x) ==
    /\ pc[x] = "end"
    /\ IF Active(run[x])
       THEN /\ status' = [status EXCEPT ![run[x]] = "ended"]
            /\ pc' = [pc EXCEPT ![x] = "release"]
            /\ UNCHANGED <<agent, run>>
       ELSE /\ pc' = [pc EXCEPT ![x] = Resumed(x)]
            /\ agent' = [agent EXCEPT ![x] = IF pc'[x] = "idle" THEN NoAgent ELSE @]
            /\ run' = [run EXCEPT ![x] = 0]
            /\ UNCHANGED status
    /\ UNCHANGED <<agentOf, ahead, invokable, blocked, deferred, deferrals, queue, slots, todo, parent>>

\* Mutant: a wake is promoted although none is deferred.
PromoteUnguarded(x) ==
    /\ pc[x] = "release"
    /\ \E b \in Agents, r \in Runs, y \in Activations :
        /\ deferred' = [deferred EXCEPT ![b] = @ - 1]
        /\ InsertQueued(r, b)
        /\ Chain(y, b, x)
        /\ pc' = [pc EXCEPT ![x] = "promoteWait", ![y] = "wait"]
    /\ UNCHANGED <<invokable, blocked, deferrals, slots, todo, run>>

\* releaseIssueExecutionAndPromote, when the run's issue has a deferred wake of
\* an invokable agent b: queue a run for b and await startNext for b.
Promote(x) ==
    /\ pc[x] = "release"
    /\ \E b \in Agents, r \in Runs, y \in Activations :
        /\ deferred[b] > 0
        /\ invokable[b]
        /\ deferred' = [deferred EXCEPT ![b] = @ - 1]
        /\ InsertQueued(r, b)
        /\ Chain(y, b, x)
        /\ pc' = [pc EXCEPT ![x] = "promoteWait", ![y] = "wait"]
    /\ UNCHANGED <<invokable, blocked, deferrals, slots, todo, run>>

\* releaseIssueExecutionAndPromote, when no deferred wake can be promoted; the
\* ones of agents that are not invokable fail.
ReleaseOnly(x) ==
    /\ pc[x] = "release"
    /\ \E failing \in SUBSET {b \in Agents : ~invokable[b]} :
        deferred' = [b \in Agents |-> IF b \in failing THEN 0 ELSE deferred[b]]
    /\ pc' = [pc EXCEPT ![x] = "tail"]
    /\ UNCHANGED <<status, agentOf, ahead, invokable, blocked, deferrals, queue, locals>>

\* await startNextQueuedRunForAgent(run.agentId), the last call.
TailCall(x) ==
    /\ pc[x] = "tail"
    /\ \E y \in Activations :
        /\ Chain(y, agentOf[run[x]], x)
        /\ pc' = [pc EXCEPT ![x] = "tailWait", ![y] = "wait"]
    /\ run' = [run EXCEPT ![x] = 0]
    /\ UNCHANGED <<rows, slots, todo>>

-----------------------------------------------------------------------------
(* The callers *)

Roots == {x \in Activations : pc[x] # "idle" /\ parent[x] = NoActivation}
RootFree(x) == pc[x] = "idle" /\ Cardinality(Roots) < MaxRoots

\* resumeQueuedRuns: a timer tick calls startNext for an agent with queued runs.
ResumeQueued(x, a) ==
    /\ RootFree(x)
    /\ QueuedOf(a) # {}
    /\ Chain(x, a, NoActivation)
    /\ pc' = [pc EXCEPT ![x] = "wait"]
    /\ UNCHANGED <<rows, slots, todo, run>>

\* enqueueWakeup: refused unless the agent may run, else insert and start.  The step
\* is the end of its transaction, which creates the run for others to see.
Wakeup(x, a) ==
    /\ RootFree(x)
    /\ invokable[a] /\ ~blocked
    /\ \E r \in Runs : InsertQueued(r, a)
    /\ Chain(x, a, NoActivation)
    /\ pc' = [pc EXCEPT ![x] = "wait"]
    /\ UNCHANGED <<invokable, blocked, deferred, deferrals, slots, todo, run>>

\* enqueueWakeup, when the issue is locked by another agent's run.
DeferWakeup(a) ==
    /\ invokable[a] /\ ~blocked
    /\ deferrals < MaxDeferred
    /\ \E r \in Runs : Active(r) /\ agentOf[r] # a
    /\ deferred' = [deferred EXCEPT ![a] = @ + 1]
    /\ deferrals' = deferrals + 1
    /\ UNCHANGED <<status, agentOf, ahead, invokable, blocked, queue, pc, locals>>

\* POST /heartbeat-runs/:id/cancel of any active run, or the adapter of a
\* running run returns.
BeginEnd(x, r) ==
    /\ RootFree(x)
    /\ Active(r)
    /\ pc' = [pc EXCEPT ![x] = "end"]
    /\ run' = [run EXCEPT ![x] = r]
    /\ agent' = [agent EXCEPT ![x] = agentOf[r]]
    /\ todo' = [todo EXCEPT ![x] = {}]
    /\ UNCHANGED <<rows, queue, slots, parent>>

\* A budget hard stop of the company opens or is resolved.
SetBlocked ==
    /\ BudgetStops
    /\ blocked' = ~blocked
    /\ UNCHANGED <<status, agentOf, ahead, invokable, deferred, deferrals, queue, pc, locals>>

\* The board pauses or resumes the agent.
SetInvokable(a) ==
    /\ AgentPauses
    /\ invokable' = [invokable EXCEPT ![a] = ~@]
    /\ UNCHANGED <<status, agentOf, ahead, blocked, deferred, deferrals, queue, pc, locals>>

Step(x) ==
    \/ Acquire(x) \/ Scan(x) \/ Select(x) \/ Check(x) \/ Claim(x) \/ Unlock(x)
    \/ EndRun(x) \/ Promote(x) \/ ReleaseOnly(x) \/ TailCall(x)

\* Every run has ended and every call has returned.
Finished ==
    /\ \A r \in Runs : status[r] = "ended"
    /\ \A x \in Activations : pc[x] = "idle"
    /\ UNCHANGED vars

Next ==
    \/ \E x \in Activations : Step(x)
    \/ \E x \in Activations, a \in Agents : ResumeQueued(x, a) \/ Wakeup(x, a)
    \/ \E x \in Activations, r \in Runs : BeginEnd(x, r)
    \/ \E a \in Agents : DeferWakeup(a) \/ SetInvokable(a)
    \/ SetBlocked
    \/ Finished

Spec == Init /\ [][Next]_vars

\* The event loop runs every continuation whose await has settled, the timer
\* keeps calling resumeQueuedRuns, and an adapter returns in the end.
Fairness ==
    /\ \A x \in Activations : WF_vars(Step(x))
    /\ \A a \in Agents : SF_vars(\E x \in Activations : ResumeQueued(x, a))
    /\ \A r \in Runs : SF_vars(status[r] = "running" /\ \E x \in Activations : BeginEnd(x, r))

FairSpec == Spec /\ Fairness

-----------------------------------------------------------------------------
(* Properties *)

TypeOK ==
    /\ status \in [Runs -> RunStatus]
    /\ agentOf \in [Runs -> Agents \cup {NoAgent}]
    /\ \A r \in Runs : status[r] # "none" => agentOf[r] \in Agents
    /\ ahead \in [Runs -> SUBSET Runs]
    /\ invokable \in [Agents -> BOOLEAN]
    /\ blocked \in BOOLEAN
    /\ deferred \in [Agents -> Nat]
    /\ deferrals \in Nat
    /\ queue \in [Agents -> Seq(Activations)]
    /\ pc \in [Activations -> PCs]
    /\ agent \in [Activations -> Agents \cup {NoAgent}]
    /\ slots \in [Activations -> Nat]
    /\ todo \in [Activations -> SUBSET Runs]
    /\ run \in [Activations -> Runs \cup {0}]
    /\ parent \in [Activations -> Activations \cup {NoActivation}]

\* withAgentStartLock is a mutual exclusion: no two activations are between the
\* awaits of startNextQueuedRunForAgent for one agent.
MutualExclusion ==
    \A x, y \in Activations :
        pc[x] \in Critical /\ pc[y] \in Critical /\ agent[x] = agent[y] => x = y

\* The slots an activation counted stay free until it uses them, although runs
\* end and are queued around it: an agent never has more running runs than
\* maxConcurrentRuns.
SlotBound ==
    \A a \in Agents : Cardinality(RunningOf(a)) <= MaxConcurrentRuns

\* Runs of an agent start oldest first, although they are selected once and claimed
\* one by one, awaits apart, while other runs are queued, cancelled and promoted: a
\* run is claimed while an older one of its agent is queued only if the older one's
\* row appeared after the younger one had been selected.
OldestFirst ==
    [][\A r \in Runs : status[r] = "queued" /\ status'[r] = "running"
            => \A q \in QueuedOf(agentOf[r]) : q < r => r \in ahead[q]]_vars

\* A queued run does not wait for ever: resumeQueuedRuns drives it on, to a
\* start or a cancellation.
QueuedRunsAreDriven ==
    \A r \in Runs : status[r] = "queued" ~> status[r] # "queued"

\* The promise of RunSlots: a run starts only into a free slot and an ended run
\* never comes back.
Slots == INSTANCE RunSlots WITH phase <- status, owner <- agentOf
ImplementsRunSlots == Slots!Spec

-----------------------------------------------------------------------------
(* The inductive invariant of AgentStartLockProofs *)

\* What the locals of an activation mean at each pc.
LocalsOK ==
    \A x \in Activations :
        /\ IF pc[x] = "idle" THEN agent[x] = NoAgent ELSE agent[x] \in Agents
        /\ pc[x] \in {"end", "release", "promoteWait", "tail"} =>
                run[x] \in Runs /\ status[run[x]] # "none"
        /\ pc[x] \in {"idle", "wait", "scan", "select", "unlock"} => todo[x] = {}
        /\ \A r \in todo[x] : status[r] # "none" /\ agentOf[r] = agent[x]

\* Only the head of an agent's queue is inside the lock or has selected runs.
LockOK ==
    \A x \in Activations : pc[x] \in Critical \/ todo[x] # {} => Holds(x)

\* A slot that was counted is still free or used by a run counted for it.
SlotsOK ==
    \A x \in Activations :
        /\ pc[x] = "select" =>
                Cardinality(RunningOf(agent[x])) + slots[x] <= MaxConcurrentRuns
        /\ todo[x] # {} =>
                Cardinality(RunningOf(agent[x])) + Cardinality(todo[x]) <= MaxConcurrentRuns

IInv == TypeOK /\ LocalsOK /\ LockOK /\ SlotsOK /\ SlotBound

\* What OldestFirst needs beyond IInv.  An activation that is awaited has one caller,
\* which is waiting.
CallersWait ==
    \A y \in Activations :
        parent[y] # NoActivation =>
            /\ pc[parent[y]] \in {"promoteWait", "tailWait"}
            /\ \A z \in Activations : parent[z] = parent[y] => z = y

\* A queued run that is older than a selected one is selected too, or it is the
\* one that is about to be cancelled, or it appeared after the selection.
SelectedAreOldest ==
    \A x \in Activations : \A r \in todo[x], q \in QueuedOf(agent[x]) :
        q < r => q \in todo[x] \/ (pc[x] = "end" /\ run[x] = q) \/ r \in ahead[q]

OrderInv == CallersWait /\ SelectedAreOldest

-----------------------------------------------------------------------------
(* Waiting: what QueuedRunsAreDriven needs besides fairness *)

\* In the chain of its agent: it waits for the lock or has it.
Chained(x) == pc[x] \in Critical \cup {"wait"}

\* The step x is about to make is possible now.  (The new activation of a tail call
\* is left out: how many there are is a bound of the model.)
CanGoOn(x) ==
    \/ pc[x] \in {"scan", "unlock", "end", "release", "tail"}
    \/ pc[x] = "wait" /\ Holds(x)
    \/ pc[x] = "select" /\ \E T \in SUBSET QueuedOf(agent[x]) : OldestQueued(T, agent[x], slots[x])
    \/ pc[x] \in {"check", "claim"} /\ \E r \in todo[x] : First(todo[x], r)

\* x waits for the lock that y has, or for the call z that it made.
Behind(x, y) == pc[x] = "wait" /\ Holds(y) /\ agent[y] = agent[x]
Calls(x, z) == pc[x] \in {"promoteWait", "tailWait"} /\ parent[z] = x

\* No activation waits for itself, however calls nest: each one in progress can go
\* on, or waits for one that can, behind it in the chain or through the call it made.
NoActivationIsStuck ==
    \A x \in Activations : pc[x] # "idle" =>
        \E y \in Activations :
            /\ CanGoOn(y)
            /\ \/ y = x
               \/ Behind(x, y)
               \/ \E z \in Activations : Calls(x, z) /\ (z = y \/ Behind(z, y))

\* The activations chained for an agent are in its queue, each once.
ChainsOK ==
    \A a \in Agents :
        /\ \A x \in Activations :
              (\E i \in DOMAIN queue[a] : queue[a][i] = x) <=> (Chained(x) /\ agent[x] = a)
        /\ \A i, j \in DOMAIN queue[a] : queue[a][i] = queue[a][j] => i = j

\* A call is awaited until it returns, and its caller waits for it only.
CallsOK ==
    /\ \A y \in Activations : parent[y] # NoActivation => Chained(y)
    /\ \A x \in Activations :
          pc[x] \in {"promoteWait", "tailWait"} => \E y \in Activations : parent[y] = x

SelectionsOK == \A x \in Activations : pc[x] \in {"check", "claim"} => todo[x] # {}

\* The inductive invariant, with IInv and CallersWait, where no claim is refused.
WaitInv ==
    /\ ~blocked /\ (\A a \in Agents : invokable[a])
    /\ ChainsOK /\ CallsOK /\ SelectionsOK
=============================================================================
