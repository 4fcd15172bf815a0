------------------------ MODULE AgentStartLockProofs ------------------------
(***************************************************************************)
(* Proofs about AgentStartLock, for any agents, any number of runs and     *)
(* calls, and any maxConcurrentRuns.                                       *)
(***************************************************************************)
EXTENDS AgentStartLock, FiniteSetTheorems, WellFoundedInduction, TLAPS

(***************************************************************************)
(* Sets of runs                                                            *)
(***************************************************************************)

\* The run ids are a finite set, and so is every set of them.
LEMMA RunsFinite ==
    ASSUME NEW T \in SUBSET Runs
    PROVE  IsFiniteSet(T) /\ Cardinality(T) \in Nat
<1>1. IsFiniteSet(Runs)
  BY ConstantsAssumption, FS_Interval DEF Runs
<1> QED
  BY <1>1, FS_Subset, FS_CardinalityType

\* A smaller set of runs has no more elements.
LEMMA RunsSubset ==
    ASSUME NEW T \in SUBSET Runs, NEW S \in SUBSET T
    PROVE  Cardinality(S) \in Nat /\ Cardinality(S) <= Cardinality(T)
  BY RunsFinite, FS_Subset, FS_CardinalityType

\* Taking a run out of a set lowers its cardinality by one.
LEMMA RunsRemove ==
    ASSUME NEW T \in SUBSET Runs, NEW r \in T
    PROVE  Cardinality(T \ {r}) = Cardinality(T) - 1 /\ Cardinality(T) >= 1
<1>1. IsFiniteSet(T) /\ Cardinality(T) \in Nat
  BY RunsFinite
<1>2. Cardinality(T \ {r}) = Cardinality(T) - 1
  BY <1>1, FS_RemoveElement
<1>3. Cardinality(T \ {r}) \in Nat
  BY RunsFinite
<1> QED
  BY <1>1, <1>2, <1>3

\* Adding a run to a set raises its cardinality by one at most.
LEMMA RunsAdd ==
    ASSUME NEW T \in SUBSET Runs, NEW r \in Runs
    PROVE  Cardinality(T \cup {r}) <= Cardinality(T) + 1
<1>1. IsFiniteSet(T) /\ Cardinality(T) \in Nat
  BY RunsFinite
<1>2. CASE r \in T
  <2>1. T \cup {r} = T
    BY <1>2
  <2> QED
    BY <1>1, <2>1
<1>3. CASE r \notin T
  <2>1. Cardinality(T \cup {r}) = Cardinality(T) + 1
    BY <1>1, <1>3, FS_AddElement
  <2> QED
    BY <1>1, <2>1
<1> QED
  BY <1>2, <1>3

(***************************************************************************)
(* The lock                                                                *)
(***************************************************************************)

\* Two holders of the lock of one agent are one activation.
LEMMA OneHolder ==
    ASSUME NEW x \in Activations, NEW y \in Activations,
           Holds(x), Holds(y), agent[x] = agent[y]
    PROVE  x = y
  BY DEF Holds

\* LockOK gives the mutual exclusion that TLC checks.
LEMMA LockGivesMutualExclusion == IInv => MutualExclusion
  BY OneHolder DEF IInv, LockOK, MutualExclusion

\* Chaining an activation behind others leaves every holder a holder.
LEMMA ChainKeepsHolders ==
    ASSUME TypeOK, NEW x \in Activations, NEW y \in Activations, NEW a \in Agents,
           NEW p, Chain(y, a, p), x # y, agent[x] \in Agents, Holds(x)
    PROVE  Holds(x)'
<1>1. agent'[x] = agent[x]
  BY DEF Chain, TypeOK
<1>2. queue[agent[x]] \in Seq(Activations) /\ queue[agent[x]] # <<>>
  BY DEF TypeOK, Holds
<1>3. CASE agent[x] = a
  <2>1. queue'[agent[x]] = Append(queue[a], y)
    BY <1>3 DEF Chain, TypeOK
  <2> QED
    BY <1>1, <1>2, <1>3, <2>1 DEF Holds
<1>4. CASE agent[x] # a
  BY <1>1, <1>4 DEF Chain, TypeOK, Holds
<1> QED
  BY <1>3, <1>4

(***************************************************************************)
(* The slots                                                               *)
(***************************************************************************)

\* A step after which no agent runs more, and no activation counts or selects
\* anew, keeps the slots.
LEMMA SlotsKept ==
    ASSUME IInv, TypeOK',
           \A a \in Agents : RunningOf(a)' \subseteq RunningOf(a),
           \A x \in Activations : pc'[x] = "select" =>
                pc[x] = "select" /\ agent'[x] = agent[x] /\ slots'[x] = slots[x],
           \A x \in Activations : todo'[x] # {} =>
                todo'[x] \subseteq todo[x] /\ agent'[x] = agent[x]
    PROVE  SlotsOK' /\ SlotBound'
<1>1. ASSUME NEW a \in Agents
      PROVE  /\ Cardinality(RunningOf(a)) \in Nat
             /\ Cardinality(RunningOf(a)') \in Nat
             /\ Cardinality(RunningOf(a)') <= Cardinality(RunningOf(a))
  <2>1. RunningOf(a) \subseteq Runs
    BY DEF RunningOf
  <2>2. RunningOf(a)' \subseteq RunningOf(a)
    OBVIOUS
  <2> QED
    BY <2>1, <2>2, RunsSubset, RunsFinite
<1>2. SlotBound'
  BY <1>1, ConstantsAssumption DEF IInv, SlotBound
<1>3. ASSUME NEW x \in Activations, pc'[x] = "select"
      PROVE  (Cardinality(RunningOf(agent[x])) + slots[x] <= MaxConcurrentRuns)'
  <2>1. pc[x] = "select" /\ agent'[x] = agent[x] /\ slots'[x] = slots[x]
    BY <1>3
  <2>2. PICK a \in Agents : a = agent[x]
    BY <2>1 DEF IInv, LocalsOK
  <2>3. RunningOf(agent[x]) = RunningOf(a) /\ RunningOf(agent[x])' = RunningOf(a)'
    BY <2>1, <2>2 DEF RunningOf
  <2>4. slots[x] \in Nat /\ Cardinality(RunningOf(a)) + slots[x] <= MaxConcurrentRuns
    BY <2>1, <2>3 DEF IInv, SlotsOK, TypeOK
  <2> QED
    BY <1>1, <2>1, <2>3, <2>4, ConstantsAssumption
<1>4. ASSUME NEW x \in Activations, todo'[x] # {}
      PROVE  (Cardinality(RunningOf(agent[x])) + Cardinality(todo[x]) <= MaxConcurrentRuns)'
  <2>1. /\ todo[x] \subseteq Runs /\ todo[x] # {} /\ todo'[x] \subseteq todo[x]
        /\ agent'[x] = agent[x]
    BY <1>4 DEF IInv, TypeOK
  <2>2. PICK a \in Agents : a = agent[x]
    BY <2>1 DEF IInv, LocalsOK
  <2>3. RunningOf(agent[x]) = RunningOf(a) /\ RunningOf(agent[x])' = RunningOf(a)'
    BY <2>1, <2>2 DEF RunningOf
  <2>4. /\ Cardinality(todo[x]) \in Nat
        /\ Cardinality(todo'[x]) \in Nat
        /\ Cardinality(todo'[x]) <= Cardinality(todo[x])
    BY <2>1, RunsFinite, RunsSubset
  <2>5. Cardinality(RunningOf(a)) + Cardinality(todo[x]) <= MaxConcurrentRuns
    BY <2>1, <2>3 DEF IInv, SlotsOK
  <2> QED
    BY <1>1, <2>3, <2>4, <2>5, ConstantsAssumption
<1> QED
  BY <1>2, <1>3, <1>4 DEF SlotsOK

(***************************************************************************)
(* The steps: each keeps the inductive invariant                           *)
(***************************************************************************)

\* The head of the chain enters the lock.
LEMMA AcquireStep ==
    ASSUME IInv, NEW x \in Activations, Acquire(x)
    PROVE  IInv'
<1> USE DEF Acquire, rows, locals
<1>1. TypeOK'
  BY DEF IInv, TypeOK, LocalsOK, RunStatus, PCs, Critical
<1>2. LocalsOK'
  BY DEF IInv, TypeOK, LocalsOK, Critical, PCs
<1>3. LockOK'
  BY DEF IInv, TypeOK, LocalsOK, LockOK, Holds, Critical, PCs
<1>4. SlotsOK' /\ SlotBound'
  <2>1. \A b \in Agents : RunningOf(b)' \subseteq RunningOf(b)
    BY DEF IInv, TypeOK, RunningOf
  <2> QED
    BY <1>1, <2>1, SlotsKept DEF IInv, TypeOK, LocalsOK
<1> QED
  BY <1>1, <1>2, <1>3, <1>4 DEF IInv

\* The head of the chain leaves the lock, and its caller goes on.
LEMMA UnlockStep ==
    ASSUME IInv, NEW x \in Activations, Unlock(x)
    PROVE  IInv'
<1> DEFINE a == agent[x]
<1> USE DEF Unlock
<1>a. /\ a \in Agents /\ pc[x] = "unlock" /\ todo[x] = {}
      /\ queue[a] \in Seq(Activations) /\ queue[a] # <<>> /\ Head(queue[a]) = x
  BY DEF IInv, TypeOK, LocalsOK, LockOK, Holds, Critical
<1>b. \A y \in Activations : pc'[y] = IF y = x THEN "idle" ELSE
                                     IF y = parent[x] THEN Resumed(y) ELSE pc[y]
  OBVIOUS
<1>c. \A y \in Activations : agent'[y] = IF pc'[y] = "idle" THEN NoAgent ELSE agent[y]
  OBVIOUS
<1>d. \A y \in Activations : Resumed(y) \in {"tail", "unlock", "check", "idle"}
  BY DEF Resumed
<1>e. queue' = [queue EXCEPT ![a] = Tail(queue[a])] /\ todo' = todo /\ status' = status /\ agentOf' = agentOf
      /\ run' = run /\ slots' = slots
  BY DEF rows
<1>f. ASSUME NEW y \in Activations, todo[y] # {}
      PROVE  y # x /\ pc[y] # "idle" /\ Holds(y) /\ agent[y] # a
  BY <1>a, <1>f, OneHolder DEF IInv, LocalsOK, LockOK, Holds
<1>g. ASSUME NEW y \in Activations, pc'[y] # pc[y], y # x
      PROVE  /\ y = parent[x] /\ pc'[y] = Resumed(y)
             /\ pc'[y] = "idle" => todo[y] = {}
             /\ pc'[y] = "check" => todo[y] # {} /\ Holds(y)
             /\ pc'[y] = "unlock" => todo[y] = {} /\ Holds(y)
             /\ pc'[y] = "tail" => pc[y] = "promoteWait"
  <2>1. y = parent[x] /\ pc'[y] = Resumed(y)
    BY <1>g, <1>b
  <2>2. CASE pc[y] = "promoteWait"
    BY <2>1, <2>2 DEF Resumed
  <2>3. CASE pc[y] # "promoteWait" /\ Holds(y)
    BY <2>1, <2>3 DEF Resumed
  <2>4. CASE pc[y] # "promoteWait" /\ ~Holds(y)
    <3>1. todo[y] = {}
      BY <2>4, <1>f
    <3> QED
      BY <2>1, <2>4, <3>1 DEF Resumed
  <2> QED
    BY <2>2, <2>3, <2>4
<1>1. TypeOK'
  BY <1>a, <1>b, <1>c, <1>d, <1>e DEF IInv, TypeOK, LocalsOK, RunStatus, PCs, Critical, rows
<1>2. LocalsOK'
  <2> SUFFICES ASSUME NEW y \in Activations
               PROVE  /\ IF pc'[y] = "idle" THEN agent'[y] = NoAgent ELSE agent'[y] \in Agents
                      /\ pc'[y] \in {"end", "release", "promoteWait", "tail"} =>
                             run[y] \in Runs /\ status[run[y]] # "none"
                      /\ pc'[y] \in {"idle", "wait", "scan", "select", "unlock"} => todo[y] = {}
                      /\ \A r \in todo[y] : status[r] # "none" /\ agentOf[r] = agent'[y]
    BY <1>e DEF LocalsOK
  <2>1. CASE y = x
    BY <1>a, <1>b, <1>c, <2>1
  <2>2. CASE y # x /\ pc'[y] = pc[y]
    BY <1>c, <1>f, <2>2 DEF IInv, LocalsOK
  <2>3. CASE y # x /\ pc'[y] # pc[y]
    <3>1. pc[y] # "idle"
      BY <1>g, <2>3, ConstantsAssumption DEF IInv, LocalsOK, Resumed, Holds
    <3> QED
      BY <1>c, <1>d, <1>f, <1>g, <2>3, <3>1 DEF IInv, LocalsOK
  <2> QED
    BY <2>1, <2>2, <2>3
<1>3. LockOK'
  <2> SUFFICES ASSUME NEW y \in Activations, pc'[y] \in Critical \/ todo[y] # {}
               PROVE  Holds(y)'
    BY <1>e DEF LockOK
  <2>1. y # x /\ Holds(y)
    <3>1. CASE todo[y] # {}
      BY <3>1, <1>f
    <3>2. CASE todo[y] = {} /\ pc'[y] = pc[y]
      BY <3>2, <1>b DEF IInv, LockOK, Critical
    <3>3. CASE todo[y] = {} /\ pc'[y] # pc[y]
      BY <3>3, <1>b, <1>d, <1>g DEF Critical
    <3> QED
      BY <3>1, <3>2, <3>3
  <2>2. agent[y] # a
    BY <1>a, <2>1 DEF Holds
  <2>3. pc'[y] # "idle" /\ agent'[y] = agent[y]
    BY <1>2, <1>c, <1>e DEF LocalsOK, Critical
  <2> QED
    BY <1>e, <2>1, <2>2, <2>3 DEF Holds, IInv, TypeOK
<1>4. SlotsOK' /\ SlotBound'
  <2>1. \A b \in Agents : RunningOf(b)' \subseteq RunningOf(b)
    BY <1>e DEF RunningOf
  <2>2. \A y \in Activations : pc'[y] = "select" =>
            pc[y] = "select" /\ agent'[y] = agent[y] /\ slots'[y] = slots[y]
    BY <1>b, <1>c, <1>d, <1>e
  <2>3. \A y \in Activations : todo'[y] # {} =>
            todo'[y] \subseteq todo[y] /\ agent'[y] = agent[y]
    BY <1>2, <1>c, <1>e DEF LocalsOK
  <2> QED
    BY <1>1, <2>1, <2>2, <2>3, SlotsKept
<1> QED
  BY <1>1, <1>2, <1>3, <1>4 DEF IInv

\* A selected run is to be claimed or cancelled.
LEMMA CheckStep ==
    ASSUME IInv, NEW x \in Activations, Check(x)
    PROVE  IInv'
<1> USE DEF Check, rows
<1>a. PICK r \in todo[x] :
        \/ pc' = [pc EXCEPT ![x] = "claim"] /\ UNCHANGED <<todo, run>>
        \/ /\ pc' = [pc EXCEPT ![x] = "end"]
           /\ run' = [run EXCEPT ![x] = r]
           /\ todo' = [todo EXCEPT ![x] = todo[x] \ {r}]
  OBVIOUS
<1>b. r \in Runs /\ status[r] # "none" /\ pc[x] = "check"
  BY DEF IInv, TypeOK, LocalsOK
<1>1. TypeOK'
  <2>1. "claim" \in PCs /\ "end" \in PCs
    BY DEF PCs, Critical
  <2>2. CASE pc' = [pc EXCEPT ![x] = "claim"] /\ UNCHANGED <<todo, run>>
    BY <2>1, <2>2 DEF IInv, TypeOK
  <2>3. CASE /\ pc' = [pc EXCEPT ![x] = "end"]
             /\ run' = [run EXCEPT ![x] = r]
             /\ todo' = [todo EXCEPT ![x] = todo[x] \ {r}]
    <3>1. todo[x] \ {r} \in SUBSET Runs
      BY DEF IInv, TypeOK
    <3> QED
      BY <1>b, <2>1, <2>3, <3>1 DEF IInv, TypeOK
  <2> QED
    BY <1>a, <2>2, <2>3
<1>2. LocalsOK'
  <2>1. CASE pc' = [pc EXCEPT ![x] = "claim"] /\ UNCHANGED <<todo, run>>
    BY <2>1, <1>b DEF IInv, TypeOK, LocalsOK
  <2>2. CASE /\ pc' = [pc EXCEPT ![x] = "end"]
             /\ run' = [run EXCEPT ![x] = r]
             /\ todo' = [todo EXCEPT ![x] = todo[x] \ {r}]
    BY <2>2, <1>b DEF IInv, TypeOK, LocalsOK
  <2> QED
    BY <1>a, <2>1, <2>2
<1>3. LockOK'
  BY <1>a, <1>b DEF IInv, TypeOK, LockOK, Holds, Critical
<1>4. SlotsOK' /\ SlotBound'
  <2>1. \A b \in Agents : RunningOf(b)' \subseteq RunningOf(b)
    BY DEF RunningOf
  <2>2. \A y \in Activations : pc'[y] = "select" =>
            pc[y] = "select" /\ agent'[y] = agent[y] /\ slots'[y] = slots[y]
    BY <1>a DEF IInv, TypeOK
  <2>3. \A y \in Activations : todo'[y] # {} =>
            todo'[y] \subseteq todo[y] /\ agent'[y] = agent[y]
    BY <1>a DEF IInv, TypeOK
  <2> QED
    BY <1>1, <2>1, <2>2, <2>3, SlotsKept
<1> QED
  BY <1>1, <1>2, <1>3, <1>4 DEF IInv

\* A run ends.
LEMMA EndRunStep ==
    ASSUME IInv, NEW x \in Activations, EndRun(x)
    PROVE  IInv'
<1> DEFINE resumed == Resumed(x)
<1>a. /\ pc[x] = "end" /\ agent[x] \in Agents
      /\ run[x] \in Runs /\ status[run[x]] # "none"
  BY DEF EndRun, IInv, LocalsOK
<1>b. UNCHANGED <<agentOf, ahead, invokable, blocked, deferred, deferrals, queue, slots, todo, parent>>
  BY DEF EndRun
<1>c. \/ /\ status' = [status EXCEPT ![run[x]] = "ended"]
         /\ pc' = [pc EXCEPT ![x] = "release"]
         /\ UNCHANGED <<agent, run>>
      \/ /\ pc' = [pc EXCEPT ![x] = resumed]
         /\ agent' = [agent EXCEPT ![x] = IF pc'[x] = "idle" THEN NoAgent ELSE agent[x]]
         /\ run' = [run EXCEPT ![x] = 0]
         /\ UNCHANGED status
  BY DEF EndRun
<1>d. /\ resumed \in {"unlock", "check", "idle"}
      /\ resumed = "unlock" => todo[x] = {} /\ Holds(x)
      /\ resumed = "check" => todo[x] # {} /\ Holds(x)
      /\ resumed = "idle" => ~Holds(x) /\ todo[x] = {}
  BY <1>a DEF Resumed, IInv, LockOK
<1>1. TypeOK'
  <2>1. {"unlock", "check", "idle", "release"} \subseteq PCs /\ "ended" \in RunStatus
    BY DEF PCs, Critical, RunStatus
  <2>2. CASE /\ pc' = [pc EXCEPT ![x] = resumed]
             /\ agent' = [agent EXCEPT ![x] = IF pc'[x] = "idle" THEN NoAgent ELSE agent[x]]
             /\ run' = [run EXCEPT ![x] = 0]
             /\ UNCHANGED status
    <3>1. pc' \in [Activations -> PCs]
      BY <1>d, <2>1, <2>2 DEF IInv, TypeOK
    <3>2. agent' \in [Activations -> Agents \cup {NoAgent}]
      BY <2>2 DEF IInv, TypeOK
    <3>3. run' \in [Activations -> Runs \cup {0}]
      BY <2>2 DEF IInv, TypeOK
    <3> QED
      BY <1>b, <2>2, <3>1, <3>2, <3>3 DEF IInv, TypeOK
  <2>3. CASE /\ status' = [status EXCEPT ![run[x]] = "ended"]
             /\ pc' = [pc EXCEPT ![x] = "release"]
             /\ UNCHANGED <<agent, run>>
    BY <1>a, <1>b, <2>1, <2>3 DEF IInv, TypeOK
  <2> QED
    BY <1>c, <2>2, <2>3
<1>2. LocalsOK'
  <2>1. CASE /\ status' = [status EXCEPT ![run[x]] = "ended"]
             /\ pc' = [pc EXCEPT ![x] = "release"]
             /\ UNCHANGED <<agent, run>>
    BY <1>a, <1>b, <2>1 DEF IInv, TypeOK, LocalsOK
  <2>2. CASE /\ pc' = [pc EXCEPT ![x] = resumed]
             /\ agent' = [agent EXCEPT ![x] = IF pc'[x] = "idle" THEN NoAgent ELSE agent[x]]
             /\ run' = [run EXCEPT ![x] = 0]
             /\ UNCHANGED status
    BY <1>a, <1>b, <1>d, <2>2 DEF IInv, TypeOK, LocalsOK
  <2> QED
    BY <1>c, <2>1, <2>2
<1>3. LockOK'
  <2> SUFFICES ASSUME NEW y \in Activations, pc'[y] \in Critical \/ todo[y] # {}
               PROVE  Holds(y)'
    BY <1>b DEF LockOK
  <2>1. CASE y # x
    <3>1. pc'[y] = pc[y] /\ agent'[y] = agent[y]
      BY <1>c, <2>1 DEF IInv, TypeOK
    <3> QED
      BY <1>b, <3>1 DEF IInv, LockOK, Holds
  <2>2. CASE y = x
    <3>1. Holds(x) /\ agent'[x] = agent[x]
      BY <1>c, <1>d, <2>2 DEF IInv, TypeOK, LockOK, Critical
    <3> QED
      BY <1>b, <2>2, <3>1 DEF Holds
  <2> QED
    BY <2>1, <2>2
<1>4. SlotsOK' /\ SlotBound'
  <2>1. \A b \in Agents : RunningOf(b)' \subseteq RunningOf(b)
    BY <1>b, <1>c DEF RunningOf, IInv, TypeOK
  <2>2. \A z \in Activations : pc'[z] = "select" =>
            pc[z] = "select" /\ agent'[z] = agent[z] /\ slots'[z] = slots[z]
    BY <1>b, <1>c, <1>d DEF IInv, TypeOK
  <2>3. \A z \in Activations : todo'[z] # {} =>
            todo'[z] \subseteq todo[z] /\ agent'[z] = agent[z]
    BY <1>b, <1>c, <1>d DEF IInv, TypeOK
  <2> QED
    BY <1>1, <2>1, <2>2, <2>3, SlotsKept
<1> QED
  BY <1>1, <1>2, <1>3, <1>4 DEF IInv

\* A deferred wake becomes a queued run of another agent.
LEMMA PromoteStep ==
    ASSUME IInv, NEW x \in Activations, Promote(x)
    PROVE  IInv'
<1>a. PICK b \in Agents, r \in Runs, y \in Activations :
        /\ deferred[b] > 0
        /\ deferred' = [deferred EXCEPT ![b] = deferred[b] - 1]
        /\ InsertQueued(r, b)
        /\ Chain(y, b, x)
        /\ pc' = [pc EXCEPT ![x] = "promoteWait", ![y] = "wait"]
  BY DEF Promote
<1>b. pc[x] = "release" /\ UNCHANGED <<invokable, blocked, deferrals, slots, todo, run>>
  BY DEF Promote
<1>c. /\ pc[y] = "idle" /\ y # x /\ todo[y] = {}
      /\ run[x] \in Runs /\ status[run[x]] # "none" /\ status[r] = "none"
  BY <1>a, <1>b DEF Chain, InsertQueued, NewRun, IInv, LocalsOK
<1>d. /\ queue' = [queue EXCEPT ![b] = Append(queue[b], y)]
      /\ agent' = [agent EXCEPT ![y] = b] /\ parent' = [parent EXCEPT ![y] = x]
      /\ status' = [status EXCEPT ![r] = "queued"] /\ agentOf' = [agentOf EXCEPT ![r] = b]
  BY <1>a DEF Chain, InsertQueued
<1>1. TypeOK'
  <2>1. "queued" \in RunStatus /\ "promoteWait" \in PCs /\ "wait" \in PCs
    BY DEF RunStatus, PCs
  <2>2. pc' \in [Activations -> PCs] /\ status' \in [Runs -> RunStatus]
    BY <1>a, <1>d, <2>1 DEF IInv, TypeOK
  <2>3. deferred' \in [Agents -> Nat]
    <3>1. deferred[b] - 1 \in Nat
      BY <1>a DEF IInv, TypeOK
    <3> QED
      BY <1>a, <3>1 DEF IInv, TypeOK
  <2>4. queue' \in [Agents -> Seq(Activations)]
    BY <1>d DEF IInv, TypeOK
  <2>5. ahead' \in [Runs -> SUBSET Runs]
    BY <1>a DEF InsertQueued, Overtaking, IInv, TypeOK
  <2> QED
    BY <1>b, <1>d, <2>2, <2>3, <2>4, <2>5 DEF IInv, TypeOK
<1>2. LocalsOK'
  BY <1>a, <1>b, <1>c, <1>d DEF IInv, TypeOK, LocalsOK
<1>3. LockOK'
  <2> SUFFICES ASSUME NEW z \in Activations, pc'[z] \in Critical \/ todo[z] # {}
               PROVE  Holds(z)'
    BY <1>b DEF LockOK
  <2>1. z # y /\ Holds(z) /\ agent[z] \in Agents
    BY <1>a, <1>c DEF IInv, TypeOK, LockOK, Critical, Holds
  <2> QED
    BY <1>a, <2>1, ChainKeepsHolders DEF IInv
<1>4. SlotsOK' /\ SlotBound'
  <2>1. \A c \in Agents : RunningOf(c)' \subseteq RunningOf(c)
    BY <1>d DEF RunningOf, IInv, TypeOK
  <2>2. \A z \in Activations : pc'[z] = "select" =>
            pc[z] = "select" /\ agent'[z] = agent[z] /\ slots'[z] = slots[z]
    BY <1>a, <1>b, <1>c, <1>d DEF IInv, TypeOK, LocalsOK
  <2>3. \A z \in Activations : todo'[z] # {} =>
            todo'[z] \subseteq todo[z] /\ agent'[z] = agent[z]
    BY <1>b, <1>c, <1>d DEF IInv, TypeOK, LocalsOK
  <2> QED
    BY <1>1, <2>1, <2>2, <2>3, SlotsKept
<1> QED
  BY <1>1, <1>2, <1>3, <1>4 DEF IInv

\* An issue is released with nobody to promote.
LEMMA ReleaseOnlyStep ==
    ASSUME IInv, NEW x \in Activations, ReleaseOnly(x)
    PROVE  IInv'
<1> USE DEF ReleaseOnly, locals
<1>1. TypeOK'
  BY DEF IInv, TypeOK, LocalsOK, RunStatus, PCs, Critical
<1>2. LocalsOK'
  BY DEF IInv, TypeOK, LocalsOK, Critical, PCs
<1>3. LockOK'
  BY DEF IInv, TypeOK, LocalsOK, LockOK, Holds, Critical, PCs
<1>4. SlotsOK' /\ SlotBound'
  <2>1. \A b \in Agents : RunningOf(b)' \subseteq RunningOf(b)
    BY DEF IInv, TypeOK, RunningOf
  <2> QED
    BY <1>1, <2>1, SlotsKept DEF IInv, TypeOK, LocalsOK
<1> QED
  BY <1>1, <1>2, <1>3, <1>4 DEF IInv

\* The end of a run calls startNext for its agent.
LEMMA TailCallStep ==
    ASSUME IInv, NEW x \in Activations, TailCall(x)
    PROVE  IInv'
<1> DEFINE b == agentOf[run[x]]
<1>a. PICK y \in Activations :
        /\ Chain(y, b, x)
        /\ pc' = [pc EXCEPT ![x] = "tailWait", ![y] = "wait"]
        /\ run' = [run EXCEPT ![x] = 0]
  BY DEF TailCall
<1>b. pc[x] = "tail" /\ UNCHANGED <<rows, slots, todo>>
  BY DEF TailCall
<1>c. b \in Agents /\ pc[y] = "idle" /\ y # x /\ todo[y] = {}
  BY <1>a, <1>b DEF Chain, IInv, LocalsOK, TypeOK
<1>d. /\ queue' = [queue EXCEPT ![b] = Append(queue[b], y)]
      /\ agent' = [agent EXCEPT ![y] = b] /\ parent' = [parent EXCEPT ![y] = x]
  BY <1>a DEF Chain
<1>1. TypeOK'
  <2>1. "tailWait" \in PCs /\ "wait" \in PCs
    BY DEF PCs
  <2>2. pc' \in [Activations -> PCs] /\ run' \in [Activations -> Runs \cup {0}]
    BY <1>a, <2>1 DEF IInv, TypeOK
  <2>3. queue' \in [Agents -> Seq(Activations)]
    BY <1>c, <1>d DEF IInv, TypeOK
  <2> QED
    BY <1>b, <1>c, <1>d, <2>2, <2>3 DEF IInv, TypeOK, rows
<1>2. LocalsOK'
  BY <1>a, <1>b, <1>c, <1>d DEF IInv, TypeOK, LocalsOK, rows
<1>3. LockOK'
  <2> SUFFICES ASSUME NEW z \in Activations, pc'[z] \in Critical \/ todo[z] # {}
               PROVE  Holds(z)'
    BY <1>b DEF LockOK
  <2>1. z # y /\ Holds(z) /\ agent[z] \in Agents
    BY <1>a, <1>c DEF IInv, TypeOK, LockOK, Critical, Holds
  <2> QED
    BY <1>a, <1>c, <2>1, ChainKeepsHolders DEF IInv
<1>4. SlotsOK' /\ SlotBound'
  <2>1. \A c \in Agents : RunningOf(c)' \subseteq RunningOf(c)
    BY <1>b DEF RunningOf, rows
  <2>2. \A z \in Activations : pc'[z] = "select" =>
            pc[z] = "select" /\ agent'[z] = agent[z] /\ slots'[z] = slots[z]
    BY <1>a, <1>b, <1>c, <1>d DEF IInv, TypeOK, LocalsOK
  <2>3. \A z \in Activations : todo'[z] # {} =>
            todo'[z] \subseteq todo[z] /\ agent'[z] = agent[z]
    BY <1>b, <1>c, <1>d DEF IInv, TypeOK, LocalsOK
  <2> QED
    BY <1>1, <2>1, <2>2, <2>3, SlotsKept
<1> QED
  BY <1>1, <1>2, <1>3, <1>4 DEF IInv

\* A timer tick calls startNext.
LEMMA ResumeQueuedStep ==
    ASSUME IInv, NEW x \in Activations, NEW a \in Agents, ResumeQueued(x, a)
    PROVE  IInv'
<1> USE DEF ResumeQueued, RootFree, Chain, rows
<1>1. TypeOK'
  BY DEF IInv, TypeOK, LocalsOK, RunStatus, PCs, Critical
<1>2. LocalsOK'
  BY DEF IInv, TypeOK, LocalsOK, Critical, PCs
<1>3. LockOK'
  BY DEF IInv, TypeOK, LocalsOK, LockOK, Holds, Critical, PCs
<1>4. SlotsOK' /\ SlotBound'
  <2>1. \A b \in Agents : RunningOf(b)' \subseteq RunningOf(b)
    BY DEF IInv, TypeOK, RunningOf
  <2> QED
    BY <1>1, <2>1, SlotsKept DEF IInv, TypeOK, LocalsOK
<1> QED
  BY <1>1, <1>2, <1>3, <1>4 DEF IInv

\* A wake queues a run and calls startNext.
LEMMA WakeupStep ==
    ASSUME IInv, NEW x \in Activations, NEW a \in Agents, Wakeup(x, a)
    PROVE  IInv'
<1> USE DEF Wakeup, RootFree, Chain, InsertQueued, NewRun
<1>0. ahead' \in [Runs -> SUBSET Runs]
  BY DEF Overtaking, IInv, TypeOK
<1>1. TypeOK'
  BY <1>0 DEF IInv, TypeOK, LocalsOK, RunStatus, PCs, Critical
<1>2. LocalsOK'
  BY DEF IInv, TypeOK, LocalsOK, Critical, PCs
<1>3. LockOK'
  BY DEF IInv, TypeOK, LocalsOK, LockOK, Holds, Critical, PCs
<1>4. SlotsOK' /\ SlotBound'
  <2>1. \A b \in Agents : RunningOf(b)' \subseteq RunningOf(b)
    BY DEF IInv, TypeOK, RunningOf
  <2> QED
    BY <1>1, <2>1, SlotsKept DEF IInv, TypeOK, LocalsOK
<1> QED
  BY <1>1, <1>2, <1>3, <1>4 DEF IInv

\* A wake is deferred.
LEMMA DeferWakeupStep ==
    ASSUME IInv, NEW a \in Agents, DeferWakeup(a)
    PROVE  IInv'
<1> USE DEF DeferWakeup, locals
<1>1. TypeOK'
  BY DEF IInv, TypeOK, LocalsOK, RunStatus, PCs, Critical
<1>2. LocalsOK'
  BY DEF IInv, TypeOK, LocalsOK, Critical, PCs
<1>3. LockOK'
  BY DEF IInv, TypeOK, LocalsOK, LockOK, Holds, Critical, PCs
<1>4. SlotsOK' /\ SlotBound'
  <2>1. \A b \in Agents : RunningOf(b)' \subseteq RunningOf(b)
    BY DEF IInv, TypeOK, RunningOf
  <2> QED
    BY <1>1, <2>1, SlotsKept DEF IInv, TypeOK, LocalsOK
<1> QED
  BY <1>1, <1>2, <1>3, <1>4 DEF IInv

\* A run is about to end.
LEMMA BeginEndStep ==
    ASSUME IInv, NEW x \in Activations, NEW r \in Runs, BeginEnd(x, r)
    PROVE  IInv'
<1> USE DEF BeginEnd, RootFree, Active, rows
<1>1. TypeOK'
  BY DEF IInv, TypeOK, LocalsOK, RunStatus, PCs, Critical
<1>2. LocalsOK'
  BY DEF IInv, TypeOK, LocalsOK, Critical, PCs
<1>3. LockOK'
  BY DEF IInv, TypeOK, LocalsOK, LockOK, Holds, Critical, PCs
<1>4. SlotsOK' /\ SlotBound'
  <2>1. \A b \in Agents : RunningOf(b)' \subseteq RunningOf(b)
    BY DEF IInv, TypeOK, RunningOf
  <2> QED
    BY <1>1, <2>1, SlotsKept DEF IInv, TypeOK, LocalsOK
<1> QED
  BY <1>1, <1>2, <1>3, <1>4 DEF IInv

\* A budget stop begins or ends.
LEMMA SetBlockedStep ==
    ASSUME IInv, SetBlocked
    PROVE  IInv'
<1> USE DEF SetBlocked, locals
<1>1. TypeOK'
  BY DEF IInv, TypeOK, LocalsOK, RunStatus, PCs, Critical
<1>2. LocalsOK'
  BY DEF IInv, TypeOK, LocalsOK, Critical, PCs
<1>3. LockOK'
  BY DEF IInv, TypeOK, LocalsOK, LockOK, Holds, Critical, PCs
<1>4. SlotsOK' /\ SlotBound'
  <2>1. \A b \in Agents : RunningOf(b)' \subseteq RunningOf(b)
    BY DEF IInv, TypeOK, RunningOf
  <2> QED
    BY <1>1, <2>1, SlotsKept DEF IInv, TypeOK, LocalsOK
<1> QED
  BY <1>1, <1>2, <1>3, <1>4 DEF IInv

\* An agent is paused or resumed.
LEMMA SetInvokableStep ==
    ASSUME IInv, NEW a \in Agents, SetInvokable(a)
    PROVE  IInv'
<1> USE DEF SetInvokable, locals
<1>1. TypeOK'
  BY DEF IInv, TypeOK, LocalsOK, RunStatus, PCs, Critical
<1>2. LocalsOK'
  BY DEF IInv, TypeOK, LocalsOK, Critical, PCs
<1>3. LockOK'
  BY DEF IInv, TypeOK, LocalsOK, LockOK, Holds, Critical, PCs
<1>4. SlotsOK' /\ SlotBound'
  <2>1. \A b \in Agents : RunningOf(b)' \subseteq RunningOf(b)
    BY DEF IInv, TypeOK, RunningOf
  <2> QED
    BY <1>1, <2>1, SlotsKept DEF IInv, TypeOK, LocalsOK
<1> QED
  BY <1>1, <1>2, <1>3, <1>4 DEF IInv

\* The holder counts the free slots.
LEMMA ScanStep ==
    ASSUME IInv, NEW x \in Activations, Scan(x)
    PROVE  IInv'
<1> DEFINE free == MaxConcurrentRuns - Cardinality(RunningOf(agent[x]))
<1>a. /\ pc[x] = "scan" /\ todo[x] = {} /\ agent[x] \in Agents /\ Holds(x)
      /\ Cardinality(RunningOf(agent[x])) \in Nat
  <2>1. RunningOf(agent[x]) \subseteq Runs
    BY DEF RunningOf
  <2> QED
    BY <2>1, RunsFinite DEF Scan, IInv, LocalsOK, LockOK, Critical
<1>b. UNCHANGED <<rows, queue, agent, todo, run, parent>>
  BY DEF Scan
<1>c. \/ /\ free \in Nat /\ slots' = [slots EXCEPT ![x] = free]
         /\ pc' = [pc EXCEPT ![x] = "select"]
      \/ pc' = [pc EXCEPT ![x] = "unlock"] /\ UNCHANGED slots
  BY <1>a, ConstantsAssumption DEF Scan
<1>1. TypeOK'
  BY <1>b, <1>c DEF IInv, TypeOK, PCs, Critical, rows
<1>2. LocalsOK'
  BY <1>a, <1>b, <1>c DEF IInv, TypeOK, LocalsOK, rows
<1>3. LockOK'
  BY <1>a, <1>b, <1>c DEF IInv, TypeOK, LockOK, Holds, Critical
<1>4. \A a : RunningOf(a)' = RunningOf(a)
  BY <1>b DEF RunningOf, rows
<1>5. SlotBound'
  BY <1>4 DEF IInv, SlotBound
<1>6. SlotsOK'
  <2> SUFFICES ASSUME NEW y \in Activations
               PROVE  /\ pc'[y] = "select" =>
                            Cardinality(RunningOf(agent[y])) + slots'[y] <= MaxConcurrentRuns
                      /\ todo[y] # {} =>
                            Cardinality(RunningOf(agent[y])) + Cardinality(todo[y]) <= MaxConcurrentRuns
    BY <1>b, <1>4 DEF SlotsOK
  <2>1. CASE y = x
    BY <1>a, <1>c, <2>1, ConstantsAssumption DEF IInv, TypeOK
  <2>2. CASE y # x
    BY <1>b, <1>c, <2>2 DEF IInv, TypeOK, SlotsOK
  <2> QED
    BY <2>1, <2>2
<1> QED
  BY <1>1, <1>2, <1>3, <1>5, <1>6 DEF IInv

\* The holder selects queued runs, no more than the slots it counted.
LEMMA SelectStep ==
    ASSUME IInv, NEW x \in Activations, Select(x)
    PROVE  IInv'
<1>a. PICK T \in SUBSET QueuedOf(agent[x]) :
        /\ Cardinality(T) <= slots[x]
        /\ todo' = [todo EXCEPT ![x] = T]
        /\ pc' = [pc EXCEPT ![x] = IF T = {} THEN "unlock" ELSE "check"]
  BY DEF Select, OldestQueued
<1>b. /\ pc[x] = "select" /\ agent[x] \in Agents /\ Holds(x)
      /\ slots' = [slots EXCEPT ![x] = 0] /\ UNCHANGED <<rows, queue, agent, run, parent>>
  BY DEF Select, IInv, LocalsOK, LockOK, Critical
<1>c. T \subseteq Runs /\ \A r \in T : status[r] # "none" /\ agentOf[r] = agent[x]
  BY DEF QueuedOf
<1>1. TypeOK'
  <2>1. todo' \in [Activations -> SUBSET Runs] /\ slots' \in [Activations -> Nat]
    BY <1>a, <1>b, <1>c DEF IInv, TypeOK
  <2>2. pc' \in [Activations -> PCs]
    BY <1>a DEF IInv, TypeOK, PCs, Critical
  <2> QED
    BY <1>b, <2>1, <2>2 DEF IInv, TypeOK, rows
<1>2. LocalsOK'
  BY <1>a, <1>b, <1>c DEF IInv, TypeOK, LocalsOK, rows
<1>3. LockOK'
  BY <1>a, <1>b DEF IInv, TypeOK, LockOK, Holds, Critical
<1>4. \A a : RunningOf(a)' = RunningOf(a)
  BY <1>b DEF RunningOf, rows
<1>5. SlotBound'
  BY <1>4 DEF IInv, SlotBound
<1>6. SlotsOK'
  <2> SUFFICES ASSUME NEW y \in Activations
               PROVE  /\ pc'[y] = "select" =>
                            Cardinality(RunningOf(agent[y])) + slots'[y] <= MaxConcurrentRuns
                      /\ todo'[y] # {} =>
                            Cardinality(RunningOf(agent[y])) + Cardinality(todo'[y]) <= MaxConcurrentRuns
    BY <1>b, <1>4 DEF SlotsOK
  <2>1. CASE y = x
    <3>1. /\ Cardinality(RunningOf(agent[x])) \in Nat /\ Cardinality(T) \in Nat
          /\ slots[x] \in Nat
          /\ Cardinality(RunningOf(agent[x])) + slots[x] <= MaxConcurrentRuns
      <4>1. RunningOf(agent[x]) \subseteq Runs
        BY DEF RunningOf
      <4> QED
        BY <1>b, <1>c, <4>1, RunsFinite DEF IInv, TypeOK, SlotsOK
    <3>2. todo'[x] = T /\ pc'[x] # "select"
      BY <1>a DEF IInv, TypeOK
    <3> QED
      BY <1>a, <2>1, <3>1, <3>2, ConstantsAssumption
  <2>2. CASE y # x
    BY <1>a, <1>b, <2>2 DEF IInv, TypeOK, SlotsOK
  <2> QED
    BY <2>1, <2>2
<1> QED
  BY <1>1, <1>2, <1>3, <1>5, <1>6 DEF IInv

\* Claiming a run moves it from the selected runs to the running ones.
LEMMA ClaimStep ==
    ASSUME IInv, NEW x \in Activations, Claim(x)
    PROVE  /\ IInv'
           /\ UNCHANGED ahead
           /\ \/ UNCHANGED <<status, agentOf>>
              \/ \E r \in Runs :
                    /\ status[r] = "queued"
                    /\ Cardinality(RunningOf(agentOf[r])) < MaxConcurrentRuns
                    /\ status' = [status EXCEPT ![r] = "running"]
                    /\ UNCHANGED agentOf
<1> DEFINE a == agent[x]
<1>a. PICK r \in todo[x] :
        /\ status' = IF status[r] = "queued" THEN [status EXCEPT ![r] = "running"] ELSE status
        /\ todo' = [todo EXCEPT ![x] = todo[x] \ {r}]
        /\ pc' = [pc EXCEPT ![x] = IF todo[x] = {r} THEN "unlock" ELSE "check"]
  BY DEF Claim
<1>b. /\ pc[x] = "claim" /\ a \in Agents /\ Holds(x)
      /\ UNCHANGED <<agentOf, ahead, invokable, blocked, deferred, deferrals, queue, agent, slots, run, parent>>
  BY DEF Claim, IInv, LocalsOK, LockOK, Critical
<1>c. /\ r \in Runs /\ status[r] # "none" /\ agentOf[r] = a /\ todo[x] \subseteq Runs
      /\ RunningOf(a) \subseteq Runs
  BY DEF IInv, TypeOK, LocalsOK, RunningOf
<1>d. /\ Cardinality(RunningOf(a)) \in Nat /\ Cardinality(todo[x]) \in Nat
      /\ Cardinality(todo[x] \ {r}) = Cardinality(todo[x]) - 1
      /\ Cardinality(todo[x]) >= 1
      /\ Cardinality(RunningOf(a)) + Cardinality(todo[x]) <= MaxConcurrentRuns
  BY <1>c, RunsFinite, RunsRemove DEF IInv, SlotsOK
<1>e. \A b \in Agents : b # a => RunningOf(b)' = RunningOf(b)
  BY <1>a, <1>b, <1>c DEF RunningOf, IInv, TypeOK
<1>f. /\ Cardinality(RunningOf(a)') \in Nat
      /\ Cardinality(RunningOf(a)') <= Cardinality(RunningOf(a)) + 1
  <2>1. RunningOf(a)' = RunningOf(a) \/ RunningOf(a)' = RunningOf(a) \cup {r}
    BY <1>a, <1>b, <1>c DEF RunningOf, IInv, TypeOK
  <2>2. Cardinality(RunningOf(a) \cup {r}) \in Nat
    BY <1>c, RunsFinite
  <2>3. Cardinality(RunningOf(a) \cup {r}) <= Cardinality(RunningOf(a)) + 1
    BY <1>c, RunsAdd
  <2>4. Cardinality(RunningOf(a)) <= Cardinality(RunningOf(a)) + 1
    BY <1>d
  <2> QED
    BY <1>d, <2>1, <2>2, <2>3, <2>4
<1>1. TypeOK'
  <2>1. status' \in [Runs -> RunStatus] /\ \A q \in Runs : status'[q] # "none" => status[q] # "none"
    BY <1>a, <1>c DEF IInv, TypeOK, RunStatus
  <2>2. todo' \in [Activations -> SUBSET Runs]
    BY <1>a, <1>c DEF IInv, TypeOK
  <2>3. pc' \in [Activations -> PCs]
    BY <1>a DEF IInv, TypeOK, PCs, Critical
  <2> QED
    BY <1>b, <2>1, <2>2, <2>3 DEF IInv, TypeOK
<1>2. LocalsOK'
  <2>1. \A q \in Runs : status[q] # "none" => status'[q] # "none"
    BY <1>a, <1>c DEF IInv, TypeOK
  <2>2. /\ \A y \in Activations : y # x => pc'[y] = pc[y] /\ todo'[y] = todo[y]
        /\ pc'[x] \in {"unlock", "check"} /\ todo'[x] = todo[x] \ {r}
        /\ pc'[x] = "unlock" => todo'[x] = {}
    BY <1>a DEF IInv, TypeOK
  <2>3. \A y \in Activations : todo[y] \subseteq Runs /\ todo'[y] \subseteq todo[y]
    BY <2>2 DEF IInv, TypeOK
  <2> QED
    BY <1>b, <2>1, <2>2, <2>3 DEF IInv, LocalsOK
<1>3. LockOK'
  BY <1>a, <1>b DEF IInv, TypeOK, LockOK, Holds, Critical
<1>5. SlotBound'
  <2> SUFFICES ASSUME NEW b \in Agents
               PROVE  Cardinality(RunningOf(b)') <= MaxConcurrentRuns
    BY DEF SlotBound
  <2>1. CASE b = a
    <3>1. RunningOf(b)' = RunningOf(a)'
      BY <1>b, <2>1 DEF RunningOf
    <3> QED
      BY <1>d, <1>f, <3>1, ConstantsAssumption
  <2>2. CASE b # a
    BY <1>e, <2>2 DEF IInv, SlotBound
  <2> QED
    BY <2>1, <2>2
<1>6. SlotsOK'
  <2> SUFFICES ASSUME NEW y \in Activations
               PROVE  /\ pc'[y] = "select" =>
                            Cardinality(RunningOf(agent[y])') + slots[y] <= MaxConcurrentRuns
                      /\ todo'[y] # {} =>
                            Cardinality(RunningOf(agent[y])') + Cardinality(todo'[y]) <= MaxConcurrentRuns
    BY <1>b DEF SlotsOK
  <2>1. CASE y = x
    <3>1. /\ RunningOf(agent[y])' = RunningOf(a)' /\ todo'[y] = todo[x] \ {r}
          /\ pc'[y] # "select"
      BY <1>a, <1>b, <2>1 DEF RunningOf, IInv, TypeOK
    <3> QED
      BY <1>d, <1>f, <3>1, ConstantsAssumption
  <2>2. CASE y # x
    <3>1. pc'[y] = pc[y] /\ todo'[y] = todo[y]
      BY <1>a, <2>2 DEF IInv, TypeOK
    <3>2. pc[y] = "select" \/ todo[y] # {} => agent[y] \in Agents /\ agent[y] # a
      BY <1>b, <2>2, OneHolder DEF IInv, LocalsOK, LockOK, Critical
    <3>3. agent[y] \in Agents /\ agent[y] # a => RunningOf(agent[y])' = RunningOf(agent[y])
      BY <1>a, <1>b, <1>c DEF RunningOf, IInv, TypeOK
    <3> QED
      BY <3>1, <3>2, <3>3 DEF IInv, SlotsOK
  <2> QED
    BY <2>1, <2>2
<1>7. IInv'
  BY <1>1, <1>2, <1>3, <1>5, <1>6 DEF IInv
<1>8. \/ UNCHANGED <<status, agentOf>>
      \/ /\ status[r] = "queued"
         /\ Cardinality(RunningOf(agentOf[r])) < MaxConcurrentRuns
         /\ status' = [status EXCEPT ![r] = "running"]
         /\ UNCHANGED agentOf
  <2>1. Cardinality(RunningOf(agentOf[r])) < MaxConcurrentRuns
    BY <1>c, <1>d, ConstantsAssumption
  <2> QED
    BY <1>a, <1>b, <2>1
<1> QED
  BY <1>b, <1>c, <1>7, <1>8

(***************************************************************************)
(* The theorems                                                            *)
(***************************************************************************)

LEMMA InitIInv == Init => IInv
<1> SUFFICES ASSUME Init PROVE IInv
  OBVIOUS
<1>1. TypeOK
  <2>1. "none" \in RunStatus /\ "idle" \in PCs /\ <<>> \in Seq(Activations) /\ 0 \in Nat
    BY DEF RunStatus, PCs
  <2>2. Init => /\ status \in [Runs -> RunStatus]
                /\ agentOf \in [Runs -> Agents \cup {NoAgent}]
                /\ \A r \in Runs : status[r] = "none"
    BY <2>1 DEF Init
  <2>3. /\ queue \in [Agents -> Seq(Activations)]
        /\ pc \in [Activations -> PCs]
        /\ slots \in [Activations -> Nat]
    BY <2>1 DEF Init
  <2> QED
    BY <2>2, <2>3 DEF Init, TypeOK
<1>2. LocalsOK /\ LockOK
  BY DEF Init, LocalsOK, LockOK, Critical
<1>3. \A a : RunningOf(a) = {}
  BY DEF Init, RunningOf
<1>4. SlotBound
  BY <1>3, FS_EmptySet, ConstantsAssumption DEF SlotBound
<1>5. SlotsOK
  BY DEF Init, SlotsOK
<1> QED
  BY <1>1, <1>2, <1>4, <1>5 DEF IInv

LEMMA NextIInv == IInv /\ [Next]_vars => IInv'
<1> SUFFICES ASSUME IInv, [Next]_vars PROVE IInv'
  OBVIOUS
<1>1. CASE \E x \in Activations : Step(x)
  BY <1>1, AcquireStep, UnlockStep, ScanStep, SelectStep, CheckStep, ClaimStep,
     EndRunStep, PromoteStep, ReleaseOnlyStep, TailCallStep DEF Step
<1>2. CASE \E x \in Activations, a \in Agents : ResumeQueued(x, a) \/ Wakeup(x, a)
  BY <1>2, ResumeQueuedStep, WakeupStep
<1>3. CASE \E x \in Activations, r \in Runs : BeginEnd(x, r)
  BY <1>3, BeginEndStep
<1>4. CASE \E a \in Agents : DeferWakeup(a) \/ SetInvokable(a)
  BY <1>4, DeferWakeupStep, SetInvokableStep
<1>5. CASE SetBlocked
  BY <1>5, SetBlockedStep
<1>6. CASE UNCHANGED vars
  <2>1. TypeOK' /\ LocalsOK'
    BY <1>6 DEF vars, IInv, TypeOK, LocalsOK
  <2>2. LockOK'
    BY <1>6 DEF vars, IInv, LockOK, Holds
  <2>3. SlotsOK' /\ SlotBound'
    BY <1>6 DEF vars, IInv, SlotsOK, SlotBound, RunningOf
  <2> QED
    BY <2>1, <2>2, <2>3 DEF IInv
<1> QED
  BY <1>1, <1>2, <1>3, <1>4, <1>5, <1>6 DEF Next, Finished

\* The inductive invariant of the start lock.
THEOREM Invariance == Spec => []IInv
  BY InitIInv, NextIInv, PTL DEF Spec

\* Every variable keeps its type.
THEOREM TypeCorrect == Spec => []TypeOK
<1>1. IInv => TypeOK
  BY DEF IInv
<1> QED
  BY <1>1, Invariance, PTL

\* withAgentStartLock is a mutual exclusion, however calls are nested.
THEOREM LockExcludes == Spec => []MutualExclusion
  BY Invariance, LockGivesMutualExclusion, PTL

\* No agent ever has more running runs than maxConcurrentRuns.
THEOREM SlotsAreNeverExceeded == Spec => []SlotBound
<1>1. IInv => SlotBound
  BY DEF IInv
<1> QED
  BY <1>1, Invariance, PTL

\* A step of the lock is a step of RunSlots, or leaves the runs alone.
LEMMA StepImplementsRunSlots ==
    ASSUME IInv, [Next]_vars
    PROVE  [Slots!Next]_(Slots!vars)
<1> USE DEF Slots!vars
<1>1. \A b \in Agents : Slots!RunningOf(b) = RunningOf(b)
  BY DEF Slots!RunningOf, RunningOf
<1>2. ASSUME NEW r \in Runs, NEW b \in Agents, InsertQueued(r, b)
      PROVE  Slots!Next
  BY <1>2 DEF InsertQueued, NewRun, Slots!Enqueue, Slots!Next
<1>3. ASSUME NEW x \in Activations, Claim(x)
      PROVE  [Slots!Next]_(Slots!vars)
  <2>1. CASE UNCHANGED <<status, agentOf>>
    BY <2>1
  <2>2. CASE \E r \in Runs :
                /\ status[r] = "queued"
                /\ Cardinality(RunningOf(agentOf[r])) < MaxConcurrentRuns
                /\ status' = [status EXCEPT ![r] = "running"]
                /\ UNCHANGED agentOf
    <3>1. PICK r \in Runs :
                /\ status[r] = "queued"
                /\ Cardinality(RunningOf(agentOf[r])) < MaxConcurrentRuns
                /\ status' = [status EXCEPT ![r] = "running"]
                /\ UNCHANGED agentOf
      BY <2>2
    <3>2. agentOf[r] \in Agents
      BY <3>1 DEF IInv, TypeOK
    <3>3. Cardinality(Slots!RunningOf(agentOf[r])) < MaxConcurrentRuns
      BY <1>1, <3>1, <3>2
    <3>4. Slots!Cardinality(Slots!RunningOf(agentOf[r]))
            = Cardinality(Slots!RunningOf(agentOf[r]))
      BY DEF Slots!Cardinality, Cardinality
    <3>5. Slots!Start(r)
      BY <3>1, <3>3, <3>4 DEF Slots!Start
    <3> QED
      BY <3>5 DEF Slots!Next
  <2> QED
    BY <1>3, <2>1, <2>2, ClaimStep
<1>4. ASSUME NEW x \in Activations, EndRun(x)
      PROVE  [Slots!Next]_(Slots!vars)
  <2>1. CASE Active(run[x])
    <3>1. run[x] \in Runs
      BY <1>4 DEF EndRun, IInv, LocalsOK
    <3>2. Slots!End(run[x])
      BY <1>4, <2>1 DEF EndRun, Active, Slots!End
    <3> QED
      BY <3>1, <3>2 DEF Slots!Next
  <2>2. CASE ~Active(run[x])
    BY <1>4, <2>2 DEF EndRun
  <2> QED
    BY <2>1, <2>2
<1>5. ASSUME NEW x \in Activations, Step(x)
      PROVE  [Slots!Next]_(Slots!vars)
  <2>1. CASE Promote(x)
    BY <1>2, <2>1 DEF Promote
  <2> QED
    BY <1>3, <1>4, <1>5, <2>1
       DEF Step, Acquire, Unlock, Scan, Select, Check, ReleaseOnly, TailCall, rows
<1>6. ASSUME NEW x \in Activations, NEW a \in Agents, ResumeQueued(x, a) \/ Wakeup(x, a)
      PROVE  [Slots!Next]_(Slots!vars)
  BY <1>2, <1>6 DEF ResumeQueued, Wakeup, rows
<1>7. CASE \E x \in Activations, r \in Runs : BeginEnd(x, r)
  BY <1>7 DEF BeginEnd, rows
<1>8. CASE \E a \in Agents : DeferWakeup(a) \/ SetInvokable(a)
  BY <1>8 DEF DeferWakeup, SetInvokable
<1>9. CASE SetBlocked \/ UNCHANGED vars
  BY <1>9 DEF SetBlocked, vars
<1> QED
  BY <1>5, <1>6, <1>7, <1>8, <1>9 DEF Next, Finished

\* The start lock implements RunSlots: a run starts only into a free slot, and
\* an ended run never comes back.
THEOREM Refinement == Spec => ImplementsRunSlots
<1>1. Init => Slots!Init
  BY DEF Init, Slots!Init
<1>2. IInv /\ [Next]_vars => [Slots!Next]_(Slots!vars)
  BY StepImplementsRunSlots
<1> QED
  BY <1>1, <1>2, Invariance, PTL DEF Spec, ImplementsRunSlots, Slots!Spec
(***************************************************************************)
(* The order of the runs                                                   *)
(***************************************************************************)

\* What a step may do to the rows: insert the next one, or move one on.
RowStep ==
    \/ UNCHANGED <<status, agentOf, ahead>>
    \/ \E r \in Runs, b \in Agents : InsertQueued(r, b)
    \/ \E r \in Runs, to \in {"running", "ended"} :
        /\ status[r] # "none" /\ status' = [status EXCEPT ![r] = to]
        /\ UNCHANGED <<agentOf, ahead>>

\* Every step is one of them.
LEMMA RowsMove ==
    ASSUME IInv, [Next]_vars
    PROVE  RowStep
<1>1. ASSUME NEW x \in Activations, Step(x)  PROVE RowStep
  <2>1. CASE Claim(x)
    BY <2>1, ClaimStep DEF RowStep
  <2>2. CASE EndRun(x)
    BY <2>2 DEF EndRun, RowStep, IInv, LocalsOK
  <2>3. CASE Promote(x)
    BY <2>3 DEF Promote, RowStep
  <2> QED
    BY <1>1, <2>1, <2>2, <2>3
       DEF Step, Acquire, Unlock, Scan, Select, Check, ReleaseOnly, TailCall, rows, RowStep
<1>2. ASSUME NEW x \in Activations, NEW a \in Agents, ResumeQueued(x, a) \/ Wakeup(x, a)
      PROVE  RowStep
  BY <1>2 DEF ResumeQueued, Wakeup, rows, RowStep
<1>3. CASE \E x \in Activations, r \in Runs : BeginEnd(x, r)
  BY <1>3 DEF BeginEnd, rows, RowStep
<1>4. CASE \E a \in Agents : DeferWakeup(a) \/ SetInvokable(a)
  BY <1>4 DEF DeferWakeup, SetInvokable, RowStep
<1>5. CASE SetBlocked \/ UNCHANGED vars
  BY <1>5 DEF SetBlocked, vars, RowStep
<1> QED
  BY <1>1, <1>2, <1>3, <1>4, <1>5 DEF Next, Finished

\* A row that is queued was queued before, or is new and knows what was selected.
LEMMA RowsKeepOrder ==
    ASSUME IInv, RowStep, NEW q \in Runs, status'[q] = "queued"
    PROVE  \/ status[q] = "queued" /\ agentOf'[q] = agentOf[q] /\ ahead'[q] = ahead[q]
           \/ ahead'[q] = Overtaking(q, agentOf'[q])
<1>1. CASE UNCHANGED <<status, agentOf, ahead>>
  BY <1>1
<1>2. ASSUME NEW r \in Runs, NEW b \in Agents, InsertQueued(r, b)
      PROVE  \/ status[q] = "queued" /\ agentOf'[q] = agentOf[q] /\ ahead'[q] = ahead[q]
             \/ ahead'[q] = Overtaking(q, agentOf'[q])
  BY <1>2 DEF InsertQueued, IInv, TypeOK
<1>3. ASSUME NEW r \in Runs, NEW to \in {"running", "ended"},
             status' = [status EXCEPT ![r] = to], UNCHANGED <<agentOf, ahead>>
      PROVE  status[q] = "queued" /\ agentOf'[q] = agentOf[q] /\ ahead'[q] = ahead[q]
  BY <1>3 DEF IInv, TypeOK
<1> QED
  BY <1>1, <1>2, <1>3 DEF RowStep

\* A selection only loses runs that are not queued any more or about to be
\* cancelled, and an activation leaves "end" when its run is not queued any more.
SelectionKept ==
    \A y \in Activations : todo'[y] # {} =>
        /\ agent'[y] = agent[y] /\ todo'[y] \subseteq todo[y]
        /\ pc[y] = "end" => \/ pc'[y] = "end" /\ run'[y] = run[y]
                            \/ status'[run[y]] # "queued"
        /\ \A q \in todo[y] : \/ q \in todo'[y] \/ status'[q] # "queued"
                              \/ pc'[y] = "end" /\ run'[y] = q

\* Then what is selected stays the oldest.
LEMMA SelectedStayOldest ==
    ASSUME IInv, OrderInv, RowStep, SelectionKept
    PROVE  SelectedAreOldest'
<1> SUFFICES ASSUME NEW y \in Activations, NEW r \in todo'[y], NEW q \in QueuedOf(agent[y])', q < r
             PROVE  q \in todo'[y] \/ (pc'[y] = "end" /\ run'[y] = q) \/ r \in ahead'[q]
  BY DEF SelectedAreOldest
<1>1. agent'[y] = agent[y] /\ r \in todo[y] /\ r \in Runs
  BY DEF SelectionKept, IInv, TypeOK
<1>2. q \in Runs /\ status'[q] = "queued" /\ agentOf'[q] = agent[y]
  BY <1>1 DEF QueuedOf
<1>3. CASE ahead'[q] = Overtaking(q, agentOf'[q])
  BY <1>1, <1>2, <1>3 DEF Overtaking
<1>4. CASE status[q] = "queued" /\ agentOf'[q] = agentOf[q] /\ ahead'[q] = ahead[q]
  <2>1. q \in QueuedOf(agent[y])
    BY <1>2, <1>4 DEF QueuedOf
  <2>2. q \in todo[y] \/ (pc[y] = "end" /\ run[y] = q) \/ r \in ahead[q]
    BY <1>1, <2>1 DEF OrderInv, SelectedAreOldest
  <2> QED
    BY <1>2, <1>4, <2>2 DEF SelectionKept
<1> QED
  BY <1>2, <1>3, <1>4, RowsKeepOrder

\* A new activation is awaited by nobody else than its caller, which waits.
LEMMA ChainKeepsCallers ==
    ASSUME IInv, CallersWait, NEW x \in Activations, NEW y \in Activations, NEW a \in Agents,
           Chain(y, a, x), pc[x] \in {"release", "tail"}, NEW p \in {"promoteWait", "tailWait"},
           pc' = [pc EXCEPT ![x] = p, ![y] = "wait"]
    PROVE  CallersWait'
<1>1. /\ x # y /\ pc[y] = "idle"
      /\ \A z \in Activations : parent'[z] = IF z = y THEN x ELSE parent[z]
      /\ \A z \in Activations : pc'[z] = IF z = y THEN "wait" ELSE IF z = x THEN p ELSE pc[z]
  BY DEF Chain, IInv, TypeOK
<1>2. \A z \in Activations : parent[z] # x /\ parent[z] # y
  BY <1>1, ConstantsAssumption DEF CallersWait
<1> SUFFICES ASSUME NEW z \in Activations, parent'[z] # NoActivation
             PROVE  /\ pc'[parent'[z]] \in {"promoteWait", "tailWait"}
                    /\ \A w \in Activations : parent'[w] = parent'[z] => w = z
  BY DEF CallersWait
<1>3. CASE z = y
  BY <1>1, <1>2, <1>3
<1>4. CASE z # y
  <2>1. parent'[z] = parent[z] /\ parent[z] \in Activations /\ parent[z] # NoActivation
    BY <1>1, <1>4 DEF IInv, TypeOK
  <2>2. parent[z] # x /\ parent[z] # y
    BY <1>2
  <2>3. pc'[parent[z]] \in {"promoteWait", "tailWait"}
    <3>1. pc[parent[z]] \in {"promoteWait", "tailWait"}
      BY <2>1 DEF CallersWait
    <3>2. pc'[parent[z]] = pc[parent[z]]
      BY <1>1, <2>1, <2>2
    <3> QED
      BY <3>1, <3>2
  <2>4. ASSUME NEW w \in Activations, parent'[w] = parent[z]  PROVE w = z
    <3>1. parent[w] = parent[z]
      BY <1>1, <2>2, <2>4
    <3> QED
      BY <2>1, <3>1 DEF CallersWait
  <2> QED
    BY <2>1, <2>3, <2>4
<1> QED
  BY <1>3, <1>4

\* A root that begins has no caller.
LEMMA RootKeepsCallers ==
    ASSUME IInv, CallersWait, NEW x \in Activations, pc[x] = "idle",
           NEW p \in {"wait", "end"}, pc' = [pc EXCEPT ![x] = p],
           parent' = parent \/ parent' = [parent EXCEPT ![x] = NoActivation]
    PROVE  CallersWait'
<1>1. /\ \A z \in Activations : parent'[z] \in {parent[z], NoActivation}
      /\ \A z \in Activations : pc'[z] = IF z = x THEN p ELSE pc[z]
  BY DEF IInv, TypeOK
<1>2. \A z \in Activations : parent[z] # NoActivation => parent[z] \in Activations \ {x}
  BY DEF CallersWait, IInv, TypeOK
<1> QED
  BY <1>1, <1>2 DEF CallersWait

\* Nor do the other steps of an activation disturb who waits for whom.
LEMMA StepKeepsCallers ==
    ASSUME IInv, CallersWait, NEW x \in Activations,
           pc[x] \notin {"promoteWait", "tailWait"}, NEW p, pc' = [pc EXCEPT ![x] = p],
           parent' = parent
    PROVE  CallersWait'
<1>1. \A z \in Activations : pc'[z] = IF z = x THEN p ELSE pc[z]
  BY DEF IInv, TypeOK
<1>2. \A z \in Activations : parent[z] # NoActivation => parent[z] \in Activations \ {x}
  BY DEF CallersWait, IInv, TypeOK
<1> QED
  BY <1>1, <1>2 DEF CallersWait

\* An activation that returns is awaited no more, and its caller does not wait.
LEMMA UnlockKeepsCallers ==
    ASSUME IInv, CallersWait, NEW x \in Activations, Unlock(x)
    PROVE  CallersWait'
<1>1. /\ pc[x] = "unlock"
      /\ \A z \in Activations : parent'[z] = IF z = x THEN NoActivation ELSE parent[z]
      /\ \A z \in Activations : z # x /\ z # parent[x] => pc'[z] = pc[z]
  BY DEF Unlock, IInv, TypeOK
<1> SUFFICES ASSUME NEW z \in Activations, parent'[z] # NoActivation
             PROVE  /\ pc'[parent'[z]] \in {"promoteWait", "tailWait"}
                    /\ \A w \in Activations : parent'[w] = parent'[z] => w = z
  BY DEF CallersWait
<1>2. z # x /\ parent'[z] = parent[z] /\ parent[z] \in Activations
  BY <1>1 DEF IInv, TypeOK
<1>3. parent[z] # x /\ parent[z] # parent[x]
  BY <1>1, <1>2 DEF CallersWait
<1> QED
  BY <1>1, <1>2, <1>3 DEF CallersWait
\* What an activation and its caller do keeps the order.
LEMMA StepKeepsOrder ==
    ASSUME IInv, OrderInv, IInv', RowStep, NEW x \in Activations, Step(x)
    PROVE  CallersWait' /\ SelectedAreOldest'
<1> USE DEF OrderInv
<1>1. CASE Acquire(x) \/ Scan(x) \/ ReleaseOnly(x)
  <2>1. /\ UNCHANGED <<todo, run, agent, parent>> /\ pc[x] \in {"wait", "scan", "release"}
        /\ \E p : pc' = [pc EXCEPT ![x] = p]
    BY <1>1 DEF Acquire, Scan, ReleaseOnly, locals
  <2>2. SelectionKept
    BY <2>1 DEF SelectionKept, IInv, TypeOK
  <2> QED
    BY <2>1, <2>2, StepKeepsCallers, SelectedStayOldest
<1>2. CASE Select(x)
  <2>1. PICK T \in SUBSET QueuedOf(agent[x]) :
          /\ OldestQueued(T, agent[x], slots[x]) /\ todo' = [todo EXCEPT ![x] = T]
          /\ pc[x] = "select" /\ pc' = [pc EXCEPT ![x] = IF T = {} THEN "unlock" ELSE "check"]
          /\ UNCHANGED <<rows, agent, run, parent>>
    BY <1>2 DEF Select
  <2>2. ahead' = ahead /\ \A y \in Activations : QueuedOf(agent[y])' = QueuedOf(agent[y])
    BY <2>1 DEF QueuedOf, rows
  <2>3. ASSUME NEW y \in Activations, NEW r \in todo'[y], NEW q \in QueuedOf(agent[y]), q < r
        PROVE  q \in todo'[y] \/ (pc'[y] = "end" /\ run'[y] = q) \/ r \in ahead[q]
    <3>1. CASE y = x
      BY <2>1, <2>3, <3>1 DEF OldestQueued, IInv, TypeOK
    <3>2. CASE y # x
      BY <2>1, <2>3, <3>2 DEF SelectedAreOldest, IInv, TypeOK
    <3> QED
      BY <3>1, <3>2
  <2>4. SelectedAreOldest'
    BY <2>2, <2>3 DEF SelectedAreOldest
  <2> QED
    BY <2>1, <2>4, StepKeepsCallers
<1>3. CASE Check(x) \/ Claim(x)
  <2>1. PICK r \in todo[x] :
          /\ todo' = todo \/ todo' = [todo EXCEPT ![x] = todo[x] \ {r}]
          /\ pc[x] \in {"check", "claim"} /\ UNCHANGED <<agent, parent>>
          /\ \E p : pc' = [pc EXCEPT ![x] = p]
          /\ run' = run \/ run' = [run EXCEPT ![x] = r]
          /\ \/ todo' = todo
             \/ pc'[x] = "end" /\ run'[x] = r
             \/ status' = IF status[r] = "queued" THEN [status EXCEPT ![r] = "running"] ELSE status
    <3>1. CASE Check(x)
      BY <3>1 DEF Check, IInv, TypeOK
    <3>2. CASE Claim(x)
      BY <3>2 DEF Claim
    <3> QED
      BY <1>3, <3>1, <3>2
  <2>2. r \in Runs
    BY DEF IInv, TypeOK
  <2>3. todo' = todo \/ (pc'[x] = "end" /\ run'[x] = r) \/ status'[r] # "queued"
    BY <2>1, <2>2 DEF IInv, TypeOK
  <2>4. SelectionKept
    <3> SUFFICES ASSUME NEW y \in Activations
                 PROVE  /\ agent'[y] = agent[y] /\ todo'[y] \subseteq todo[y]
                        /\ pc[y] = "end" => pc'[y] = "end" /\ run'[y] = run[y]
                        /\ \A q \in todo[y] : \/ q \in todo'[y] \/ status'[q] # "queued"
                                              \/ pc'[y] = "end" /\ run'[y] = q
      BY DEF SelectionKept
    <3>1. CASE y = x
      BY <2>1, <2>3, <3>1 DEF IInv, TypeOK
    <3>2. CASE y # x
      BY <2>1, <3>2 DEF IInv, TypeOK
    <3> QED
      BY <3>1, <3>2
  <2> QED
    BY <2>1, <2>4, StepKeepsCallers, SelectedStayOldest
<1>4. CASE Unlock(x)
  <2>1. /\ UNCHANGED <<todo, run>> /\ pc[x] = "unlock"
        /\ \A y \in Activations : y # x /\ y # parent[x] => pc'[y] = pc[y]
        /\ \A y \in Activations : agent'[y] = IF pc'[y] = "idle" THEN NoAgent ELSE agent[y]
    BY <1>4 DEF Unlock, IInv, TypeOK
  <2>2. \A y \in Activations : pc[y] = "end" => y # x /\ y # parent[x]
    BY <2>1, ConstantsAssumption DEF CallersWait
  <2>3. SelectionKept
    BY <2>1, <2>2 DEF SelectionKept, IInv, LocalsOK
  <2> QED
    BY <1>4, <2>3, UnlockKeepsCallers, SelectedStayOldest
<1>5. CASE EndRun(x)
  <2>1. /\ pc[x] = "end" /\ run[x] \in Runs /\ UNCHANGED <<todo, parent>>
        /\ \E p : pc' = [pc EXCEPT ![x] = p]
        /\ \A y \in Activations \ {x} : run'[y] = run[y] /\ agent'[y] = agent[y]
        /\ agent'[x] = IF pc'[x] = "idle" THEN NoAgent ELSE agent[x]
    <3>1. agent' = agent => agent'[x] # NoAgent
      BY <1>5, ConstantsAssumption DEF EndRun, IInv, LocalsOK
    <3>2. CASE Active(run[x])
      BY <1>5, <3>1, <3>2 DEF EndRun, IInv, TypeOK, LocalsOK
    <3>3. CASE ~Active(run[x])
      BY <1>5, <3>3 DEF EndRun, IInv, TypeOK, LocalsOK
    <3> QED
      BY <3>2, <3>3
  <2>2. status'[run[x]] # "queued"
    BY <1>5, <2>1 DEF EndRun, Active, IInv, TypeOK
  <2>3. SelectionKept
    BY <2>1, <2>2 DEF SelectionKept, IInv, TypeOK, LocalsOK
  <2> QED
    BY <2>1, <2>3, StepKeepsCallers, SelectedStayOldest
<1>6. CASE Promote(x) \/ TailCall(x)
  <2>1. PICK a \in Agents, y \in Activations, p \in {"promoteWait", "tailWait"} :
          /\ Chain(y, a, x) /\ pc' = [pc EXCEPT ![x] = p, ![y] = "wait"]
          /\ pc[x] \in {"release", "tail"} /\ todo' = todo
          /\ \A z \in Activations \ {x} : run'[z] = run[z]
    <3>1. CASE Promote(x)
      BY <3>1 DEF Promote
    <3>2. CASE TailCall(x)
      BY <3>2 DEF TailCall, IInv, TypeOK, LocalsOK
    <3> QED
      BY <1>6, <3>1, <3>2
  <2>2. pc[y] = "idle" /\ \A z \in Activations \ {y} : agent'[z] = agent[z]
    BY <2>1 DEF Chain, IInv, TypeOK
  <2>3. SelectionKept
    BY <2>1, <2>2 DEF SelectionKept, IInv, TypeOK, LocalsOK
  <2> QED
    BY <2>1, <2>3, ChainKeepsCallers, SelectedStayOldest
<1> QED
  BY <1>1, <1>2, <1>3, <1>4, <1>5, <1>6 DEF Step

LEMMA NextOrderInv == IInv /\ OrderInv /\ [Next]_vars => OrderInv'
<1> SUFFICES ASSUME IInv, OrderInv, [Next]_vars PROVE OrderInv'
  OBVIOUS
<1>1. IInv' /\ RowStep
  BY NextIInv, RowsMove
<1>2. CASE \E x \in Activations : Step(x)
  BY <1>1, <1>2, StepKeepsOrder DEF OrderInv
<1>3. ASSUME NEW x \in Activations, NEW a \in Agents, ResumeQueued(x, a) \/ Wakeup(x, a)
      PROVE  OrderInv'
  <2>1. /\ Chain(x, a, NoActivation) /\ pc' = [pc EXCEPT ![x] = "wait"] /\ UNCHANGED <<todo, run>>
    BY <1>3 DEF ResumeQueued, Wakeup
  <2>2. /\ pc[x] = "idle" /\ parent' = [parent EXCEPT ![x] = NoActivation]
        /\ \A z \in Activations \ {x} : agent'[z] = agent[z]
    BY <2>1 DEF Chain, IInv, TypeOK
  <2>3. SelectionKept
    BY <2>1, <2>2 DEF SelectionKept, IInv, TypeOK, LocalsOK
  <2> QED
    BY <1>1, <2>1, <2>2, <2>3, RootKeepsCallers, SelectedStayOldest DEF OrderInv
<1>4. ASSUME NEW x \in Activations, NEW r \in Runs, BeginEnd(x, r)  PROVE OrderInv'
  <2>1. /\ pc[x] = "idle" /\ pc' = [pc EXCEPT ![x] = "end"] /\ parent' = parent /\ todo'[x] = {}
        /\ \A z \in Activations \ {x} : agent'[z] = agent[z] /\ run'[z] = run[z] /\ todo'[z] = todo[z]
    BY <1>4 DEF BeginEnd, RootFree, IInv, TypeOK
  <2>2. SelectionKept
    BY <2>1 DEF SelectionKept, IInv, TypeOK
  <2> QED
    BY <1>1, <2>1, <2>2, RootKeepsCallers, SelectedStayOldest DEF OrderInv
<1>5. CASE (\E a \in Agents : DeferWakeup(a) \/ SetInvokable(a)) \/ SetBlocked \/ UNCHANGED vars
  <2>1. UNCHANGED <<todo, run, agent, parent, pc>>
    BY <1>5 DEF DeferWakeup, SetInvokable, SetBlocked, vars, locals
  <2>2. SelectionKept
    BY <2>1 DEF SelectionKept
  <2>3. CallersWait'
    BY <2>1 DEF OrderInv, CallersWait
  <2> QED
    BY <1>1, <2>2, <2>3, SelectedStayOldest DEF OrderInv
<1> QED
  BY <1>2, <1>3, <1>4, <1>5 DEF Next, Finished

\* Only a claim makes a queued run run.
LEMMA StartsByClaim ==
    ASSUME IInv, [Next]_vars, NEW r \in Runs, status[r] = "queued", status'[r] = "running"
    PROVE  \E x \in Activations : Claim(x)
<1>1. status' # status
  OBVIOUS
<1>2. ~(\E q \in Runs, b \in Agents : InsertQueued(q, b))
  BY DEF InsertQueued, NewRun, IInv, TypeOK
<1>3. ASSUME NEW x \in Activations, EndRun(x)  PROVE FALSE
  BY <1>1, <1>3 DEF EndRun, IInv, TypeOK, LocalsOK
<1>4. ASSUME NEW x \in Activations, Step(x)  PROVE Claim(x)
  BY <1>1, <1>2, <1>3, <1>4
     DEF Step, Acquire, Unlock, Scan, Select, Check, Promote, ReleaseOnly, TailCall, rows
<1>5. ASSUME NEW x \in Activations, NEW a \in Agents  PROVE ~(ResumeQueued(x, a) \/ Wakeup(x, a))
  BY <1>1, <1>2 DEF ResumeQueued, Wakeup, rows
<1>6. ASSUME NEW x \in Activations, NEW q \in Runs  PROVE ~BeginEnd(x, q)
  BY <1>1 DEF BeginEnd, rows
<1>7. /\ ~(\E a \in Agents : DeferWakeup(a) \/ SetInvokable(a))
      /\ ~SetBlocked /\ ~(UNCHANGED vars)
  BY <1>1 DEF DeferWakeup, SetInvokable, SetBlocked, vars
<1> QED
  BY <1>4, <1>5, <1>6, <1>7 DEF Next, Finished

\* Callers wait, and what is selected is the oldest, or was when it was selected.
THEOREM OrderInvariance == Spec => []OrderInv
<1>1. Init => OrderInv
  BY DEF Init, OrderInv, CallersWait, SelectedAreOldest
<1> QED
  BY <1>1, Invariance, NextOrderInv, PTL DEF Spec

\* A run starts before an older one of its agent only if the older one's row appeared
\* after the younger one had been selected, although the runs to start are selected
\* once and claimed or cancelled one by one, awaits apart.
THEOREM StartsInOrder == Spec => OldestFirst
<1>1. ASSUME IInv, OrderInv, [Next]_vars, NEW r \in Runs,
             status[r] = "queued", status'[r] = "running", NEW q \in QueuedOf(agentOf[r]), q < r
      PROVE  r \in ahead[q]
  <2>1. PICK x \in Activations : Claim(x)
    BY <1>1, StartsByClaim
  <2>2. PICK s \in todo[x] :
          /\ First(todo[x], s) /\ pc[x] = "claim"
          /\ status' = IF status[s] = "queued" THEN [status EXCEPT ![s] = "running"] ELSE status
    BY <2>1 DEF Claim
  <2>3. s = r /\ agentOf[r] = agent[x]
    BY <1>1, <2>2 DEF IInv, TypeOK, LocalsOK
  <2>4. q \in Runs /\ r \in Nat /\ q \in Nat
    BY ConstantsAssumption DEF QueuedOf, Runs
  <2>5. q \in todo[x] \/ r \in ahead[q]
    BY <1>1, <2>2, <2>3 DEF OrderInv, SelectedAreOldest
  <2> QED
    BY <1>1, <2>2, <2>3, <2>4, <2>5 DEF First
<1>2. IInv /\ OrderInv /\ [Next]_vars =>
            [\A r \in Runs : status[r] = "queued" /\ status'[r] = "running"
                => \A q \in QueuedOf(agentOf[r]) : q < r => r \in ahead[q]]_vars
  BY <1>1
<1> QED
  BY <1>2, Invariance, OrderInvariance, PTL DEF Spec, OldestFirst

(***************************************************************************)
(* Waiting                                                                 *)
(***************************************************************************)

\* Every set of runs that is not empty has a first one.
LEMMA FirstExists ==
    ASSUME NEW T \in SUBSET Nat, T # {}
    PROVE  \E r \in T : First(T, r)
<1> DEFINE Less == OpToRel(<, Nat)
<1>1. IsWellFoundedOn(Less, Nat)
  BY NatLessThanWellFounded DEF OpToRel
<1> HIDE DEF Less
<1>2. PICK r \in T : \A q \in T : <<q, r>> \notin Less
  BY <1>1, WFMin
<1>3. \A q \in T : ~(q < r)
  BY <1>2 DEF Less, OpToRel
<1> QED
  BY <1>3 DEF First

\* The query for the oldest queued runs has an answer, whatever its limit.
LEMMA OldestExist ==
    ASSUME NEW a, NEW k \in Nat
    PROVE  \E T \in SUBSET QueuedOf(a) : OldestQueued(T, a, k)
<1> DEFINE Q == QueuedOf(a)
           Old(T) == \A r \in T, q \in Q : q < r => q \in T
           Room == {n \in Nat : \E T \in SUBSET Q : Old(T) /\ Cardinality(T) + n = k}
<1>0. Q \subseteq Runs /\ Runs \subseteq Nat
  BY ConstantsAssumption DEF QueuedOf, Runs
<1>1. k \in Room
  BY FS_EmptySet
<1>2. PICK n \in Room : First(Room, n)
  BY <1>1, FirstExists
<1>3. PICK T \in SUBSET Q : Old(T) /\ Cardinality(T) + n = k
  BY <1>2
<1>4. IsFiniteSet(T) /\ Cardinality(T) \in Nat
  BY <1>0, RunsFinite
<1>5. CASE T = Q
  BY <1>3, <1>4, <1>5 DEF OldestQueued
<1>6. CASE n = 0
  BY <1>3, <1>4, <1>6 DEF OldestQueued
<1>7. CASE T # Q /\ n # 0
  <2>1. PICK r \in Q \ T : First(Q \ T, r)
    BY <1>0, <1>7, FirstExists
  <2>2. Cardinality(T \cup {r}) = Cardinality(T) + 1
    BY <1>4, <2>1, FS_AddElement
  <2>3. Old(T \cup {r})
    <3> SUFFICES ASSUME NEW s \in T \cup {r}, NEW q \in Q, q < s, q \notin T
                 PROVE  q = r
      OBVIOUS
    <3>1. s = r
      BY <1>3
    <3>2. r <= q /\ q \in Nat /\ r \in Nat
      BY <1>0, <2>1 DEF First
    <3> QED
      BY <3>1, <3>2
  <2>4. n - 1 \in Room
    BY <1>3, <1>4, <1>7, <2>1, <2>2, <2>3
  <2> QED
    BY <1>2, <2>4 DEF First
<1> QED
  BY <1>5, <1>6, <1>7

\* A step of x that leaves the chains alone leaves those who wait alone.
LEMMA MoveKeepsWaits ==
    ASSUME IInv, ChainsOK, CallsOK, NEW x \in Activations, UNCHANGED <<queue, parent>>,
           \A z \in Activations \ {x} : pc'[z] = pc[z] /\ agent'[z] = agent[z],
           Chained(x)' <=> Chained(x), Chained(x) => agent'[x] = agent[x],
           pc'[x] \notin {"promoteWait", "tailWait"}
    PROVE  ChainsOK' /\ CallsOK'
<1>1. \A z \in Activations : /\ Chained(z)' <=> Chained(z)
                             /\ Chained(z) => agent'[z] = agent[z]
  BY DEF Chained
<1>2. ChainsOK'
  BY <1>1 DEF ChainsOK
<1>3. CallsOK'
  BY <1>1 DEF CallsOK
<1> QED
  BY <1>2, <1>3

\* A new activation waits at the end of its chain, and for its caller.
LEMMA ChainKeepsWaits ==
    ASSUME IInv, ChainsOK, CallsOK, NEW y \in Activations, NEW a \in Agents,
           NEW p \in Activations \cup {NoActivation}, Chain(y, a, p), pc'[y] = "wait",
           \A z \in Activations \ {y, p} : pc'[z] = pc[z],
           p # NoActivation => p # y /\ ~Chained(p) /\ pc'[p] \in {"promoteWait", "tailWait"}
    PROVE  ChainsOK' /\ CallsOK'
<1>1. /\ pc[y] = "idle" /\ ~Chained(y) /\ Chained(y)'
      /\ queue[a] \in Seq(Activations)
      /\ queue' = [queue EXCEPT ![a] = Append(queue[a], y)]
      /\ \A z \in Activations : agent'[z] = IF z = y THEN a ELSE agent[z]
      /\ \A z \in Activations : parent'[z] = IF z = y THEN p ELSE parent[z]
  BY DEF Chain, Chained, Critical, IInv, TypeOK
<1>2. \A z \in Activations \ {y} : Chained(z)' <=> Chained(z)
  <2>1. ASSUME p \in Activations, p # y  PROVE Chained(p)' <=> Chained(p)
    BY <2>1, ConstantsAssumption DEF Chained, Critical
  <2> QED
    BY <2>1 DEF Chained
<1>3. ChainsOK'
  <2> SUFFICES ASSUME NEW b \in Agents
               PROVE  /\ \A z \in Activations :
                            (\E i \in DOMAIN queue'[b] : queue'[b][i] = z)
                                <=> (Chained(z)' /\ agent'[z] = b)
                      /\ \A i, j \in DOMAIN queue'[b] : queue'[b][i] = queue'[b][j] => i = j
    BY DEF ChainsOK
  <2>1. /\ \A z \in Activations : (\E i \in DOMAIN queue[b] : queue[b][i] = z)
                                      <=> (Chained(z) /\ agent[z] = b)
        /\ \A i, j \in DOMAIN queue[b] : queue[b][i] = queue[b][j] => i = j
    BY DEF ChainsOK
  <2>2. CASE b # a
    <3>1. queue'[b] = queue[b]
      BY <1>1, <2>2 DEF IInv, TypeOK
    <3> QED
      BY <1>1, <1>2, <2>1, <2>2, <3>1
  <2>3. CASE b = a
    <3>1. /\ Len(queue[a]) \in Nat /\ DOMAIN queue[a] = 1 .. Len(queue[a])
          /\ DOMAIN queue'[a] = 1 .. Len(queue[a]) + 1
          /\ queue'[a][Len(queue[a]) + 1] = y
          /\ \A i \in DOMAIN queue[a] : queue'[a][i] = queue[a][i]
      BY <1>1 DEF IInv, TypeOK
    <3>2. \A i \in DOMAIN queue[a] : queue[a][i] # y
      BY <1>1, <2>1, <2>3
    <3>3. \A i \in DOMAIN queue'[a] : i \in DOMAIN queue[a] \/ i = Len(queue[a]) + 1
      BY <3>1
    <3>4. ASSUME NEW z \in Activations
          PROVE  (\E i \in DOMAIN queue'[a] : queue'[a][i] = z) <=> (Chained(z)' /\ agent'[z] = a)
      <4>1. CASE z = y
        BY <1>1, <3>1, <4>1
      <4>2. CASE z # y
        <5>1. (\E i \in DOMAIN queue'[a] : queue'[a][i] = z)
                 <=> (\E i \in DOMAIN queue[a] : queue[a][i] = z)
          BY <3>1, <3>3, <4>2
        <5> QED
          BY <1>1, <1>2, <2>1, <2>3, <4>2, <5>1
      <4> QED
        BY <4>1, <4>2
    <3>5. \A i, j \in DOMAIN queue'[a] : queue'[a][i] = queue'[a][j] => i = j
      BY <2>1, <2>3, <3>1, <3>2, <3>3
    <3> QED
      BY <2>3, <3>4, <3>5
  <2> QED
    BY <2>2, <2>3
<1>4. \A z \in Activations : parent'[z] # NoActivation => Chained(z)'
  BY <1>1, <1>2 DEF CallsOK
<1>5. ASSUME NEW z \in Activations, pc'[z] \in {"promoteWait", "tailWait"}
      PROVE  \E w \in Activations : parent'[w] = z
  <2>1. CASE z = p
    BY <1>1, <2>1
  <2>2. CASE z # p
    <3>1. z # y /\ pc[z] \in {"promoteWait", "tailWait"}
      BY <1>5, <2>2
    <3>2. PICK w \in Activations : parent[w] = z
      BY <3>1 DEF CallsOK
    <3>3. w # y
      BY <1>1, <3>2, ConstantsAssumption DEF CallsOK
    <3> QED
      BY <1>1, <3>2, <3>3
  <2> QED
    BY <2>1, <2>2
<1> QED
  BY <1>3, <1>4, <1>5 DEF CallsOK

\* An activation that has returned is in no chain, and its caller goes on.
LEMMA UnlockKeepsWaits ==
    ASSUME IInv, CallersWait, ChainsOK, CallsOK, NEW x \in Activations, Unlock(x)
    PROVE  /\ ChainsOK' /\ CallsOK'
           /\ \A z \in Activations : pc'[z] \in {pc[z], "idle", "tail"}
<1> DEFINE c == parent[x]
           b == agent[x]
<1>1. /\ pc[x] = "unlock" /\ Chained(x) /\ Holds(x) /\ b \in Agents /\ pc'[x] = "idle"
      /\ queue[b] \in Seq(Activations) /\ queue[b] # <<>> /\ queue[b][1] = x
      /\ queue' = [queue EXCEPT ![b] = Tail(queue[b])]
      /\ \A z \in Activations : parent'[z] = IF z = x THEN NoActivation ELSE parent[z]
      /\ \A z \in Activations : z # x /\ z # c => pc'[z] = pc[z]
      /\ \A z \in Activations : pc'[z] # "idle" => agent'[z] = agent[z]
  BY DEF Unlock, Chained, Critical, Holds, LockOK, IInv, TypeOK
<1>2. c \in Activations => /\ c # x /\ pc[c] \in {"promoteWait", "tailWait"}
                           /\ pc'[c] \in {"tail", "idle"}
  <2> SUFFICES ASSUME c \in Activations
               PROVE  /\ c # x /\ pc[c] \in {"promoteWait", "tailWait"}
                      /\ pc'[c] \in {"tail", "idle"}
    OBVIOUS
  <2>1. c # x /\ pc[c] \in {"promoteWait", "tailWait"} /\ ~Chained(c)
    BY <1>1, ConstantsAssumption DEF CallersWait, Chained, Critical
  <2>2. ~Holds(c)
    <3> SUFFICES ASSUME Holds(c) PROVE FALSE
      OBVIOUS
    <3>1. /\ agent[c] \in Agents /\ queue[agent[c]] \in Seq(Activations)
          /\ 1 \in DOMAIN queue[agent[c]] /\ queue[agent[c]][1] = c
      BY DEF Holds, IInv, TypeOK
    <3> QED
      BY <2>1, <3>1 DEF ChainsOK
  <2>3. pc'[c] = Resumed(c)
    BY <2>1 DEF Unlock
  <2>4. pc'[c] \in {"tail", "idle"}
    BY <2>1, <2>2, <2>3 DEF Resumed
  <2> QED
    BY <2>1, <2>4
<1>3. /\ ~Chained(x)'
      /\ \A z \in Activations \ {x} : /\ Chained(z)' <=> Chained(z)
                                      /\ Chained(z) => agent'[z] = agent[z]
  <2>1. ~Chained(x)'
    BY <1>1 DEF Chained, Critical
  <2>2. ASSUME NEW z \in Activations \ {x}
        PROVE  /\ Chained(z)' <=> Chained(z)
               /\ Chained(z) => agent'[z] = agent[z]
    <3>1. CASE z = c
      BY <1>2, <2>2, <3>1 DEF Chained, Critical
    <3>2. CASE z # c
      BY <1>1, <2>2, <3>2 DEF Chained, Critical
    <3> QED
      BY <3>1, <3>2
  <2> QED
    BY <2>1, <2>2
<1>4. ChainsOK'
  <2> SUFFICES ASSUME NEW a \in Agents
               PROVE  /\ \A z \in Activations :
                            (\E i \in DOMAIN queue'[a] : queue'[a][i] = z)
                                <=> (Chained(z)' /\ agent'[z] = a)
                      /\ \A i, j \in DOMAIN queue'[a] : queue'[a][i] = queue'[a][j] => i = j
    BY DEF ChainsOK
  <2>1. /\ \A z \in Activations : (\E i \in DOMAIN queue[a] : queue[a][i] = z)
                                      <=> (Chained(z) /\ agent[z] = a)
        /\ \A i, j \in DOMAIN queue[a] : queue[a][i] = queue[a][j] => i = j
    BY DEF ChainsOK
  <2>2. CASE a # b
    <3>1. queue'[a] = queue[a]
      BY <1>1, <2>2 DEF IInv, TypeOK
    <3> QED
      BY <1>1, <1>3, <2>1, <2>2, <3>1
  <2>3. CASE a = b
    <3>1. /\ Len(queue[b]) \in Nat \ {0} /\ DOMAIN queue[b] = 1 .. Len(queue[b])
          /\ DOMAIN queue'[b] = 1 .. Len(queue[b]) - 1
          /\ \A i \in DOMAIN queue'[b] : queue'[b][i] = queue[b][i + 1]
      BY <1>1 DEF IInv, TypeOK
    <3>2. ASSUME NEW i \in DOMAIN queue[b], queue[b][i] = x  PROVE i = 1
      <4>1. 1 \in DOMAIN queue[b] /\ queue[b][1] = x
        BY <1>1, <3>1
      <4> QED
        BY <2>1, <2>3, <3>2, <4>1
    <3>3. ASSUME NEW z \in Activations
          PROVE  (\E i \in DOMAIN queue'[b] : queue'[b][i] = z) <=> (Chained(z)' /\ agent'[z] = b)
      <4>1. CASE z = x
        BY <1>3, <3>1, <3>2, <4>1
      <4>2. CASE z # x
        <5>1. (\E i \in DOMAIN queue'[b] : queue'[b][i] = z)
                 <=> (\E i \in DOMAIN queue[b] : queue[b][i] = z)
          <6>1. ASSUME NEW i \in DOMAIN queue'[b]  PROVE i + 1 \in DOMAIN queue[b]
            BY <3>1
          <6>2. ASSUME NEW i \in DOMAIN queue[b], queue[b][i] = z
                PROVE  i - 1 \in DOMAIN queue'[b] /\ queue'[b][i - 1] = z
            BY <1>1, <3>1, <4>2, <6>2
          <6> QED
            BY <3>1, <6>1, <6>2
        <5> QED
          BY <1>3, <2>1, <2>3, <4>2, <5>1
      <4> QED
        BY <4>1, <4>2
    <3>4. \A i, j \in DOMAIN queue'[b] : queue'[b][i] = queue'[b][j] => i = j
      <4> SUFFICES ASSUME NEW i \in DOMAIN queue'[b], NEW j \in DOMAIN queue'[b],
                          queue'[b][i] = queue'[b][j]
                   PROVE  i = j
        OBVIOUS
      <4>1. /\ i + 1 \in DOMAIN queue[b] /\ j + 1 \in DOMAIN queue[b] /\ i \in Nat /\ j \in Nat
            /\ queue[b][i + 1] = queue[b][j + 1]
        BY <3>1
      <4>2. i + 1 = j + 1
        BY <2>1, <2>3, <4>1
      <4> QED
        BY <4>1, <4>2
    <3> QED
      BY <2>3, <3>3, <3>4
  <2> QED
    BY <2>2, <2>3
<1>5. \A z \in Activations : parent'[z] # NoActivation => Chained(z)'
  BY <1>1, <1>3 DEF CallsOK
<1>6. ASSUME NEW z \in Activations, pc'[z] \in {"promoteWait", "tailWait"}
      PROVE  \E w \in Activations : parent'[w] = z
  <2>1. z # x /\ z # c /\ pc[z] \in {"promoteWait", "tailWait"}
    BY <1>1, <1>2, <1>6
  <2>2. PICK w \in Activations : parent[w] = z
    BY <2>1 DEF CallsOK
  <2> QED
    BY <1>1, <2>1, <2>2
<1> QED
  BY <1>1, <1>2, <1>4, <1>5, <1>6 DEF CallsOK

\* Where nothing refuses a claim the steps of an activation keep the chains whole.
LEMMA StepKeepsWaits ==
    ASSUME IInv, CallersWait, WaitInv, NEW x \in Activations, Step(x)
    PROVE  ChainsOK' /\ CallsOK' /\ SelectionsOK'
<1> USE DEF WaitInv
<1>1. CASE Acquire(x) \/ Scan(x) \/ ReleaseOnly(x)
  <2>1. /\ UNCHANGED <<parent, agent, todo>> /\ queue' = queue
        /\ \A z \in Activations \ {x} : pc'[z] = pc[z]
        /\ \/ pc[x] \in {"wait", "scan"} /\ pc'[x] \in {"scan", "select", "unlock"}
           \/ pc[x] = "release" /\ pc'[x] = "tail"
    BY <1>1 DEF Acquire, Scan, ReleaseOnly, locals, IInv, TypeOK
  <2>2. Chained(x)' <=> Chained(x)
    BY <2>1 DEF Chained, Critical
  <2>3. SelectionsOK'
    BY <2>1 DEF SelectionsOK
  <2> QED
    BY <2>1, <2>2, <2>3, MoveKeepsWaits
<1>2. CASE Select(x)
  <2>1. PICK T \in SUBSET QueuedOf(agent[x]) :
          /\ pc[x] = "select" /\ pc' = [pc EXCEPT ![x] = IF T = {} THEN "unlock" ELSE "check"]
          /\ todo' = [todo EXCEPT ![x] = T] /\ UNCHANGED <<queue, agent, parent>>
    BY <1>2 DEF Select
  <2>2. Chained(x)' <=> Chained(x)
    BY <2>1 DEF Chained, Critical, IInv, TypeOK
  <2>3. SelectionsOK'
    BY <2>1 DEF SelectionsOK, IInv, TypeOK
  <2>4. (\A z \in Activations \ {x} : pc'[z] = pc[z]) /\ pc'[x] \notin {"promoteWait", "tailWait"}
    BY <2>1 DEF IInv, TypeOK
  <2> QED
    BY <2>1, <2>2, <2>3, <2>4, MoveKeepsWaits
<1>3. CASE Check(x)
  <2>1. invokable[agent[x]]
    BY <1>3 DEF Check, IInv, LocalsOK
  <2>2. /\ pc[x] = "check" /\ pc' = [pc EXCEPT ![x] = "claim"]
        /\ UNCHANGED <<todo, queue, agent, parent>>
    BY <1>3, <2>1 DEF Check
  <2>3. Chained(x)' <=> Chained(x)
    BY <2>2 DEF Chained, Critical, IInv, TypeOK
  <2>4. SelectionsOK'
    BY <2>2 DEF SelectionsOK, IInv, TypeOK
  <2>5. (\A z \in Activations \ {x} : pc'[z] = pc[z]) /\ pc'[x] \notin {"promoteWait", "tailWait"}
    BY <2>2 DEF IInv, TypeOK
  <2> QED
    BY <2>2, <2>3, <2>4, <2>5, MoveKeepsWaits
<1>4. CASE Claim(x)
  <2>1. PICK r \in todo[x] :
          /\ pc[x] = "claim" /\ todo' = [todo EXCEPT ![x] = @ \ {r}]
          /\ pc' = [pc EXCEPT ![x] = IF todo[x] = {r} THEN "unlock" ELSE "check"]
          /\ UNCHANGED <<queue, agent, parent>>
    BY <1>4 DEF Claim
  <2>2. Chained(x)' <=> Chained(x)
    BY <2>1 DEF Chained, Critical, IInv, TypeOK
  <2>3. SelectionsOK'
    <3>1. todo'[x] = todo[x] \ {r} /\ \A z \in Activations \ {x} : todo'[z] = todo[z]
      BY <2>1 DEF IInv, TypeOK
    <3>2. pc'[x] = "check" => todo'[x] # {}
      BY <2>1, <3>1 DEF IInv, TypeOK
    <3> QED
      BY <2>1, <3>1, <3>2 DEF SelectionsOK, IInv, TypeOK
  <2>4. (\A z \in Activations \ {x} : pc'[z] = pc[z]) /\ pc'[x] \notin {"promoteWait", "tailWait"}
    BY <2>1 DEF IInv, TypeOK
  <2> QED
    BY <2>1, <2>2, <2>3, <2>4, MoveKeepsWaits
<1>5. CASE Unlock(x)
  <2>1. /\ ChainsOK' /\ CallsOK' /\ todo' = todo
        /\ \A z \in Activations : pc'[z] \in {pc[z], "idle", "tail"}
    BY <1>5, UnlockKeepsWaits DEF Unlock
  <2> QED
    BY <2>1 DEF SelectionsOK
<1>6. CASE EndRun(x)
  <2>1. pc[x] = "end" /\ ~Chained(x) /\ agent[x] \in Agents
    BY <1>6 DEF EndRun, Chained, Critical, IInv, LocalsOK
  <2>2. ~Holds(x)
    <3>1. Holds(x) => 1 \in DOMAIN queue[agent[x]] /\ queue[agent[x]][1] = x
      BY <2>1 DEF Holds, IInv, TypeOK
    <3> QED
      BY <2>1, <3>1 DEF ChainsOK
  <2>3. Resumed(x) = "idle"
    BY <2>1, <2>2 DEF Resumed
  <2>4. /\ pc'[x] \in {"release", "idle"} /\ UNCHANGED <<queue, parent, todo>>
        /\ \A z \in Activations \ {x} : pc'[z] = pc[z] /\ agent'[z] = agent[z]
    BY <1>6, <2>3 DEF EndRun, IInv, TypeOK
  <2>5. ~Chained(x)'
    BY <2>4 DEF Chained, Critical
  <2>6. SelectionsOK'
    BY <2>4 DEF SelectionsOK
  <2> QED
    BY <2>1, <2>4, <2>5, <2>6, MoveKeepsWaits
<1>7. CASE Promote(x) \/ TailCall(x)
  <2>1. PICK a \in Agents, y \in Activations, p \in {"promoteWait", "tailWait"} :
          /\ Chain(y, a, x) /\ pc' = [pc EXCEPT ![x] = p, ![y] = "wait"]
          /\ pc[x] \in {"release", "tail"} /\ todo' = todo
    <3>1. CASE Promote(x)
      BY <3>1 DEF Promote
    <3>2. CASE TailCall(x)
      BY <3>2 DEF TailCall, IInv, TypeOK, LocalsOK
    <3> QED
      BY <1>7, <3>1, <3>2
  <2>2. /\ x # y /\ ~Chained(x) /\ pc'[y] = "wait" /\ pc'[x] = p
        /\ \A z \in Activations \ {y, x} : pc'[z] = pc[z]
    BY <2>1 DEF Chain, Chained, Critical, IInv, TypeOK
  <2>3. SelectionsOK'
    BY <2>1, <2>2 DEF SelectionsOK
  <2> QED
    BY <2>1, <2>2, <2>3, ChainKeepsWaits
<1> QED
  BY <1>1, <1>2, <1>3, <1>4, <1>5, <1>6, <1>7 DEF Step

LEMMA NextWaitInv ==
    ASSUME ~BudgetStops, ~AgentPauses, IInv, CallersWait, WaitInv, [Next]_vars
    PROVE  WaitInv'
<1>1. (~blocked /\ \A a \in Agents : invokable[a])'
  <2>1. UNCHANGED <<blocked, invokable>>
    BY DEF Next, Step, Acquire, Scan, Select, Check, Claim, Unlock, EndRun, Promote, ReleaseOnly,
           TailCall, ResumeQueued, Wakeup, DeferWakeup, BeginEnd, SetBlocked, SetInvokable,
           Finished, rows, vars
  <2> QED
    BY <2>1 DEF WaitInv
<1>2. CASE \E x \in Activations : Step(x)
  BY <1>1, <1>2, StepKeepsWaits DEF WaitInv
<1>3. ASSUME NEW x \in Activations, NEW a \in Agents, ResumeQueued(x, a) \/ Wakeup(x, a)
      PROVE  WaitInv'
  <2>1. /\ Chain(x, a, NoActivation) /\ pc' = [pc EXCEPT ![x] = "wait"] /\ todo' = todo
    BY <1>3 DEF ResumeQueued, Wakeup
  <2>2. pc'[x] = "wait" /\ \A z \in Activations \ {x} : pc'[z] = pc[z]
    BY <2>1 DEF IInv, TypeOK
  <2>3. ChainsOK' /\ CallsOK'
    BY <2>1, <2>2, ChainKeepsWaits DEF WaitInv
  <2>4. SelectionsOK'
    BY <2>1, <2>2 DEF WaitInv, SelectionsOK
  <2> QED
    BY <1>1, <2>3, <2>4 DEF WaitInv
<1>4. ASSUME NEW x \in Activations, NEW r \in Runs, BeginEnd(x, r)  PROVE WaitInv'
  <2>1. /\ pc[x] = "idle" /\ pc'[x] = "end" /\ UNCHANGED <<queue, parent>>
        /\ \A z \in Activations \ {x} :
              pc'[z] = pc[z] /\ agent'[z] = agent[z] /\ todo'[z] = todo[z]
    BY <1>4 DEF BeginEnd, RootFree, IInv, TypeOK
  <2>2. ~Chained(x) /\ ~Chained(x)'
    BY <2>1 DEF Chained, Critical
  <2>3. ChainsOK' /\ CallsOK'
    BY <2>1, <2>2, MoveKeepsWaits DEF WaitInv
  <2>4. SelectionsOK'
    BY <2>1 DEF WaitInv, SelectionsOK
  <2> QED
    BY <1>1, <2>3, <2>4 DEF WaitInv
<1>5. CASE (\E a \in Agents : DeferWakeup(a) \/ SetInvokable(a)) \/ SetBlocked \/ UNCHANGED vars
  <2>1. UNCHANGED <<queue, pc, agent, parent, todo>>
    BY <1>5 DEF DeferWakeup, SetInvokable, SetBlocked, vars, locals
  <2>2. ChainsOK' /\ CallsOK' /\ SelectionsOK'
    BY <2>1 DEF WaitInv, ChainsOK, CallsOK, SelectionsOK, Chained
  <2> QED
    BY <1>1, <2>2 DEF WaitInv
<1> QED
  BY <1>2, <1>3, <1>4, <1>5 DEF Next, Finished

\* The head of a chain can go on, and so can whoever is past the lock.
LEMMA HeadsGoOn ==
    ASSUME IInv, WaitInv, NEW y \in Activations, Chained(y), pc[y] # "wait" \/ Holds(y)
    PROVE  CanGoOn(y)
<1> USE DEF WaitInv
<1>1. pc[y] \in {"check", "claim"} => \E r \in todo[y] : First(todo[y], r)
  <2>1. todo[y] \in SUBSET Nat
    BY ConstantsAssumption DEF IInv, TypeOK, Runs
  <2> QED
    BY <2>1, FirstExists DEF SelectionsOK
<1>2. \E T \in SUBSET QueuedOf(agent[y]) : OldestQueued(T, agent[y], slots[y])
  BY OldestExist DEF IInv, TypeOK
<1> QED
  BY <1>1, <1>2 DEF Chained, Critical, CanGoOn

\* Whoever is in a chain can go on or waits for its head, which can.
LEMMA ChainsGoOn ==
    ASSUME IInv, WaitInv, NEW x \in Activations, Chained(x)
    PROVE  \E y \in Activations : CanGoOn(y) /\ (y = x \/ Behind(x, y))
<1>1. CASE pc[x] # "wait"
  BY <1>1, HeadsGoOn
<1>2. CASE pc[x] = "wait"
  <2>1. agent[x] \in Agents /\ queue[agent[x]] \in Seq(Activations)
    BY <1>2 DEF IInv, TypeOK, LocalsOK
  <2>2. queue[agent[x]] # <<>>
    <3>1. \E i \in DOMAIN queue[agent[x]] : queue[agent[x]][i] = x
      BY <2>1 DEF WaitInv, ChainsOK
    <3> QED
      BY <2>1, <3>1
  <2>3. PICK y \in Activations : y = Head(queue[agent[x]])
    BY <2>1, <2>2
  <2>4. 1 \in DOMAIN queue[agent[x]] /\ queue[agent[x]][1] = y
    BY <2>1, <2>2, <2>3
  <2>5. Chained(y) /\ agent[y] = agent[x]
    BY <2>1, <2>4 DEF WaitInv, ChainsOK
  <2>6. Holds(y)
    BY <2>1, <2>2, <2>3, <2>5 DEF Holds
  <2> QED
    BY <1>2, <2>5, <2>6, HeadsGoOn DEF Behind
<1> QED
  BY <1>1, <1>2

\* Nested calls of startNextQueuedRunForAgent do not wait for each other in a circle
\* while no claim is refused: whatever is in progress can go on, or waits for a call
\* that can.  (start_lock_wedge shows the circle that a refused claim closes.)
THEOREM CallsGoOn ==
    ASSUME ~BudgetStops, ~AgentPauses
    PROVE  Spec => []NoActivationIsStuck
<1>1. Init => WaitInv
  BY DEF Init, WaitInv, ChainsOK, CallsOK, SelectionsOK, Chained, Critical
<1>2. IInv /\ OrderInv /\ WaitInv /\ [Next]_vars => WaitInv'
  BY NextWaitInv DEF OrderInv
<1>3. ASSUME IInv, WaitInv, NEW x \in Activations, pc[x] # "idle"
      PROVE  \E y \in Activations :
                /\ CanGoOn(y)
                /\ \/ y = x
                   \/ Behind(x, y)
                   \/ \E z \in Activations : Calls(x, z) /\ (z = y \/ Behind(z, y))
  <2>1. CASE Chained(x)
    BY <1>3, <2>1, ChainsGoOn
  <2>2. CASE pc[x] \in {"promoteWait", "tailWait"}
    <3>1. PICK z \in Activations : parent[z] = x
      BY <1>3, <2>2 DEF WaitInv, CallsOK
    <3>2. Chained(z)
      BY <1>3, <3>1, ConstantsAssumption DEF WaitInv, CallsOK
    <3> QED
      BY <1>3, <2>2, <3>1, <3>2, ChainsGoOn DEF Calls
  <2>3. CASE pc[x] \in {"end", "release", "tail"}
    BY <2>3 DEF CanGoOn
  <2> QED
    BY <1>3, <2>1, <2>2, <2>3 DEF IInv, TypeOK, PCs, Chained
<1>4. IInv /\ WaitInv => NoActivationIsStuck
  BY <1>3 DEF NoActivationIsStuck
<1> QED
  BY <1>1, <1>2, <1>4, Invariance, OrderInvariance, PTL DEF Spec
=============================================================================
