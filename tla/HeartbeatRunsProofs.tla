-------------------------- MODULE HeartbeatRunsProofs --------------------------
(***************************************************************************)
(* Theorems of HeartbeatRuns.  All of them rest on IInv, which says for     *)
(* every reachable state what the locals of a task mean, and that a run is  *)
(* claimed and executed once at most.  Each of the others adds its own      *)
(* invariant to IInv: SlotsKept, AllSeen, RetryInv, SlotsFree, HandInv and  *)
(* Handled.                                                                 *)
(***************************************************************************)
EXTENDS HeartbeatRuns, FiniteSetTheorems, SequenceTheorems, WellFoundedInduction, TLAPS

Statuses == Terminal \cup {"none", "queued", "running"}
WakeStatuses == {"none", "queued", "claimed", "completed", "failed", "cancelled", "timed_out"}
AgentStatuses == {"idle", "running", "error", "paused", "terminated"}
Rows == [status : Statuses, agent : Agents \cup {NoAgent}, issue : Issues \cup {NoIssue},
         wake : WakeStatuses, pid : BOOLEAN, detached : BOOLEAN, retryOf : Runs \cup {0}]
Snapshots == [run : Runs, pid : BOOLEAN, detached : BOOLEAN, retryOf : Runs \cup {0}]
Verdicts == AgentStatuses \cup Terminal
              \cup {"none", "timer", "plain", "comment", "mention", "queue", "coalesce", "defer", "retrying"}
Locals == [pc : PCs, run : Runs \cup {0}, agent : Agents \cup {NoAgent},
           issue : Issues \cup {NoIssue}, left : SUBSET Snapshots, verdict : Verdicts,
           service : Services \cup {"none"}]
Starters == [pc : {"idle", "select", "check", "claim", "mark"}, run : Runs \cup {0}]
Slot == Processes \X Agents
Counters == [wakes : Nat, cancels : Nat, boards : Nat, faults : Nat, crashes : Nat]

Typed ==
    /\ runs \in [Runs -> Rows] /\ lock \in [Issues -> Runs \cup {0}]
    /\ deferred \in [Issues -> Seq(Agents)] /\ agentStatus \in [Agents -> AgentStatuses]
    /\ child \in [Runs -> {"none", "alive", "dead"}] /\ tracked \in [Runs -> BOOLEAN]
    /\ task \in [Tasks -> Locals] /\ starter \in [Slot -> Starters]
    /\ rowLock \subseteq Issues /\ booted \in BOOLEAN /\ used \in Counters

\* A row that was inserted is some agent's; one that was not is blank.
RowOK(r) ==
    /\ runs[r].status # "none" => runs[r].agent \in Agents
    /\ runs[r].status = "none" => runs[r].retryOf = 0
RowsOK == \A r \in Runs : RowOK(r)

Closing == {"store", "wake", "release", "retry", "finalRead", "finalWrite"}
Launching == {"start", "setup", "launch"}
Working == Closing \cup Launching \cup {"child", "decide"}

\* Which steps a task of each kind takes.
KindOK(t, h) ==
    /\ t[1] = "exec" => h.pc \in {"idle"} \cup (Working \ {"retry"})
    /\ t[1] = "cancel" => h.pc \in {"idle"} \cup (Closing \ {"retry"})
    /\ t[1] = "wake" => h.pc \in {"idle", "lockIssue", "commit", "scan", "insert"}
    /\ t[1] = "board" => h.pc \in {"idle", "write", "list", "next", "store", "wake", "release"}
    /\ t[1] = "reap" => h.pc \in {"idle", "next"} \cup Closing

\* What the locals h of task t mean where it stands.
Meant(t, h) ==
    /\ KindOK(t, h)
    /\ t[1] \in {"exec", "cancel"} /\ h.pc # "idle" => h.run = t[2]
    /\ h.pc \in Working => h.run \in Runs
    /\ h.pc \in Closing \ {"finalWrite"} => h.verdict \in Terminal \cup {"retrying"}
    /\ h.verdict = "retrying" => t[1] = "reap"
    /\ t[1] \in {"cancel", "board"} /\ h.pc \in {"store", "wake", "release", "finalRead"} => h.verdict = "cancelled"
    /\ t[1] = "reap" /\ h.pc = "store" => h.verdict \in {"failed", "retrying"}
    /\ h.pc = "finalWrite" => h.verdict \in {"running", "idle", "error"}
    /\ h.pc = "write" => h.verdict \in {"paused", "terminated", "idle"}
    /\ h.pc \in {"write", "list", "lockIssue", "commit", "scan", "insert"} => h.agent \in Agents
    /\ h.pc \in {"lockIssue", "commit"} => h.issue \in Issues
    /\ h.pc = "commit" => h.verdict \in {"queue", "coalesce", "defer"}
    /\ h.pc = "commit" /\ h.verdict # "queue" => h.run \in Runs
TasksOK == \A t \in Tasks : Meant(t, task[t])

\* The runs a task has in hand were inserted; those of the reaper were claimed.
Known(t, h) ==
    /\ h.pc \in Working => runs[h.run].status # "none"
    /\ \A s \in h.left : runs[s.run].status # "none"
    /\ t[1] = "reap" =>
        /\ h.pc \in Working => runs[h.run].status # "queued"
        /\ \A s \in h.left : runs[s.run].status # "queued"
RunsKnown == \A t \in Tasks : Known(t, task[t])

\* The start chain of an agent has a run of this agent in hand.
StarterOK(x) ==
    starter[x].pc \in {"check", "claim", "mark"} =>
        /\ starter[x].run \in Runs /\ runs[starter[x].run].status # "none"
        /\ runs[starter[x].run].agent = x[2]
StartersOK == \A x \in Slot : StarterOK(x)

Marks(x, r) == starter[x].pc = "mark" /\ starter[x].run = r
Marked(r) == \E x \in Slot : Marks(x, r)

\* A run is claimed once and executed once: its child is started by the one execution
\* it has, and ends with it unless the server stopped.
LifeOK(r) ==
    LET pc == task[Exec(r)].pc IN
    /\ runs[r].status \in {"none", "queued"} => ~Marked(r)
    /\ runs[r].status \in {"none", "queued"} \/ Marked(r) => pc = "idle" /\ child[r] = "none"
    /\ pc \in Launching => child[r] = "none"
    /\ pc = "child" => child[r] = "alive"
    /\ pc \notin {"idle", "child"} => child[r] # "alive"
    /\ runs[r].pid => child[r] # "none"
LivesOK == \A r \in Runs : LifeOK(r)
MarkedOnce == \A r \in Runs : \A x, y \in Slot : Marks(x, r) /\ Marks(y, r) => x = y

IInv == Typed /\ RowsOK /\ TasksOK /\ RunsKnown /\ StartersOK /\ LivesOK /\ MarkedOnce

-----------------------------------------------------------------------------
(* Tasks *)

LEMMA TaskNames ==
  /\ \A r \in Runs : /\ Exec(r) \in Tasks /\ Exec(r)[1] = "exec" /\ Exec(r)[2] = r
                     /\ <<"cancel", r>> \in Tasks
  /\ \A t \in Tasks : /\ t[1] \in {"exec", "cancel", "wake", "board", "reap"}
                      /\ t[1] = "exec" => t[2] \in Runs /\ t = Exec(t[2])
                      /\ t[1] = "cancel" => t[2] \in Runs /\ t = <<"cancel", t[2]>>
                      /\ t[1] = "reap" => t[2] \in 1 .. Reapers /\ t = <<"reap", t[2]>>
BY DEF Tasks, Exec

LEMMA Blank ==
  /\ NoRun \in Rows /\ Idle \in Locals /\ NotStarting \in Starters /\ NoEvents \in Counters
  /\ Idle.pc = "idle" /\ Idle.run = 0 /\ Idle.left = {} /\ Idle.verdict = "none" /\ Idle.service = "none"
BY DEF NoRun, Rows, Statuses, Terminal, WakeStatuses, Idle, Locals, PCs, Verdicts, NotStarting,
       Starters, NoEvents, Counters

LEMMA IdleMeans ==
  ASSUME NEW t \in Tasks PROVE Meant(t, Idle) /\ Known(t, Idle)
BY Blank DEF Meant, KindOK, Known, Working, Closing, Launching

\* The initial states satisfy the invariant.
LEMMA InitInv == ASSUME ConstantsAssumption PROVE Init => IInv
<1> SUFFICES ASSUME Init PROVE IInv  OBVIOUS
<1>1. Typed
  <2>1. <<>> \in Seq(Agents)  OBVIOUS
  <2>2. /\ runs \in [Runs -> Rows] /\ task \in [Tasks -> Locals] /\ starter \in [Slot -> Starters]
        /\ used \in Counters
    BY Blank DEF Init, Slot
  <2>3. /\ lock \in [Issues -> Runs \cup {0}] /\ deferred \in [Issues -> Seq(Agents)]
        /\ agentStatus \in [Agents -> AgentStatuses] /\ child \in [Runs -> {"none", "alive", "dead"}]
        /\ tracked \in [Runs -> BOOLEAN] /\ rowLock \subseteq Issues /\ booted \in BOOLEAN
    BY <2>1 DEF Init, AgentStatuses
  <2>4. QED  BY <2>2, <2>3 DEF Typed
<1>2. \A t \in Tasks : task[t] = Idle  BY DEF Init
<1>3. \A x \in Slot : starter[x].pc = "idle"  BY DEF Init, Slot, NotStarting
<1>4. \A r \in Runs : runs[r].status = "none" /\ runs[r].retryOf = 0 /\ ~runs[r].pid /\ child[r] = "none"
  BY DEF Init, NoRun
<1>5. RowsOK  BY <1>4 DEF RowsOK, RowOK
<1>6. TasksOK /\ RunsKnown  BY <1>2, IdleMeans DEF TasksOK, RunsKnown
<1>7. StartersOK /\ MarkedOnce  BY <1>3 DEF StartersOK, StarterOK, MarkedOnce, Marks
<1>8. LivesOK
  <2>1. \A r \in Runs : task[Exec(r)].pc = "idle"  BY <1>2, TaskNames, Blank
  <2>2. \A r \in Runs : ~Marked(r)  BY <1>3 DEF Marked, Marks
  <2>3. QED  BY <1>4, <2>1, <2>2 DEF LivesOK, LifeOK, Launching
<1>9. QED  BY <1>1, <1>5, <1>6, <1>7, <1>8 DEF IInv

-----------------------------------------------------------------------------
(* What a step does to tasks and rows *)

TaskIs(t, h) == task' = [task EXCEPT ![t] = h]

LEMMA TaskIsFacts ==
  ASSUME Typed, NEW t \in Tasks, NEW h \in Locals, TaskIs(t, h)
  PROVE  /\ task' \in [Tasks -> Locals] /\ task'[t] = h
         /\ \A u \in Tasks : u # t => task'[u] = task[u]
BY DEF Typed, TaskIs

LEMMA GoFacts ==
  ASSUME Typed, NEW t \in Tasks, NEW p \in PCs, Go(t, p)
  PROVE  /\ TaskIs(t, [task[t] EXCEPT !.pc = p]) /\ [task[t] EXCEPT !.pc = p] \in Locals
         /\ [task[t] EXCEPT !.pc = p].pc = p
BY DEF Typed, TaskIs, Go, Locals

LEMMA GoPlace ==
  ASSUME Typed, NEW t \in Tasks, NEW p \in PCs, Go(t, p)
  PROVE  task'[t].pc = p
BY DEF Typed, Go, Locals

LEMMA CountFacts ==
  ASSUME Typed, NEW event \in {"wakes", "cancels", "boards", "faults", "crashes"}, Count(event)
  PROVE  used' \in Counters
<1>1. used \in Counters  BY DEF Typed
<1>2. CASE event = "wakes"  BY <1>1, <1>2 DEF Count, Counters
<1>3. CASE event = "cancels"  BY <1>1, <1>3 DEF Count, Counters
<1>4. CASE event = "boards"  BY <1>1, <1>4 DEF Count, Counters
<1>5. CASE event = "faults"  BY <1>1, <1>5 DEF Count, Counters
<1>6. CASE event = "crashes"  BY <1>1, <1>6 DEF Count, Counters
<1>7. QED  BY <1>2, <1>3, <1>4, <1>5, <1>6

\* Rows go onward: an inserted one stays, with its agent, its issue and its origin; a
\* claimed one is never queued again.
Onward(r) ==
    /\ runs[r].status # "none" =>
        /\ runs'[r].status # "none" /\ runs'[r].agent = runs[r].agent
        /\ runs'[r].issue = runs[r].issue /\ runs'[r].retryOf = runs[r].retryOf
    /\ runs[r].status \notin {"none", "queued"} => runs'[r].status # "queued"
    /\ runs[r].pid => runs'[r].pid
AllOnward == \A r \in Runs : Onward(r)

\* A row is inserted.
LEMMA InsertFacts ==
  ASSUME Typed, NEW r \in Runs, NewRun(r), NEW a \in Agents, NEW i \in Issues \cup {NoIssue},
         NEW o \in Runs \cup {0}, runs' = [runs EXCEPT ![r] = QueuedRun(a, i, o)]
  PROVE  /\ runs' \in [Runs -> Rows] /\ runs[r].status = "none"
         /\ runs'[r].status = "queued" /\ runs'[r].agent = a /\ runs'[r].issue = i
         /\ runs'[r].retryOf = o /\ ~runs'[r].pid
         /\ \A q \in Runs : q # r => runs'[q] = runs[q]
<1>1. QueuedRun(a, i, o) \in Rows
  BY DEF QueuedRun, NoRun, Rows, Statuses, Terminal, WakeStatuses
<1>2. /\ QueuedRun(a, i, o).status = "queued" /\ QueuedRun(a, i, o).agent = a
      /\ QueuedRun(a, i, o).issue = i /\ QueuedRun(a, i, o).retryOf = o /\ ~QueuedRun(a, i, o).pid
  BY DEF QueuedRun, NoRun
<1>3. QED  BY <1>1, <1>2 DEF Typed, NewRun

\* The status of a row is written.
LEMMA StatusFacts ==
  ASSUME Typed, NEW r \in Runs, NEW s \in Statuses, runs' = [runs EXCEPT ![r].status = s]
  PROVE  /\ runs' \in [Runs -> Rows] /\ runs'[r].status = s /\ runs'[r].agent = runs[r].agent
         /\ runs'[r].issue = runs[r].issue /\ runs'[r].retryOf = runs[r].retryOf
         /\ runs'[r].pid = runs[r].pid /\ runs'[r].detached = runs[r].detached
         /\ \A q \in Runs : q # r => runs'[q] = runs[q]
BY DEF Typed, Rows

\* The wakeup request of a row is written.
LEMMA WakeFacts ==
  ASSUME Typed, NEW r \in Runs, NEW s \in WakeStatuses, runs' = [runs EXCEPT ![r].wake = s]
  PROVE  /\ runs' \in [Runs -> Rows]
         /\ \A q \in Runs : /\ runs'[q].status = runs[q].status /\ runs'[q].agent = runs[q].agent
                            /\ runs'[q].issue = runs[q].issue /\ runs'[q].retryOf = runs[q].retryOf
                            /\ runs'[q].pid = runs[q].pid /\ runs'[q].detached = runs[q].detached
<1>1. runs[r] \in Rows  BY DEF Typed
<1>2. runs' = [runs EXCEPT ![r] = [runs[r] EXCEPT !.wake = s]]  BY <1>1 DEF Typed
<1>3. [runs[r] EXCEPT !.wake = s] \in Rows  BY <1>1 DEF Rows
<1>4. /\ [runs[r] EXCEPT !.wake = s].status = runs[r].status
      /\ [runs[r] EXCEPT !.wake = s].agent = runs[r].agent
      /\ [runs[r] EXCEPT !.wake = s].issue = runs[r].issue
      /\ [runs[r] EXCEPT !.wake = s].retryOf = runs[r].retryOf
      /\ [runs[r] EXCEPT !.wake = s].pid = runs[r].pid
      /\ [runs[r] EXCEPT !.wake = s].detached = runs[r].detached
  BY <1>1 DEF Rows
<1> DEFINE row == [runs[r] EXCEPT !.wake = s]
<1> HIDE DEF row
<1>5. runs' \in [Runs -> Rows] /\ runs'[r] = row /\ \A q \in Runs : q # r => runs'[q] = runs[q]
  BY <1>2, <1>3 DEF Typed, row
<1>6. QED  BY <1>4, <1>5 DEF row

-----------------------------------------------------------------------------
(* Steps that start no run and no child *)

\* What a task has in hand keeps its meaning while rows go onward.
LEMMA KnownStays ==
  ASSUME NEW u \in Tasks, NEW h \in Locals, Meant(u, h), Known(u, h), AllOnward
  PROVE  Known(u, h)'
<1>1. \A s \in h.left : s.run \in Runs  BY DEF Locals, Snapshots
<1>2. h.pc \in Working => h.run \in Runs  BY DEF Meant
<1>3. \A r \in Runs :
        /\ runs[r].status # "none" => runs'[r].status # "none"
        /\ runs[r].status \notin {"none", "queued"} => runs'[r].status # "queued"
  BY DEF AllOnward, Onward
<1>4. h.pc \in Working =>
        /\ runs'[h.run].status # "none"
        /\ u[1] = "reap" => runs'[h.run].status # "queued"
  BY <1>2, <1>3 DEF Known
<1>5. \A s \in h.left :
        /\ runs'[s.run].status # "none"
        /\ u[1] = "reap" => runs'[s.run].status # "queued"
  BY <1>1, <1>3 DEF Known
<1>6. QED  BY <1>4, <1>5 DEF Known

\* One task goes on and rows go onward: what the other tasks have in hand keeps its
\* meaning.
LEMMA TaskMoves ==
  ASSUME IInv, NEW t \in Tasks, NEW h \in Locals, TaskIs(t, h), Meant(t, h), Known(t, h),
         UNCHANGED <<child, starter>>,
         lock' \in [Issues -> Runs \cup {0}], deferred' \in [Issues -> Seq(Agents)],
         agentStatus' \in [Agents -> AgentStatuses], tracked' \in [Runs -> BOOLEAN],
         rowLock' \subseteq Issues, booted' \in BOOLEAN, used' \in Counters,
         runs' \in [Runs -> Rows], AllOnward, RowsOK',
         \A r \in Runs : runs'[r].pid => runs[r].pid,
         t[1] = "exec" => /\ task[t].pc \notin {"idle", "child"} /\ h.pc # "child"
                          /\ h.pc \in Launching => task[t].pc \in Launching
  PROVE  IInv'
<1>1. /\ task' \in [Tasks -> Locals] /\ task'[t] = h
      /\ \A u \in Tasks : u # t => task'[u] = task[u]
  BY TaskIsFacts DEF IInv
<1>2. Typed'  BY <1>1 DEF IInv, Typed
<1>3. TasksOK'
  <2> SUFFICES ASSUME NEW u \in Tasks PROVE Meant(u, task'[u])  BY DEF TasksOK, Meant, KindOK
  <2>1. CASE u = t  BY <1>1, <2>1
  <2>2. CASE u # t  BY <1>1, <2>2 DEF IInv, TasksOK
  <2>3. QED  BY <2>1, <2>2
<1>4. RunsKnown'
  <2> SUFFICES ASSUME NEW u \in Tasks PROVE Known(u, task[u])'  BY DEF RunsKnown
  <2>1. task[u] \in Locals /\ Meant(u, task[u]) /\ Known(u, task[u])
    BY DEF IInv, Typed, RunsKnown, TasksOK
  <2>2. task'[u] \in Locals /\ Meant(u, task'[u]) /\ Known(u, task'[u])
    BY <1>1, <2>1 DEF Known
  <2>3. Known(u, task[u])' <=>
          /\ task'[u].pc \in Working => runs'[task'[u].run].status # "none"
          /\ \A s \in task'[u].left : runs'[s.run].status # "none"
          /\ u[1] = "reap" =>
               /\ task'[u].pc \in Working => runs'[task'[u].run].status # "queued"
               /\ \A s \in task'[u].left : runs'[s.run].status # "queued"
    BY DEF Known
  <2>4. \A h0 \in Locals : Meant(u, h0) /\ Known(u, h0) =>
          /\ h0.pc \in Working => runs'[h0.run].status # "none"
          /\ \A s \in h0.left : runs'[s.run].status # "none"
          /\ u[1] = "reap" =>
               /\ h0.pc \in Working => runs'[h0.run].status # "queued"
               /\ \A s \in h0.left : runs'[s.run].status # "queued"
    BY KnownStays DEF Known
  <2>5. QED  BY <2>2, <2>3, <2>4
<1>5. StartersOK' /\ MarkedOnce'
  <2>1. MarkedOnce'  BY DEF IInv, MarkedOnce, Marks
  <2>2. StartersOK'  BY DEF IInv, StartersOK, StarterOK, AllOnward, Onward
  <2>3. QED  BY <2>1, <2>2
<1>6. LivesOK'
  <2> SUFFICES ASSUME NEW r \in Runs PROVE LifeOK(r)'  BY DEF LivesOK
  <2>1. LifeOK(r) /\ Onward(r)  BY DEF IInv, LivesOK, AllOnward
  <2>2. Marked(r)' <=> Marked(r)  BY DEF Marked, Marks
  <2>3. Exec(r) \in Tasks /\ Exec(r)[1] = "exec"  BY TaskNames
  <2>4. runs'[r].status \in {"none", "queued"} => runs[r].status \in {"none", "queued"}
    BY <2>1 DEF Onward
  <2>5. CASE t # Exec(r)
    <3>1. task'[Exec(r)] = task[Exec(r)]  BY <1>1, <2>3, <2>5
    <3>2. QED  BY <2>1, <2>2, <2>4, <3>1 DEF LifeOK
  <2>6. CASE t = Exec(r)
    <3>1. task'[Exec(r)] = h  BY <1>1, <2>6
    <3>2. /\ task[Exec(r)].pc \notin {"idle", "child"} /\ h.pc # "child"
          /\ h.pc \in Launching => task[Exec(r)].pc \in Launching
      BY <2>3, <2>6
    <3>3. QED  BY <2>1, <2>2, <2>4, <3>1, <3>2 DEF LifeOK
  <2>7. QED  BY <2>5, <2>6
<1>7. QED  BY <1>2, <1>3, <1>4, <1>5, <1>6 DEF IInv

\* ... in particular when the rows are left alone.
LEMMA TaskOnly ==
  ASSUME IInv, NEW t \in Tasks, NEW h \in Locals, TaskIs(t, h), Meant(t, h), Known(t, h),
         UNCHANGED <<runs, lock, deferred, child, starter>>,
         agentStatus' \in [Agents -> AgentStatuses], tracked' \in [Runs -> BOOLEAN],
         rowLock' \subseteq Issues, booted' \in BOOLEAN, used' \in Counters,
         t[1] = "exec" => /\ task[t].pc \notin {"idle", "child"} /\ h.pc # "child"
                          /\ h.pc \in Launching => task[t].pc \in Launching
  PROVE  IInv'
<1>1. runs' \in [Runs -> Rows] /\ AllOnward /\ RowsOK'
  BY DEF IInv, Typed, AllOnward, Onward, RowsOK, RowOK
<1>2. lock' \in [Issues -> Runs \cup {0}] /\ deferred' \in [Issues -> Seq(Agents)]
  BY DEF IInv, Typed
<1>3. QED  BY <1>1, <1>2, TaskMoves

\* What is known of a task before it moves.
LEMMA Here ==
  ASSUME IInv, NEW t \in Tasks
  PROVE  task[t] \in Locals /\ Meant(t, task[t]) /\ Known(t, task[t])
BY DEF IInv, Typed, TasksOK, RunsKnown

\* A write of one row's status moves it onward.
LEMMA StatusOnward ==
  ASSUME IInv, NEW r \in Runs, NEW s \in Statuses \ {"none", "queued"}, runs[r].status # "none",
         runs' = [runs EXCEPT ![r].status = s]
  PROVE  AllOnward /\ RowsOK' /\ \A q \in Runs : runs'[q].pid => runs[q].pid
<1>1. Typed  BY DEF IInv
<1>2. QED  BY <1>1, StatusFacts DEF IInv, RowsOK, RowOK, AllOnward, Onward

LEMMA WakeOnward ==
  ASSUME IInv, NEW r \in Runs, NEW s \in WakeStatuses, runs' = [runs EXCEPT ![r].wake = s]
  PROVE  AllOnward /\ RowsOK' /\ \A q \in Runs : runs'[q].pid => runs[q].pid
<1>1. Typed  BY DEF IInv
<1>2. QED  BY <1>1, WakeFacts DEF IInv, RowsOK, RowOK, AllOnward, Onward

LEMMA InsertOnward ==
  ASSUME IInv, NEW r \in Runs, NewRun(r), NEW a \in Agents, NEW i \in Issues \cup {NoIssue},
         NEW o \in Runs \cup {0}, runs' = [runs EXCEPT ![r] = QueuedRun(a, i, o)]
  PROVE  AllOnward /\ RowsOK' /\ \A q \in Runs : runs'[q].pid => runs[q].pid
<1>1. Typed  BY DEF IInv
<1>2. ~runs[r].pid
  BY <1>1, InsertFacts, TaskNames DEF IInv, LivesOK, LifeOK
<1>3. /\ runs[r].status = "none" /\ runs'[r].status = "queued" /\ runs'[r].agent = a /\ ~runs'[r].pid
      /\ \A q \in Runs : q # r => runs'[q] = runs[q]
  BY <1>1, InsertFacts
<1>4. AllOnward
  <2> SUFFICES ASSUME NEW q \in Runs PROVE Onward(q)  BY DEF AllOnward
  <2>1. CASE q = r  BY <1>2, <1>3, <2>1 DEF Onward
  <2>2. CASE q # r  BY <1>3, <2>2 DEF Onward
  <2>3. QED  BY <2>1, <2>2
<1>5. RowsOK'  BY <1>3 DEF IInv, RowsOK, RowOK
<1>6. QED  BY <1>2, <1>3, <1>4, <1>5

-----------------------------------------------------------------------------
(* enqueueWakeup *)

LEMMA WakeBeginInv ==
  ASSUME ConstantsAssumption, IInv, NEW w \in TasksOf("wake"), NEW a \in Agents,
         NEW i \in Issues \cup {NoIssue}, NEW kind \in WakeKinds, WakeBegin(w, a, i, kind)
  PROVE  IInv'
<1> DEFINE p == IF kind \in {"timer", "mention"} THEN "scan" ELSE "lockIssue"
           h == [Idle EXCEPT !.pc = p, !.agent = a, !.issue = i, !.verdict = kind]
<1>1. w \in Tasks /\ w[1] = "wake"  BY DEF TasksOf
<1>2. kind \in {"timer", "plain", "comment", "mention"}  BY DEF ConstantsAssumption
<1>3. /\ h \in Locals /\ h.pc = p /\ h.agent = a /\ h.issue = i /\ h.verdict = kind /\ h.left = {}
  <2>1. p \in PCs /\ kind \in Verdicts /\ a \in Agents \cup {NoAgent}
    BY <1>2 DEF PCs, Verdicts
  <2>2. QED  BY <2>1, Blank DEF Locals
<1>4. TaskIs(w, h)  BY DEF WakeBegin, TaskIs
<1>5. h.pc = "lockIssue" => i \in Issues  BY <1>2, <1>3 DEF WakeBegin
<1>6. Meant(w, h) /\ Known(w, h)
  <2>1. p \in {"scan", "lockIssue"}  OBVIOUS
  <2> HIDE DEF h, p
  <2>2. QED  BY <1>1, <1>2, <1>3, <1>5, <2>1 DEF Meant, KindOK, Known, Working, Closing, Launching
<1>7. used' \in Counters  BY CountFacts DEF WakeBegin, IInv
<1> HIDE DEF h, p
<1>8. QED  BY <1>1, <1>3, <1>4, <1>6, <1>7, TaskOnly DEF WakeBegin, rowVars, IInv, Typed

\* The kind of a task is told by where it stands.
LEMMA WakesOnly ==
  ASSUME IInv, NEW w \in Tasks, task[w].pc \in {"lockIssue", "commit", "scan", "insert"}
  PROVE  w[1] = "wake"
BY TaskNames, Here DEF Meant, KindOK, Working, Closing, Launching

LEMMA WakeLockIssueInv ==
  ASSUME ConstantsAssumption, IInv, NEW w \in Tasks, WakeLockIssue(w) PROVE IInv'
<1>1. w[1] = "wake" /\ task[w].pc = "lockIssue"  BY WakesOnly DEF WakeLockIssue, At
<1>2. PICK r \in Runs \cup {0}, v \in {"queue", "coalesce", "defer"} :
        /\ v # "queue" => r \in Runs
        /\ TaskIs(w, [task[w] EXCEPT !.pc = "commit", !.run = r, !.verdict = v])
  <2>1. CASE task' = [task EXCEPT ![w].pc = "commit", ![w].verdict = "queue"]
    <3>1. TaskIs(w, [task[w] EXCEPT !.pc = "commit", !.run = task[w].run, !.verdict = "queue"])
      BY <2>1, Here DEF TaskIs, IInv, Typed, Locals
    <3>2. task[w].run \in Runs \cup {0}  BY Here DEF Locals
    <3>3. QED  BY <3>1, <3>2
  <2>2. ASSUME NEW r \in Runs, NEW v \in {"coalesce", "defer"},
               task' = [task EXCEPT ![w].pc = "commit", ![w].run = r, ![w].verdict = v]
        PROVE  TaskIs(w, [task[w] EXCEPT !.pc = "commit", !.run = r, !.verdict = v])
    BY <2>2 DEF TaskIs, IInv, Typed
  <2>3. QED  BY <2>1, <2>2 DEF WakeLockIssue
<1> DEFINE h == [task[w] EXCEPT !.pc = "commit", !.run = r, !.verdict = v]
<1>3. /\ h \in Locals /\ h.pc = "commit" /\ h.run = r /\ h.verdict = v
      /\ h.agent = task[w].agent /\ h.issue = task[w].issue /\ h.left = task[w].left
  <2>1. "commit" \in PCs /\ v \in Verdicts  BY DEF PCs, Verdicts
  <2>2. QED  BY <2>1, Here DEF Locals
<1> HIDE DEF h
<1>4. Meant(w, h) /\ Known(w, h)
  <2>1. Meant(w, task[w]) /\ Known(w, task[w])  BY Here
  <2>2. QED  BY <1>1, <1>2, <1>3, <2>1 DEF Meant, KindOK, Known, Working, Closing, Launching
<1>5. rowLock' \subseteq Issues
  <2>1. Meant(w, task[w])  BY Here
  <2>2. task[w].issue \in Issues  BY <1>1, <2>1 DEF Meant
  <2>3. rowLock' = rowLock \cup {task[w].issue}  BY DEF WakeLockIssue
  <2>4. QED  BY <2>2, <2>3 DEF IInv, Typed
<1>6. QED  BY <1>1, <1>2, <1>3, <1>4, <1>5, TaskOnly DEF WakeLockIssue, rowVars, IInv, Typed, h

LEMMA WakeCommitInv ==
  ASSUME ConstantsAssumption, IInv, NEW w \in Tasks, WakeCommit(w) PROVE IInv'
<1> DEFINE i == task[w].issue
           a == task[w].agent
<1>1. w[1] = "wake" /\ task[w].pc = "commit"  BY WakesOnly DEF WakeCommit, At
<1>2. i \in Issues /\ a \in Agents /\ (task[w].verdict # "queue" => task[w].run \in Runs)
  BY <1>1, Here DEF Meant
<1>3. /\ Idle \in Locals /\ TaskIs(w, Idle) /\ Meant(w, Idle) /\ Known(w, Idle)
  BY Blank, IdleMeans DEF WakeCommit, TaskIs
<1>4. rowLock' \subseteq Issues  BY DEF WakeCommit, IInv, Typed
<1>5. UNCHANGED <<agentStatus, child, tracked, starter, booted, used>>  BY DEF WakeCommit
<1>6. CASE task[w].verdict = "queue"
  <2>1. PICK r \in Runs : NewRun(r) /\ runs' = [runs EXCEPT ![r] = QueuedRun(a, i, 0)]
                          /\ lock' = [lock EXCEPT ![i] = r]
    BY <1>6 DEF WakeCommit
  <2>2. runs' \in [Runs -> Rows]  BY <1>2, <2>1, InsertFacts DEF IInv
  <2>3. AllOnward /\ RowsOK' /\ \A q \in Runs : runs'[q].pid => runs[q].pid
    BY <1>2, <2>1, InsertOnward
  <2>4. lock' \in [Issues -> Runs \cup {0}]  BY <2>1 DEF IInv, Typed
  <2>5. deferred' \in [Issues -> Seq(Agents)]  BY <1>6 DEF WakeCommit, IInv, Typed
  <2>6. QED  BY <1>1, <1>3, <1>4, <1>5, <2>2, <2>3, <2>4, <2>5, TaskMoves DEF IInv, Typed
<1>7. CASE task[w].verdict # "queue"
  <2>1. /\ lock' = [lock EXCEPT ![i] = task[w].run] /\ UNCHANGED runs
        /\ deferred' = deferred \/ deferred' = [deferred EXCEPT ![i] = Append(@, a)]
    BY <1>7 DEF WakeCommit
  <2>2. runs' \in [Runs -> Rows] /\ AllOnward /\ RowsOK'
    BY <2>1 DEF IInv, Typed, AllOnward, Onward, RowsOK, RowOK
  <2>3. lock' \in [Issues -> Runs \cup {0}]  BY <1>2, <1>7, <2>1 DEF IInv, Typed
  <2>4. deferred' \in [Issues -> Seq(Agents)]
    <3>1. deferred \in [Issues -> Seq(Agents)] /\ deferred[i] \in Seq(Agents)
      BY <1>2 DEF IInv, Typed
    <3>2. Append(deferred[i], a) \in Seq(Agents)  BY <1>2, <3>1
    <3> HIDE DEF i, a
    <3>3. [deferred EXCEPT ![i] = Append(@, a)] \in [Issues -> Seq(Agents)]  BY <3>1, <3>2
    <3>4. QED  BY <2>1, <3>1, <3>3
  <2>5. QED  BY <1>1, <1>3, <1>4, <1>5, <2>1, <2>2, <2>3, <2>4, TaskMoves DEF IInv, Typed
<1>8. QED  BY <1>6, <1>7

LEMMA WakeScanInv ==
  ASSUME ConstantsAssumption, IInv, NEW w \in Tasks, WakeScan(w) PROVE IInv'
<1>1. w[1] = "wake" /\ task[w].pc = "scan"  BY WakesOnly DEF WakeScan, At
<1> DEFINE h == [task[w] EXCEPT !.pc = "insert"]
<1>2. TaskIs(w, Idle) \/ TaskIs(w, h)  BY Here DEF WakeScan, TaskIs, IInv, Typed
<1>3. /\ h \in Locals /\ h.pc = "insert" /\ h.run = task[w].run /\ h.verdict = task[w].verdict
      /\ h.agent = task[w].agent /\ h.left = task[w].left
  BY Here DEF Locals, PCs
<1> HIDE DEF h
<1>4. Meant(w, h) /\ Known(w, h)
  <2>1. Meant(w, task[w]) /\ Known(w, task[w])  BY Here
  <2>2. QED  BY <1>1, <1>3, <2>1 DEF Meant, KindOK, Known, Working, Closing, Launching
<1>5. Idle \in Locals /\ Meant(w, Idle) /\ Known(w, Idle)  BY Blank, IdleMeans
<1>6. QED  BY <1>1, <1>2, <1>3, <1>4, <1>5, TaskOnly DEF WakeScan, rowVars, IInv, Typed

LEMMA WakeInsertInv ==
  ASSUME ConstantsAssumption, IInv, NEW w \in Tasks, WakeInsert(w) PROVE IInv'
<1>1. w[1] = "wake" /\ task[w].pc = "insert"  BY WakesOnly DEF WakeInsert, At
<1>2. PICK r \in Runs :
        NewRun(r) /\ runs' = [runs EXCEPT ![r] = QueuedRun(task[w].agent, task[w].issue, 0)]
  BY DEF WakeInsert
<1>3. task[w].agent \in Agents /\ task[w].issue \in Issues \cup {NoIssue}
  BY <1>1, Here DEF Meant, Locals
<1>4. runs' \in [Runs -> Rows]  BY <1>2, <1>3, InsertFacts DEF IInv
<1>5. AllOnward /\ RowsOK' /\ \A q \in Runs : runs'[q].pid => runs[q].pid
  BY <1>2, <1>3, InsertOnward
<1>6. Idle \in Locals /\ TaskIs(w, Idle) /\ Meant(w, Idle) /\ Known(w, Idle)
  BY Blank, IdleMeans DEF WakeInsert, TaskIs
<1>7. QED  BY <1>1, <1>4, <1>5, <1>6, TaskMoves DEF WakeInsert, IInv, Typed

-----------------------------------------------------------------------------
(* startNextQueuedRunForAgent and claimQueuedRun *)

\* A start chain goes on without claiming; no run is executed by this.
LEMMA StarterMoves ==
  ASSUME IInv, NEW x \in Slot, NEW s \in Starters, starter' = [starter EXCEPT ![x] = s],
         s.pc # "mark",
         s.pc \in {"check", "claim"} =>
            s.run \in Runs /\ runs[s.run].status # "none" /\ runs[s.run].agent = x[2],
         UNCHANGED <<rowVars, child, tracked, rowLock, booted, used>>,
         task' = task \/ \E r \in Runs, h \in Locals :
            TaskIs(<<"cancel", r>>, h) /\ Meant(<<"cancel", r>>, h) /\ Known(<<"cancel", r>>, h)
  PROVE  IInv'
<1>1. /\ starter' \in [Slot -> Starters] /\ starter'[x] = s
      /\ \A y \in Slot : y # x => starter'[y] = starter[y]
  BY DEF IInv, Typed
<1>2. /\ task' \in [Tasks -> Locals]
      /\ \A t \in Tasks : Meant(t, task'[t]) /\ Known(t, task'[t])
      /\ \A r \in Runs : task'[Exec(r)] = task[Exec(r)]
  <2>1. CASE task' = task  BY <2>1 DEF IInv, Typed, TasksOK, RunsKnown
  <2>2. ASSUME NEW r \in Runs, NEW h \in Locals, TaskIs(<<"cancel", r>>, h),
               Meant(<<"cancel", r>>, h), Known(<<"cancel", r>>, h)
        PROVE  /\ task' \in [Tasks -> Locals]
               /\ \A t \in Tasks : Meant(t, task'[t]) /\ Known(t, task'[t])
               /\ \A q \in Runs : task'[Exec(q)] = task[Exec(q)]
    <3>1. <<"cancel", r>> \in Tasks  BY TaskNames
    <3>2. /\ task' \in [Tasks -> Locals] /\ task'[<<"cancel", r>>] = h
          /\ \A u \in Tasks : u # <<"cancel", r>> => task'[u] = task[u]
      BY <2>2, <3>1, TaskIsFacts DEF IInv
    <3>3. \A t \in Tasks : Meant(t, task'[t]) /\ Known(t, task'[t])
      BY <2>2, <3>2 DEF IInv, TasksOK, RunsKnown
    <3>4. \A q \in Runs : Exec(q) \in Tasks /\ Exec(q) # <<"cancel", r>>  BY TaskNames DEF Exec
    <3>5. QED  BY <3>2, <3>3, <3>4
  <2>3. QED  BY <2>1, <2>2
<1>3. Typed'  BY <1>1, <1>2 DEF IInv, Typed, rowVars
<1>4. RowsOK'  BY DEF IInv, RowsOK, RowOK, rowVars
<1>5. TasksOK' /\ RunsKnown'
  <2>1. TasksOK'  BY <1>2 DEF TasksOK, Meant, KindOK
  <2>2. RunsKnown'  BY <1>2 DEF RunsKnown, Known, rowVars
  <2>3. QED  BY <2>1, <2>2
<1>6. StartersOK'
  <2> SUFFICES ASSUME NEW y \in Slot PROVE StarterOK(y)'  BY DEF StartersOK
  <2>1. CASE y = x  BY <1>1, <2>1 DEF StarterOK, rowVars
  <2>2. CASE y # x  BY <1>1, <2>2 DEF IInv, StartersOK, StarterOK, rowVars
  <2>3. QED  BY <2>1, <2>2
<1>7. \A y \in Slot, r \in Runs : Marks(y, r)' => Marks(y, r)  BY <1>1 DEF Marks
<1>8. MarkedOnce'  BY <1>7 DEF IInv, MarkedOnce
<1>9. LivesOK'
  <2> SUFFICES ASSUME NEW r \in Runs PROVE LifeOK(r)'  BY DEF LivesOK
  <2>1. Marked(r)' => Marked(r)  BY <1>7 DEF Marked
  <2>2. LifeOK(r)  BY DEF IInv, LivesOK
  <2>3. QED  BY <1>2, <2>1, <2>2 DEF LifeOK, rowVars
<1>10. QED  BY <1>3, <1>4, <1>5, <1>6, <1>8, <1>9 DEF IInv

LEMMA StartCountInv ==
  ASSUME IInv, NEW p \in Processes, NEW a \in Agents, StartCount(p, a) PROVE IInv'
<1> DEFINE x == <<p, a>>
           s == [starter[x] EXCEPT !.pc = "select"]
<1>1. x \in Slot  BY DEF Slot
<1>2. s \in Starters /\ s.pc = "select"  BY <1>1 DEF IInv, Typed, Starters
<1>3. starter' = [starter EXCEPT ![x] = s]  BY <1>1 DEF StartCount, IInv, Typed
<1> HIDE DEF s, x
<1>4. QED  BY <1>1, <1>2, <1>3, StarterMoves DEF StartCount, rowVars

LEMMA StartSelectInv ==
  ASSUME IInv, NEW p \in Processes, NEW a \in Agents, StartSelect(p, a) PROVE IInv'
<1> DEFINE x == <<p, a>>
<1>1. x \in Slot /\ x[2] = a  BY DEF Slot
<1>2. UNCHANGED <<rowVars, child, tracked, rowLock, booted, used>> /\ task' = task
  BY DEF StartSelect
<1>3. CASE starter' = [starter EXCEPT ![x] = NotStarting]
  <2>1. NotStarting \in Starters /\ NotStarting.pc = "idle"  BY Blank DEF NotStarting
  <2> HIDE DEF x
  <2>2. QED  BY <1>1, <1>2, <1>3, <2>1, StarterMoves
<1>4. ASSUME NEW r \in Runs, Oldest(InStatus(a, "queued"), r),
             starter' = [starter EXCEPT ![x] = [pc |-> "check", run |-> r]]
      PROVE  IInv'
  <2> DEFINE s == [pc |-> "check", run |-> r]
  <2>1. s \in Starters /\ s.pc = "check" /\ s.run = r  BY DEF Starters
  <2>2. runs[r].agent = a /\ runs[r].status = "queued"  BY <1>4 DEF Oldest, InStatus
  <2> HIDE DEF x, s
  <2>3. starter' = [starter EXCEPT ![x] = s]  BY <1>4 DEF s
  <2>4. QED  BY <1>1, <1>2, <2>1, <2>2, <2>3, StarterMoves
<1>5. QED  BY <1>3, <1>4 DEF StartSelect

LEMMA StartCheckInv ==
  ASSUME IInv, NEW p \in Processes, NEW a \in Agents, StartCheck(p, a) PROVE IInv'
<1> DEFINE x == <<p, a>>
           r == starter[x].run
           s == [starter[x] EXCEPT !.pc = "claim"]
           h == [Idle EXCEPT !.pc = "store", !.run = r, !.verdict = "cancelled"]
<1>1. x \in Slot /\ x[2] = a  BY DEF Slot
<1>2. r \in Runs /\ runs[r].status # "none" /\ runs[r].agent = a
  BY <1>1 DEF StartCheck, IInv, StartersOK, StarterOK
<1>3. s \in Starters /\ s.pc = "claim" /\ s.run = r  BY <1>1 DEF IInv, Typed, Starters
<1>4. /\ h \in Locals /\ h.pc = "store" /\ h.run = r /\ h.verdict = "cancelled" /\ h.left = {}
  <2>1. "store" \in PCs /\ "cancelled" \in Verdicts  BY DEF PCs, Verdicts, Terminal
  <2>2. QED  BY <1>2, <2>1, Blank DEF Locals
<1>5. UNCHANGED <<rowVars, child, tracked, rowLock, booted, used>>  BY DEF StartCheck
<1>6. CASE Invokable(a)
  <2>1. starter' = [starter EXCEPT ![x] = s] /\ task' = task
    BY <1>1, <1>6 DEF StartCheck, IInv, Typed
  <2> HIDE DEF x, s, r
  <2>2. QED  BY <1>1, <1>2, <1>3, <1>5, <2>1, StarterMoves
<1>7. CASE ~Invokable(a)
  <2>1. starter' = [starter EXCEPT ![x] = NotStarting]  BY <1>7 DEF StartCheck
  <2>2. task' = task \/ TaskIs(<<"cancel", r>>, h)  BY <1>7 DEF StartCheck, TaskIs
  <2>3. NotStarting \in Starters /\ NotStarting.pc = "idle"  BY Blank DEF NotStarting
  <2> HIDE DEF h, r, x
  <2>4. Meant(<<"cancel", r>>, h) /\ Known(<<"cancel", r>>, h)
    BY <1>2, <1>4 DEF Meant, KindOK, Known, Working, Closing, Launching, Terminal
  <2>5. QED  BY <1>1, <1>2, <1>4, <1>5, <2>1, <2>2, <2>3, <2>4, StarterMoves
<1>8. QED  BY <1>6, <1>7

\* A queued run is claimed by one start chain: no other has marked it, and it was not
\* executed before.
LEMMA StartClaimInv ==
  ASSUME IInv, NEW p \in Processes, NEW a \in Agents, StartClaim(p, a) PROVE IInv'
<1> DEFINE x == <<p, a>>
           r == starter[x].run
<1>1. x \in Slot /\ x[2] = a  BY DEF Slot
<1>2. r \in Runs /\ runs[r].status # "none" /\ runs[r].agent = a
  BY <1>1 DEF StartClaim, IInv, StartersOK, StarterOK
<1>3. UNCHANGED <<lock, deferred, agentStatus, child, tracked, task, rowLock, booted, used>>
  BY DEF StartClaim
<1>4. CASE runs[r].status # "queued"
  <2>1. starter' = [starter EXCEPT ![x] = NotStarting] /\ UNCHANGED runs  BY <1>4 DEF StartClaim
  <2>2. NotStarting \in Starters /\ NotStarting.pc = "idle"  BY Blank DEF NotStarting
  <2> HIDE DEF r, x
  <2>3. QED  BY <1>1, <1>3, <2>1, <2>2, StarterMoves DEF rowVars
<1>5. CASE runs[r].status = "queued"
  <2> DEFINE s == [starter[x] EXCEPT !.pc = "mark"]
  <2>1. /\ runs' = [runs EXCEPT ![r].status = "running"]
        /\ starter' = [starter EXCEPT ![x] = s]
    BY <1>1, <1>5 DEF StartClaim, IInv, Typed
  <2>2. s \in Starters /\ s.pc = "mark" /\ s.run = r  BY <1>1 DEF IInv, Typed, Starters
  <2> HIDE DEF r, x, s
  <2>3. "running" \in Statuses \ {"none", "queued"}  BY DEF Statuses
  <2>4. AllOnward /\ RowsOK' /\ \A q \in Runs : runs'[q].pid => runs[q].pid
    BY <1>2, <2>1, <2>3, StatusOnward
  <2>5. /\ runs' \in [Runs -> Rows] /\ runs'[r].status = "running" /\ runs'[r].agent = a
        /\ \A q \in Runs : q # r => runs'[q] = runs[q]
    BY <1>2, <2>1, <2>3, StatusFacts DEF IInv
  <2>6. /\ starter' \in [Slot -> Starters] /\ starter'[x] = s
        /\ \A y \in Slot : y # x => starter'[y] = starter[y]
    BY <1>1, <2>1, <2>2 DEF IInv, Typed
  <2>7. Typed'  BY <1>3, <2>5, <2>6 DEF IInv, Typed
  <2>8. TasksOK'  BY <1>3 DEF IInv, TasksOK, Meant, KindOK
  <2>9. RunsKnown'
    <3> SUFFICES ASSUME NEW t \in Tasks PROVE Known(t, task[t])'  BY DEF RunsKnown
    <3>2. Meant(t, task[t]) /\ Known(t, task[t]) /\ task[t] \in Locals  BY Here
    <3>3. \A h \in Locals : Meant(t, h) /\ Known(t, h) => Known(t, h)'  BY <2>4, KnownStays
    <3>4. QED  BY <1>3, <3>2, <3>3 DEF Known
  <2>10. StartersOK'
    <3> SUFFICES ASSUME NEW y \in Slot PROVE StarterOK(y)'  BY DEF StartersOK
    <3>1. CASE y = x  BY <1>1, <1>2, <2>2, <2>5, <2>6, <3>1 DEF StarterOK
    <3>2. CASE y # x  BY <2>4, <2>6, <3>2 DEF IInv, StartersOK, StarterOK, AllOnward, Onward
    <3>3. QED  BY <3>1, <3>2
  <2>11. ~Marked(r) /\ task[Exec(r)].pc = "idle" /\ child[r] = "none"
    BY <1>2, <1>5 DEF IInv, LivesOK, LifeOK
  <2>12. \A y \in Slot, q \in Runs : Marks(y, q)' => Marks(y, q) \/ (y = x /\ q = r)
    BY <2>2, <2>6 DEF Marks
  <2>13. MarkedOnce'  BY <2>11, <2>12 DEF IInv, MarkedOnce, Marked
  <2>14. LivesOK'
    <3> SUFFICES ASSUME NEW q \in Runs PROVE LifeOK(q)'  BY DEF LivesOK
    <3>1. LifeOK(q)  BY DEF IInv, LivesOK
    <3>2. CASE q = r
      <4>1. runs'[q].status = "running" /\ (runs'[q].pid => runs[q].pid)  BY <2>4, <2>5, <3>2
      <4>2. QED  BY <1>3, <2>11, <3>1, <3>2, <4>1 DEF LifeOK, Launching
    <3>3. CASE q # r
      <4>1. Marked(q)' => Marked(q)  BY <2>12, <3>3 DEF Marked
      <4>2. QED  BY <1>3, <2>5, <3>1, <3>3, <4>1 DEF LifeOK
    <3>4. QED  BY <3>2, <3>3
  <2>15. QED  BY <2>4, <2>7, <2>8, <2>9, <2>10, <2>13, <2>14 DEF IInv
<1>6. QED  BY <1>4, <1>5

\* executeRun begins for the run this chain has claimed, which was not executed before.
LEMMA StartSpawnInv ==
  ASSUME IInv, NEW p \in Processes, NEW a \in Agents, StartSpawn(p, a) PROVE IInv'
<1> DEFINE x == <<p, a>>
<1>1. x \in Slot /\ x[2] = a  BY DEF Slot
<1>2. PICK r \in Runs : r = starter[x].run /\ runs[r].status # "none" /\ runs[r].agent = a /\ Marks(x, r)
  BY <1>1 DEF StartSpawn, IInv, StartersOK, StarterOK, Marks
<1>3. /\ UNCHANGED <<lock, deferred, agentStatus, child, tracked, rowLock, booted, used>>
      /\ runs' = [runs EXCEPT ![r].wake = "claimed"]
      /\ starter' = [starter EXCEPT ![x] = NotStarting]
  BY <1>2 DEF StartSpawn
<1>4. PICK s \in Services : TaskIs(Exec(r), [Idle EXCEPT !.pc = "start", !.run = r, !.service = s])
  BY <1>2 DEF StartSpawn, TaskIs, Exec
<1> DEFINE h == [Idle EXCEPT !.pc = "start", !.run = r, !.service = s]
<1> HIDE DEF x
<1>5. /\ h \in Locals /\ h.pc = "start" /\ h.run = r /\ h.verdict = "none" /\ h.left = {}
  <2>1. "start" \in PCs /\ r \in Runs \cup {0} /\ s \in Services \cup {"none"}  BY <1>2 DEF PCs
  <2>2. QED  BY <2>1, Blank DEF Locals
<1>6. Exec(r) \in Tasks /\ Exec(r)[1] = "exec" /\ Exec(r)[2] = r  BY <1>2, TaskNames
<1> HIDE DEF h
<1>7. /\ task' \in [Tasks -> Locals] /\ task'[Exec(r)] = h
      /\ \A u \in Tasks : u # Exec(r) => task'[u] = task[u]
  BY <1>4, <1>5, <1>6, TaskIsFacts DEF IInv, h
<1>8. "claimed" \in WakeStatuses  BY DEF WakeStatuses
<1>9. AllOnward /\ RowsOK' /\ \A q \in Runs : runs'[q].pid => runs[q].pid
  BY <1>2, <1>3, <1>8, WakeOnward
<1>10. runs' \in [Runs -> Rows] /\ \A q \in Runs : runs'[q].status = runs[q].status
  BY <1>2, <1>3, <1>8, WakeFacts DEF IInv
<1>11. /\ starter' \in [Slot -> Starters] /\ starter'[x].pc = "idle"
       /\ \A y \in Slot : y # x => starter'[y] = starter[y]
  BY <1>1, <1>3, Blank DEF IInv, Typed, NotStarting
<1>12. Typed'  BY <1>3, <1>7, <1>10, <1>11 DEF IInv, Typed
<1>13. \A u \in Tasks : Meant(u, task'[u]) /\ Known(u, task'[u])
  <2>1. Meant(Exec(r), h)
    BY <1>2, <1>5, <1>6 DEF Meant, KindOK, Working, Closing, Launching
  <2>2. Known(Exec(r), h)  BY <1>2, <1>5, <1>6 DEF Known
  <2>3. QED  BY <1>7, <2>1, <2>2 DEF IInv, TasksOK, RunsKnown
<1>14. TasksOK'  BY <1>13 DEF TasksOK, Meant, KindOK
<1>15. RunsKnown'
  <2> SUFFICES ASSUME NEW u \in Tasks PROVE Known(u, task[u])'  BY DEF RunsKnown
  <2>1. \A h0 \in Locals : Meant(u, h0) /\ Known(u, h0) => Known(u, h0)'  BY <1>9, KnownStays
  <2>2. task'[u] \in Locals  BY <1>7
  <2>3. QED  BY <1>13, <2>1, <2>2 DEF Known
<1>16. StartersOK'
  <2> SUFFICES ASSUME NEW y \in Slot PROVE StarterOK(y)'  BY DEF StartersOK
  <2>1. CASE y = x  BY <1>11, <2>1 DEF StarterOK
  <2>2. CASE y # x  BY <1>9, <1>11, <2>2 DEF IInv, StartersOK, StarterOK, AllOnward, Onward
  <2>3. QED  BY <2>1, <2>2
<1>17. \A y \in Slot, q \in Runs : Marks(y, q)' => Marks(y, q) /\ y # x  BY <1>11 DEF Marks
<1>18. MarkedOnce'  BY <1>17 DEF IInv, MarkedOnce
<1>19. ~Marked(r)'  BY <1>1, <1>2, <1>17 DEF IInv, MarkedOnce, Marked
<1>20. LivesOK'
  <2> SUFFICES ASSUME NEW q \in Runs PROVE LifeOK(q)'  BY DEF LivesOK
  <2>1. LifeOK(q)  BY DEF IInv, LivesOK
  <2>2. CASE q = r
    <3>1. Marked(r)  BY <1>1, <1>2 DEF Marked
    <3>2. child'[q] = "none" /\ runs'[q].status \notin {"none", "queued"} /\ ~runs'[q].pid
      BY <1>3, <1>9, <1>10, <2>1, <2>2, <3>1 DEF LifeOK
    <3>3. task'[Exec(q)].pc = "start"  BY <1>5, <1>7, <2>2
    <3>4. QED  BY <1>19, <2>2, <3>2, <3>3 DEF LifeOK
  <2>3. CASE q # r
    <3>1. Exec(q) \in Tasks /\ Exec(q) # Exec(r)  BY <2>3, TaskNames DEF Exec
    <3>2. task'[Exec(q)] = task[Exec(q)]  BY <1>7, <3>1
    <3>3. Marked(q)' => Marked(q)  BY <1>17 DEF Marked
    <3>4. QED  BY <1>3, <1>9, <1>10, <2>1, <3>2, <3>3 DEF LifeOK
  <2>4. QED  BY <2>2, <2>3
<1>21. QED  BY <1>9, <1>12, <1>14, <1>15, <1>16, <1>18, <1>20 DEF IInv

-----------------------------------------------------------------------------
(* executeRun *)

\* An execution in progress goes on from one place to another.
LEMMA ExecMoves ==
  ASSUME ConstantsAssumption, IInv, NEW r \in Runs, task[Exec(r)].pc \notin {"idle", "child"},
         NEW p \in {"setup", "launch", "store"}, NEW v \in Verdicts,
         p \in Launching => task[Exec(r)].pc \in Launching /\ v = task[Exec(r)].verdict,
         p = "store" => v \in Terminal,
         TaskIs(Exec(r), [task[Exec(r)] EXCEPT !.pc = p, !.verdict = v]),
         UNCHANGED <<runs, lock, deferred, child, tracked, starter, rowLock, booted>>,
         agentStatus' \in [Agents -> AgentStatuses], used' \in Counters
  PROVE  IInv'
<1> DEFINE t == Exec(r)
           h == [task[t] EXCEPT !.pc = p, !.verdict = v]
<1>1. t \in Tasks /\ t[1] = "exec" /\ t[2] = r  BY TaskNames
<1>2. task[t] \in Locals /\ Meant(t, task[t]) /\ Known(t, task[t])  BY <1>1, Here
<1>3. /\ h \in Locals /\ h.pc = p /\ h.verdict = v /\ h.run = task[t].run /\ h.left = task[t].left
  <2>1. p \in PCs  BY DEF PCs
  <2>2. QED  BY <1>2, <2>1 DEF Locals
<1>4. task[t].pc \in Working  BY <1>1, <1>2 DEF Meant, KindOK
<1> HIDE DEF h
<1>5. Meant(t, h)
  <2>1. v # "retrying"  BY <1>1, <1>2 DEF Meant, Terminal, Launching
  <2>2. KindOK(t, h)  BY <1>1, <1>3 DEF KindOK, Working, Launching, Closing
  <2>3. h.run = r /\ h.run \in Runs  BY <1>1, <1>2, <1>3, <1>4 DEF Meant
  <2>4. QED  BY <1>1, <1>3, <2>1, <2>2, <2>3 DEF Meant, Closing
<1>6. Known(t, h)  BY <1>1, <1>2, <1>3, <1>4 DEF Known
<1>7. h.pc # "child" /\ (h.pc \in Launching => task[t].pc \in Launching)  BY <1>3
<1>8. TaskIs(t, h)  BY DEF h
<1>9. tracked' \in [Runs -> BOOLEAN] /\ rowLock' \subseteq Issues /\ booted' \in BOOLEAN
  BY DEF IInv, Typed
<1> HIDE DEF t
<1>10. task[t].pc \notin {"idle", "child"}  BY DEF t
<1>11. QED  BY <1>1, <1>3, <1>5, <1>6, <1>7, <1>8, <1>9, <1>10, TaskOnly

LEMMA ExecBeginInv ==
  ASSUME ConstantsAssumption, IInv, NEW r \in Runs, ExecBegin(r) PROVE IInv'
<1> DEFINE t == Exec(r)
<1>1. t \in Tasks /\ t[1] = "exec"  BY TaskNames
<1>2. task[t] \in Locals /\ task[t].pc = "start"  BY <1>1, Here DEF ExecBegin, At
<1>3. CASE Active(r)
  <2>1. TaskIs(t, [task[t] EXCEPT !.pc = "setup", !.verdict = task[t].verdict])
    BY <1>1, <1>2, <1>3 DEF ExecBegin, TaskIs, IInv, Typed, Locals
  <2>2. task[t].verdict \in Verdicts  BY <1>2 DEF Locals
  <2>3. agentStatus' \in [Agents -> AgentStatuses] /\ used' \in Counters
    BY DEF ExecBegin, rowVars, IInv, Typed
  <2>4. QED  BY <1>2, <2>1, <2>2, <2>3, ExecMoves DEF ExecBegin, rowVars, Launching
<1>4. CASE ~Active(r)
  <2>1. TaskIs(t, Idle)  BY <1>4 DEF ExecBegin, TaskIs
  <2>2. Idle \in Locals /\ Idle.pc = "idle" /\ Meant(t, Idle) /\ Known(t, Idle)
    BY <1>1, Blank, IdleMeans
  <2> HIDE DEF t
  <2>3. QED  BY <1>1, <1>2, <2>1, <2>2, TaskOnly DEF ExecBegin, rowVars, IInv, Typed, Launching
<1>5. QED  BY <1>3, <1>4

LEMMA ExecSetupInv ==
  ASSUME ConstantsAssumption, IInv, NEW r \in Runs, ExecSetup(r) PROVE IInv'
<1> DEFINE t == Exec(r)
<1>1. t \in Tasks /\ t[1] = "exec"  BY TaskNames
<1>2. task[t] \in Locals /\ task[t].pc = "setup"  BY <1>1, Here DEF ExecSetup, At
<1>3. TaskIs(t, [task[t] EXCEPT !.pc = "launch", !.verdict = task[t].verdict])
  BY <1>1, <1>2 DEF ExecSetup, Go, TaskIs, IInv, Typed, Locals
<1>4. task[t].verdict \in Verdicts  BY <1>2 DEF Locals
<1>5. agentStatus' \in [Agents -> AgentStatuses] /\ used' \in Counters
  BY DEF ExecSetup, AgentStatuses, IInv, Typed
<1>6. QED  BY <1>2, <1>3, <1>4, <1>5, ExecMoves DEF ExecSetup, Launching

LEMMA ExecDecideInv ==
  ASSUME ConstantsAssumption, IInv, NEW r \in Runs, ExecDecide(r) PROVE IInv'
<1> DEFINE t == Exec(r)
<1>1. t \in Tasks /\ t[1] = "exec"  BY TaskNames
<1>2. task[t] \in Locals /\ task[t].pc = "decide"  BY <1>1, Here DEF ExecDecide, At
<1>3. PICK v \in Terminal : task' = [task EXCEPT ![t].pc = "store", ![t].verdict = v]
  BY DEF ExecDecide, ConstantsAssumption, Terminal
<1>4. TaskIs(t, [task[t] EXCEPT !.pc = "store", !.verdict = v])
  BY <1>1, <1>2, <1>3 DEF TaskIs, IInv, Typed
<1>5. v \in Verdicts  BY DEF Verdicts
<1>6. agentStatus' \in [Agents -> AgentStatuses] /\ used' \in Counters
  BY DEF ExecDecide, rowVars, IInv, Typed
<1>7. QED  BY <1>2, <1>4, <1>5, <1>6, ExecMoves DEF ExecDecide, rowVars, Launching

LEMMA ExecThrowsInv ==
  ASSUME ConstantsAssumption, IInv, NEW r \in Runs, ExecThrows(r) PROVE IInv'
<1> DEFINE t == Exec(r)
<1>1. t \in Tasks /\ t[1] = "exec"  BY TaskNames
<1>2. task[t] \in Locals /\ task[t].pc \notin {"idle", "child"}  BY <1>1, Here DEF ExecThrows
<1>3. TaskIs(t, [task[t] EXCEPT !.pc = "store", !.verdict = "failed"])
  BY <1>1, <1>2 DEF ExecThrows, TaskIs, IInv, Typed
<1>4. "failed" \in Verdicts /\ "failed" \in Terminal  BY DEF Verdicts, Terminal
<1>5. used' \in Counters  BY CountFacts DEF ExecThrows, IInv
<1>6. agentStatus' \in [Agents -> AgentStatuses]  BY DEF ExecThrows, rowVars, IInv, Typed
<1>7. QED  BY <1>2, <1>3, <1>4, <1>5, <1>6, ExecMoves DEF ExecThrows, rowVars, Launching

\* The child of a run starts and ends, with the execution that waits for it.
LEMMA ChildMoves ==
  ASSUME IInv, NEW r \in Runs, UNCHANGED <<rowVars, starter, rowLock, booted, used>>,
         child' \in [Runs -> {"none", "alive", "dead"}], tracked' \in [Runs -> BOOLEAN],
         \A q \in Runs : q # r => child'[q] = child[q],
         task' = task \/ \E p \in PCs : Go(Exec(r), p) /\ p \in Working /\ task[Exec(r)].pc \in Working
                                        /\ p \notin Closing /\ p \notin Launching,
         LifeOK(r)'
  PROVE  IInv'
<1>1. Exec(r) \in Tasks /\ Exec(r)[1] = "exec" /\ Exec(r)[2] = r  BY TaskNames
<1>2. /\ task' \in [Tasks -> Locals]
      /\ \A u \in Tasks : Meant(u, task'[u]) /\ Known(u, task'[u])
      /\ \A q \in Runs : q # r => task'[Exec(q)] = task[Exec(q)]
  <2>1. CASE task' = task  BY <2>1 DEF IInv, Typed, TasksOK, RunsKnown
  <2>2. ASSUME NEW p \in PCs, Go(Exec(r), p), p \in Working, task[Exec(r)].pc \in Working,
               p \notin Closing, p \notin Launching
        PROVE  /\ task' \in [Tasks -> Locals]
               /\ \A u \in Tasks : Meant(u, task'[u]) /\ Known(u, task'[u])
               /\ \A q \in Runs : q # r => task'[Exec(q)] = task[Exec(q)]
    <3> DEFINE h == [task[Exec(r)] EXCEPT !.pc = p]
    <3>1. TaskIs(Exec(r), h) /\ h \in Locals /\ h.pc = p  BY <1>1, <2>2, GoFacts DEF IInv
    <3>2. /\ h.run = task[Exec(r)].run /\ h.left = task[Exec(r)].left
          /\ h.verdict = task[Exec(r)].verdict
      BY <1>1, Here DEF Locals
    <3> HIDE DEF h
    <3>3. /\ task' \in [Tasks -> Locals] /\ task'[Exec(r)] = h
          /\ \A u \in Tasks : u # Exec(r) => task'[u] = task[u]
      BY <1>1, <3>1, TaskIsFacts DEF IInv
    <3>4. Meant(Exec(r), task[Exec(r)]) /\ Known(Exec(r), task[Exec(r)])  BY <1>1, Here
    <3>5. p \in {"child", "decide"}  BY <2>2 DEF Working
    <3>6. Meant(Exec(r), h)
      BY <1>1, <2>2, <3>1, <3>2, <3>4, <3>5 DEF Meant, KindOK, Working, Closing, Launching
    <3>7. Known(Exec(r), h)  BY <1>1, <2>2, <3>1, <3>2, <3>4 DEF Known
    <3>8. \A q \in Runs : q # r => Exec(q) \in Tasks /\ Exec(q) # Exec(r)  BY TaskNames DEF Exec
    <3>9. QED  BY <3>3, <3>6, <3>7, <3>8 DEF IInv, TasksOK, RunsKnown
  <2>3. QED  BY <2>1, <2>2
<1>3. Typed'  BY <1>2 DEF IInv, Typed, rowVars
<1>4. RowsOK' /\ StartersOK' /\ MarkedOnce'
  BY DEF IInv, RowsOK, RowOK, StartersOK, StarterOK, MarkedOnce, Marks, rowVars
<1>5. TasksOK'  BY <1>2 DEF TasksOK, Meant, KindOK
<1>6. RunsKnown'  BY <1>2 DEF RunsKnown, Known, rowVars
<1>7. LivesOK'
  <2> SUFFICES ASSUME NEW q \in Runs, q # r PROVE LifeOK(q)'  BY DEF LivesOK
  <2>1. LifeOK(q)  BY DEF IInv, LivesOK
  <2>2. Marked(q)' <=> Marked(q)  BY DEF Marked, Marks
  <2>3. QED  BY <1>2, <2>1, <2>2 DEF LifeOK, rowVars
<1>8. QED  BY <1>3, <1>4, <1>5, <1>6, <1>7 DEF IInv

LEMMA ExecLaunchInv ==
  ASSUME ConstantsAssumption, IInv, NEW r \in Runs, ExecLaunch(r) PROVE IInv'
<1>1. Exec(r) \in Tasks /\ task[Exec(r)].pc = "launch" /\ LifeOK(r)
  BY TaskNames DEF ExecLaunch, At, IInv, LivesOK
<1>2. /\ child' \in [Runs -> {"none", "alive", "dead"}] /\ child'[r] = "alive"
      /\ tracked' \in [Runs -> BOOLEAN] /\ \A q \in Runs : q # r => child'[q] = child[q]
  BY DEF ExecLaunch, IInv, Typed
<1>3. "child" \in PCs /\ "child" \in Working /\ "child" \notin Closing /\ "child" \notin Launching
      /\ "launch" \in Working
  BY DEF PCs, Working, Closing, Launching
<1>4. task'[Exec(r)].pc = "child"
  BY <1>1, <1>3, GoPlace DEF ExecLaunch, IInv
<1>5. UNCHANGED <<rowVars, starter, rowLock, booted, used>> /\ Go(Exec(r), "child")  BY DEF ExecLaunch
<1>6. LifeOK(r)'
  <2>1. Marked(r)' <=> Marked(r)  BY <1>5 DEF Marked, Marks
  <2>2. QED  BY <1>1, <1>2, <1>4, <1>5, <2>1 DEF LifeOK, Launching, rowVars
<1>7. QED  BY <1>1, <1>2, <1>3, <1>5, <1>6, ChildMoves

LEMMA ChildExitsInv ==
  ASSUME ConstantsAssumption, IInv, NEW r \in Runs, ChildExits(r) PROVE IInv'
<1>1. Exec(r) \in Tasks /\ LifeOK(r) /\ child[r] = "alive"
  BY TaskNames DEF ChildExits, IInv, LivesOK
<1>2. /\ child' \in [Runs -> {"none", "alive", "dead"}] /\ child'[r] = "dead"
      /\ tracked' \in [Runs -> BOOLEAN] /\ \A q \in Runs : q # r => child'[q] = child[q]
  BY DEF ChildExits, IInv, Typed
<1>3. "decide" \in PCs /\ "decide" \in Working /\ "decide" \notin Closing /\ "decide" \notin Launching
      /\ "child" \in Working
  BY DEF PCs, Working, Closing, Launching
<1>4. \/ task' = task /\ task[Exec(r)].pc # "child"
      \/ Go(Exec(r), "decide") /\ task[Exec(r)].pc = "child"
  BY DEF ChildExits, At, Go
<1>5. task'[Exec(r)].pc \in {"idle", "decide"}
  <2>1. task[Exec(r)].pc \in {"idle", "child"}  BY <1>1 DEF LifeOK
  <2>2. QED  BY <1>1, <1>3, <1>4, <2>1, GoPlace DEF IInv
<1>6. UNCHANGED <<rowVars, starter, rowLock, booted, used>>  BY DEF ChildExits
<1>7. LifeOK(r)'
  <2>1. Marked(r)' <=> Marked(r)  BY <1>6 DEF Marked, Marks
  <2>2. QED  BY <1>1, <1>2, <1>5, <1>6, <2>1 DEF LifeOK, Launching, rowVars
<1>8. QED  BY <1>2, <1>3, <1>4, <1>6, <1>7, ChildMoves

LEMMA RecordPidInv ==
  ASSUME ConstantsAssumption, IInv, NEW r \in Runs, RecordPid(r) PROVE IInv'
<1>1. Exec(r) \in Tasks /\ LifeOK(r) /\ task[Exec(r)].pc = "child"
  BY TaskNames DEF RecordPid, At, IInv, LivesOK
<1>2. UNCHANGED <<lock, deferred, agentStatus, child, tracked, task, starter, rowLock, booted, used>>
  BY DEF RecordPid, memory
<1>3. /\ runs' \in [Runs -> Rows] /\ \A q \in Runs : q # r => runs'[q] = runs[q]
      /\ runs'[r].status = runs[r].status /\ runs'[r].agent = runs[r].agent
      /\ runs'[r].issue = runs[r].issue /\ runs'[r].retryOf = runs[r].retryOf
      /\ runs'[r].pid = TRUE
  <2>1. runs[r] \in Rows /\ runs' = [runs EXCEPT ![r] = [runs[r] EXCEPT !.pid = TRUE]]
    BY DEF RecordPid, IInv, Typed
  <2> DEFINE row == [runs[r] EXCEPT !.pid = TRUE]
  <2>2. /\ row \in Rows /\ row.status = runs[r].status /\ row.agent = runs[r].agent
        /\ row.issue = runs[r].issue /\ row.retryOf = runs[r].retryOf /\ row.pid = TRUE
    BY <2>1 DEF Rows
  <2> HIDE DEF row
  <2>3. runs' = [runs EXCEPT ![r] = row]  BY <2>1 DEF row
  <2>4. QED  BY <2>2, <2>3 DEF IInv, Typed
<1>4. AllOnward /\ RowsOK'
  <2>1. AllOnward
    <3> SUFFICES ASSUME NEW q \in Runs PROVE Onward(q)  BY DEF AllOnward
    <3>1. CASE q = r  BY <1>3, <3>1 DEF Onward
    <3>2. CASE q # r  BY <1>3, <3>2 DEF Onward
    <3>3. QED  BY <3>1, <3>2
  <2>2. RowsOK'  BY <1>3 DEF IInv, RowsOK, RowOK
  <2>3. QED  BY <2>1, <2>2
<1>5. Typed'  BY <1>2, <1>3 DEF IInv, Typed
<1>6. TasksOK' /\ MarkedOnce'  BY <1>2 DEF IInv, TasksOK, Meant, KindOK, MarkedOnce, Marks
<1>7. RunsKnown'
  <2> SUFFICES ASSUME NEW t \in Tasks PROVE Known(t, task[t])'  BY DEF RunsKnown
  <2>1. Meant(t, task[t]) /\ Known(t, task[t]) /\ task[t] \in Locals  BY Here
  <2>2. \A h \in Locals : Meant(t, h) /\ Known(t, h) => Known(t, h)'  BY <1>4, KnownStays
  <2>3. QED  BY <1>2, <2>1, <2>2 DEF Known
<1>8. StartersOK'  BY <1>2, <1>4 DEF IInv, StartersOK, StarterOK, AllOnward, Onward
<1>9. LivesOK'
  <2> SUFFICES ASSUME NEW q \in Runs PROVE LifeOK(q)'  BY DEF LivesOK
  <2>1. LifeOK(q)  BY DEF IInv, LivesOK
  <2>2. Marked(q)' <=> Marked(q)  BY <1>2 DEF Marked, Marks
  <2>3. CASE q = r  BY <1>1, <1>2, <1>3, <2>2, <2>3 DEF LifeOK
  <2>4. CASE q # r  BY <1>2, <1>3, <2>1, <2>2, <2>4 DEF LifeOK
  <2>5. QED  BY <2>3, <2>4
<1>10. QED  BY <1>4, <1>5, <1>6, <1>7, <1>8, <1>9 DEF IInv

-----------------------------------------------------------------------------
(* What executeRun, the cancellations and the reaper share *)

\* What is known of a task that closes a run.
LEMMA Closes ==
  ASSUME IInv, NEW t \in Tasks, task[t].pc \in Closing
  PROVE  /\ t[1] # "wake" /\ task[t].run \in Runs /\ runs[task[t].run].status # "none"
         /\ t[1] = "reap" => runs[task[t].run].status # "queued"
         /\ task[t].pc = "retry" => t[1] = "reap"
         /\ task[t].pc \in {"finalRead", "finalWrite", "retry"} => t[1] # "board"
         /\ task[t].pc # "finalWrite" => task[t].verdict \in Terminal \cup {"retrying"}
<1>1. Meant(t, task[t]) /\ Known(t, task[t])  BY Here
<1>2. t[1] \in {"exec", "cancel", "wake", "board", "reap"}  BY TaskNames
<1>3. task[t].pc \in Working /\ task[t].run \in Runs  BY <1>1 DEF Working, Meant
<1>4. QED  BY <1>1, <1>2, <1>3 DEF Meant, KindOK, Known, Working, Closing, Launching

\* A closing task moves on with its run.
LEMMA Closed ==
  ASSUME IInv, NEW t \in Tasks, task[t].pc \in Closing, NEW h \in Locals,
         h.run = task[t].run, h.left = task[t].left,
         h.pc \in {"wake", "release", "retry", "finalRead"}, h.verdict = task[t].verdict,
         task[t].pc # "finalWrite",
         h.pc = "retry" => t[1] = "reap", h.pc = "finalRead" => t[1] # "board"
  PROVE  Meant(t, h) /\ Known(t, h)
<1>1. Meant(t, task[t]) /\ Known(t, task[t])  BY Here
<1>2. /\ t[1] # "wake" /\ h.run \in Runs
      /\ h.verdict \in Terminal \cup {"retrying"}
  BY Closes
<1>3. t[1] \in {"exec", "cancel", "board", "reap"}  BY <1>2, TaskNames
<1>4. KindOK(t, h)  BY <1>2, <1>3 DEF KindOK, Working, Closing, Launching
<1>5. t[1] \in {"exec", "cancel"} => h.run = t[2]  BY <1>1 DEF Meant, Closing
<1>6. t[1] \in {"cancel", "board"} => h.verdict = "cancelled"
  <2>1. t[1] = "board" => task[t].pc \in {"store", "wake", "release"}
    BY <1>1 DEF Meant, KindOK, Closing
  <2>2. t[1] = "cancel" => task[t].pc \in {"store", "wake", "release", "finalRead"}
    BY <1>1 DEF Meant, KindOK, Closing
  <2>3. QED  BY <1>1, <2>1, <2>2 DEF Meant
<1>7. h.verdict = "retrying" => t[1] = "reap"  BY <1>1 DEF Meant
<1>8. h.pc \notin {"idle", "store", "finalWrite", "write", "list", "lockIssue", "commit", "scan", "insert"}
  OBVIOUS
<1>9. Meant(t, h)  BY <1>2, <1>4, <1>5, <1>6, <1>7, <1>8 DEF Meant
<1>10. task[t].pc \in Working  BY DEF Working
<1>11. Known(t, h)  BY <1>1, <1>10 DEF Known
<1>12. QED  BY <1>9, <1>11

\* A closing task moves on, whatever its kind.
LEMMA ClosingMoves ==
  ASSUME IInv, NEW t \in Tasks, task[t].pc \in Closing, NEW h \in Locals,
         h.pc \in {"idle", "next"} \cup Closing
  PROVE  t[1] = "exec" => /\ task[t].pc \notin {"idle", "child"} /\ h.pc # "child"
                          /\ h.pc \in Launching => task[t].pc \in Launching
BY DEF Closing, Launching

LEMMA StoreInv ==
  ASSUME ConstantsAssumption, IInv, NEW t \in Tasks, Store(t) PROVE IInv'
<1> DEFINE h == [task[t] EXCEPT !.pc = "wake"]
           r == task[t].run
           s == StatusOf(task[t].verdict)
<1>1. task[t].pc = "store" /\ task[t].pc \in Closing  BY DEF Store, At, Closing
<1>2. /\ r \in Runs /\ runs[r].status # "none" /\ task[t].verdict \in Terminal \cup {"retrying"}
  BY <1>1, Closes
<1>3. s \in Terminal  BY <1>2 DEF StatusOf, Terminal
<1>4. "wake" \in PCs  BY DEF PCs
<1>5. TaskIs(t, h) /\ h \in Locals /\ h.pc = "wake"  BY <1>4, GoFacts DEF Store, IInv
<1>6. h.run = r /\ h.left = task[t].left /\ h.verdict = task[t].verdict  BY Here DEF Locals
<1> HIDE DEF h
<1>7. Meant(t, h) /\ Known(t, h)  BY <1>1, <1>5, <1>6, Closed
<1>8. s \in Statuses \ {"none", "queued"} /\ runs' = [runs EXCEPT ![r].status = s]
  BY <1>3 DEF Store, Statuses, Terminal
<1> HIDE DEF s, r
<1>9. runs' \in [Runs -> Rows]  BY <1>2, <1>8, StatusFacts DEF IInv
<1>10. AllOnward /\ RowsOK' /\ \A q \in Runs : runs'[q].pid => runs[q].pid
  BY <1>2, <1>8, StatusOnward
<1>11. h.pc \in {"idle", "next"} \cup Closing  BY <1>5 DEF Closing
<1>12. t[1] = "exec" => /\ task[t].pc \notin {"idle", "child"} /\ h.pc # "child"
                        /\ h.pc \in Launching => task[t].pc \in Launching
  BY <1>1, <1>5, <1>11, ClosingMoves
<1>13. QED  BY <1>5, <1>7, <1>9, <1>10, <1>12, TaskMoves DEF Store, IInv, Typed

LEMMA SetWakeInv ==
  ASSUME ConstantsAssumption, IInv, NEW t \in Tasks, SetWake(t) PROVE IInv'
<1> DEFINE p == IF task[t].verdict = "retrying" THEN "retry" ELSE "release"
           h == [task[t] EXCEPT !.pc = p]
           r == task[t].run
           v == StatusOf(task[t].verdict)
           s == IF v = "succeeded" THEN "completed" ELSE v
<1>1. task[t].pc = "wake" /\ task[t].pc \in Closing  BY DEF SetWake, At, Closing
<1>2. /\ r \in Runs /\ runs[r].status # "none" /\ task[t].verdict \in Terminal \cup {"retrying"}
  BY <1>1, Closes
<1>3. s \in WakeStatuses /\ runs' = [runs EXCEPT ![r].wake = s]
  BY <1>2 DEF SetWake, StatusOf, Terminal, WakeStatuses
<1>4. p \in PCs /\ Go(t, p)  BY DEF PCs, SetWake
<1>5. TaskIs(t, h) /\ h \in Locals /\ h.pc = p  BY <1>4, GoFacts DEF IInv
<1>6. h.run = r /\ h.left = task[t].left /\ h.verdict = task[t].verdict  BY Here DEF Locals
<1>7. p \in {"release", "retry"} /\ (p = "retry" => task[t].verdict = "retrying")  OBVIOUS
<1> HIDE DEF h, p
<1>8. p = "retry" => t[1] = "reap"  BY <1>7, Here DEF Meant
<1>9. Meant(t, h) /\ Known(t, h)  BY <1>1, <1>5, <1>6, <1>7, <1>8, Closed
<1> HIDE DEF s, r
<1>10. runs' \in [Runs -> Rows]  BY <1>2, <1>3, WakeFacts DEF IInv
<1>11. AllOnward /\ RowsOK' /\ \A q \in Runs : runs'[q].pid => runs[q].pid
  BY <1>2, <1>3, WakeOnward
<1>12. h.pc \in {"idle", "next"} \cup Closing  BY <1>5, <1>7 DEF Closing
<1>13. t[1] = "exec" => /\ task[t].pc \notin {"idle", "child"} /\ h.pc # "child"
                        /\ h.pc \in Launching => task[t].pc \in Launching
  BY <1>1, <1>5, <1>12, ClosingMoves
<1>14. QED  BY <1>5, <1>9, <1>10, <1>11, <1>13, TaskMoves DEF SetWake, IInv, Typed

\* The step of a task from "release": what it has in hand afterwards.
LEMMA ReleaseFacts ==
  ASSUME IInv, NEW t \in Tasks, At(t, "release"), Go(t, AfterRelease(t)), Untrack(t)
  PROVE  \E h \in Locals : /\ TaskIs(t, h) /\ Meant(t, h) /\ Known(t, h)
                           /\ t[1] = "exec" => /\ task[t].pc \notin {"idle", "child"} /\ h.pc # "child"
                                               /\ h.pc \in Launching => task[t].pc \in Launching
                           /\ tracked' \in [Runs -> BOOLEAN]
                           /\ task[t].run \in Runs /\ runs[task[t].run].status # "none"
<1> DEFINE p == AfterRelease(t)
           h == [task[t] EXCEPT !.pc = p]
<1>1. task[t].pc = "release" /\ task[t].pc \in Closing  BY DEF At, Closing
<1>2. p \in PCs /\ p \in {"next", "finalRead"} /\ (p = "next" <=> t[1] = "board")
  BY DEF AfterRelease, PCs
<1>3. TaskIs(t, h) /\ h \in Locals /\ h.pc = p  BY <1>2, GoFacts DEF IInv
<1>4. h.run = task[t].run /\ h.left = task[t].left /\ h.verdict = task[t].verdict
  BY Here DEF Locals
<1> HIDE DEF h, p
<1>5. Meant(t, h) /\ Known(t, h)
  <2>1. CASE p = "finalRead"  BY <1>1, <1>2, <1>3, <1>4, <2>1, Closed
  <2>2. CASE p = "next"
    <3>1. t[1] = "board" /\ h.pc = "next" /\ Meant(t, task[t]) /\ Known(t, task[t])
      BY <1>2, <1>3, <2>2, Here
    <3>2. Meant(t, h)  BY <1>4, <3>1 DEF Meant, KindOK, Working, Closing, Launching
    <3>3. Known(t, h)  BY <1>4, <3>1 DEF Known, Working, Closing, Launching
    <3>4. QED  BY <3>2, <3>3
  <2>3. QED  BY <1>2, <2>1, <2>2
<1>6. h.pc \in {"idle", "next"} \cup Closing  BY <1>2, <1>3 DEF Closing
<1>7. t[1] = "exec" => /\ task[t].pc \notin {"idle", "child"} /\ h.pc # "child"
                       /\ h.pc \in Launching => task[t].pc \in Launching
  BY <1>1, <1>3, <1>6, ClosingMoves
<1>8. tracked' \in [Runs -> BOOLEAN]  BY DEF Untrack, IInv, Typed
<1>9. QED  BY <1>1, <1>3, <1>5, <1>7, <1>8, Closes

LEMMA ReleaseNothingInv ==
  ASSUME ConstantsAssumption, IInv, NEW t \in Tasks, ReleaseNothing(t) PROVE IInv'
<1>1. PICK h \in Locals :
        /\ TaskIs(t, h) /\ Meant(t, h) /\ Known(t, h)
        /\ t[1] = "exec" => /\ task[t].pc \notin {"idle", "child"} /\ h.pc # "child"
                            /\ h.pc \in Launching => task[t].pc \in Launching
        /\ tracked' \in [Runs -> BOOLEAN]
  BY ReleaseFacts DEF ReleaseNothing
<1>2. QED  BY <1>1, TaskOnly DEF ReleaseNothing, rowVars, IInv, Typed

\* What follows an element of a sequence.
LEMMA RestOf ==
  ASSUME NEW S, NEW q \in Seq(S), NEW k \in DOMAIN q
  PROVE  SubSeq(q, k + 1, Len(q)) \in Seq(S)
<1>1. Len(q) \in Nat /\ DOMAIN q = 1 .. Len(q) /\ \A j \in 1 .. Len(q) : q[j] \in S  OBVIOUS
<1>2. k + 1 \in Int /\ Len(q) \in Int /\ \A j \in k + 1 .. Len(q) : q[j] \in S  BY <1>1
<1>3. QED  BY <1>2, SubSeqProperties

LEMMA ReleaseAndPromoteInv ==
  ASSUME ConstantsAssumption, IInv, NEW t \in Tasks, NEW i \in Issues, ReleaseAndPromote(t, i)
  PROVE  IInv'
<1>1. PICK h \in Locals :
        /\ TaskIs(t, h) /\ Meant(t, h) /\ Known(t, h)
        /\ t[1] = "exec" => /\ task[t].pc \notin {"idle", "child"} /\ h.pc # "child"
                            /\ h.pc \in Launching => task[t].pc \in Launching
        /\ tracked' \in [Runs -> BOOLEAN]
  BY ReleaseFacts DEF ReleaseAndPromote
<1>2. UNCHANGED <<agentStatus, child, starter, rowLock, booted, used>>  BY DEF ReleaseAndPromote
<1>3. deferred[i] \in Seq(Agents)  BY DEF IInv, Typed
<1>4. ASSUME NEW k \in DOMAIN deferred[i], NEW r \in Runs, NewRun(r),
             runs' = [runs EXCEPT ![r] = QueuedRun(deferred[i][k], i, 0)],
             lock' = [lock EXCEPT ![i] = r],
             deferred' = [deferred EXCEPT ![i] = SubSeq(@, k + 1, Len(@))]
      PROVE  IInv'
  <2>1. deferred[i][k] \in Agents  BY <1>3, <1>4
  <2>2. runs' \in [Runs -> Rows]  BY <1>4, <2>1, InsertFacts DEF IInv
  <2>3. AllOnward /\ RowsOK' /\ \A q \in Runs : runs'[q].pid => runs[q].pid
    BY <1>4, <2>1, InsertOnward
  <2>4. lock' \in [Issues -> Runs \cup {0}]  BY <1>4 DEF IInv, Typed
  <2>5. deferred' \in [Issues -> Seq(Agents)]
    <3>1. SubSeq(deferred[i], k + 1, Len(deferred[i])) \in Seq(Agents)
      BY <1>3, <1>4, RestOf
    <3>2. QED  BY <1>4, <3>1 DEF IInv, Typed
  <2>6. QED  BY <1>1, <1>2, <2>2, <2>3, <2>4, <2>5, TaskMoves DEF IInv, Typed
<1>5. CASE lock' = [lock EXCEPT ![i] = 0] /\ deferred' = [deferred EXCEPT ![i] = <<>>] /\ UNCHANGED runs
  <2>1. runs' \in [Runs -> Rows] /\ AllOnward /\ RowsOK'
    BY <1>5 DEF IInv, Typed, AllOnward, Onward, RowsOK, RowOK
  <2>2. <<>> \in Seq(Agents)  OBVIOUS
  <2>3. lock' \in [Issues -> Runs \cup {0}] /\ deferred' \in [Issues -> Seq(Agents)]
    BY <1>5, <2>2 DEF IInv, Typed
  <2>4. QED  BY <1>1, <1>2, <1>5, <2>1, <2>3, TaskMoves DEF IInv, Typed
<1>6. QED  BY <1>4, <1>5 DEF ReleaseAndPromote

\* What a task is left with when it has finalized the agent.
LEMMA AfterFinalizeFacts ==
  ASSUME IInv, NEW t \in Tasks, task[t].pc \in {"finalRead", "finalWrite"}
  PROVE  /\ AfterFinalize(t, task[t]) \in Locals
         /\ AfterFinalize(t, task[t]).pc \in {"idle", "next"}
         /\ Meant(t, AfterFinalize(t, task[t])) /\ Known(t, AfterFinalize(t, task[t]))
<1>1. CASE t[1] # "reap"
  <2>1. AfterFinalize(t, task[t]) = Idle  BY <1>1 DEF AfterFinalize
  <2>2. QED  BY <2>1, Blank, IdleMeans
<1>2. CASE t[1] = "reap"
  <2> DEFINE h == [task[t] EXCEPT !.pc = "next", !.run = 0, !.verdict = "none"]
  <2>1. AfterFinalize(t, task[t]) = h  BY <1>2 DEF AfterFinalize
  <2>2. h \in Locals /\ h.pc = "next" /\ h.verdict = "none" /\ h.left = task[t].left
    <3>1. "next" \in PCs /\ "none" \in Verdicts /\ 0 \in Runs \cup {0}  BY DEF PCs, Verdicts
    <3>2. QED  BY <3>1, Here DEF Locals
  <2> HIDE DEF h
  <2>3. Known(t, h)
    <3>1. Known(t, task[t])  BY Here
    <3>2. QED  BY <2>2, <3>1 DEF Known, Working, Closing, Launching
  <2>4. Meant(t, h)  BY <1>2, <2>2 DEF Meant, KindOK, Working, Closing, Launching
  <2>5. QED  BY <2>1, <2>2, <2>3, <2>4
<1>3. QED  BY <1>1, <1>2

LEMMA FinalizeReadInv ==
  ASSUME ConstantsAssumption, IInv, NEW t \in Tasks, FinalizeRead(t) PROVE IInv'
<1>1. task[t].pc = "finalRead" /\ task[t].pc \in Closing  BY DEF FinalizeRead, At, Closing
<1>2. UNCHANGED <<rowVars, child, tracked, starter, rowLock, booted, used>>  BY DEF FinalizeRead
<1>3. /\ agentStatus' \in [Agents -> AgentStatuses] /\ tracked' \in [Runs -> BOOLEAN]
      /\ rowLock' \subseteq Issues /\ booted' \in BOOLEAN /\ used' \in Counters
  BY <1>2 DEF IInv, Typed, rowVars
<1>4. CASE ~Invokable(AgentOf(t))
  <2> DEFINE h == AfterFinalize(t, task[t])
  <2>1. TaskIs(t, h)  BY <1>4 DEF FinalizeRead, TaskIs
  <2>2. h \in Locals /\ h.pc \in {"idle", "next"} /\ Meant(t, h) /\ Known(t, h)
    BY <1>1, AfterFinalizeFacts
  <2> HIDE DEF h
  <2>3. t[1] = "exec" => /\ task[t].pc \notin {"idle", "child"} /\ h.pc # "child"
                         /\ h.pc \in Launching => task[t].pc \in Launching
    BY <1>1, <2>2, ClosingMoves
  <2>4. QED  BY <1>2, <1>3, <2>1, <2>2, <2>3, TaskOnly DEF rowVars
<1>5. CASE Invokable(AgentOf(t))
  <2>1. PICK v \in {"running", "idle", "error"} :
          TaskIs(t, [task[t] EXCEPT !.pc = "finalWrite", !.verdict = v])
    <3> DEFINE v == IF InStatus(AgentOf(t), "running") # {} THEN "running"
                    ELSE IF task[t].verdict \in {"succeeded", "cancelled"} THEN "idle" ELSE "error"
    <3>1. v \in {"running", "idle", "error"}  OBVIOUS
    <3>2. TaskIs(t, [task[t] EXCEPT !.pc = "finalWrite", !.verdict = v])
      BY <1>5 DEF FinalizeRead, TaskIs
    <3>3. QED  BY <3>1, <3>2
  <2> DEFINE h == [task[t] EXCEPT !.pc = "finalWrite", !.verdict = v]
  <2>2. /\ h \in Locals /\ h.pc = "finalWrite" /\ h.verdict = v /\ h.run = task[t].run
        /\ h.left = task[t].left
    <3>1. "finalWrite" \in PCs /\ v \in Verdicts  BY DEF PCs, Verdicts, AgentStatuses
    <3>2. QED  BY <3>1, Here DEF Locals
  <2> HIDE DEF h
  <2>3. Meant(t, task[t]) /\ Known(t, task[t])  BY Here
  <2>4. t[1] \in {"exec", "cancel", "reap"} /\ h.run \in Runs
    BY <1>1, <2>2, Closes, TaskNames
  <2>5. KindOK(t, h)  BY <2>2, <2>4 DEF KindOK, Working, Closing
  <2>6. t[1] \in {"exec", "cancel"} => h.run = t[2]  BY <1>1, <2>2, <2>3 DEF Meant
  <2>7. Meant(t, h)  BY <2>2, <2>4, <2>5, <2>6 DEF Meant, Closing
  <2>8. Known(t, h)
    <3>1. task[t].pc \in Working  BY <1>1 DEF Working
    <3>2. QED  BY <2>2, <2>3, <3>1 DEF Known
  <2>9. h.pc \in {"idle", "next"} \cup Closing  BY <2>2 DEF Closing
  <2>10. t[1] = "exec" => /\ task[t].pc \notin {"idle", "child"} /\ h.pc # "child"
                          /\ h.pc \in Launching => task[t].pc \in Launching
    BY <1>1, <2>2, <2>9, ClosingMoves
  <2>11. TaskIs(t, h)  BY <2>1 DEF h
  <2>12. QED  BY <1>2, <1>3, <2>2, <2>7, <2>8, <2>10, <2>11, TaskOnly DEF rowVars
<1>6. QED  BY <1>4, <1>5

LEMMA FinalizeWriteInv ==
  ASSUME ConstantsAssumption, IInv, NEW t \in Tasks, FinalizeWrite(t) PROVE IInv'
<1> DEFINE h == AfterFinalize(t, task[t])
<1>1. task[t].pc = "finalWrite" /\ task[t].pc \in Closing  BY DEF FinalizeWrite, At, Closing
<1>2. TaskIs(t, h)  BY DEF FinalizeWrite, TaskIs
<1>3. h \in Locals /\ h.pc \in {"idle", "next"} /\ Meant(t, h) /\ Known(t, h)
  BY <1>1, AfterFinalizeFacts
<1> HIDE DEF h
<1>4. t[1] = "exec" => /\ task[t].pc \notin {"idle", "child"} /\ h.pc # "child"
                       /\ h.pc \in Launching => task[t].pc \in Launching
  BY <1>1, <1>3, ClosingMoves
<1>5. agentStatus' \in [Agents -> AgentStatuses]
  <2>1. task[t].verdict \in AgentStatuses  BY <1>1, Here DEF Meant, AgentStatuses
  <2>2. QED  BY <2>1 DEF FinalizeWrite, IInv, Typed
<1>6. QED  BY <1>2, <1>3, <1>4, <1>5, TaskOnly DEF FinalizeWrite, IInv, Typed

-----------------------------------------------------------------------------
(* Cancellation by the board *)

LEMMA CancelBeginInv ==
  ASSUME ConstantsAssumption, IInv, NEW r \in Runs, CancelBegin(r) PROVE IInv'
<1> DEFINE c == <<"cancel", r>>
           h == [Idle EXCEPT !.pc = "store", !.run = r, !.verdict = "cancelled"]
<1>1. c \in Tasks /\ c[1] = "cancel" /\ c[2] = r  BY TaskNames
<1>2. h \in Locals /\ h.pc = "store" /\ h.run = r /\ h.verdict = "cancelled" /\ h.left = {}
  <2>1. "store" \in PCs /\ "cancelled" \in Verdicts /\ r \in Runs \cup {0}
    BY DEF PCs, Verdicts, Terminal
  <2>2. QED  BY <2>1, Blank DEF Locals
<1>3. TaskIs(c, h) /\ runs[r].status # "none"  BY DEF CancelBegin, TaskIs, Active
<1>4. used' \in Counters  BY CountFacts DEF CancelBegin, IInv
<1> HIDE DEF h, c
<1>5. Meant(c, h) /\ Known(c, h)
  BY <1>1, <1>2, <1>3 DEF Meant, KindOK, Known, Working, Closing, Launching, Terminal
<1>6. QED  BY <1>1, <1>2, <1>3, <1>4, <1>5, TaskOnly DEF CancelBegin, rowVars, IInv, Typed

LEMMA BoardBeginInv ==
  ASSUME ConstantsAssumption, IInv, NEW b \in TasksOf("board"), NEW a \in Agents,
         NEW new \in {"paused", "terminated", "idle"}, BoardBegin(b, a, new)
  PROVE  IInv'
<1> DEFINE h == [Idle EXCEPT !.pc = "write", !.agent = a, !.verdict = new]
<1>1. b \in Tasks /\ b[1] = "board"  BY DEF TasksOf
<1>2. h \in Locals /\ h.pc = "write" /\ h.agent = a /\ h.verdict = new /\ h.left = {}
  <2>1. "write" \in PCs /\ new \in Verdicts /\ a \in Agents \cup {NoAgent}
    BY DEF PCs, Verdicts, AgentStatuses
  <2>2. QED  BY <2>1, Blank DEF Locals
<1>3. TaskIs(b, h)  BY DEF BoardBegin, TaskIs
<1>4. used' \in Counters  BY CountFacts DEF BoardBegin, IInv
<1> HIDE DEF h
<1>5. Meant(b, h) /\ Known(b, h)
  BY <1>1, <1>2 DEF Meant, KindOK, Known, Working, Closing, Launching
<1>6. QED  BY <1>1, <1>2, <1>3, <1>4, <1>5, TaskOnly DEF BoardBegin, rowVars, IInv, Typed

\* The kind of a task that writes an agent's status is told by where it stands.
LEMMA BoardsOnly ==
  ASSUME IInv, NEW b \in Tasks, task[b].pc \in {"write", "list"}
  PROVE  b[1] = "board"
BY TaskNames, Here DEF Meant, KindOK, Working, Closing, Launching

LEMMA BoardWriteInv ==
  ASSUME ConstantsAssumption, IInv, NEW b \in Tasks, BoardWrite(b) PROVE IInv'
<1> DEFINE h == [task[b] EXCEPT !.pc = "list"]
<1>1. b[1] = "board" /\ task[b].pc = "write"  BY BoardsOnly DEF BoardWrite, At
<1>2. TaskIs(b, Idle) \/ TaskIs(b, h)  BY DEF BoardWrite, TaskIs
<1>3. /\ h \in Locals /\ h.pc = "list" /\ h.run = task[b].run /\ h.agent = task[b].agent
      /\ h.left = task[b].left /\ h.verdict = task[b].verdict
  BY Here DEF Locals, PCs
<1> HIDE DEF h
<1>4. Meant(b, task[b]) /\ Known(b, task[b])  BY Here
<1>5. Meant(b, h) /\ Known(b, h)
  BY <1>1, <1>3, <1>4 DEF Meant, KindOK, Known, Working, Closing, Launching
<1>6. Idle \in Locals /\ Meant(b, Idle) /\ Known(b, Idle)  BY Blank, IdleMeans
<1>7. agentStatus' \in [Agents -> AgentStatuses]
  <2>1. task[b].verdict \in AgentStatuses  BY <1>1, <1>4 DEF Meant, AgentStatuses
  <2>2. QED  BY <2>1 DEF BoardWrite, IInv, Typed
<1>8. QED  BY <1>1, <1>2, <1>3, <1>5, <1>6, <1>7, TaskOnly DEF BoardWrite, IInv, Typed

\* What a task keeps of the rows it has read.
LEMMA SnapshotFacts ==
  ASSUME Typed, NEW S \in SUBSET Runs
  PROVE  /\ Snapshot(S) \in SUBSET Snapshots
         /\ \A s \in Snapshot(S) :
              /\ s.run \in S /\ s.pid = runs[s.run].pid
              /\ s.detached = runs[s.run].detached /\ s.retryOf = runs[s.run].retryOf
BY DEF Snapshot, Snapshots, Typed, Rows

LEMMA BoardListInv ==
  ASSUME ConstantsAssumption, IInv, NEW b \in Tasks, BoardList(b) PROVE IInv'
<1> DEFINE S == {r \in Runs : Active(r) /\ runs[r].agent = task[b].agent}
           left == Snapshot(S)
           h == [task[b] EXCEPT !.pc = "next", !.left = left]
<1>1. b[1] = "board" /\ task[b].pc = "list"  BY BoardsOnly DEF BoardList, At
<1>2. left \in SUBSET Snapshots /\ \A s \in left : s.run \in Runs /\ runs[s.run].status # "none"
  <2>1. S \in SUBSET Runs /\ \A r \in S : runs[r].status # "none"  BY DEF Active
  <2> HIDE DEF S
  <2>2. QED  BY <2>1, SnapshotFacts DEF IInv
<1>3. TaskIs(b, h)
  <2>1. task' = [task EXCEPT ![b].pc = "next", ![b].left = left]  BY DEF BoardList
  <2>2. QED  BY <2>1 DEF TaskIs, IInv, Typed
<1> HIDE DEF left, S
<1>4. /\ h \in Locals /\ h.pc = "next" /\ h.left = left /\ h.verdict = task[b].verdict
  <2>1. "next" \in PCs  BY DEF PCs
  <2>2. QED  BY <1>2, <2>1, Here DEF Locals
<1> HIDE DEF h
<1>5. Meant(b, task[b])  BY Here
<1>6. Meant(b, h) /\ Known(b, h)
  BY <1>1, <1>2, <1>4, <1>5 DEF Meant, KindOK, Known, Working, Closing, Launching
<1>7. QED  BY <1>1, <1>3, <1>4, <1>6, TaskOnly DEF BoardList, rowVars, IInv, Typed

LEMMA BoardNextInv ==
  ASSUME ConstantsAssumption, IInv, NEW b \in Tasks, BoardNext(b) PROVE IInv'
<1>1. b[1] = "board" /\ task[b].pc = "next"  BY DEF BoardNext, At
<1>2. CASE task' = [task EXCEPT ![b] = Idle]
  <2>1. Idle \in Locals /\ TaskIs(b, Idle) /\ Meant(b, Idle) /\ Known(b, Idle)
    BY <1>2, Blank, IdleMeans DEF TaskIs
  <2>2. QED  BY <1>1, <2>1, TaskOnly DEF BoardNext, rowVars, IInv, Typed
<1>3. ASSUME NEW s \in task[b].left,
             task' = [task EXCEPT ![b].pc = "store", ![b].run = s.run,
                                  ![b].left = @ \ {s}, ![b].verdict = "cancelled"]
      PROVE  IInv'
  <2> DEFINE h == [task[b] EXCEPT !.pc = "store", !.run = s.run, !.left = task[b].left \ {s},
                                  !.verdict = "cancelled"]
  <2>1. TaskIs(b, h)  BY <1>3 DEF TaskIs, IInv, Typed
  <2>2. task[b] \in Locals /\ Known(b, task[b])  BY Here
  <2>3. s.run \in Runs /\ runs[s.run].status # "none"  BY <2>2 DEF Locals, Snapshots, Known
  <2>4. /\ h \in Locals /\ h.pc = "store" /\ h.run = s.run /\ h.verdict = "cancelled"
        /\ h.left \subseteq task[b].left
    <3>1. "store" \in PCs /\ "cancelled" \in Verdicts  BY DEF PCs, Verdicts, Terminal
    <3>2. task[b].left \ {s} \in SUBSET Snapshots  BY <2>2 DEF Locals
    <3>3. QED  BY <2>2, <2>3, <3>1, <3>2 DEF Locals
  <2> HIDE DEF h
  <2>5. Meant(b, h) /\ Known(b, h)
    BY <1>1, <2>2, <2>3, <2>4 DEF Meant, KindOK, Known, Working, Closing, Launching, Terminal
  <2>6. QED  BY <1>1, <2>1, <2>4, <2>5, TaskOnly DEF BoardNext, rowVars, IInv, Typed
<1>4. QED  BY <1>2, <1>3 DEF BoardNext

-----------------------------------------------------------------------------
(* reapOrphanedRuns *)

LEMMA ReapBeginInv ==
  ASSUME ConstantsAssumption, IInv, NEW p \in TasksOf("reap"), ReapBegin(p) PROVE IInv'
<1> DEFINE S == {r \in Runs : runs[r].status = "running" /\ (booted => ~JustClaimed(r))}
           left == Snapshot(S)
           h == [task[p] EXCEPT !.pc = "next", !.left = left]
<1>1. p \in Tasks /\ p[1] = "reap" /\ task[p].pc = "idle"  BY DEF TasksOf, ReapBegin, At
<1>2. /\ left \in SUBSET Snapshots
      /\ \A s \in left : s.run \in Runs /\ runs[s.run].status \notin {"none", "queued"}
  <2>1. S \in SUBSET Runs /\ \A r \in S : runs[r].status = "running"  OBVIOUS
  <2> HIDE DEF S
  <2>2. QED  BY <2>1, SnapshotFacts DEF IInv
<1>3. TaskIs(p, h)
  <2>1. task' = [task EXCEPT ![p].pc = "next", ![p].left = left]  BY DEF ReapBegin
  <2>2. QED  BY <1>1, <2>1 DEF TaskIs, IInv, Typed
<1> HIDE DEF left, S
<1>4. /\ h \in Locals /\ h.pc = "next" /\ h.left = left /\ h.verdict = task[p].verdict
  <2>1. "next" \in PCs  BY DEF PCs
  <2>2. QED  BY <1>1, <1>2, <2>1, Here DEF Locals
<1> HIDE DEF h
<1>5. Meant(p, h) /\ Known(p, h)
  BY <1>1, <1>2, <1>4 DEF Meant, KindOK, Known, Working, Closing, Launching
<1>6. booted' \in BOOLEAN  BY DEF ReapBegin
<1>7. QED  BY <1>1, <1>3, <1>4, <1>5, <1>6, TaskOnly DEF ReapBegin, rowVars, IInv, Typed

LEMMA ReapDoneInv ==
  ASSUME ConstantsAssumption, IInv, NEW p \in TasksOf("reap"), ReapDone(p) PROVE IInv'
<1>1. p \in Tasks /\ p[1] = "reap"  BY DEF TasksOf
<1>2. Idle \in Locals /\ TaskIs(p, Idle) /\ Meant(p, Idle) /\ Known(p, Idle)
  BY <1>1, Blank, IdleMeans DEF ReapDone, TaskIs
<1>3. QED  BY <1>1, <1>2, TaskOnly DEF ReapDone, rowVars, IInv, Typed

\* The reaper goes to the next run of its snapshot.
LEMMA LeftFacts ==
  ASSUME IInv, NEW p \in TasksOf("reap"), At(p, "next"), NEW s \in task[p].left
  PROVE  LET h == [task[p] EXCEPT !.left = task[p].left \ {s}] IN
         /\ p \in Tasks /\ p[1] = "reap" /\ s \in Snapshots /\ s.run \in Runs
         /\ runs[s.run].status \notin {"none", "queued"}
         /\ h \in Locals /\ h.pc = "next" /\ h.left = task[p].left \ {s}
         /\ Meant(p, h) /\ Known(p, h)
<1> DEFINE h == [task[p] EXCEPT !.left = task[p].left \ {s}]
<1>1. p \in Tasks /\ p[1] = "reap" /\ task[p].pc = "next"  BY DEF TasksOf, At
<1>2. task[p] \in Locals /\ Meant(p, task[p]) /\ Known(p, task[p])  BY <1>1, Here
<1>3. s \in Snapshots /\ s.run \in Runs  BY <1>2 DEF Locals, Snapshots
<1>4. runs[s.run].status \notin {"none", "queued"}  BY <1>1, <1>2 DEF Known
<1>5. /\ h \in Locals /\ h.pc = "next" /\ h.left = task[p].left \ {s}
      /\ h.verdict = task[p].verdict
  <2>1. task[p].left \ {s} \in SUBSET Snapshots  BY <1>2 DEF Locals
  <2>2. QED  BY <1>1, <1>2, <2>1 DEF Locals
<1> HIDE DEF h
<1>6. Meant(p, h) /\ Known(p, h)
  BY <1>1, <1>2, <1>5 DEF Meant, KindOK, Known, Working, Closing, Launching
<1>7. QED  BY <1>1, <1>3, <1>4, <1>5, <1>6 DEF h

LEMMA ReapSkipInv ==
  ASSUME ConstantsAssumption, IInv, NEW p \in TasksOf("reap"), ReapSkip(p) PROVE IInv'
<1>1. PICK s \in task[p].left : task' = [task EXCEPT ![p].left = @ \ {s}]  BY DEF ReapSkip
<1> DEFINE h == [task[p] EXCEPT !.left = task[p].left \ {s}]
<1>2. /\ p \in Tasks /\ p[1] = "reap" /\ h \in Locals /\ Meant(p, h) /\ Known(p, h)
  BY LeftFacts DEF ReapSkip
<1>3. TaskIs(p, h)  BY <1>1, <1>2 DEF TaskIs, IInv, Typed
<1> HIDE DEF h
<1>4. QED  BY <1>2, <1>3, TaskOnly DEF ReapSkip, rowVars, IInv, Typed

\* A detached run is set to "running", whatever it is by now.
LEMMA DetachFacts ==
  ASSUME Typed, NEW r \in Runs,
         runs' = [runs EXCEPT ![r].status = "running", ![r].detached = TRUE]
  PROVE  /\ runs' \in [Runs -> Rows] /\ runs'[r].status = "running" /\ runs'[r].agent = runs[r].agent
         /\ runs'[r].issue = runs[r].issue /\ runs'[r].retryOf = runs[r].retryOf
         /\ runs'[r].pid = runs[r].pid
         /\ \A q \in Runs : q # r => runs'[q] = runs[q]
<1> DEFINE row == [runs[r] EXCEPT !.status = "running", !.detached = TRUE]
<1>1. runs[r] \in Rows /\ runs' = [runs EXCEPT ![r] = row]  BY DEF Typed
<1>2. /\ row \in Rows /\ row.status = "running" /\ row.agent = runs[r].agent
      /\ row.issue = runs[r].issue /\ row.retryOf = runs[r].retryOf /\ row.pid = runs[r].pid
  BY <1>1 DEF Rows, Statuses
<1> HIDE DEF row
<1>3. QED  BY <1>1, <1>2 DEF Typed

LEMMA ReapDetachInv ==
  ASSUME ConstantsAssumption, IInv, NEW p \in TasksOf("reap"), ReapDetach(p) PROVE IInv'
<1>1. PICK s \in task[p].left :
        /\ task' = [task EXCEPT ![p].left = @ \ {s}]
        /\ runs' = IF s.detached THEN runs
                   ELSE [runs EXCEPT ![s.run].status = "running", ![s.run].detached = TRUE]
  BY DEF ReapDetach
<1> DEFINE h == [task[p] EXCEPT !.left = task[p].left \ {s}]
<1>2. /\ p \in Tasks /\ p[1] = "reap" /\ h \in Locals /\ Meant(p, h) /\ Known(p, h)
      /\ s.run \in Runs /\ runs[s.run].status \notin {"none", "queued"}
  BY LeftFacts DEF ReapDetach
<1>3. TaskIs(p, h)  BY <1>1, <1>2 DEF TaskIs, IInv, Typed
<1> HIDE DEF h
<1>4. /\ runs' \in [Runs -> Rows] /\ AllOnward /\ RowsOK'
      /\ \A q \in Runs : runs'[q].pid => runs[q].pid
  <2>1. CASE runs' = runs  BY <2>1 DEF IInv, Typed, AllOnward, Onward, RowsOK, RowOK
  <2>2. CASE runs' = [runs EXCEPT ![s.run].status = "running", ![s.run].detached = TRUE]
    <3> DEFINE r == s.run
    <3>1. /\ runs' \in [Runs -> Rows] /\ runs'[r].status = "running" /\ runs'[r].agent = runs[r].agent
          /\ runs'[r].issue = runs[r].issue /\ runs'[r].retryOf = runs[r].retryOf
          /\ runs'[r].pid = runs[r].pid
          /\ \A q \in Runs : q # r => runs'[q] = runs[q]
      BY <1>2, <2>2, DetachFacts DEF IInv
    <3> HIDE DEF r
    <3>2. r \in Runs /\ runs[r].status \notin {"none", "queued"}  BY <1>2 DEF r
    <3>3. AllOnward  BY <3>1, <3>2 DEF AllOnward, Onward
    <3>4. RowsOK'  BY <3>1, <3>2 DEF IInv, RowsOK, RowOK
    <3>5. QED  BY <3>1, <3>3, <3>4
  <2>3. QED  BY <1>1, <2>1, <2>2
<1>5. QED  BY <1>2, <1>3, <1>4, TaskMoves DEF ReapDetach, IInv, Typed

LEMMA ReapLostInv ==
  ASSUME ConstantsAssumption, IInv, NEW p \in TasksOf("reap"), ReapLost(p) PROVE IInv'
<1>1. PICK s \in task[p].left, v \in {"retrying", "failed"} :
        task' = [task EXCEPT ![p].pc = "store", ![p].run = s.run, ![p].left = @ \ {s}, ![p].verdict = v]
  BY DEF ReapLost
<1> DEFINE h == [task[p] EXCEPT !.pc = "store", !.run = s.run, !.left = task[p].left \ {s}, !.verdict = v]
<1>2. /\ p \in Tasks /\ p[1] = "reap" /\ s \in Snapshots /\ s.run \in Runs
      /\ runs[s.run].status \notin {"none", "queued"}
  BY LeftFacts DEF ReapLost
<1>3. TaskIs(p, h)  BY <1>1, <1>2 DEF TaskIs, IInv, Typed
<1>4. /\ h \in Locals /\ h.pc = "store" /\ h.run = s.run /\ h.verdict = v
      /\ h.left \subseteq task[p].left
  <2>1. "store" \in PCs /\ v \in Verdicts  BY DEF PCs, Verdicts, Terminal
  <2>2. task[p].left \ {s} \in SUBSET Snapshots /\ task[p] \in Locals  BY <1>2, Here DEF Locals
  <2>3. QED  BY <1>2, <2>1, <2>2 DEF Locals
<1> HIDE DEF h
<1>5. Known(p, task[p])  BY <1>2, Here
<1>6. Meant(p, h) /\ Known(p, h)
  BY <1>2, <1>4, <1>5 DEF Meant, KindOK, Known, Working, Closing, Launching, Terminal
<1>7. QED  BY <1>2, <1>3, <1>4, <1>6, TaskOnly DEF ReapLost, rowVars, IInv, Typed

LEMMA ReapRetryInv ==
  ASSUME ConstantsAssumption, IInv, NEW p \in TasksOf("reap"), ReapRetry(p) PROVE IInv'
<1> DEFINE r == task[p].run
           i == runs[r].issue
           h == [task[p] EXCEPT !.pc = "finalRead", !.verdict = "failed"]
<1>1. p \in Tasks /\ p[1] = "reap" /\ task[p].pc = "retry" /\ task[p].pc \in Closing
  BY DEF TasksOf, ReapRetry, At, Closing
<1>2. r \in Runs /\ runs[r].status # "none"  BY <1>1, Closes
<1>3. runs[r].agent \in Agents /\ i \in Issues \cup {NoIssue}
  BY <1>2 DEF IInv, RowsOK, RowOK, Typed, Rows
<1>4. TaskIs(p, h)
  <2>1. task' = [task EXCEPT ![p].pc = "finalRead", ![p].verdict = "failed"]  BY DEF ReapRetry
  <2>2. QED  BY <1>1, <2>1 DEF TaskIs, IInv, Typed
<1>5. /\ h \in Locals /\ h.pc = "finalRead" /\ h.verdict = "failed" /\ h.run = r
      /\ h.left = task[p].left
  <2>1. "finalRead" \in PCs /\ "failed" \in Verdicts  BY DEF PCs, Verdicts, Terminal
  <2>2. QED  BY <1>1, <2>1, Here DEF Locals
<1> HIDE DEF h
<1>6. Meant(p, h) /\ Known(p, h)
  <2>1. Known(p, task[p])  BY <1>1, Here
  <2>2. QED  BY <1>1, <1>2, <1>5, <2>1 DEF Meant, KindOK, Known, Working, Closing, Launching, Terminal
<1>7. PICK q \in Runs :
        /\ NewRun(q) /\ runs' = [runs EXCEPT ![q] = QueuedRun(runs[r].agent, i, r)]
        /\ lock' = [j \in Issues |-> IF j = i /\ lock[j] = r THEN q ELSE lock[j]]
  BY DEF ReapRetry
<1>8. lock' \in [Issues -> Runs \cup {0}]  BY <1>7 DEF IInv, Typed
<1> HIDE DEF r, i
<1>9. runs' \in [Runs -> Rows]  BY <1>2, <1>3, <1>7, InsertFacts DEF IInv
<1>10. AllOnward /\ RowsOK' /\ \A o \in Runs : runs'[o].pid => runs[o].pid
  BY <1>2, <1>3, <1>7, InsertOnward
<1>11. QED  BY <1>1, <1>4, <1>5, <1>6, <1>8, <1>9, <1>10, TaskMoves DEF ReapRetry, IInv, Typed

-----------------------------------------------------------------------------
(* The server *)

LEMMA CrashInv ==
  ASSUME ConstantsAssumption, IInv, NEW p \in Processes, Crash(p) PROVE IInv'
<1>1. UNCHANGED <<rowVars, child>> /\ rowLock' \subseteq Issues /\ booted' \in BOOLEAN
  BY DEF Crash, IInv, Typed
<1>2. /\ task' \in [Tasks -> Locals] /\ \A t \in Tasks : task'[t] \in {task[t], Idle}
  BY Blank DEF Crash, IInv, Typed
<1>3. /\ starter' \in [Slot -> Starters] /\ \A x \in Slot : starter'[x] \in {starter[x], NotStarting}
  <2>1. DOMAIN starter = Slot  BY DEF IInv, Typed
  <2>2. starter' = [x \in Slot |-> IF x[1] = p THEN NotStarting ELSE starter[x]]
    BY <2>1 DEF Crash
  <2>3. QED  BY <2>2, Blank DEF IInv, Typed
<1>4. tracked' \in [Runs -> BOOLEAN]
  <2>1. tracked \in [Runs -> BOOLEAN]  BY DEF IInv, Typed
  <2>2. PICK f : tracked' = [r \in Runs |-> tracked[r] /\ f[r]] /\ f \in [Runs -> BOOLEAN]
    <3> DEFINE f == [r \in Runs |-> ~(IF Exec(r)[1] = "exec" THEN ProcessOf(task[Exec(r)].service) = p
                                      ELSE p = "server")]
    <3>1. f \in [Runs -> BOOLEAN]  OBVIOUS
    <3>2. tracked' = [r \in Runs |-> tracked[r] /\ f[r]]  BY DEF Crash
    <3>3. QED  BY <3>1, <3>2
  <2>3. QED  BY <2>1, <2>2
<1>5. used' \in Counters  BY CountFacts DEF Crash, IInv
<1>6. Typed'  BY <1>1, <1>2, <1>3, <1>4, <1>5 DEF IInv, Typed, rowVars
<1>7. RowsOK'  BY <1>1 DEF IInv, RowsOK, RowOK, rowVars
<1>8. \A t \in Tasks : Meant(t, task'[t]) /\ Known(t, task'[t])
  BY <1>2, IdleMeans DEF IInv, TasksOK, RunsKnown
<1>9. TasksOK'  BY <1>8 DEF TasksOK, Meant, KindOK
<1>10. RunsKnown'  BY <1>1, <1>8 DEF RunsKnown, Known, rowVars
<1>11. StartersOK'  BY <1>1, <1>3 DEF IInv, StartersOK, StarterOK, rowVars, NotStarting
<1>12. \A x \in Slot, r \in Runs : Marks(x, r)' => Marks(x, r)
  BY <1>3 DEF Marks, NotStarting
<1>13. MarkedOnce'  BY <1>12 DEF IInv, MarkedOnce
<1>14. LivesOK'
  <2> SUFFICES ASSUME NEW r \in Runs PROVE LifeOK(r)'  BY DEF LivesOK
  <2>1. LifeOK(r)  BY DEF IInv, LivesOK
  <2>2. Marked(r)' => Marked(r)  BY <1>12 DEF Marked
  <2>3. task'[Exec(r)].pc \in {task[Exec(r)].pc, "idle"}  BY <1>2, TaskNames, Blank
  <2>4. QED  BY <1>1, <2>1, <2>2, <2>3 DEF LifeOK, Launching, rowVars
<1>15. QED  BY <1>6, <1>7, <1>9, <1>10, <1>11, <1>13, <1>14 DEF IInv

-----------------------------------------------------------------------------
\* Every step preserves the invariant.
LEMMA StepInv == ASSUME ConstantsAssumption PROVE IInv /\ [Next]_vars => IInv'
<1> SUFFICES ASSUME IInv, [Next]_vars PROVE IInv'  OBVIOUS
<1>1. ASSUME NEW w \in TasksOf("wake"), Wake(w) PROVE IInv'
  <2>1. w \in Tasks  BY DEF TasksOf
  <2>2. QED
    BY <1>1, <2>1, WakeLockIssueInv, WakeCommitInv, WakeScanInv, WakeInsertInv DEF Wake
<1>2. ASSUME NEW p \in Processes, NEW a \in Agents, Start(p, a) PROVE IInv'
  BY <1>2, StartCountInv, StartSelectInv, StartCheckInv, StartClaimInv, StartSpawnInv DEF Start
<1>3. ASSUME NEW r \in Runs, Execute(r) PROVE IInv'
  BY <1>3, ExecBeginInv, ExecSetupInv, ExecLaunchInv, ExecDecideInv DEF Execute
<1>4. ASSUME NEW t \in Tasks, Close(t) PROVE IInv'
  BY <1>4, StoreInv, SetWakeInv, ReleaseNothingInv, ReleaseAndPromoteInv, FinalizeReadInv,
     FinalizeWriteInv DEF Close
<1>5. ASSUME NEW b \in TasksOf("board"), Board(b) PROVE IInv'
  <2>1. b \in Tasks  BY DEF TasksOf
  <2>2. QED  BY <1>5, <2>1, BoardWriteInv, BoardListInv, BoardNextInv DEF Board
<1>6. ASSUME NEW p \in TasksOf("reap"), Reap(p) PROVE IInv'
  BY <1>6, ReapDoneInv, ReapSkipInv, ReapDetachInv, ReapLostInv, ReapRetryInv DEF Reap
<1>7. CASE UNCHANGED vars
  BY <1>7 DEF IInv, Typed, RowsOK, RowOK, TasksOK, Meant, KindOK, RunsKnown, Known, StartersOK,
     StarterOK, LivesOK, LifeOK, MarkedOnce, Marked, Marks, vars
<1>8. CASE Finished  BY <1>7, <1>8 DEF Finished
<1>9. QED
  BY <1>1, <1>2, <1>3, <1>4, <1>5, <1>6, <1>7, <1>8, WakeBeginInv, CrashInv, RecordPidInv,
     ChildExitsInv, ExecThrowsInv, CancelBeginInv, BoardBeginInv, ReapBeginInv DEF Next

LEMMA Invariance == ASSUME ConstantsAssumption PROVE Spec => []IInv
<1>1. Init => IInv  BY InitInv
<1>2. IInv /\ [Next]_vars => IInv'  BY StepInv
<1>3. QED  BY <1>1, <1>2, PTL DEF Spec

\* Every variable keeps its type, whatever stops or fails: each status a task writes is
\* one of its row, and each run it has in hand was inserted.
THEOREM TypeCorrect == ASSUME ConstantsAssumption PROVE Spec => []TypeOK
<1>1. IInv => TypeOK
  <2> SUFFICES ASSUME IInv PROVE TypeOK  OBVIOUS
  <2>1. DOMAIN NoEvents = {"wakes", "cancels", "boards", "faults", "crashes"}  BY DEF NoEvents
  <2>2. used \in [DOMAIN NoEvents -> Nat]  BY <2>1 DEF IInv, Typed, Counters
  <2>3. DOMAIN task = Tasks /\ \A t \in Tasks : task[t] \in Locals  BY DEF IInv, Typed
  <2>4. \A t \in Tasks : \A s \in task[t].left : s.run \in Runs  BY <2>3 DEF Locals, Snapshots
  <2>5. \A t \in Tasks : /\ task[t].pc \in PCs /\ task[t].run \in Runs \cup {0}
                         /\ task[t].agent \in Agents \cup {NoAgent}
                         /\ task[t].issue \in Issues \cup {NoIssue}
                         /\ task[t].service \in Services \cup {"none"}
    BY <2>3 DEF Locals
  <2>6. \A r \in Runs : runs[r].status # "none" => runs[r].agent \in Agents
    BY DEF IInv, RowsOK, RowOK
  <2>7. QED
    BY <2>2, <2>3, <2>4, <2>5, <2>6 DEF IInv, Typed, TypeOK, Rows, Statuses, WakeStatuses,
       AgentStatuses, Starters, Slot
<1>2. QED  BY <1>1, Invariance, PTL

-----------------------------------------------------------------------------
(* What a step does to the rows, and to the life of a run *)

\* The rows keep what is compared below.
Kept == \A r \in Runs : /\ runs'[r].status = runs[r].status /\ runs'[r].agent = runs[r].agent
                        /\ runs'[r].issue = runs[r].issue /\ runs'[r].retryOf = runs[r].retryOf
                        /\ runs'[r].pid => runs[r].pid \/ RecordPid(r)

\* Row r, which was blank, becomes a queued run of agent a about i that is a retry of o.
Inserts(r, a, i, o) ==
    /\ runs[r].status = "none" /\ runs'[r].status = "queued"
    /\ runs'[r].agent = a /\ runs'[r].issue = i /\ runs'[r].retryOf = o /\ ~runs'[r].pid
    /\ \A q \in Runs : q # r => runs'[q] = runs[q]

\* Of all steps only a claim, the end of a run, an insertion and the reaper write a
\* status.
RowStep ==
    \/ Kept
    \/ \E r \in Runs, a \in Agents, i \in Issues \cup {NoIssue} : Inserts(r, a, i, 0)
    \/ \E p \in Processes, a \in Agents : StartClaim(p, a)
    \/ \E t \in Tasks : Store(t)
    \/ \E p \in TasksOf("reap") : ReapDetach(p) \/ ReapRetry(p)

LEMMA Inserted ==
  ASSUME Typed, NEW r \in Runs, NewRun(r), NEW a \in Agents, NEW i \in Issues \cup {NoIssue},
         NEW o \in Runs \cup {0}, runs' = [runs EXCEPT ![r] = QueuedRun(a, i, o)]
  PROVE  Inserts(r, a, i, o)
BY InsertFacts DEF Inserts

LEMMA RowSteps == ASSUME ConstantsAssumption, IInv, [Next]_vars PROVE RowStep
<1>1. UNCHANGED runs => RowStep  BY DEF RowStep, Kept
<1>2. Typed  BY DEF IInv
<1>3. ASSUME NEW w \in TasksOf("wake"), Wake(w) PROVE RowStep
  <2>1. w \in Tasks  BY DEF TasksOf
  <2>2. CASE WakeCommit(w)
    <3>1. task[w].pc = "commit" /\ task[w].agent \in Agents /\ task[w].issue \in Issues
      BY <2>1, <2>2, Here DEF Meant, WakeCommit, At
    <3>2. CASE task[w].verdict = "queue"
      <4>1. PICK r \in Runs : NewRun(r) /\ runs' = [runs EXCEPT ![r] = QueuedRun(task[w].agent, task[w].issue, 0)]
        BY <2>2, <3>2 DEF WakeCommit
      <4>2. PICK a \in Agents, i \in Issues \cup {NoIssue} : a = task[w].agent /\ i = task[w].issue
        BY <3>1
      <4>3. runs' = [runs EXCEPT ![r] = QueuedRun(a, i, 0)]  BY <4>1, <4>2
      <4>4. Inserts(r, a, i, 0)  BY <1>2, <4>1, <4>3, Inserted
      <4>5. QED  BY <4>4 DEF RowStep
    <3>3. CASE task[w].verdict # "queue"  BY <1>1, <2>2, <3>3 DEF WakeCommit
    <3>4. QED  BY <3>2, <3>3
  <2>3. CASE WakeInsert(w)
    <3>1. task[w].pc = "insert" /\ task[w].agent \in Agents /\ task[w].issue \in Issues \cup {NoIssue}
      BY <2>1, <2>3, Here DEF Meant, Locals, WakeInsert, At
    <3>2. PICK r \in Runs : NewRun(r) /\ runs' = [runs EXCEPT ![r] = QueuedRun(task[w].agent, task[w].issue, 0)]
      BY <2>3 DEF WakeInsert
    <3>3. PICK a \in Agents, i \in Issues \cup {NoIssue} : a = task[w].agent /\ i = task[w].issue
      BY <3>1
    <3>4. runs' = [runs EXCEPT ![r] = QueuedRun(a, i, 0)]  BY <3>2, <3>3
    <3>5. Inserts(r, a, i, 0)  BY <1>2, <3>2, <3>4, Inserted
    <3>6. QED  BY <3>5 DEF RowStep
  <2>4. CASE WakeLockIssue(w) \/ WakeScan(w)
    BY <1>1, <2>4 DEF WakeLockIssue, WakeScan, rowVars
  <2>5. QED  BY <1>3, <2>2, <2>3, <2>4 DEF Wake
<1>4. ASSUME NEW p \in Processes, NEW a \in Agents, Start(p, a) PROVE RowStep
  <2>1. CASE StartSpawn(p, a)
    <3>1. starter[<<p, a>>].run \in Runs
      BY <2>1 DEF StartSpawn, IInv, StartersOK, StarterOK, Slot
    <3>2. "claimed" \in WakeStatuses  BY DEF WakeStatuses
    <3>3. Kept  BY <1>2, <2>1, <3>1, <3>2, WakeFacts DEF StartSpawn, Kept
    <3>4. QED  BY <3>3 DEF RowStep
  <2>2. CASE StartClaim(p, a)  BY <2>2 DEF RowStep
  <2>3. CASE StartCount(p, a) \/ StartSelect(p, a) \/ StartCheck(p, a)
    BY <1>1, <2>3 DEF StartCount, StartSelect, StartCheck, rowVars
  <2>4. QED  BY <1>4, <2>1, <2>2, <2>3 DEF Start
<1>5. ASSUME NEW r \in Runs, Execute(r) \/ ChildExits(r) \/ ExecThrows(r) \/ CancelBegin(r)
      PROVE  RowStep
  BY <1>1, <1>5 DEF Execute, ExecBegin, ExecSetup, ExecLaunch, ExecDecide, ChildExits, ExecThrows,
     CancelBegin, rowVars
<1>6. ASSUME NEW r \in Runs, RecordPid(r) PROVE RowStep
  <2>1. runs[r] \in Rows /\ runs' = [runs EXCEPT ![r] = [runs[r] EXCEPT !.pid = TRUE]]
    BY <1>2, <1>6 DEF RecordPid, Typed
  <2> DEFINE row == [runs[r] EXCEPT !.pid = TRUE]
  <2>2. /\ row.status = runs[r].status /\ row.agent = runs[r].agent
        /\ row.issue = runs[r].issue /\ row.retryOf = runs[r].retryOf
    BY <2>1 DEF Rows
  <2> HIDE DEF row
  <2>3. runs' = [runs EXCEPT ![r] = row]  BY <2>1 DEF row
  <2>4. Kept  BY <1>2, <1>6, <2>2, <2>3 DEF Kept, Typed
  <2>5. QED  BY <2>4 DEF RowStep
<1>7. ASSUME NEW t \in Tasks, Close(t) PROVE RowStep
  <2>1. CASE Store(t)  BY <2>1 DEF RowStep
  <2>2. CASE SetWake(t)
    <3>1. task[t].run \in Runs /\ task[t].verdict \in Terminal \cup {"retrying"}
      BY <2>2, Closes DEF SetWake, At, Closing
    <3>2. PICK s \in WakeStatuses : runs' = [runs EXCEPT ![task[t].run].wake = s]
      BY <2>2, <3>1 DEF SetWake, StatusOf, Terminal, WakeStatuses
    <3>3. Kept  BY <1>2, <3>1, <3>2, WakeFacts DEF Kept
    <3>4. QED  BY <3>3 DEF RowStep
  <2>3. ASSUME NEW i \in Issues, ReleaseAndPromote(t, i) PROVE RowStep
    <3>1. CASE UNCHANGED runs  BY <1>1, <3>1
    <3>2. ASSUME NEW k \in DOMAIN deferred[i], NEW r \in Runs, NewRun(r),
                 runs' = [runs EXCEPT ![r] = QueuedRun(deferred[i][k], i, 0)]
          PROVE  RowStep
      <4>1. deferred[i][k] \in Agents  BY <1>2, <3>2 DEF Typed
      <4>2. Inserts(r, deferred[i][k], i, 0)  BY <1>2, <3>2, <4>1, Inserted
      <4>3. QED  BY <4>1, <4>2 DEF RowStep
    <3>3. QED  BY <2>3, <3>1, <3>2 DEF ReleaseAndPromote
  <2>4. CASE ReleaseNothing(t) \/ FinalizeRead(t) \/ FinalizeWrite(t)
    BY <1>1, <2>4 DEF ReleaseNothing, FinalizeRead, FinalizeWrite, rowVars
  <2>5. QED  BY <1>7, <2>1, <2>2, <2>3, <2>4 DEF Close
<1>8. ASSUME NEW b, Board(b) PROVE RowStep
  BY <1>1, <1>8 DEF Board, BoardWrite, BoardList, BoardNext, rowVars
<1>9. ASSUME NEW p \in TasksOf("reap"), Reap(p) \/ ReapBegin(p) PROVE RowStep
  <2>1. CASE ReapDetach(p) \/ ReapRetry(p)  BY <2>1 DEF RowStep
  <2>2. CASE ReapBegin(p) \/ ReapDone(p) \/ ReapSkip(p) \/ ReapLost(p)
    BY <1>1, <2>2 DEF ReapBegin, ReapDone, ReapSkip, ReapLost, rowVars
  <2>3. QED  BY <1>9, <2>1, <2>2 DEF Reap
<1>10. ASSUME NEW w, NEW a, NEW i, NEW kind, WakeBegin(w, a, i, kind) PROVE RowStep
  BY <1>1, <1>10 DEF WakeBegin, rowVars
<1>11. ASSUME NEW p, Crash(p) PROVE RowStep  BY <1>1, <1>11 DEF Crash, rowVars
<1>12. ASSUME NEW b, NEW a, NEW new, BoardBegin(b, a, new) PROVE RowStep
  BY <1>1, <1>12 DEF BoardBegin, rowVars
<1>13. CASE Finished \/ UNCHANGED vars  BY <1>1, <1>13 DEF Finished, vars
<1>14. QED
  BY <1>3, <1>4, <1>5, <1>6, <1>7, <1>8, <1>9, <1>10, <1>11, <1>12, <1>13 DEF Next

-----------------------------------------------------------------------------
Waiting == Launching \cup {"child"}

\* How run r is claimed, launched and waited for; crash says whether a process stops.
Lived(r, crash) ==
    /\ task'[Exec(r)].pc \in Waiting => task[Exec(r)].pc \in Waiting \/ Marked(r)
    /\ child'[r] = "alive" => child[r] = "alive" \/ task[Exec(r)].pc = "launch"
    /\ child'[r] = "alive" /\ child[r] # "alive" => task'[Exec(r)].pc = "child"
    /\ Marked(r)' => Marked(r) \/ runs[r].status = "queued"
    /\ task[Exec(r)].pc = "child" => task'[Exec(r)].pc = "child" \/ child'[r] # "alive" \/ crash
    /\ runs'[r].pid => runs[r].pid \/ task'[Exec(r)].pc = "child"

\* A step that is not about the execution of r.
LEMMA LivesOn ==
  ASSUME NEW r \in Runs, UNCHANGED child, \A x \in Slot : Marks(x, r)' => Marks(x, r),
         NEW crash \in BOOLEAN, runs'[r].pid => runs[r].pid,
         \/ task'[Exec(r)].pc = task[Exec(r)].pc
         \/ (task[Exec(r)].pc = "child" => crash) /\ task'[Exec(r)].pc \notin Waiting
         \/ task[Exec(r)].pc \in Launching /\ task'[Exec(r)].pc \in Launching
  PROVE  Lived(r, crash)
<1>1. Marked(r)' => Marked(r)  BY DEF Marked
<1>2. QED  BY <1>1 DEF Lived, Waiting, Launching

\* Of the rows' steps only RecordPid records a pid.
LEMMA PidStep == ASSUME ConstantsAssumption, IInv, RowStep, NEW r \in Runs
                 PROVE  runs'[r].pid => runs[r].pid \/ RecordPid(r)
<1>1. Typed  BY DEF IInv
<1>2. CASE Kept  BY <1>2 DEF Kept
<1>3. ASSUME NEW q \in Runs, NEW a, NEW i, Inserts(q, a, i, 0) PROVE runs'[r].pid => runs[r].pid
  BY <1>3 DEF Inserts
<1>4. ASSUME NEW p \in Processes, NEW a \in Agents, StartClaim(p, a) PROVE runs'[r].pid => runs[r].pid
  <2>1. CASE UNCHANGED runs  BY <2>1
  <2>2. CASE runs' = [runs EXCEPT ![starter[<<p, a>>].run].status = "running"]
    <3>1. starter[<<p, a>>].run \in Runs
      BY <1>4 DEF StartClaim, IInv, StartersOK, StarterOK, Slot
    <3>2. "running" \in Statuses  BY DEF Statuses
    <3>3. QED  BY <1>1, <2>2, <3>1, <3>2, StatusFacts
  <2>3. QED  BY <1>4, <2>1, <2>2 DEF StartClaim
<1>5. ASSUME NEW t \in Tasks, Store(t) PROVE runs'[r].pid => runs[r].pid
  <2>1. task[t].run \in Runs /\ task[t].verdict \in Terminal \cup {"retrying"}
    BY <1>5, Closes DEF Store, At, Closing
  <2>2. PICK s \in Statuses : runs' = [runs EXCEPT ![task[t].run].status = s]
    BY <1>5, <2>1 DEF Store, StatusOf, Terminal, Statuses
  <2>3. QED  BY <1>1, <2>1, <2>2, StatusFacts
<1>6. ASSUME NEW p \in TasksOf("reap"), ReapDetach(p) PROVE runs'[r].pid => runs[r].pid
  <2>1. PICK s \in task[p].left :
          runs' = IF s.detached THEN runs
                  ELSE [runs EXCEPT ![s.run].status = "running", ![s.run].detached = TRUE]
    BY <1>6 DEF ReapDetach
  <2>2. s.run \in Runs  BY <1>6, LeftFacts DEF ReapDetach
  <2>3. QED  BY <1>1, <2>1, <2>2, DetachFacts
<1>7. ASSUME NEW p \in TasksOf("reap"), ReapRetry(p) PROVE runs'[r].pid => runs[r].pid
  <2>1. p \in Tasks /\ task[p].pc = "retry"  BY <1>7 DEF TasksOf, ReapRetry, At
  <2>2. PICK o \in Runs : o = task[p].run /\ runs[o].status # "none"
    BY <2>1, Closes DEF Closing
  <2>3. PICK a \in Agents, i \in Issues \cup {NoIssue} : a = runs[o].agent /\ i = runs[o].issue
    BY <2>2 DEF IInv, RowsOK, RowOK, Typed, Rows
  <2>4. PICK q \in Runs : NewRun(q) /\ runs' = [runs EXCEPT ![q] = QueuedRun(runs[o].agent, runs[o].issue, o)]
    BY <1>7, <2>2 DEF ReapRetry
  <2>5. runs' = [runs EXCEPT ![q] = QueuedRun(a, i, o)]  BY <2>3, <2>4
  <2>6. QED  BY <1>1, <2>4, <2>5, InsertFacts
<1>8. QED  BY <1>2, <1>3, <1>4, <1>5, <1>6, <1>7 DEF RowStep

\* Where a closing task goes.
LEMMA CloseGoes ==
  ASSUME IInv, NEW t \in Tasks, Close(t)
  PROVE  task'[t].pc \in {"wake", "retry", "release", "next", "finalRead", "finalWrite", "idle"}
<1>1. Typed /\ {"wake", "retry", "release", "next", "finalRead"} \subseteq PCs  BY DEF IInv, PCs
<1>2. CASE Store(t)  BY <1>1, <1>2, GoPlace DEF Store
<1>3. CASE SetWake(t)
  <2>1. PICK p \in {"retry", "release"} : Go(t, p)  BY <1>3 DEF SetWake
  <2>2. QED  BY <1>1, <2>1, GoPlace
<1>4. CASE ReleaseNothing(t) \/ \E i \in Issues : ReleaseAndPromote(t, i)
  <2>1. PICK p \in {"next", "finalRead"} : Go(t, p)
    BY <1>4 DEF ReleaseNothing, ReleaseAndPromote, AfterRelease
  <2>2. QED  BY <1>1, <2>1, GoPlace
<1>5. CASE FinalizeRead(t)
  <2>1. AfterFinalize(t, task[t]).pc \in {"idle", "next"}  BY <1>5, AfterFinalizeFacts DEF FinalizeRead, At
  <2>2. \/ task' = [task EXCEPT ![t] = AfterFinalize(t, task[t])]
        \/ \E v : task' = [task EXCEPT ![t] = [task[t] EXCEPT !.pc = "finalWrite", !.verdict = v]]
    BY <1>5 DEF FinalizeRead
  <2>3. QED  BY <1>1, <2>1, <2>2 DEF Typed, Locals
<1>6. CASE FinalizeWrite(t)
  <2>1. AfterFinalize(t, task[t]).pc \in {"idle", "next"}  BY <1>6, AfterFinalizeFacts DEF FinalizeWrite, At
  <2>2. task' = [task EXCEPT ![t] = AfterFinalize(t, task[t])]  BY <1>6 DEF FinalizeWrite
  <2>3. QED  BY <1>1, <2>1, <2>2 DEF Typed
<1>7. QED  BY <1>2, <1>3, <1>4, <1>5, <1>6 DEF Close

\* What every step does to the life of r.
LEMMA LifeSteps == ASSUME ConstantsAssumption, IInv, [Next]_vars, NEW r \in Runs
                   PROVE  Lived(r, \E p \in Processes : Crash(p))
<1> DEFINE crash == \E p \in Processes : Crash(p)
           e == Exec(r)
<1>1. crash \in BOOLEAN /\ Typed /\ e \in Tasks /\ e[1] = "exec" /\ e = <<"exec", r>>
  BY TaskNames DEF Exec, IInv
<1>2. UNCHANGED starter => \A x \in Slot : Marks(x, r)' => Marks(x, r)  BY DEF Marks
<1>3. CASE RecordPid(r)
  <2>1. task[e].pc = "child" /\ UNCHANGED <<child, task, starter>>  BY <1>3 DEF RecordPid, At, memory
  <2>2. Marked(r)' <=> Marked(r)  BY <2>1 DEF Marked, Marks
  <2>3. QED  BY <2>1, <2>2 DEF Lived
<1> SUFFICES ASSUME ~RecordPid(r) PROVE Lived(r, crash)  BY <1>3
<1>4. runs'[r].pid => runs[r].pid  BY RowSteps, PidStep
\* Steps that are not about the execution of r.
<1>5. ASSUME UNCHANGED <<child, starter>>, task'[e].pc = task[e].pc PROVE Lived(r, crash)
  BY <1>1, <1>2, <1>4, <1>5, LivesOn
<1>6. ASSUME NEW w \in TasksOf("wake"), \/ Wake(w) \/ \E a, i, kind : WakeBegin(w, a, i, kind)
      PROVE  Lived(r, crash)
  <2>1. w \in Tasks /\ w # e  BY <1>1 DEF TasksOf
  <2>2. UNCHANGED <<child, starter>> /\ task'[e] = task[e]
    BY <1>1, <1>6, <2>1 DEF Wake, WakeLockIssue, WakeCommit, WakeScan, WakeInsert, WakeBegin, Typed
  <2>3. QED  BY <1>5, <2>2
<1>7. ASSUME NEW b \in TasksOf("board"), \/ Board(b) \/ \E a, new : BoardBegin(b, a, new)
      PROVE  Lived(r, crash)
  <2>1. b \in Tasks /\ b # e  BY <1>1 DEF TasksOf
  <2>2. UNCHANGED <<child, starter>> /\ task'[e] = task[e]
    BY <1>1, <1>7, <2>1 DEF Board, BoardWrite, BoardList, BoardNext, BoardBegin, Typed
  <2>3. QED  BY <1>5, <2>2
<1>8. ASSUME NEW p \in TasksOf("reap"), ReapBegin(p) \/ Reap(p) PROVE Lived(r, crash)
  <2>1. p \in Tasks /\ p # e  BY <1>1 DEF TasksOf
  <2>2. UNCHANGED <<child, starter>> /\ task'[e] = task[e]
    BY <1>1, <1>8, <2>1 DEF Reap, ReapBegin, ReapDone, ReapSkip, ReapDetach, ReapLost, ReapRetry, Typed
  <2>3. QED  BY <1>5, <2>2
<1>9. ASSUME NEW q \in Runs, CancelBegin(q) PROVE Lived(r, crash)
  <2>1. <<"cancel", q>> \in Tasks /\ <<"cancel", q>> # e  BY <1>1, TaskNames
  <2>2. UNCHANGED <<child, starter>> /\ task'[e] = task[e]
    BY <1>1, <1>9, <2>1 DEF CancelBegin, Typed
  <2>3. QED  BY <1>5, <2>2
<1>10. ASSUME NEW q \in Runs, RecordPid(q) PROVE Lived(r, crash)
  BY <1>5, <1>10 DEF RecordPid, memory
<1>11. ASSUME NEW t \in Tasks, Close(t) PROVE Lived(r, crash)
  <2>1. UNCHANGED <<child, starter>> /\ (t # e => task'[e] = task[e])
    BY <1>1, <1>11 DEF Close, Store, SetWake, ReleaseNothing, ReleaseAndPromote, FinalizeRead,
       FinalizeWrite, Go, Typed
  <2>2. CASE t # e  BY <1>5, <2>1, <2>2
  <2>3. CASE t = e
    <3>1. task[e].pc \in Closing
      BY <1>11, <2>3 DEF Close, Store, SetWake, ReleaseNothing, ReleaseAndPromote, FinalizeRead,
         FinalizeWrite, At, Closing
    <3>2. task'[e].pc \notin Waiting  BY <1>11, <2>3, CloseGoes DEF Waiting, Launching
    <3>3. QED  BY <1>1, <1>2, <1>4, <2>1, <3>1, <3>2, LivesOn DEF Closing
  <2>4. QED  BY <2>2, <2>3
<1>12. ASSUME NEW p \in Processes, NEW a \in Agents, Start(p, a) PROVE Lived(r, crash)
  <2> DEFINE x == <<p, a>>
  <2>1. x \in Slot  BY DEF Slot
  <2>2. UNCHANGED child  BY <1>12 DEF Start, StartCount, StartSelect, StartCheck, StartClaim, StartSpawn
  <2>3. CASE StartCount(p, a) \/ StartSelect(p, a) \/ StartCheck(p, a)
    <3>1. \A y \in Slot : Marks(y, r)' => Marks(y, r)
      <4>1. PICK h : starter' = [starter EXCEPT ![x] = h] /\ h.pc # "mark"
        <5>1. starter[x] \in Starters  BY <1>1, <2>1 DEF Typed
        <5>2. CASE StartCount(p, a)
          <6>1. starter' = [starter EXCEPT ![x] = [starter[x] EXCEPT !.pc = "select"]]
            BY <1>1, <2>1, <5>2 DEF StartCount, Typed
          <6>2. [starter[x] EXCEPT !.pc = "select"].pc # "mark"  BY <5>1 DEF Starters
          <6> HIDE DEF x
          <6>3. QED  BY <6>1, <6>2
        <5>3. CASE StartSelect(p, a)
          <6>1. \/ starter' = [starter EXCEPT ![x] = NotStarting]
                \/ \E q \in Runs : starter' = [starter EXCEPT ![x] = [pc |-> "check", run |-> q]]
            BY <5>3 DEF StartSelect
          <6>2. /\ NotStarting.pc # "mark"
                /\ \A q \in Runs : [pc |-> "check", run |-> q].pc # "mark"
            BY DEF NotStarting
          <6> HIDE DEF x
          <6>3. QED  BY <6>1, <6>2
        <5>4. CASE StartCheck(p, a)
          <6>1. \/ starter' = [starter EXCEPT ![x] = NotStarting]
                \/ starter' = [starter EXCEPT ![x] = [starter[x] EXCEPT !.pc = "claim"]]
            BY <1>1, <2>1, <5>4 DEF StartCheck, Typed
          <6>2. QED  BY <5>1, <6>1 DEF NotStarting, Starters
        <5>5. QED  BY <2>3, <5>2, <5>3, <5>4
      <4> HIDE DEF x
      <4>2. QED  BY <1>1, <2>1, <4>1 DEF Marks, Typed
    <3>2. task'[e] = task[e]
      <4>1. starter[x].run \in Runs \/ ~StartCheck(p, a)
        BY <2>1 DEF StartCheck, IInv, StartersOK, StarterOK
      <4>2. e # <<"cancel", starter[x].run>>  BY <1>1
      <4>3. QED  BY <1>1, <2>3, <4>1, <4>2 DEF StartCount, StartSelect, StartCheck, Typed
    <3>3. QED  BY <1>1, <1>4, <2>2, <3>1, <3>2, LivesOn
  <2>4. CASE StartClaim(p, a)
    <3>1. Marked(r)' => Marked(r) \/ runs[r].status = "queued"
      <4>1. CASE r = starter[x].run /\ runs[r].status = "queued"  BY <4>1
      <4>2. CASE r # starter[x].run \/ runs[r].status # "queued"
        <5>1. \A y \in Slot : y # x => starter'[y] = starter[y]
          BY <1>1, <2>1, <2>4 DEF StartClaim, Typed
        <5>2. starter'[x] = NotStarting \/ (starter'[x].run = starter[x].run /\ r # starter[x].run)
          <6>1. starter[x] \in Starters  BY <1>1, <2>1 DEF Typed
          <6>2. [starter[x] EXCEPT !.pc = "mark"].run = starter[x].run  BY <6>1 DEF Starters
          <6>3. CASE runs[starter[x].run].status = "queued"
            <7>1. starter' = [starter EXCEPT ![x] = [starter[x] EXCEPT !.pc = "mark"]]
              BY <1>1, <2>1, <2>4, <6>3 DEF StartClaim, Typed
            <7>2. QED  BY <1>1, <2>1, <4>2, <6>2, <6>3, <7>1 DEF Typed
          <6>4. CASE runs[starter[x].run].status # "queued"
            <7>1. starter' = [starter EXCEPT ![x] = NotStarting]  BY <2>4, <6>4 DEF StartClaim
            <7>2. starter'[x] = NotStarting  BY <1>1, <2>1, <7>1 DEF Typed
            <7>3. QED  BY <7>2
          <6>5. QED  BY <6>3, <6>4
        <5> HIDE DEF x
        <5>3. QED  BY <5>1, <5>2 DEF Marked, Marks, NotStarting
      <4>3. QED  BY <4>1, <4>2
    <3>2. task' = task  BY <2>4 DEF StartClaim
    <3>3. QED  BY <1>4, <2>2, <3>1, <3>2 DEF Lived
  <2>5. CASE StartSpawn(p, a)
    <3>1. \A y \in Slot : Marks(y, r)' => Marks(y, r)
      BY <1>1, <2>1, <2>5 DEF StartSpawn, Marks, Typed, NotStarting
    <3>2. Marked(r)' => Marked(r)  BY <3>1 DEF Marked
    <3>3. starter[x].run \in Runs  BY <2>1, <2>5 DEF StartSpawn, IInv, StartersOK, StarterOK
    <3>4. CASE r = starter[x].run
      <4>1. Marked(r)  BY <2>1, <2>5, <3>4 DEF StartSpawn, Marked, Marks
      <4>2. task[e].pc = "idle" /\ child[r] = "none"  BY <4>1 DEF IInv, LivesOK, LifeOK
      <4>3. QED  BY <1>4, <2>2, <3>2, <4>1, <4>2 DEF Lived
    <3>5. CASE r # starter[x].run
      <4>1. task'[e] = task[e]
        BY <1>1, <2>5, <3>3, <3>5 DEF StartSpawn, Typed
      <4>2. QED  BY <1>4, <2>2, <3>2, <4>1 DEF Lived
    <3>6. QED  BY <3>4, <3>5
  <2>6. QED  BY <1>12, <2>3, <2>4, <2>5 DEF Start
\* Steps of the executions.
<1>13. ASSUME NEW q \in Runs, Execute(q) \/ ChildExits(q) \/ ExecThrows(q), q # r
       PROVE  Lived(r, crash)
  <2>1. UNCHANGED starter  BY <1>13 DEF Execute, ExecBegin, ExecSetup, ExecLaunch, ExecDecide, ChildExits, ExecThrows
  <2>2. Marked(r)' <=> Marked(r)  BY <2>1 DEF Marked, Marks
  <2>3. Exec(q) \in Tasks /\ Exec(q) # e  BY <1>1, <1>13, TaskNames DEF Exec
  <2>4. child'[r] = child[r] /\ task'[e] = task[e]
    BY <1>1, <1>13, <2>3 DEF Execute, ExecBegin, ExecSetup, ExecLaunch, ExecDecide, ChildExits,
       ExecThrows, Go, At, Typed
  <2>5. QED  BY <1>4, <2>2, <2>4 DEF Lived
<1>14. ASSUME ExecBegin(r) \/ ExecSetup(r) \/ ExecDecide(r) \/ ExecThrows(r) PROVE Lived(r, crash)
  <2>1. UNCHANGED <<child, starter>>
    BY <1>14 DEF ExecBegin, ExecSetup, ExecDecide, ExecThrows
  <2>2. task[e].pc # "child" /\ (task'[e].pc \notin Waiting \/ (task[e].pc \in Launching /\ task'[e].pc \in Launching))
    <3>1. CASE ExecBegin(r)
      BY <1>1, <3>1, Blank DEF ExecBegin, At, Typed, Locals, Launching, Waiting
    <3>2. CASE ExecSetup(r)
      BY <1>1, <3>2 DEF ExecSetup, Go, At, Typed, Locals, Launching, Waiting
    <3>3. CASE ExecDecide(r)
      BY <1>1, <3>3 DEF ExecDecide, At, Typed, Locals, Launching, Waiting
    <3>4. CASE ExecThrows(r)
      BY <1>1, <3>4 DEF ExecThrows, At, Typed, Locals, Launching, Waiting
    <3>5. QED  BY <1>14, <3>1, <3>2, <3>3, <3>4
  <2>3. QED  BY <1>1, <1>2, <1>4, <2>1, <2>2, LivesOn
<1>15. ASSUME ExecLaunch(r) PROVE Lived(r, crash)
  <2>1. task[e].pc = "launch" /\ task'[e].pc = "child" /\ UNCHANGED starter
    BY <1>1, <1>15, GoPlace DEF ExecLaunch, At, PCs
  <2>2. Marked(r)' <=> Marked(r)  BY <2>1 DEF Marked, Marks
  <2>3. QED  BY <1>4, <2>1, <2>2 DEF Lived, Waiting, Launching
<1>16. ASSUME ChildExits(r) PROVE Lived(r, crash)
  <2>1. UNCHANGED starter /\ child'[r] = "dead"  BY <1>1, <1>16 DEF ChildExits, Typed
  <2>2. task'[e] = task[e] \/ task'[e].pc = "decide"
    BY <1>1, <1>16 DEF ChildExits, At, Typed, Locals
  <2>3. Marked(r)' <=> Marked(r)  BY <2>1 DEF Marked, Marks
  <2>4. QED  BY <1>4, <2>1, <2>2, <2>3 DEF Lived, Waiting, Launching
<1>17. ASSUME NEW p \in Processes, Crash(p) PROVE Lived(r, crash)
  <2>1. crash /\ UNCHANGED child  BY <1>17 DEF Crash
  <2>2. task'[e] \in {task[e], Idle}  BY <1>1, <1>17 DEF Crash
  <2>3. \A x \in Slot : Marks(x, r)' => Marks(x, r)
    BY <1>1, <1>17 DEF Crash, Marks, NotStarting, Typed
  <2> HIDE DEF crash
  <2>4. QED  BY <1>1, <1>4, <2>1, <2>2, <2>3, Blank, LivesOn DEF Waiting, Launching
<1>18. CASE Finished \/ UNCHANGED vars  BY <1>5, <1>18 DEF Finished, vars
<1>19. ASSUME NEW q \in Runs, Execute(q) \/ ChildExits(q) \/ ExecThrows(q) PROVE Lived(r, crash)
  BY <1>13, <1>14, <1>15, <1>16, <1>19 DEF Execute
<1> HIDE DEF crash
<1>20. QED
  BY <1>6, <1>7, <1>8, <1>9, <1>10, <1>11, <1>12, <1>17, <1>18, <1>19 DEF Next

-----------------------------------------------------------------------------
(* The slot of a living child *)

\* Run r has its child, or is about to start it.
Holds(r) == child[r] = "alive" \/ task[Exec(r)].pc \in Waiting \/ Marked(r)
SlotsKept == \A r \in Runs : Holds(r) => runs[r].status \in {"running", "cancelled"}

\* What a claim and the end of a run write.
LEMMA ClaimFacts ==
  ASSUME IInv, NEW p \in Processes, NEW a \in Agents, StartClaim(p, a)
  PROVE  LET r == starter[<<p, a>>].run IN
         /\ <<p, a>> \in Slot /\ r \in Runs /\ runs[r].agent = a
         /\ starter[<<p, a>>].pc = "claim" /\ starter'[<<p, a>>].pc \in {"mark", "idle"}
         /\ UNCHANGED runs
            \/ /\ runs[r].status = "queued" /\ runs'[r].status = "running"
               /\ runs'[r].agent = a /\ runs'[r].issue = runs[r].issue
               /\ runs'[r].retryOf = runs[r].retryOf
               /\ \A q \in Runs : q # r => runs'[q] = runs[q]
<1> DEFINE x == <<p, a>>
           r == starter[x].run
<1>1. x \in Slot /\ x[2] = a /\ starter[x].pc = "claim"  BY DEF Slot, StartClaim
<1>2. r \in Runs /\ runs[r].agent = a  BY <1>1 DEF IInv, StartersOK, StarterOK
<1>3. "running" \in Statuses /\ Typed /\ starter[x] \in Starters  BY <1>1 DEF Statuses, IInv, Typed
<1>4. CASE runs[r].status # "queued"
  <2>1. starter' = [starter EXCEPT ![x] = NotStarting] /\ UNCHANGED runs  BY <1>4 DEF StartClaim
  <2>2. starter'[x].pc = "idle"  BY <1>1, <1>3, <2>1 DEF Typed, NotStarting
  <2>3. QED  BY <1>1, <1>2, <2>1, <2>2
<1>5. CASE runs[r].status = "queued"
  <2>1. /\ starter' = [starter EXCEPT ![x] = [starter[x] EXCEPT !.pc = "mark"]]
        /\ runs' = [runs EXCEPT ![r].status = "running"]
    BY <1>1, <1>3, <1>5 DEF StartClaim, Typed
  <2>2. starter'[x].pc = "mark"  BY <1>1, <1>3, <2>1 DEF Typed, Starters
  <2> HIDE DEF r, x
  <2>3. /\ runs'[r].status = "running" /\ runs'[r].agent = runs[r].agent
        /\ runs'[r].issue = runs[r].issue /\ runs'[r].retryOf = runs[r].retryOf
        /\ \A q \in Runs : q # r => runs'[q] = runs[q]
    BY <1>2, <1>3, <2>1, StatusFacts
  <2>4. QED  BY <1>1, <1>2, <1>5, <2>2, <2>3 DEF r, x
<1>6. QED  BY <1>4, <1>5

LEMMA Claimed ==
  ASSUME IInv, NEW p \in Processes, NEW a \in Agents, StartClaim(p, a), NEW r \in Runs
  PROVE  runs'[r].status \in {"running", runs[r].status}
BY ClaimFacts

LEMMA StoreFacts ==
  ASSUME IInv, NEW t \in Tasks, Store(t)
  PROVE  LET r == task[t].run IN
         /\ t[1] \in {"exec", "cancel", "board", "reap"} /\ task[t].pc = "store"
         /\ r \in Runs /\ runs[r].status # "none"
         /\ runs'[r].status \in Terminal /\ runs'[r].agent = runs[r].agent
         /\ runs'[r].issue = runs[r].issue /\ runs'[r].retryOf = runs[r].retryOf
         /\ \A q \in Runs : q # r => runs'[q] = runs[q]
         /\ t[1] \in {"cancel", "board"} => runs'[r].status = "cancelled"
         /\ t[1] = "exec" => t = Exec(r)
<1>1. task[t].pc = "store" /\ task[t].pc \in Closing /\ Typed  BY DEF Store, At, Closing, IInv
<1>2. /\ task[t].run \in Runs /\ runs[task[t].run].status # "none" /\ t[1] # "wake"
      /\ task[t].verdict \in Terminal \cup {"retrying"}
  BY <1>1, Closes
<1>3. PICK r \in Runs : r = task[t].run  BY <1>2
<1>4. PICK s \in Statuses : s = StatusOf(task[t].verdict) /\ s \in Terminal
  BY <1>2 DEF StatusOf, Terminal, Statuses
<1>5. runs' = [runs EXCEPT ![r].status = s]  BY <1>3, <1>4 DEF Store
<1>6. /\ runs'[r].status = s /\ runs'[r].agent = runs[r].agent
      /\ runs'[r].issue = runs[r].issue /\ runs'[r].retryOf = runs[r].retryOf
      /\ \A q \in Runs : q # r => runs'[q] = runs[q]
  BY <1>1, <1>5, StatusFacts
<1>7. Meant(t, task[t])  BY Here
<1>8. t[1] \in {"cancel", "board"} => s = "cancelled"  BY <1>1, <1>4, <1>7 DEF Meant, StatusOf
<1>9. t[1] = "exec" => t = Exec(r)  BY <1>1, <1>3, <1>7, TaskNames DEF Meant
<1>10. t[1] \in {"exec", "cancel", "board", "reap"}  BY <1>2, TaskNames
<1>11. QED  BY <1>1, <1>2, <1>3, <1>4, <1>6, <1>8, <1>9, <1>10

LEMMA SlotsKeptStep ==
  ASSUME ConstantsAssumption, Reapers = 0, IInv, IInv', SlotsKept, [Next]_vars
  PROVE  SlotsKept'
<1> SUFFICES ASSUME NEW r \in Runs, Holds(r)' PROVE runs'[r].status \in {"running", "cancelled"}
  BY DEF SlotsKept
<1>1. RowStep /\ Lived(r, \E p \in Processes : Crash(p))  BY RowSteps, LifeSteps
<1>2. LifeOK(r) /\ LifeOK(r)'  BY DEF IInv, LivesOK
<1>3. runs'[r].status \notin {"none", "queued"}
  BY <1>2 DEF LifeOK, Holds, Waiting, Launching
<1>4. Holds(r) \/ runs[r].status = "queued"
  BY <1>1 DEF Lived, Holds, Waiting, Launching
<1>5. runs[r].status \in {"running", "cancelled", "queued"}  BY <1>4 DEF SlotsKept
<1>6. runs'[r].status = runs[r].status => runs'[r].status \in {"running", "cancelled"}
  BY <1>3, <1>5
<1>7. CASE Kept  BY <1>6, <1>7 DEF Kept
<1>8. ASSUME NEW q \in Runs, NEW a, NEW i, Inserts(q, a, i, 0)
      PROVE  runs'[r].status \in {"running", "cancelled"}
  BY <1>3, <1>6, <1>8 DEF Inserts
<1>9. ASSUME NEW p \in Processes, NEW a \in Agents, StartClaim(p, a)
      PROVE  runs'[r].status \in {"running", "cancelled"}
  BY <1>6, <1>9, ClaimFacts
<1>10. ASSUME NEW t \in Tasks, Store(t)
       PROVE  runs'[r].status \in {"running", "cancelled"}
  <2>1. CASE r # task[t].run  BY <1>6, <1>10, <2>1, StoreFacts
  <2>2. CASE r = task[t].run
    <3>1. t[1] # "reap"  BY TaskNames
    <3>2. t[1] # "exec"
      <4>1. SUFFICES ASSUME t[1] = "exec" PROVE FALSE  OBVIOUS
      <4>2. task[Exec(r)].pc = "store"  BY <1>10, <2>2, <4>1, StoreFacts
      <4>3. QED  BY <1>2, <1>4, <4>2 DEF LifeOK, Holds, Waiting, Launching
    <3>3. QED  BY <1>10, <2>2, <3>1, <3>2, StoreFacts
  <2>3. QED  BY <2>1, <2>2
<1>11. ASSUME NEW p \in TasksOf("reap") PROVE FALSE  BY TaskNames DEF TasksOf
<1>12. QED  BY <1>1, <1>7, <1>8, <1>9, <1>10, <1>11 DEF RowStep

\* No slot is given away while the child that used it is alive, except by a cancellation:
\* a run ends by its own execution, which its child has left, as long as nothing reaps.
\* Crashes, exceptions and any number of service instances included.
THEOREM SlotsOutliveChildren ==
  ASSUME ConstantsAssumption, Reapers = 0 PROVE Spec => []ChildrenKeepTheirSlot
<1>1. Init => IInv /\ SlotsKept
  <2>1. ASSUME Init PROVE SlotsKept
    <3>1. \A r \in Runs : child[r] = "none" /\ task[Exec(r)].pc = "idle"
      BY <2>1, TaskNames, Blank DEF Init
    <3>2. \A r \in Runs : ~Marked(r)  BY <2>1 DEF Init, Slot, Marked, Marks, NotStarting
    <3>3. QED  BY <3>1, <3>2 DEF SlotsKept, Holds, Waiting, Launching
  <2>2. QED  BY <2>1, InitInv
<1>2. IInv /\ SlotsKept /\ [Next]_vars => (IInv /\ SlotsKept)'  BY StepInv, SlotsKeptStep
<1>3. IInv /\ SlotsKept => ChildrenKeepTheirSlot  BY DEF SlotsKept, Holds, ChildrenKeepTheirSlot
<1>4. QED  BY <1>1, <1>2, <1>3, PTL DEF Spec

-----------------------------------------------------------------------------
(* What the reaper has in hand *)

\* A pass that goes on keeps what it has in hand.
Carries(h, k) ==
    /\ k.left \subseteq h.left /\ k.pc # "store"
    /\ k.pc \in {"wake", "retry"} =>
        k.run = h.run /\ k.verdict = h.verdict /\ h.pc \in {"store", "wake"}
    /\ k.pc = "retry" => k.verdict = "retrying"

ReaperStep(p) ==
    \/ task'[p] = task[p]
    \/ /\ Carries(task[p], task'[p])
       /\ task[p].pc = "store" /\ task'[p].pc \in {"wake", "retry"} => Store(p)
    \/ ReapBegin(p)
    \/ ReapLost(p)

LEMMA IdleCarries == ASSUME NEW h PROVE Carries(h, Idle)
BY Blank DEF Carries

LEMMA CloseCarries ==
  ASSUME ConstantsAssumption, IInv, NEW p \in TasksOf("reap"), Close(p)
  PROVE  /\ Carries(task[p], task'[p])
         /\ task[p].pc = "store" /\ task'[p].pc \in {"wake", "retry"} => Store(p)
<1>1. p \in Tasks /\ p[1] = "reap" /\ task[p] \in Locals /\ Typed  BY Here DEF TasksOf, IInv
<1>2. CASE Store(p) \/ SetWake(p)
  <2>1. PICK q \in {"wake", "release", "retry"} :
          /\ Go(p, q) /\ task[p].pc \in {"store", "wake"}
          /\ q = "retry" => task[p].verdict = "retrying"
    BY <1>2 DEF Store, SetWake, At
  <2>2. q \in PCs  BY DEF PCs
  <2>3. task'[p].pc = q /\ task'[p] = [task[p] EXCEPT !.pc = q]
    BY <1>1, <2>1, <2>2, GoPlace DEF Go, Typed
  <2>4. /\ task'[p].run = task[p].run /\ task'[p].verdict = task[p].verdict
        /\ task'[p].left = task[p].left
    BY <1>1, <2>3 DEF Locals
  <2>5. task[p].pc = "store" => Store(p)  BY <1>2 DEF Store, SetWake, At
  <2>6. QED  BY <2>1, <2>3, <2>4, <2>5 DEF Carries
<1>3. CASE ReleaseNothing(p) \/ \E i \in Issues : ReleaseAndPromote(p, i)
  <2>1. PICK q \in {"next", "finalRead"} : Go(p, q)
    BY <1>3 DEF ReleaseNothing, ReleaseAndPromote, AfterRelease
  <2>2. q \in PCs  BY DEF PCs
  <2>3. task'[p].pc = q /\ task'[p] = [task[p] EXCEPT !.pc = q]
    BY <1>1, <2>1, <2>2, GoPlace DEF Go, Typed
  <2>4. task'[p].left = task[p].left  BY <1>1, <2>3 DEF Locals
  <2>5. QED  BY <2>3, <2>4 DEF Carries
<1>4. CASE FinalizeRead(p) \/ FinalizeWrite(p)
  <2>1. task'[p].left = task[p].left
    <3>1. \/ task' = [task EXCEPT ![p] = AfterFinalize(p, task[p])]
          \/ \E v : task' = [task EXCEPT ![p] = [task[p] EXCEPT !.pc = "finalWrite", !.verdict = v]]
      BY <1>4 DEF FinalizeRead, FinalizeWrite
    <3>2. AfterFinalize(p, task[p]).left = task[p].left  BY <1>1 DEF AfterFinalize, Locals
    <3>3. \A v : [task[p] EXCEPT !.pc = "finalWrite", !.verdict = v].left = task[p].left
      BY <1>1 DEF Locals
    <3>4. \/ task'[p] = AfterFinalize(p, task[p])
          \/ \E v : task'[p] = [task[p] EXCEPT !.pc = "finalWrite", !.verdict = v]
      BY <1>1, <3>1 DEF Typed
    <3>5. QED  BY <3>2, <3>3, <3>4
  <2>2. task'[p].pc \in {"idle", "next", "finalWrite"}
    <3>1. AfterFinalize(p, task[p]).pc \in {"idle", "next"}
      BY <1>1, <1>4, AfterFinalizeFacts DEF FinalizeRead, FinalizeWrite, At
    <3>2. \/ task' = [task EXCEPT ![p] = AfterFinalize(p, task[p])]
          \/ \E v : task' = [task EXCEPT ![p] = [task[p] EXCEPT !.pc = "finalWrite", !.verdict = v]]
      BY <1>4 DEF FinalizeRead, FinalizeWrite
    <3>3. \A v : [task[p] EXCEPT !.pc = "finalWrite", !.verdict = v].pc = "finalWrite"
      BY <1>1 DEF Locals
    <3>4. \/ task'[p] = AfterFinalize(p, task[p])
          \/ \E v : task'[p] = [task[p] EXCEPT !.pc = "finalWrite", !.verdict = v]
      BY <1>1, <3>2 DEF Typed
    <3>5. QED  BY <3>1, <3>3, <3>4
  <2>3. QED  BY <2>1, <2>2 DEF Carries
<1>5. QED  BY <1>2, <1>3, <1>4 DEF Close

LEMMA ReaperSteps ==
  ASSUME ConstantsAssumption, IInv, [Next]_vars, NEW p \in TasksOf("reap")
  PROVE  ReaperStep(p)
<1>1. p \in Tasks /\ p[1] = "reap" /\ task[p] \in Locals /\ Typed  BY Here DEF TasksOf, IInv
<1>2. task'[p] = task[p] => ReaperStep(p)  BY DEF ReaperStep
<1>3. ASSUME NEW w \in TasksOf("wake"), \/ Wake(w) \/ \E a, i, kind : WakeBegin(w, a, i, kind)
      PROVE  ReaperStep(p)
  <2>1. w # p  BY <1>1 DEF TasksOf
  <2>2. QED
    BY <1>1, <1>2, <1>3, <2>1 DEF Wake, WakeLockIssue, WakeCommit, WakeScan, WakeInsert, WakeBegin, Typed
<1>4. ASSUME NEW b \in TasksOf("board"), \/ Board(b) \/ \E a, new : BoardBegin(b, a, new)
      PROVE  ReaperStep(p)
  <2>1. b # p  BY <1>1 DEF TasksOf
  <2>2. QED
    BY <1>1, <1>2, <1>4, <2>1 DEF Board, BoardWrite, BoardList, BoardNext, BoardBegin, Typed
<1>5. ASSUME NEW q \in TasksOf("reap"), ReapBegin(q) \/ Reap(q), q # p PROVE ReaperStep(p)
  BY <1>1, <1>2, <1>5 DEF Reap, ReapBegin, ReapDone, ReapSkip, ReapDetach, ReapLost, ReapRetry, Typed
<1>6. ASSUME ReapBegin(p) \/ Reap(p) PROVE ReaperStep(p)
  <2>1. CASE ReapBegin(p) \/ ReapLost(p)  BY <2>1 DEF ReaperStep
  <2>2. CASE ReapDone(p)
    <3>1. task'[p] = Idle  BY <1>1, <2>2 DEF ReapDone, Typed
    <3>2. QED  BY <3>1, IdleCarries, Blank DEF ReaperStep
  <2>3. CASE ReapSkip(p) \/ ReapDetach(p)
    <3>1. PICK s \in task[p].left : task' = [task EXCEPT ![p].left = @ \ {s}]
      BY <2>3 DEF ReapSkip, ReapDetach
    <3>2. task'[p] = [task[p] EXCEPT !.left = task[p].left \ {s}] /\ task[p].pc = "next"
      BY <1>1, <2>3, <3>1 DEF Typed, ReapSkip, ReapDetach, At
    <3>3. task'[p].pc = "next" /\ task'[p].left \subseteq task[p].left  BY <1>1, <3>2 DEF Locals
    <3>4. QED  BY <3>3 DEF ReaperStep, Carries
  <2>4. CASE ReapRetry(p)
    <3>1. task'[p] = [task[p] EXCEPT !.pc = "finalRead", !.verdict = "failed"]
      BY <1>1, <2>4 DEF ReapRetry, Typed
    <3>2. task'[p].pc = "finalRead" /\ task'[p].left = task[p].left  BY <1>1, <3>1 DEF Locals
    <3>3. QED  BY <3>2 DEF ReaperStep, Carries
  <2>5. QED  BY <1>6, <2>1, <2>2, <2>3, <2>4 DEF Reap
<1>7. ASSUME NEW t \in Tasks, Close(t) PROVE ReaperStep(p)
  <2>1. CASE t = p  BY <1>7, <2>1, CloseCarries DEF ReaperStep
  <2>2. CASE t # p
    BY <1>1, <1>2, <1>7, <2>2 DEF Close, Store, SetWake, ReleaseNothing, ReleaseAndPromote,
       FinalizeRead, FinalizeWrite, Go, Typed
  <2>3. QED  BY <2>1, <2>2
<1>8. ASSUME NEW q \in Runs, CancelBegin(q) PROVE ReaperStep(p)
  <2>1. <<"cancel", q>> # p  BY <1>1
  <2>2. QED  BY <1>1, <1>2, <1>8, <2>1 DEF CancelBegin, Typed
<1>9. ASSUME NEW q \in Runs, Execute(q) \/ ChildExits(q) \/ ExecThrows(q) \/ RecordPid(q)
      PROVE  ReaperStep(p)
  <2>1. Exec(q) # p  BY <1>1 DEF Exec
  <2>2. QED
    BY <1>1, <1>2, <1>9, <2>1 DEF Execute, ExecBegin, ExecSetup, ExecLaunch, ExecDecide, ChildExits,
       ExecThrows, RecordPid, memory, Go, At, Typed
<1>10. ASSUME NEW x, NEW a \in Agents, Start(x, a) PROVE ReaperStep(p)
  <2> DEFINE r == starter[<<x, a>>].run
  <2>1. <<"cancel", r>> # p /\ <<"exec", r>> # p  BY <1>1
  <2>2. \/ task' = task
        \/ \E h : task' = [task EXCEPT ![<<"cancel", r>>] = h]
        \/ \E h : task' = [task EXCEPT ![<<"exec", r>>] = h]
    BY <1>10 DEF Start, StartCount, StartSelect, StartCheck, StartClaim, StartSpawn
  <2> HIDE DEF r
  <2>3. QED  BY <1>1, <1>2, <2>1, <2>2 DEF Typed
<1>11. ASSUME NEW x \in Processes, Crash(x) PROVE ReaperStep(p)
  <2>1. task'[p] \in {task[p], Idle}  BY <1>1, <1>11 DEF Crash
  <2>2. QED  BY <1>2, <2>1, IdleCarries, Blank DEF ReaperStep
<1>12. CASE Finished \/ UNCHANGED vars  BY <1>2, <1>12 DEF Finished, vars
<1>13. QED
  BY <1>3, <1>4, <1>5, <1>6, <1>7, <1>8, <1>9, <1>10, <1>11, <1>12 DEF Next

\* A retry takes the place of the run it retries.
LEMMA RetryFacts ==
  ASSUME IInv, NEW p \in TasksOf("reap"), ReapRetry(p)
  PROVE  LET r == task[p].run IN
         /\ p \in Tasks /\ task[p].pc = "retry" /\ r \in Runs /\ runs[r].status # "none"
         /\ \E q \in Runs, a \in Agents, i \in Issues \cup {NoIssue} : Inserts(q, a, i, r)
<1>1. p \in Tasks /\ task[p].pc = "retry" /\ Typed  BY DEF TasksOf, ReapRetry, At, IInv
<1>2. PICK o \in Runs : o = task[p].run /\ runs[o].status # "none"  BY <1>1, Closes DEF Closing
<1>3. PICK a \in Agents, i \in Issues \cup {NoIssue} : a = runs[o].agent /\ i = runs[o].issue
  BY <1>1, <1>2 DEF IInv, RowsOK, RowOK, Typed, Rows
<1>4. PICK q \in Runs : NewRun(q) /\ runs' = [runs EXCEPT ![q] = QueuedRun(runs[o].agent, runs[o].issue, o)]
  BY <1>2 DEF ReapRetry
<1>5. runs' = [runs EXCEPT ![q] = QueuedRun(a, i, o)]  BY <1>3, <1>4
<1>6. Inserts(q, a, i, o)  BY <1>1, <1>4, <1>5, Inserted
<1>7. QED  BY <1>1, <1>2, <1>6

-----------------------------------------------------------------------------
(* Children of a former server *)

\* The recorded child of r is still waited for.
Attached(r) == runs[r].pid /\ child[r] = "alive" => task[Exec(r)].pc = "child"

\* The reaper gives up only what it saw recorded and then dead, or what is attached: a
\* child that was recorded after the reaper had read its run is waited for by this
\* server.
SeenOK(p) ==
    /\ \A s \in task[p].left : s.pid \/ Attached(s.run)
    /\ task[p].pc = "store" => Attached(task[p].run)
AllSeen == \A p \in TasksOf("reap") : SeenOK(p)

LEMMA AttachedStays ==
  ASSUME NEW r \in Runs, Attached(r), Lived(r, FALSE) PROVE Attached(r)'
BY DEF Attached, Lived

LEMMA SeenStep ==
  ASSUME ConstantsAssumption, "worker" \notin Services, IInv, IInv', AllSeen, [Next]_vars
  PROVE  AllSeen'
<1> SUFFICES ASSUME NEW p \in TasksOf("reap") PROVE SeenOK(p)'  BY DEF AllSeen, TasksOf
<1>1. /\ p \in Tasks /\ p[1] = "reap" /\ SeenOK(p) /\ Typed
      /\ task[p] \in Locals /\ task'[p] \in Locals
  BY DEF TasksOf, AllSeen, IInv, Typed
<1>2. CASE \E q \in Processes : Crash(q)
  <2>1. Processes \subseteq {"server"}  BY DEF Processes, ProcessOf
  <2>2. Crash("server")  BY <1>2, <2>1
  <2>3. task'[p] = Idle  BY <1>1, <2>2 DEF Crash
  <2>4. QED  BY <2>3, Blank DEF SeenOK
<1>3. CASE ~ \E q \in Processes : Crash(q)
  <2>1. \A r \in Runs : Lived(r, FALSE)
    <3> SUFFICES ASSUME NEW r \in Runs PROVE Lived(r, FALSE)  OBVIOUS
    <3>1. Lived(r, \E q \in Processes : Crash(q))  BY LifeSteps
    <3>2. QED  BY <1>3, <3>1 DEF Lived
  <2>2. \A r \in Runs : Attached(r) => Attached(r)'  BY <2>1, AttachedStays
  <2>4. (\A s \in task[p].left : s.run \in Runs) /\ (task[p].pc = "store" => task[p].run \in Runs)
    BY <1>1, Here DEF Locals, Snapshots, Meant, Working, Closing
  <2>5. CASE task'[p] = task[p]
    <3>1. \A s \in task'[p].left : s.pid \/ Attached(s.run)'
      BY <1>1, <2>2, <2>4, <2>5 DEF SeenOK
    <3>2. task'[p].pc = "store" => Attached(task[p].run)'
      BY <1>1, <2>2, <2>4, <2>5 DEF SeenOK
    <3>3. QED  BY <2>5, <3>1, <3>2 DEF SeenOK, Attached
  <2>6. CASE Carries(task[p], task'[p])
    <3>1. \A s \in task'[p].left : s.pid \/ Attached(s.run)'
      BY <1>1, <2>2, <2>4, <2>6 DEF SeenOK, Carries
    <3>2. task'[p].pc # "store"  BY <2>6 DEF Carries
    <3>3. QED  BY <3>1, <3>2 DEF SeenOK, Attached
  <2>7. CASE ReapBegin(p)
    <3>1. PICK S \in SUBSET Runs : task' = [task EXCEPT ![p].pc = "next", ![p].left = Snapshot(S)]
      BY <2>7 DEF ReapBegin
    <3>2. task'[p].left = Snapshot(S) /\ task'[p].pc = "next" /\ UNCHANGED <<runs, child>>
      <4>1. UNCHANGED <<runs, child>>  BY <2>7 DEF ReapBegin, rowVars
      <4> DEFINE left == Snapshot(S)
      <4> HIDE DEF left
      <4>2. task' = [task EXCEPT ![p] = [task[p] EXCEPT !.pc = "next", !.left = left]]
        BY <1>1, <3>1 DEF Typed, left
      <4>3. task'[p].left = left /\ task'[p].pc = "next"  BY <1>1, <4>2 DEF Typed, Locals
      <4>4. QED  BY <4>1, <4>3 DEF left
    <3>3. \A s \in Snapshot(S) : s.run \in Runs /\ s.pid = runs[s.run].pid  BY DEF Snapshot
    <3>4. \A s \in task'[p].left : s.pid \/ ~runs'[s.run].pid  BY <3>2, <3>3
    <3>5. QED  BY <3>2, <3>4 DEF SeenOK, Attached
  <2>8. CASE ReapLost(p)
    <3> DEFINE v(s) == IF s.pid /\ s.retryOf = 0 THEN "retrying" ELSE "failed"
    <3>1. PICK s \in task[p].left :
            /\ ~(s.pid /\ child[s.run] = "alive")
            /\ task' = [task EXCEPT ![p].pc = "store", ![p].run = s.run, ![p].left = @ \ {s}, ![p].verdict = v(s)]
      BY <2>8 DEF ReapLost
    <3> HIDE DEF v
    <3>2. task' = [task EXCEPT ![p] = [task[p] EXCEPT !.pc = "store", !.run = s.run,
                                                       !.left = task[p].left \ {s}, !.verdict = v(s)]]
      BY <1>1, <3>1 DEF Typed
    <3>3. task'[p].run = s.run /\ task'[p].left = task[p].left \ {s}
      BY <1>1, <3>2 DEF Typed, Locals
    <3>4. Attached(s.run)  BY <1>1, <3>1 DEF SeenOK, Attached
    <3>5. Attached(s.run)'  BY <2>2, <2>4, <3>4
    <3>6. \A s0 \in task'[p].left : s0.pid \/ Attached(s0.run)'
      BY <1>1, <2>2, <2>4, <3>3 DEF SeenOK
    <3>7. QED  BY <3>3, <3>5, <3>6 DEF SeenOK, Attached
  <2>9. ReaperStep(p)  BY ReaperSteps
  <2>10. QED  BY <2>5, <2>6, <2>7, <2>8, <2>9 DEF ReaperStep
<1>4. QED  BY <1>2, <1>3

\* With one process, no run that a former server left behind is given up while its
\* recorded child is alive, however many reaper passes overlap and wherever the server
\* stops.
THEOREM LiveChildrenAreSpared ==
  ASSUME ConstantsAssumption, "worker" \notin Services PROVE Spec => LiveChildrenKeepTheirRun
<1> DEFINE A == \A r \in Runs :
                  /\ runs[r].status = "running" /\ runs'[r].status = "failed"
                  /\ runs[r].pid /\ ~Executing(r)
                  => child[r] = "dead"
<1>1. Init => IInv /\ AllSeen
  <2>1. ASSUME Init PROVE AllSeen  BY <2>1, Blank DEF Init, AllSeen, SeenOK, TasksOf
  <2>2. QED  BY <2>1, InitInv
<1>2. IInv /\ AllSeen /\ [Next]_vars => (IInv /\ AllSeen)'  BY StepInv, SeenStep
<1>3. IInv /\ AllSeen /\ [Next]_vars => A
  <2> SUFFICES ASSUME IInv, AllSeen, [Next]_vars, NEW r \in Runs, runs[r].status = "running",
                      runs'[r].status = "failed", runs[r].pid, ~Executing(r)
               PROVE  child[r] = "dead"
    OBVIOUS
  <2>1. child[r] \in {"alive", "dead"}  BY DEF IInv, Typed, LivesOK, LifeOK
  <2>2. ~Kept  BY DEF Kept
  <2>3. ASSUME NEW q \in Runs, NEW a, NEW i, NEW o, Inserts(q, a, i, o) PROVE FALSE
    BY <2>3 DEF Inserts
  <2>4. ASSUME NEW p \in Processes, NEW a \in Agents, StartClaim(p, a) PROVE FALSE
    <3>1. runs'[r].status \in {"running", runs[r].status}  BY <2>4, Claimed
    <3>2. QED  BY <3>1
  <2>5. ASSUME NEW t \in Tasks, Store(t) PROVE child[r] = "dead"
    <3>1. r = task[t].run /\ t[1] \in {"exec", "reap"} /\ task[t].pc = "store"
      BY <2>5, StoreFacts
    <3>2. CASE t[1] = "exec"
      <4>1. task[Exec(r)].pc = "store"  BY <2>5, <3>1, <3>2, StoreFacts
      <4>2. QED  BY <4>1 DEF Executing
    <3>3. CASE t[1] = "reap"
      <4>1. Attached(r)  BY <3>1, <3>3 DEF AllSeen, SeenOK, TasksOf
      <4>2. QED  BY <2>1, <4>1 DEF Attached, Executing
    <3>4. QED  BY <3>1, <3>2, <3>3
  <2>6. ASSUME NEW p \in TasksOf("reap"), ReapDetach(p) PROVE FALSE
    <3>1. PICK s \in task[p].left :
            runs' = IF s.detached THEN runs
                    ELSE [runs EXCEPT ![s.run].status = "running", ![s.run].detached = TRUE]
      BY <2>6 DEF ReapDetach
    <3>2. s.run \in Runs  BY <2>6, LeftFacts DEF ReapDetach
    <3>3. ~s.detached  BY <3>1
    <3>4. /\ runs'[s.run].status = "running"
          /\ \A q \in Runs : q # s.run => runs'[q] = runs[q]
      BY <3>1, <3>2, <3>3, DetachFacts DEF IInv
    <3>5. QED  BY <3>4
  <2>7. ASSUME NEW p \in TasksOf("reap"), ReapRetry(p) PROVE FALSE
    BY <2>3, <2>7, RetryFacts
  <2>8. QED  BY <2>2, <2>3, <2>4, <2>5, <2>6, <2>7, RowSteps DEF RowStep
<1>4. (IInv /\ AllSeen /\ [Next]_vars => A) => (IInv /\ AllSeen /\ [Next]_vars => [A]_vars)
  OBVIOUS
<1>5. QED  BY <1>1, <1>2, <1>3, PTL DEF Spec, LiveChildrenKeepTheirRun

-----------------------------------------------------------------------------
(* Retries of lost runs *)

Unretried(r) == \A q \in Runs : runs[q].retryOf # r
Fresh(r) == \A q \in Runs : runs'[q].retryOf # r

\* What was retried has ended, is no retry, and was retried once.
ParentOK(r) ==
    runs[r].retryOf # 0 =>
        /\ runs[runs[r].retryOf].retryOf = 0 /\ runs[runs[r].retryOf].status \in Terminal
        /\ \A q \in Runs : runs[q].retryOf = runs[r].retryOf => q = r
ParentsOK == \A r \in Runs : ParentOK(r)

Retrying(h) == h.pc \in {"store", "wake", "retry"} /\ h.verdict = "retrying"

\* The runs the reaper has in hand were not retried, and it has each of them once.
HandsOK(h) ==
    /\ \A s \in h.left :
        /\ s.retryOf = runs[s.run].retryOf /\ Unretried(s.run)
        /\ \A z \in h.left : z.run = s.run => z = s
    /\ Retrying(h) =>
        /\ runs[h.run].retryOf = 0 /\ Unretried(h.run) /\ \A s \in h.left : s.run # h.run
        /\ h.pc # "store" => runs[h.run].status \in Terminal
    /\ h.pc = "retry" => h.verdict = "retrying"
AllHandsOK == \A p \in TasksOf("reap") : HandsOK(task[p])

RetryInv == ParentsOK /\ AllHandsOK

\* What the reaper has in hand are runs.
LEMMA InHandRuns ==
  ASSUME IInv, NEW p \in TasksOf("reap")
  PROVE  /\ p \in Tasks /\ p[1] = "reap" /\ task[p] \in Locals /\ Typed
         /\ \A s \in task[p].left : s \in Snapshots /\ s.run \in Runs /\ runs[s.run].status # "none"
         /\ Retrying(task[p]) => task[p].run \in Runs /\ runs[task[p].run].status # "none"
<1>1. p \in Tasks /\ p[1] = "reap" /\ Typed  BY DEF TasksOf, IInv
<1>2. task[p] \in Locals /\ Meant(p, task[p]) /\ Known(p, task[p])  BY <1>1, Here
<1>3. Retrying(task[p]) => task[p].pc \in Working  BY DEF Retrying, Working, Closing
<1>4. QED  BY <1>1, <1>2, <1>3 DEF Locals, Snapshots, Meant, Known

\* Rows that keep their origin, and their end.
Settled == \A r \in Runs : /\ runs'[r].retryOf = runs[r].retryOf
                           /\ runs[r].status \in Terminal => runs'[r].status \in Terminal

LEMMA SettledSteps ==
  ASSUME ConstantsAssumption, IInv, RowStep
  PROVE  Settled \/ \E p \in TasksOf("reap") : ReapDetach(p) \/ ReapRetry(p)
<1>1. CASE Kept  BY <1>1 DEF Kept, Settled
<1>2. ASSUME NEW q \in Runs, NEW a, NEW i, Inserts(q, a, i, 0) PROVE Settled
  BY <1>2 DEF Inserts, Settled, IInv, RowsOK, RowOK, Terminal
<1>3. ASSUME NEW p \in Processes, NEW a \in Agents, StartClaim(p, a) PROVE Settled
  <2>1. CASE UNCHANGED runs  BY <2>1 DEF Settled
  <2>2. CASE ~UNCHANGED runs
    <3>1. PICK r \in Runs : r = starter[<<p, a>>].run  BY <1>3, ClaimFacts
    <3>2. /\ runs[r].status = "queued" /\ runs'[r].retryOf = runs[r].retryOf
          /\ \A q \in Runs : q # r => runs'[q] = runs[q]
      BY <1>3, <2>2, <3>1, ClaimFacts
    <3>3. QED  BY <3>2 DEF Settled, Terminal
  <2>3. QED  BY <2>1, <2>2
<1>4. ASSUME NEW t \in Tasks, Store(t) PROVE Settled
  <2>1. PICK r \in Runs : r = task[t].run  BY <1>4, StoreFacts
  <2>2. /\ runs'[r].status \in Terminal /\ runs'[r].retryOf = runs[r].retryOf
        /\ \A q \in Runs : q # r => runs'[q] = runs[q]
    BY <1>4, <2>1, StoreFacts
  <2>3. QED  BY <2>2 DEF Settled
<1>5. QED  BY <1>1, <1>2, <1>3, <1>4 DEF RowStep

\* No retry is made.
LEMMA SettledStep ==
  ASSUME ConstantsAssumption, IInv, RetryInv, Settled, [Next]_vars
  PROVE  RetryInv'
<1>1. \A r \in Runs : Fresh(r) <=> Unretried(r)  BY DEF Fresh, Unretried, Settled
<1>2. ParentsOK'
  <2> SUFFICES ASSUME NEW r \in Runs PROVE ParentOK(r)'  BY DEF ParentsOK
  <2>1. ParentOK(r) /\ runs[r].retryOf \in Runs \cup {0}
    BY DEF RetryInv, ParentsOK, IInv, Typed, Rows
  <2>2. QED  BY <2>1 DEF ParentOK, Settled
<1>3. AllHandsOK'
  <2> SUFFICES ASSUME NEW p \in TasksOf("reap") PROVE HandsOK(task[p])'
    BY DEF AllHandsOK, TasksOf
  <2>1. /\ p \in Tasks /\ p[1] = "reap" /\ task[p] \in Locals /\ Typed /\ HandsOK(task[p])
        /\ \A s \in task[p].left : s.run \in Runs
        /\ Retrying(task[p]) => task[p].run \in Runs
    BY InHandRuns DEF RetryInv, AllHandsOK
  <2>2. ASSUME NEW left, NEW h, left \subseteq task[p].left, h = task'[p], h.left = left
        PROVE  \A s \in h.left :
                  /\ s.retryOf = runs'[s.run].retryOf /\ Fresh(s.run)
                  /\ \A z \in h.left : z.run = s.run => z = s
    BY <1>1, <2>1, <2>2 DEF HandsOK, Settled
  <2>3. CASE task'[p] = task[p]
    <3>1. \A s \in task'[p].left :
            /\ s.retryOf = runs'[s.run].retryOf /\ Fresh(s.run)
            /\ \A z \in task'[p].left : z.run = s.run => z = s
      BY <2>2, <2>3
    <3>2. ASSUME Retrying(task[p])
          PROVE  /\ runs'[task[p].run].retryOf = 0 /\ Fresh(task[p].run)
                 /\ \A s \in task[p].left : s.run # task[p].run
                 /\ task[p].pc # "store" => runs'[task[p].run].status \in Terminal
      <4>1. PICK r \in Runs : r = task[p].run  BY <2>1, <3>2
      <4>2. /\ runs[r].retryOf = 0 /\ Unretried(r) /\ \A s \in task[p].left : s.run # r
            /\ task[p].pc # "store" => runs[r].status \in Terminal
        BY <2>1, <3>2, <4>1 DEF HandsOK
      <4>3. Fresh(r)  BY <1>1, <4>2
      <4>4. Fresh(task[p].run)  BY <4>1, <4>3
      <4>5. QED  BY <4>1, <4>2, <4>4 DEF Settled
    <3>3. task[p].pc = "retry" => task[p].verdict = "retrying"  BY <2>1 DEF HandsOK
    <3>4. QED  BY <2>3, <3>1, <3>2, <3>3 DEF HandsOK, Retrying, Unretried, Fresh
  <2>4. CASE /\ Carries(task[p], task'[p])
             /\ task[p].pc = "store" /\ task'[p].pc \in {"wake", "retry"} => Store(p)
    <3>1. \A s \in task'[p].left :
            /\ s.retryOf = runs'[s.run].retryOf /\ Fresh(s.run)
            /\ \A z \in task'[p].left : z.run = s.run => z = s
      BY <2>2, <2>4 DEF Carries
    <3>2. Retrying(task'[p]) => Retrying(task[p]) /\ task'[p].run = task[p].run
      BY <2>4 DEF Carries, Retrying
    <3>3. ASSUME Retrying(task'[p])
          PROVE  /\ runs'[task'[p].run].retryOf = 0 /\ Fresh(task'[p].run)
                 /\ \A s \in task'[p].left : s.run # task'[p].run
      <4>1. PICK r \in Runs : r = task[p].run /\ r = task'[p].run  BY <2>1, <3>2, <3>3
      <4>2. runs[r].retryOf = 0 /\ Unretried(r) /\ \A s \in task[p].left : s.run # r
        BY <2>1, <3>2, <3>3, <4>1 DEF HandsOK
      <4>3. Fresh(r)  BY <1>1, <4>2
      <4>4. Fresh(task'[p].run)  BY <4>1, <4>3
      <4>5. QED  BY <2>4, <4>1, <4>2, <4>4 DEF Settled, Carries
    <3>4. Retrying(task'[p]) => runs'[task'[p].run].status \in Terminal
      <4>1. task[p].pc = "store" /\ Retrying(task'[p]) => Store(p)  BY <2>4 DEF Retrying, Carries
      <4>2. Store(p) => runs'[task[p].run].status \in Terminal  BY <2>1, StoreFacts
      <4>3. QED  BY <2>1, <3>2, <4>1, <4>2 DEF HandsOK, Settled
    <3>5. task'[p].pc = "retry" => task'[p].verdict = "retrying"  BY <2>4 DEF Carries
    <3>6. HandsOK(task[p])' <=>
            /\ \A s \in task'[p].left :
                /\ s.retryOf = runs'[s.run].retryOf /\ Fresh(s.run)
                /\ \A z \in task'[p].left : z.run = s.run => z = s
            /\ Retrying(task'[p]) =>
                /\ runs'[task'[p].run].retryOf = 0 /\ Fresh(task'[p].run)
                /\ \A s \in task'[p].left : s.run # task'[p].run
                /\ task'[p].pc # "store" => runs'[task'[p].run].status \in Terminal
            /\ task'[p].pc = "retry" => task'[p].verdict = "retrying"
      BY DEF HandsOK, Retrying, Unretried, Fresh
    <3>7. QED  BY <3>1, <3>3, <3>4, <3>5, <3>6
  <2>5. CASE ReapBegin(p)
    <3>1. PICK S \in SUBSET {r \in Runs : runs[r].status = "running"} :
            task' = [task EXCEPT ![p].pc = "next", ![p].left = Snapshot(S)]
      BY <2>5 DEF ReapBegin
    <3> DEFINE left == Snapshot(S)
    <3>2. \A s \in left : /\ s.run \in S /\ s.retryOf = runs[s.run].retryOf
                          /\ \A z \in left : z.run = s.run => z = s
      BY DEF Snapshot
    <3>3. \A r \in S : Unretried(r)
      <4>1. 0 \notin Runs  BY DEF Runs
      <4>2. QED  BY <4>1 DEF Unretried, RetryInv, ParentsOK, ParentOK, Terminal
    <3> HIDE DEF left
    <3>4. task' = [task EXCEPT ![p] = [task[p] EXCEPT !.pc = "next", !.left = left]]
      BY <2>1, <3>1 DEF Typed, left
    <3>5. task'[p].left = left /\ task'[p].pc = "next"  BY <2>1, <3>4 DEF Typed, Locals
    <3>6. \A s \in task'[p].left :
            /\ s.retryOf = runs'[s.run].retryOf /\ Fresh(s.run)
            /\ \A z \in task'[p].left : z.run = s.run => z = s
      BY <1>1, <3>2, <3>3, <3>5 DEF Settled
    <3>7. QED  BY <3>5, <3>6 DEF HandsOK, Retrying, Unretried, Fresh
  <2>6. CASE ReapLost(p)
    <3>1. PICK s \in task[p].left, v \in {"retrying", "failed"} :
            /\ v = "retrying" => s.retryOf = 0
            /\ task' = [task EXCEPT ![p].pc = "store", ![p].run = s.run, ![p].left = @ \ {s}, ![p].verdict = v]
      BY <2>6 DEF ReapLost
    <3>2. task' = [task EXCEPT ![p] = [task[p] EXCEPT !.pc = "store", !.run = s.run,
                                                       !.left = task[p].left \ {s}, !.verdict = v]]
      BY <2>1, <3>1 DEF Typed
    <3>3. /\ task'[p].pc = "store" /\ task'[p].run = s.run /\ task'[p].verdict = v
          /\ task'[p].left = task[p].left \ {s}
      BY <2>1, <3>2 DEF Typed, Locals
    <3>4. \A z \in task'[p].left :
            /\ z.retryOf = runs'[z.run].retryOf /\ Fresh(z.run)
            /\ \A y \in task'[p].left : y.run = z.run => y = z
      BY <2>2, <3>3
    <3>5. Fresh(s.run) /\ (v = "retrying" => runs'[s.run].retryOf = 0)
      BY <1>1, <2>1, <3>1 DEF HandsOK, Settled
    <3>6. \A z \in task'[p].left : z.run # s.run  BY <2>1, <3>3 DEF HandsOK
    <3>7. QED  BY <3>3, <3>4, <3>5, <3>6 DEF HandsOK, Retrying, Unretried, Fresh
  <2>7. ReaperStep(p)  BY ReaperSteps
  <2>8. QED  BY <2>3, <2>4, <2>5, <2>6, <2>7 DEF ReaperStep
<1>4. QED  BY <1>2, <1>3 DEF RetryInv

\* The reaper goes on and no other pass is in progress.
LEMMA RestKeptOK ==
  ASSUME IInv, IInv', NEW p \in TasksOf("reap"), \A q \in TasksOf("reap") : q = p,
         task'[p].pc \notin {"store", "wake", "retry"}, task'[p].left \subseteq task[p].left,
         HandsOK(task[p]),
         \A s \in task[p].left : runs'[s.run].retryOf = runs[s.run].retryOf /\ Fresh(s.run)
  PROVE  AllHandsOK'
<1>1. \A s \in task'[p].left :
        /\ s.retryOf = runs'[s.run].retryOf /\ Fresh(s.run)
        /\ \A z \in task'[p].left : z.run = s.run => z = s
  BY DEF HandsOK
<1>2. HandsOK(task[p])'  BY <1>1 DEF HandsOK, Retrying, Unretried, Fresh
<1>3. QED  BY <1>2 DEF AllHandsOK, TasksOf

LEMMA DetachStep ==
  ASSUME ConstantsAssumption, IInv, IInv', RetryInv, NEW p \in TasksOf("reap"), ReapDetach(p),
         \A q \in TasksOf("reap") : q = p
  PROVE  RetryInv'
<1>1. /\ p \in Tasks /\ task[p] \in Locals /\ Typed /\ HandsOK(task[p])
      /\ \A s \in task[p].left : s.run \in Runs
  BY InHandRuns DEF RetryInv, AllHandsOK
<1>2. PICK s \in task[p].left :
        /\ task' = [task EXCEPT ![p].left = @ \ {s}]
        /\ runs' = IF s.detached THEN runs
                   ELSE [runs EXCEPT ![s.run].status = "running", ![s.run].detached = TRUE]
  BY DEF ReapDetach
<1>3. \A r \in Runs : runs'[r].retryOf = runs[r].retryOf /\ (r # s.run => runs'[r] = runs[r])
  <2>1. CASE s.detached  BY <1>2, <2>1
  <2>2. CASE ~s.detached
    <3>1. s.run \in Runs /\ runs' = [runs EXCEPT ![s.run].status = "running", ![s.run].detached = TRUE]
      BY <1>1, <1>2, <2>2
    <3>2. /\ runs'[s.run].retryOf = runs[s.run].retryOf
          /\ \A q \in Runs : q # s.run => runs'[q] = runs[q]
      BY <1>1, <3>1, DetachFacts
    <3>3. QED  BY <3>2
  <2>3. QED  BY <2>1, <2>2
<1>4. \A r \in Runs : Fresh(r) <=> Unretried(r)  BY <1>3 DEF Fresh, Unretried
<1>5. ParentsOK'
  <2> SUFFICES ASSUME NEW r \in Runs PROVE ParentOK(r)'  BY DEF ParentsOK
  <2>1. ParentOK(r) /\ runs[r].retryOf \in Runs \cup {0}
    BY DEF RetryInv, ParentsOK, IInv, Typed, Rows
  <2>2. runs[r].retryOf # s.run  BY <1>1 DEF HandsOK, Unretried
  <2>3. QED  BY <1>3, <2>1, <2>2 DEF ParentOK
<1>6. task'[p].pc = "next" /\ task'[p].left \subseteq task[p].left
  <2>1. task'[p] = [task[p] EXCEPT !.left = task[p].left \ {s}] /\ task[p].pc = "next"
    BY <1>1, <1>2 DEF Typed, ReapDetach, At
  <2>2. QED  BY <1>1, <2>1 DEF Locals
<1>7. \A z \in task[p].left : runs'[z.run].retryOf = runs[z.run].retryOf /\ Fresh(z.run)
  BY <1>1, <1>3, <1>4 DEF HandsOK
<1>8. AllHandsOK'  BY <1>1, <1>6, <1>7, RestKeptOK
<1>9. QED  BY <1>5, <1>8 DEF RetryInv

\* The one step that makes a retry: of a run that ended, was not retried and is not in
\* what is left of the pass.
LEMMA RetryStep ==
  ASSUME ConstantsAssumption, IInv, IInv', RetryInv, NEW p \in TasksOf("reap"), ReapRetry(p),
         \A q \in TasksOf("reap") : q = p
  PROVE  RetryInv'
<1>1. /\ p \in Tasks /\ task[p] \in Locals /\ Typed /\ HandsOK(task[p])
      /\ \A s \in task[p].left : s.run \in Runs /\ runs[s.run].status # "none"
  BY InHandRuns DEF RetryInv, AllHandsOK
<1>2. PICK r \in Runs : r = task[p].run /\ runs[r].status # "none" /\ task[p].pc = "retry"
  BY RetryFacts
<1>3. PICK q \in Runs, a \in Agents, i \in Issues \cup {NoIssue} : Inserts(q, a, i, r)
  BY <1>2, RetryFacts
<1>4. Retrying(task[p])  BY <1>1, <1>2 DEF HandsOK, Retrying
<1>5. /\ runs[r].retryOf = 0 /\ Unretried(r) /\ runs[r].status \in Terminal
      /\ \A s \in task[p].left : s.run # r
  BY <1>1, <1>2, <1>4 DEF HandsOK
<1>6. /\ q # r /\ runs'[q].retryOf = r /\ runs[q].retryOf = 0 /\ runs[q].status = "none"
      /\ \A o \in Runs : o # q => runs'[o] = runs[o]
  BY <1>2, <1>3 DEF Inserts, IInv, RowsOK, RowOK
<1>7. ParentsOK'
  <2> SUFFICES ASSUME NEW x \in Runs PROVE ParentOK(x)'  BY DEF ParentsOK
  <2>1. CASE x = q
    <3>1. runs'[r] = runs[r]  BY <1>6
    <3>2. \A y \in Runs : runs'[y].retryOf = r => y = q  BY <1>5, <1>6 DEF Unretried
    <3>3. QED  BY <1>5, <1>6, <2>1, <3>1, <3>2 DEF ParentOK
  <2>2. CASE x # q
    <3>1. ParentOK(x) /\ runs[x].retryOf \in Runs \cup {0}
      BY DEF RetryInv, ParentsOK, IInv, Typed, Rows
    <3>2. runs[x].retryOf # 0 => runs[x].retryOf # q
      BY <1>6, <3>1 DEF ParentOK, Terminal
    <3>3. runs[x].retryOf # r  BY <1>5 DEF Unretried
    <3>4. QED  BY <1>6, <2>2, <3>1, <3>2, <3>3 DEF ParentOK
  <2>3. QED  BY <2>1, <2>2
<1>8. task'[p].pc = "finalRead" /\ task'[p].left = task[p].left
  <2>1. task' = [task EXCEPT ![p].pc = "finalRead", ![p].verdict = "failed"]  BY DEF ReapRetry
  <2>2. task'[p] = [task[p] EXCEPT !.pc = "finalRead", !.verdict = "failed"]
    BY <1>1, <2>1 DEF Typed
  <2>3. QED  BY <1>1, <2>2 DEF Locals
<1>9. \A s \in task[p].left : runs'[s.run].retryOf = runs[s.run].retryOf /\ Fresh(s.run)
  <2> SUFFICES ASSUME NEW s \in task[p].left
               PROVE  runs'[s.run].retryOf = runs[s.run].retryOf /\ Fresh(s.run)
    OBVIOUS
  <2>1. s.run \in Runs /\ s.run # q /\ s.run # r /\ Unretried(s.run)
    BY <1>1, <1>5, <1>6 DEF HandsOK
  <2>2. QED  BY <1>6, <2>1 DEF Unretried, Fresh
<1>10. AllHandsOK'  BY <1>1, <1>8, <1>9, RestKeptOK
<1>11. QED  BY <1>7, <1>10 DEF RetryInv

\* A lost run is retried once and a retry never, as long as passes of the reaper do not
\* overlap: the run a pass retries had ended by its own hand and was not retried before,
\* although the snapshot it works from is as old as the pass.
THEOREM LostRunsAreRetriedOnce ==
  ASSUME ConstantsAssumption, Reapers <= 1 PROVE Spec => []RetriedOnce
<1>1. Init => IInv /\ RetryInv
  <2>1. ASSUME Init PROVE RetryInv
    <3>1. \A r \in Runs : runs[r].retryOf = 0  BY <2>1 DEF Init, NoRun
    <3>2. ParentsOK  BY <3>1 DEF ParentsOK, ParentOK
    <3>3. AllHandsOK
      BY <2>1, Blank DEF Init, AllHandsOK, HandsOK, Retrying, TasksOf
    <3>4. QED  BY <3>2, <3>3 DEF RetryInv
  <2>2. QED  BY <2>1, InitInv
<1>2. \A p, q \in TasksOf("reap") : q = p
  <2>1. Reapers \in Nat  BY DEF ConstantsAssumption
  <2>2. 1 .. Reapers \subseteq {1}  BY <2>1
  <2>3. QED  BY <2>2, TaskNames DEF TasksOf
<1>3. IInv /\ RetryInv /\ [Next]_vars => (IInv /\ RetryInv)'
  <2> SUFFICES ASSUME IInv, RetryInv, [Next]_vars PROVE IInv' /\ RetryInv'  OBVIOUS
  <2>1. IInv'  BY StepInv
  <2>2. CASE Settled  BY <2>1, <2>2, SettledStep
  <2>3. ASSUME NEW p \in TasksOf("reap"), ReapDetach(p) \/ ReapRetry(p) PROVE RetryInv'
    <3>1. \A q \in TasksOf("reap") : q = p  BY <1>2
    <3>2. QED  BY <2>1, <2>3, <3>1, DetachStep, RetryStep
  <2>4. QED  BY <2>1, <2>2, <2>3, RowSteps, SettledSteps
<1>4. IInv /\ RetryInv => RetriedOnce
  <2>1. IInv => \A r \in Runs : runs[r].retryOf \in Runs \cup {0}  BY DEF IInv, Typed, Rows
  <2>2. QED  BY <2>1 DEF RetryInv, ParentsOK, ParentOK, RetriedOnce
<1>5. QED  BY <1>1, <1>3, <1>4, PTL DEF Spec

-----------------------------------------------------------------------------
(* The slots of an agent *)

\* The slot that a start chain has counted is free until it claims.
Starting == {"select", "check", "claim"}
SlotsFree ==
    \A x \in Slot : starter[x].pc \in Starting =>
        Cardinality(InStatus(x[2], "running")) < MaxConcurrentRuns

\* What a step does to the start chain x.
StarterStep(x) ==
    starter'[x].pc \in Starting =>
        \/ starter[x].pc \in Starting /\ starter[x].pc # "claim"
        \/ starter'[x] = starter[x]
        \/ Cardinality(InStatus(x[2], "running")) < MaxConcurrentRuns

LEMMA StarterSteps ==
  ASSUME ConstantsAssumption, IInv, [Next]_vars, NEW x \in Slot PROVE StarterStep(x)
<1>1. Typed  BY DEF IInv
<1>2. starter' = starter => StarterStep(x)  BY DEF StarterStep
<1>3. ASSUME NEW p \in Processes, NEW a \in Agents, Start(p, a) PROVE StarterStep(x)
  <2> DEFINE y == <<p, a>>
  <2>1. y \in Slot /\ starter[y] \in Starters /\ starter \in [Slot -> Starters] /\ y[2] = a
    BY <1>1 DEF Typed, Slot
  <2>2. PICK h : starter' = [starter EXCEPT ![y] = h]
    <3>1. CASE StartCount(p, a)
      <4>1. starter' = [starter EXCEPT ![y] = [starter[y] EXCEPT !.pc = "select"]]
        BY <2>1, <3>1 DEF StartCount
      <4>2. QED  BY <4>1
    <3>2. CASE StartSelect(p, a)  BY <3>2 DEF StartSelect
    <3>3. CASE StartCheck(p, a)
      <4>1. \/ starter' = [starter EXCEPT ![y] = [starter[y] EXCEPT !.pc = "claim"]]
            \/ starter' = [starter EXCEPT ![y] = NotStarting]
        BY <2>1, <3>3 DEF StartCheck
      <4>2. QED  BY <4>1
    <3>4. CASE StartClaim(p, a)
      <4>1. \/ starter' = [starter EXCEPT ![y] = [starter[y] EXCEPT !.pc = "mark"]]
            \/ starter' = [starter EXCEPT ![y] = NotStarting]
        BY <2>1, <3>4 DEF StartClaim
      <4>2. QED  BY <4>1
    <3>5. CASE StartSpawn(p, a)  BY <3>5 DEF StartSpawn
    <3>6. QED  BY <1>3, <3>1, <3>2, <3>3, <3>4, <3>5 DEF Start
  <2>3. CASE x # y
    <3>1. starter'[x] = starter[x]  BY <2>1, <2>2, <2>3
    <3>2. QED  BY <3>1 DEF StarterStep
  <2>4. CASE x = y
    <3>1. CASE StartCount(p, a)  BY <2>1, <2>4, <3>1 DEF StartCount, StarterStep
    <3>2. CASE StartSelect(p, a) \/ StartCheck(p, a)
      BY <2>4, <3>2 DEF StartSelect, StartCheck, StarterStep, Starting
    <3>3. CASE StartClaim(p, a)
      <4>1. starter'[y].pc \in {"mark", "idle"}  BY <3>3, ClaimFacts
      <4>2. QED  BY <2>4, <4>1 DEF StarterStep, Starting
    <3>4. CASE StartSpawn(p, a)
      <4>1. starter'[y].pc = "idle"  BY <2>1, <3>4 DEF StartSpawn, NotStarting
      <4>2. QED  BY <2>4, <4>1 DEF StarterStep, Starting
    <3>5. QED  BY <1>3, <3>1, <3>2, <3>3, <3>4 DEF Start
  <2>5. QED  BY <2>3, <2>4
<1>4. ASSUME NEW p \in Processes, Crash(p) PROVE StarterStep(x)
  <2>1. starter'[x] \in {starter[x], NotStarting}  BY <1>1, <1>4 DEF Crash, Typed
  <2>2. QED  BY <2>1 DEF StarterStep, Starting, NotStarting
<1>5. ASSUME NEW w, \/ Wake(w) \/ \E a, i, kind : WakeBegin(w, a, i, kind) PROVE StarterStep(x)
  BY <1>2, <1>5 DEF Wake, WakeLockIssue, WakeCommit, WakeScan, WakeInsert, WakeBegin
<1>6. ASSUME NEW b, \/ Board(b) \/ \E a, new : BoardBegin(b, a, new) PROVE StarterStep(x)
  BY <1>2, <1>6 DEF Board, BoardWrite, BoardList, BoardNext, BoardBegin
<1>7. ASSUME NEW p, ReapBegin(p) \/ Reap(p) PROVE StarterStep(x)
  BY <1>2, <1>7 DEF Reap, ReapBegin, ReapDone, ReapSkip, ReapDetach, ReapLost, ReapRetry
<1>8. ASSUME NEW t, Close(t) PROVE StarterStep(x)
  BY <1>2, <1>8 DEF Close, Store, SetWake, ReleaseNothing, ReleaseAndPromote, FinalizeRead, FinalizeWrite
<1>9. ASSUME NEW r, Execute(r) \/ RecordPid(r) \/ ChildExits(r) \/ ExecThrows(r) \/ CancelBegin(r)
      PROVE  StarterStep(x)
  BY <1>2, <1>9 DEF Execute, ExecBegin, ExecSetup, ExecLaunch, ExecDecide, RecordPid, memory,
     ChildExits, ExecThrows, CancelBegin
<1>10. CASE Finished \/ UNCHANGED vars  BY <1>2, <1>10 DEF Finished, vars
<1>11. QED  BY <1>3, <1>4, <1>5, <1>6, <1>7, <1>8, <1>9, <1>10 DEF Next

\* The running runs of an agent are finitely many.
LEMMA RunningCount ==
  ASSUME ConstantsAssumption, NEW S \in SUBSET Runs, NEW T \in SUBSET S
  PROVE  Cardinality(T) \in Nat /\ Cardinality(S) \in Nat /\ Cardinality(T) <= Cardinality(S)
<1>1. RunCount \in Nat  BY DEF ConstantsAssumption
<1>2. IsFiniteSet(Runs)
  <2>1. 1 \in Int /\ RunCount \in Int  BY <1>1
  <2>2. IsFiniteSet(1 .. RunCount)  BY ONLY <2>1, FS_Interval
  <2>3. QED  BY <2>2 DEF Runs
<1>3. IsFiniteSet(S)  BY <1>2, FS_Subset
<1>4. QED  BY <1>3, FS_Subset, FS_CardinalityType

LEMMA SlotsFreeStep ==
  ASSUME ConstantsAssumption, Reapers = 0, \A p, q \in Processes : p = q,
         IInv, SlotsFree, [Next]_vars
  PROVE  SlotsFree'
<1> SUFFICES ASSUME NEW x \in Slot, starter'[x].pc \in Starting
             PROVE  Cardinality(InStatus(x[2], "running")') < MaxConcurrentRuns
  BY DEF SlotsFree, InStatus
<1> DEFINE S == InStatus(x[2], "running")
           T == InStatus(x[2], "running")'
<1>1. S \in SUBSET Runs /\ S = {r \in Runs : runs[r].agent = x[2] /\ runs[r].status = "running"}
      /\ T = {r \in Runs : runs'[r].agent = x[2] /\ runs'[r].status = "running"}
  BY DEF InStatus
<1>2. Cardinality(S) < MaxConcurrentRuns
  BY StarterSteps DEF SlotsFree, StarterStep
<1> HIDE DEF S, T
<1>3. T \subseteq S => Cardinality(T) < MaxConcurrentRuns
  <2> SUFFICES ASSUME T \subseteq S PROVE Cardinality(T) < MaxConcurrentRuns  OBVIOUS
  <2>1. Cardinality(T) \in Nat /\ Cardinality(S) \in Nat /\ Cardinality(T) <= Cardinality(S)
    BY <1>1, RunningCount
  <2>2. MaxConcurrentRuns \in Nat  BY DEF ConstantsAssumption
  <2>3. QED  BY <1>2, <2>1, <2>2
<1>4. T \subseteq S
  <2>1. CASE Kept  BY <1>1, <2>1 DEF Kept
  <2>2. ASSUME NEW r \in Runs, NEW a, NEW i, Inserts(r, a, i, 0) PROVE T \subseteq S
    BY <1>1, <2>2 DEF Inserts
  <2>3. ASSUME NEW p \in Processes, NEW a \in Agents, StartClaim(p, a) PROVE T \subseteq S
    <3>1. CASE UNCHANGED runs  BY <1>1, <3>1
    <3>2. CASE ~UNCHANGED runs
      <4>1. PICK r \in Runs : /\ r = starter[<<p, a>>].run /\ runs'[r].agent = a
                              /\ \A q \in Runs : q # r => runs'[q] = runs[q]
        BY <2>3, <3>2, ClaimFacts
      <4>2. starter'[<<p, a>>].pc \in {"mark", "idle"}  BY <2>3, ClaimFacts
      <4>3. x[1] = p  BY DEF Slot
      <4>4. x[2] # a  BY <4>2, <4>3 DEF Slot, Starting
      <4>5. QED  BY <1>1, <4>1, <4>4
    <3>3. QED  BY <3>1, <3>2
  <2>4. ASSUME NEW t \in Tasks, Store(t) PROVE T \subseteq S
    <3>1. PICK r \in Runs : r = task[t].run  BY <2>4, StoreFacts
    <3>2. runs'[r].status \in Terminal /\ \A q \in Runs : q # r => runs'[q] = runs[q]
      BY <2>4, <3>1, StoreFacts
    <3>3. QED  BY <1>1, <3>2 DEF Terminal
  <2>5. ASSUME NEW p \in TasksOf("reap") PROVE FALSE  BY TaskNames DEF TasksOf
  <2>6. QED  BY <2>1, <2>2, <2>3, <2>4, <2>5, RowSteps DEF RowStep
<1>5. QED  BY <1>3, <1>4 DEF T

-----------------------------------------------------------------------------
(* Refinement of RunSlots *)

\* The states of RunSlots that a state, and the next one, stand for.
Ph == [r \in Runs |-> Phase(r)]
Ow == [r \in Runs |-> runs[r].agent]

LEMMA StepImplementsRunSlots ==
  ASSUME ConstantsAssumption, Reapers = 0, IInv, SlotsFree, [Next]_vars
  PROVE  [Slots!Next]_(Slots!vars)
<1>1. \A r \in Runs : /\ Ph[r] = Phase(r) /\ Ph'[r] = Phase(r)'
                      /\ Ow[r] = runs[r].agent /\ Ow'[r] = runs'[r].agent
  BY DEF Ph, Ow
<1>2. ASSUME \A r \in Runs : Phase(r)' = Phase(r) /\ runs'[r].agent = runs[r].agent
      PROVE  [Slots!Next]_(Slots!vars)
  BY <1>2 DEF Slots!vars
<1>3. CASE Kept  BY <1>2, <1>3 DEF Kept, Phase
<1>4. ASSUME NEW r \in Runs, NEW a \in Agents, NEW i, Inserts(r, a, i, 0)
      PROVE  [Slots!Next]_(Slots!vars)
  <2>1. Phase(r) = "none" /\ Phase(r)' = "queued" /\ runs'[r].agent = a
    BY <1>4 DEF Inserts, Phase, Terminal
  <2>2. \A q \in Runs : q # r => Phase(q)' = Phase(q) /\ runs'[q].agent = runs[q].agent
    BY <1>4 DEF Inserts, Phase
  <2>3. Ph' = [Ph EXCEPT ![r] = "queued"] /\ Ow' = [Ow EXCEPT ![r] = a]  BY <2>1, <2>2 DEF Ph, Ow
  <2>4. Slots!Enqueue(r, a)  BY <1>1, <2>1, <2>3 DEF Slots!Enqueue, Ph, Ow
  <2>5. QED  BY <2>4 DEF Slots!Next
<1>5. ASSUME NEW p \in Processes, NEW a \in Agents, StartClaim(p, a)
      PROVE  [Slots!Next]_(Slots!vars)
  <2>1. CASE UNCHANGED runs  BY <1>2, <2>1 DEF Phase
  <2>2. CASE ~UNCHANGED runs
    <3>1. PICK r \in Runs : r = starter[<<p, a>>].run  BY <1>5, ClaimFacts
    <3>2. /\ runs[r].status = "queued" /\ runs'[r].status = "running" /\ runs[r].agent = a
          /\ runs'[r].agent = a /\ \A q \in Runs : q # r => runs'[q] = runs[q]
          /\ <<p, a>> \in Slot /\ starter[<<p, a>>].pc = "claim"
      BY <1>5, <2>2, <3>1, ClaimFacts
    <3>3. Cardinality(InStatus(a, "running")) < MaxConcurrentRuns
      BY <3>2 DEF SlotsFree, Starting
    <3>4. Phase(r) = "queued" /\ Phase(r)' = "running"  BY <3>2 DEF Phase, Terminal
    <3>5. \A q \in Runs : q # r => Phase(q)' = Phase(q) /\ runs'[q].agent = runs[q].agent
      BY <3>2 DEF Phase
    <3>6. Ph' = [Ph EXCEPT ![r] = "running"] /\ Ow' = Ow  BY <3>2, <3>4, <3>5 DEF Ph, Ow
    <3>7. Slots!RunningOf(a) = InStatus(a, "running")
      BY DEF Slots!RunningOf, InStatus, Phase, Terminal
    <3>8. Ow[r] = a /\ Slots!RunningOf(Ow[r]) = InStatus(a, "running")
      BY <1>1, <3>2, <3>7
    <3>9. Slots!Cardinality(Slots!RunningOf(Ow[r])) = Cardinality(InStatus(a, "running"))
      <4>1. Slots!Cardinality(Slots!RunningOf(Ow[r])) = Cardinality(Slots!RunningOf(Ow[r]))
        BY DEF Slots!Cardinality, Cardinality
      <4>2. QED  BY ONLY <3>8, <4>1
    <3>10. Slots!Cardinality(Slots!RunningOf(Ow[r])) < MaxConcurrentRuns  BY ONLY <3>3, <3>9
    <3>11. Ow[r] = [q \in Runs |-> runs[q].agent][r]  BY DEF Ow
    <3>12. Slots!Start(r)  BY <1>1, <3>4, <3>6, <3>10, <3>11 DEF Slots!Start, Ph, Ow
    <3>13. QED  BY <3>12 DEF Slots!Next
  <2>3. QED  BY <2>1, <2>2
<1>6. ASSUME NEW t \in Tasks, Store(t) PROVE [Slots!Next]_(Slots!vars)
  <2>1. PICK r \in Runs : r = task[t].run  BY <1>6, StoreFacts
  <2>2. /\ runs'[r].status \in Terminal /\ runs[r].status # "none"
        /\ runs'[r].agent = runs[r].agent
        /\ \A q \in Runs : q # r => runs'[q] = runs[q]
    BY <1>6, <2>1, StoreFacts
  <2>3. Phase(r)' = "ended" /\ Phase(r) \in {"queued", "running", "ended"}
    BY <2>2 DEF Phase, IInv, Typed, Rows, Statuses
  <2>4. \A q \in Runs : q # r => Phase(q)' = Phase(q) /\ runs'[q].agent = runs[q].agent
    BY <2>2 DEF Phase
  <2>5. CASE Phase(r) = "ended"  BY <1>2, <2>2, <2>3, <2>4, <2>5
  <2>6. CASE Phase(r) # "ended"
    <3>1. Ph' = [Ph EXCEPT ![r] = "ended"] /\ Ow' = Ow  BY <2>2, <2>3, <2>4 DEF Ph, Ow
    <3>2. Slots!End(r)  BY <1>1, <2>3, <2>6, <3>1 DEF Slots!End, Ph, Ow
    <3>3. QED  BY <3>2 DEF Slots!Next
  <2>7. QED  BY <2>5, <2>6
<1>7. ASSUME NEW p \in TasksOf("reap") PROVE FALSE  BY TaskNames DEF TasksOf
<1>8. QED  BY <1>3, <1>4, <1>5, <1>6, <1>7, RowSteps DEF RowStep

\* With one process, what runs and their starts are is an implementation of RunSlots: a
\* run starts only into a free slot, counted several awaits earlier, and what has ended
\* stays so, wherever the server stops.
THEOREM Refinement ==
  ASSUME ConstantsAssumption, Reapers = 0, \A p, q \in Processes : p = q
  PROVE  Spec => ImplementsRunSlots
<1>1. Init => IInv /\ SlotsFree
  <2>1. Init => SlotsFree  BY DEF Init, SlotsFree, Slot, NotStarting, Starting
  <2>2. QED  BY <2>1, InitInv
<1>2. IInv /\ SlotsFree /\ [Next]_vars => (IInv /\ SlotsFree)'  BY StepInv, SlotsFreeStep
<1>3. Init => Slots!Init  BY DEF Init, Slots!Init, NoRun, Phase, Terminal
<1>4. IInv /\ SlotsFree /\ [Next]_vars => [Slots!Next]_(Slots!vars)  BY StepImplementsRunSlots
<1>5. QED  BY <1>1, <1>2, <1>3, <1>4, PTL DEF Spec, ImplementsRunSlots, Slots!Spec

-----------------------------------------------------------------------------
(* The lock of an issue *)

Releasing == {"store", "wake", "release", "retry"}
Busy(i) == \E q \in Runs : Active(q) /\ runs[q].issue = i

\* Who owns the lock of an issue: the active run about it, else a run about it that
\* has ended and, unless the server stopped, is being released.
ActiveOwns == \A q \in Runs : Active(q) /\ runs[q].issue \in Issues => lock[runs[q].issue] = q
LockOwned == \A i \in Issues : lock[i] # 0 => runs[lock[i]].status # "none" /\ runs[lock[i]].issue = i
OwnerLives == MaxCrashes = 0 =>
    \A i \in Issues : lock[i] # 0 => Active(lock[i]) \/ BeingReleased(lock[i])
WaitsOwned == \A i \in Issues : deferred[i] # <<>> => lock[i] # 0

\* A run has ended before the lock it owns is looked at.
EndedFirst == \A t \in Tasks : task[t].pc \in {"wake", "release"} => runs[task[t].run].status \in Terminal

\* What a wakeup decided under the row lock of its issue holds until it commits.
DecidedOK(w) == task[w].pc = "commit" =>
    /\ task[w].issue \in rowLock
    /\ IF task[w].verdict = "queue" THEN ~Busy(task[w].issue) ELSE lock[task[w].issue] = task[w].run
Decided == \A w \in Tasks : DecidedOK(w)
OneDecides == \A v, w \in Tasks :
    task[v].pc = "commit" /\ task[w].pc = "commit" /\ task[v].issue = task[w].issue => v = w
Unscoped == \A w \in Tasks : task[w].pc \in {"scan", "insert"} => task[w].issue = NoIssue

HandInv ==
    ActiveOwns /\ LockOwned /\ OwnerLives /\ WaitsOwned /\ EndedFirst /\ Decided /\ OneDecides /\ Unscoped

\* Of a set of runs that is not empty one is the oldest.
LEMMA OldestExists ==
  ASSUME ConstantsAssumption, NEW S \in SUBSET Runs, S # {}
  PROVE  \E r \in S : Oldest(S, r)
<1> DEFINE Less == {s \in Nat \X Nat : s[1] < s[2]}
<1>1. S \subseteq Nat  BY DEF Runs, ConstantsAssumption
<1>2. IsWellFoundedOn(Less, Nat)  BY NatLessThanWellFounded DEF OpToRel
<1> HIDE DEF Less
<1>3. PICK r \in S : \A q \in S : <<q, r>> \notin Less  BY <1>1, <1>2, WFMin
<1>4. \A q \in S : ~(q < r)  BY <1>1, <1>3 DEF Less
<1>5. \A q \in S : r <= q  BY <1>1, <1>4
<1>6. QED  BY <1>5 DEF Oldest

\* What a task at k that goes on to h keeps: a release that began goes on with its run,
\* and nothing new is decided.
Ending(k, h) == h.pc \in {"wake", "release"} => k.pc \in {"wake", "release"} /\ h.run = k.run
Deciding(k, h) ==
    /\ h.pc = "commit" => h = k
    /\ h.pc \in {"scan", "insert"} => h.issue = NoIssue \/ (k.pc \in {"scan", "insert"} /\ h.issue = k.issue)
Staying(k, h) == k.pc \in Releasing => h.pc \in Releasing /\ h.run = k.run

\* Nothing is inserted: an active run stays active or is being released.
Later == \A r \in Runs :
    /\ Active(r)' => Active(r)
    /\ Active(r) => Active(r)' \/ BeingReleased(r)'
    /\ runs[r].status \in Terminal => runs'[r].status \in Terminal
    /\ runs[r].status # "none" => runs'[r].status # "none"
    /\ runs'[r].issue = runs[r].issue

\* The issues J, which no active run is about, are given up.
GivesUp(J) == \A i \in Issues :
    IF i \in J THEN ~Busy(i) /\ lock'[i] = 0 /\ deferred'[i] = <<>>
               ELSE lock'[i] = lock[i] /\ (deferred'[i] # <<>> => lock[i] # 0)

LEMMA OwnersKept ==
  ASSUME IInv, HandInv, Later, NEW J \in SUBSET Issues, GivesUp(J),
         MaxCrashes = 0 => \A u \in Tasks : \/ Staying(task[u], task'[u])
                                            \/ \A i \in Issues \ J : lock[i] # task[u].run
  PROVE  ActiveOwns' /\ LockOwned' /\ OwnerLives' /\ WaitsOwned'
<1>1. Typed /\ ActiveOwns /\ LockOwned /\ OwnerLives /\ WaitsOwned  BY DEF HandInv, IInv
<1>2. \A r \in Runs : Active(r)' => Active(r)  BY DEF Later
<1>3. \A r \in Runs : Active(r) => Active(r)' \/ BeingReleased(r)'  BY DEF Later
<1>4. \A r \in Runs : /\ runs[r].status # "none" => runs'[r].status # "none"
                      /\ runs'[r].issue = runs[r].issue
  BY DEF Later
<1>5. \A i \in Issues : lock[i] \in Runs \cup {0}  BY <1>1 DEF Typed
<1>6. \A i \in Issues : lock'[i] # 0 => i \notin J /\ lock'[i] = lock[i] /\ lock[i] \in Runs
  BY <1>5 DEF GivesUp
<1>7. ActiveOwns'
  <2> SUFFICES ASSUME NEW q \in Runs, Active(q)', runs'[q].issue \in Issues
               PROVE  lock'[runs'[q].issue] = q
    BY DEF ActiveOwns
  <2>1. Active(q) /\ runs'[q].issue = runs[q].issue  BY <1>2, <1>4
  <2>2. PICK i \in Issues : i = runs[q].issue  BY <2>1
  <2>3. Busy(i) /\ lock[i] = q  BY <1>1, <2>1, <2>2 DEF Busy, ActiveOwns
  <2>4. lock'[i] = q  BY <2>3 DEF GivesUp
  <2>5. QED  BY <2>1, <2>2, <2>4
<1>8. LockOwned'
  <2> SUFFICES ASSUME NEW i \in Issues, lock'[i] # 0
               PROVE  runs'[lock'[i]].status # "none" /\ runs'[lock'[i]].issue = i
    BY DEF LockOwned
  <2>1. PICK r \in Runs : lock'[i] = r /\ lock[i] = r /\ lock[i] # 0  BY <1>6
  <2>2. runs[r].status # "none" /\ runs[r].issue = i  BY <1>1, <2>1 DEF LockOwned
  <2>3. QED  BY <1>4, <2>1, <2>2
<1>9. OwnerLives'
  <2> SUFFICES ASSUME MaxCrashes = 0, NEW i \in Issues, lock'[i] # 0, NEW r \in Runs, r = lock'[i]
               PROVE  Active(r)' \/ BeingReleased(r)'
    BY <1>6 DEF OwnerLives, Active, BeingReleased
  <2>1. i \notin J /\ lock[i] = r /\ lock[i] # 0  BY <1>6
  <2>2. Active(r) \/ BeingReleased(r)  BY <1>1, <2>1 DEF OwnerLives
  <2>3. ASSUME NEW t \in Tasks, task[t].run = r, task[t].pc \in Releasing PROVE BeingReleased(r)'
    <3>1. Staying(task[t], task'[t])  BY <2>1, <2>3
    <3>2. task'[t].run = r /\ task'[t].pc \in Releasing  BY <2>3, <3>1 DEF Staying
    <3>3. QED  BY <3>2 DEF BeingReleased, Releasing
  <2>4. BeingReleased(r) => BeingReleased(r)'  BY <2>3 DEF BeingReleased, Releasing
  <2>5. QED  BY <1>3, <2>2, <2>4
<1>10. WaitsOwned'  BY <1>1 DEF WaitsOwned, GivesUp
<1>11. QED  BY <1>7, <1>8, <1>9, <1>10

LEMMA DecisionsKept ==
  ASSUME IInv, HandInv, Later, NEW J \in SUBSET Issues, GivesUp(J),
         \A u \in Tasks : Deciding(task[u], task'[u]),
         \A u \in Tasks : task'[u].pc = "commit" /\ task'[u].issue \in rowLock =>
             task'[u].issue \in rowLock' \ J
  PROVE  Decided' /\ OneDecides' /\ Unscoped'
<1>1. Decided /\ OneDecides /\ Unscoped  BY DEF HandInv
<1>2. \A i : Busy(i)' => Busy(i)  BY DEF Busy, Later
<1>3. \A u \in Tasks : task'[u].pc = "commit" => task'[u] = task[u]  BY DEF Deciding
<1>4. Decided'
  <2> SUFFICES ASSUME NEW u \in Tasks, task'[u].pc = "commit" PROVE DecidedOK(u)'
    BY DEF Decided, DecidedOK
  <2>1. task'[u] = task[u] /\ task[u].pc = "commit"  BY <1>3
  <2>2. PICK i \in Issues : i = task[u].issue  BY <2>1, Here DEF Meant
  <2>3. i \in rowLock /\ IF task[u].verdict = "queue" THEN ~Busy(i) ELSE lock[i] = task[u].run
    BY <1>1, <2>1, <2>2 DEF Decided, DecidedOK
  <2>4. i \in rowLock' /\ i \notin J  BY <2>1, <2>2, <2>3
  <2>5. lock'[i] = lock[i]  BY <2>4 DEF GivesUp
  <2>6. ~Busy(i) => \A q \in Runs : ~(Active(q)' /\ runs'[q].issue = i)  BY <1>2 DEF Busy
  <2>7. QED  BY <2>1, <2>2, <2>3, <2>4, <2>5, <2>6 DEF DecidedOK, Busy
<1>5. OneDecides'  BY <1>1, <1>3 DEF OneDecides
<1>6. Unscoped'  BY <1>1 DEF Unscoped, Deciding
<1>7. QED  BY <1>4, <1>5, <1>6

LEMMA EndedKept ==
  ASSUME IInv, HandInv, Later, \A u \in Tasks : Ending(task[u], task'[u]) PROVE EndedFirst'
<1> SUFFICES ASSUME NEW u \in Tasks, task'[u].pc \in {"wake", "release"}
             PROVE  runs'[task'[u].run].status \in Terminal
  BY DEF EndedFirst
<1>1. task[u].pc \in {"wake", "release"} /\ task'[u].run = task[u].run  BY DEF Ending
<1>2. task[u].run \in Runs /\ runs[task[u].run].status \in Terminal
  BY <1>1, Closes DEF HandInv, EndedFirst, Closing
<1>3. QED  BY <1>1, <1>2 DEF Later

\* A run about j is inserted.  If j is an issue nothing was active about it, and it
\* becomes the run's.
LEMMA HandInserted ==
  ASSUME ConstantsAssumption, IInv, HandInv,
         NEW r \in Runs, NEW a, NEW j \in Issues \cup {NoIssue}, Inserts(r, a, j, 0),
         j \in Issues => ~Busy(j) /\ lock' = [lock EXCEPT ![j] = r],
         j \notin Issues => lock' = lock,
         \A i \in Issues : i # j => deferred'[i] = deferred[i],
         \A u \in Tasks : Ending(task[u], task'[u]) /\ Deciding(task[u], task'[u]),
         \A u \in Tasks : \/ Staying(task[u], task'[u])
                          \/ j \in Issues /\ lock[j] = task[u].run,
         \A u \in Tasks : task'[u].pc = "commit" => task'[u].issue # j,
         rowLock \ {j} \subseteq rowLock'
  PROVE  HandInv'
<1>1. /\ Typed /\ ActiveOwns /\ LockOwned /\ OwnerLives /\ WaitsOwned /\ EndedFirst /\ Decided
      /\ OneDecides /\ Unscoped
  BY DEF HandInv, IInv
<1>2. /\ runs[r].status = "none" /\ Active(r)' /\ ~Active(r) /\ runs'[r].issue = j
      /\ runs'[r].status \notin Terminal \cup {"none"}
      /\ \A q \in Runs : q # r => runs'[q] = runs[q] /\ (Active(q)' <=> Active(q))
  BY DEF Inserts, Active, Terminal
<1>3. \A i \in Issues : lock[i] \in Runs \cup {0}  BY <1>1 DEF Typed
<1>4. j \in Issues => lock'[j] = r  BY <1>1 DEF Typed
<1>5. \A i \in Issues : i # j => lock'[i] = lock[i]  BY <1>1 DEF Typed
<1>6. \A i \in Issues : lock[i] # r  BY <1>1, <1>2, <1>3 DEF LockOwned, Runs, ConstantsAssumption
<1>7. 0 \notin Runs  BY DEF Runs, ConstantsAssumption
<1>8. ActiveOwns'
  <2> SUFFICES ASSUME NEW q \in Runs, Active(q)', NEW i \in Issues, i = runs'[q].issue
               PROVE  lock'[i] = q
    BY DEF ActiveOwns
  <2>1. CASE q = r  BY <1>2, <1>4, <2>1
  <2>2. CASE q # r
    <3>1. Active(q) /\ runs[q].issue = i  BY <1>2, <2>2
    <3>2. i # j  BY <3>1 DEF Busy
    <3>3. QED  BY <1>1, <1>5, <3>1, <3>2 DEF ActiveOwns
  <2>3. QED  BY <2>1, <2>2
<1>9. LockOwned'
  <2> SUFFICES ASSUME NEW i \in Issues, lock'[i] # 0
               PROVE  runs'[lock'[i]].status # "none" /\ runs'[lock'[i]].issue = i
    BY DEF LockOwned
  <2>1. CASE i = j  BY <1>2, <1>4, <2>1
  <2>2. CASE i # j  BY <1>1, <1>2, <1>3, <1>5, <1>6, <2>2 DEF LockOwned
  <2>3. QED  BY <2>1, <2>2
<1>10. OwnerLives'
  <2> SUFFICES ASSUME MaxCrashes = 0, NEW i \in Issues, NEW o, o = lock'[i], o # 0
               PROVE  Active(o)' \/ BeingReleased(o)'
    BY DEF OwnerLives, Active, BeingReleased
  <2>1. CASE i = j  BY <1>2, <1>4, <2>1
  <2>2. CASE i # j
    <3>1. o = lock[i] /\ o \in Runs /\ o # r /\ runs[o].issue = i
      BY <1>1, <1>3, <1>5, <1>6, <2>2 DEF LockOwned
    <3>2. Active(o) \/ BeingReleased(o)  BY <1>1, <3>1 DEF OwnerLives
    <3>3. ASSUME NEW t \in Tasks, task[t].run = o, task[t].pc \in Releasing PROVE BeingReleased(o)'
      <4>1. j \in Issues => lock[j] # o  BY <1>1, <1>7, <2>2, <3>1 DEF LockOwned
      <4>2. Staying(task[t], task'[t])  BY <3>3, <4>1
      <4>3. task'[t].run = o /\ task'[t].pc \in Releasing  BY <3>3, <4>2 DEF Staying
      <4>4. QED  BY <4>3 DEF BeingReleased, Releasing
    <3>4. BeingReleased(o) => BeingReleased(o)'  BY <3>3 DEF BeingReleased, Releasing
    <3>5. QED  BY <1>2, <3>1, <3>2, <3>4
  <2>3. QED  BY <2>1, <2>2
<1>11. WaitsOwned'  BY <1>1, <1>4, <1>5, <1>7 DEF WaitsOwned
<1>12. EndedFirst'
  <2> SUFFICES ASSUME NEW u \in Tasks, task'[u].pc \in {"wake", "release"}
               PROVE  runs'[task'[u].run].status \in Terminal
    BY DEF EndedFirst
  <2>1. task[u].pc \in {"wake", "release"} /\ task'[u].run = task[u].run  BY DEF Ending
  <2>2. task[u].run \in Runs /\ runs[task[u].run].status \in Terminal
    BY <1>1, <2>1, Closes DEF EndedFirst, Closing
  <2>3. task[u].run # r  BY <1>2, <2>2 DEF Terminal
  <2>4. QED  BY <1>2, <2>1, <2>2, <2>3
<1>13. \A u \in Tasks : task'[u].pc = "commit" => task'[u] = task[u]  BY DEF Deciding
<1>14. Decided'
  <2> SUFFICES ASSUME NEW u \in Tasks, task'[u].pc = "commit" PROVE DecidedOK(u)'
    BY DEF Decided, DecidedOK
  <2>1. task'[u] = task[u] /\ task[u].pc = "commit"  BY <1>13
  <2>2. PICK i \in Issues : i = task[u].issue  BY <2>1, Here DEF Meant
  <2>3. i \in rowLock /\ IF task[u].verdict = "queue" THEN ~Busy(i) ELSE lock[i] = task[u].run
    BY <1>1, <2>1, <2>2 DEF Decided, DecidedOK
  <2>4. i # j  BY <2>1, <2>2
  <2>5. i \in rowLock' /\ lock'[i] = lock[i]  BY <1>5, <2>3, <2>4
  <2>6. ~Busy(i) => \A q \in Runs : ~(Active(q)' /\ runs'[q].issue = i)
    BY <1>2, <2>4 DEF Busy
  <2>7. QED  BY <2>1, <2>2, <2>3, <2>5, <2>6 DEF DecidedOK, Busy
<1>15. OneDecides'  BY <1>1, <1>13 DEF OneDecides
<1>16. Unscoped'  BY <1>1 DEF Unscoped, Deciding
<1>17. QED  BY <1>8, <1>9, <1>10, <1>11, <1>12, <1>14, <1>15, <1>16 DEF HandInv

\* The tasks go on with what they have begun.
Steady(k, h) == Ending(k, h) /\ Deciding(k, h) /\ Staying(k, h)
AllSteady == \A u \in Tasks : Steady(task[u], task'[u])

LEMMA SameSteady == ASSUME NEW k PROVE Steady(k, k)
BY DEF Steady, Ending, Deciding, Staying

LEMMA OneSteady ==
  ASSUME Typed, NEW t \in Tasks, NEW h, TaskIs(t, h)
  PROVE  /\ Ending(task[t], h) => \A u \in Tasks : Ending(task[u], task'[u])
         /\ Deciding(task[t], h) => \A u \in Tasks : Deciding(task[u], task'[u])
         /\ \A u \in Tasks : u # t => Steady(task[u], task'[u]) /\ task'[u] = task[u]
         /\ task'[t] = h
         /\ Steady(task[t], h) => AllSteady
<1>1. task'[t] = h /\ \A u \in Tasks : u # t => task'[u] = task[u]  BY DEF Typed, TaskIs
<1>2. \A u \in Tasks : u # t => Steady(task[u], task'[u])  BY <1>1, SameSteady
<1>3. QED  BY <1>1, <1>2 DEF AllSteady, Steady

LEMMA LaterSame == ASSUME UNCHANGED runs PROVE Later
BY DEF Later, Active

LEMMA LaterRows ==
  ASSUME IInv, Kept \/ \E p \in Processes, a \in Agents : StartClaim(p, a)
  PROVE  Later
<1>1. CASE Kept  BY <1>1 DEF Kept, Later, Active
<1>2. ASSUME NEW p \in Processes, NEW a \in Agents, StartClaim(p, a) PROVE Later
  <2>1. PICK r \in Runs : r = starter[<<p, a>>].run  BY <1>2, ClaimFacts
  <2>2. \/ UNCHANGED runs
        \/ /\ runs[r].status = "queued" /\ runs'[r].status = "running"
           /\ runs'[r].issue = runs[r].issue
           /\ \A q \in Runs : q # r => runs'[q] = runs[q]
    BY <1>2, <2>1, ClaimFacts
  <2>3. QED  BY <2>2 DEF Later, Active, Terminal
<1>3. QED  BY <1>1, <1>2

\* A step that only lets tasks go on.
LEMMA HandKept ==
  ASSUME IInv, HandInv, Later, UNCHANGED <<lock, deferred, rowLock>>, AllSteady
  PROVE  HandInv'
<1>1. GivesUp({})  BY DEF GivesUp, HandInv, WaitsOwned
<1>2. /\ \A u \in Tasks : Ending(task[u], task'[u])
      /\ \A u \in Tasks : Deciding(task[u], task'[u])
      /\ \A u \in Tasks : Staying(task[u], task'[u])
  BY DEF AllSteady, Steady
<1>3. ActiveOwns' /\ LockOwned' /\ OwnerLives' /\ WaitsOwned'  BY <1>1, <1>2, OwnersKept
<1>4. Decided' /\ OneDecides' /\ Unscoped'  BY <1>1, <1>2, DecisionsKept
<1>5. EndedFirst'  BY <1>2, EndedKept
<1>6. QED  BY <1>3, <1>4, <1>5 DEF HandInv

\* Only "queue" is decided when nothing is active.
LEMMA LockHand ==
  ASSUME ConstantsAssumption, IInv, HandInv, NEW w \in Tasks, WakeLockIssue(w) PROVE HandInv'
<1>1. Typed /\ task[w].pc = "lockIssue" /\ task[w] \in Locals /\ Decided /\ OneDecides /\ Unscoped
      /\ ActiveOwns
  BY Here DEF IInv, WakeLockIssue, At, HandInv
<1>2. PICK i \in Issues : i = task[w].issue  BY <1>1, Here DEF Meant
<1>3. i \notin rowLock /\ rowLock' = rowLock \cup {i} /\ UNCHANGED <<runs, lock, deferred>>
  BY <1>2 DEF WakeLockIssue, rowVars
<1>4. PICK r \in Runs \cup {0}, v \in {"queue", "coalesce", "defer"} :
        /\ TaskIs(w, [task[w] EXCEPT !.pc = "commit", !.run = r, !.verdict = v])
        /\ v = "queue" => {q \in Runs : ExecutionRun(i, q)} = {}
        /\ v # "queue" => r \in Runs /\ ExecutionRun(i, r)
  <2>1. CASE {q \in Runs : ExecutionRun(i, q)} = {}
             /\ task' = [task EXCEPT ![w].pc = "commit", ![w].verdict = "queue"]
    <3>1. TaskIs(w, [task[w] EXCEPT !.pc = "commit", !.run = task[w].run, !.verdict = "queue"])
      BY <1>1, <2>1 DEF TaskIs, Typed, Locals
    <3>2. task[w].run \in Runs \cup {0}  BY <1>1 DEF Locals
    <3>3. QED  BY <2>1, <3>1, <3>2
  <2>2. ASSUME NEW r \in Runs, ExecutionRun(i, r), NEW v \in {"coalesce", "defer"},
               task' = [task EXCEPT ![w].pc = "commit", ![w].run = r, ![w].verdict = v]
        PROVE  TaskIs(w, [task[w] EXCEPT !.pc = "commit", !.run = r, !.verdict = v])
    BY <1>1, <2>2 DEF TaskIs, Typed
  <2>3. QED  BY <1>2, <2>1, <2>2 DEF WakeLockIssue
<1> DEFINE h == [task[w] EXCEPT !.pc = "commit", !.run = r, !.verdict = v]
<1>5. h.pc = "commit" /\ h.run = r /\ h.verdict = v /\ h.issue = i  BY <1>1, <1>2 DEF Locals
<1> HIDE DEF h
<1>6. task'[w] = h /\ \A u \in Tasks : u # w => task'[u] = task[u]  BY <1>1, <1>4, OneSteady DEF h
<1>7. \A u \in Tasks : Ending(task[u], task'[u]) /\ Staying(task[u], task'[u])
  <2>1. Ending(task[w], h) /\ Staying(task[w], h)  BY <1>1, <1>5 DEF Ending, Staying, Releasing
  <2>2. QED  BY <1>6, <2>1, SameSteady DEF Steady
<1>8. Later  BY <1>3, LaterSame
<1>9. GivesUp({})  BY <1>3 DEF GivesUp, HandInv, WaitsOwned
<1>10. ActiveOwns' /\ LockOwned' /\ OwnerLives' /\ WaitsOwned'  BY <1>7, <1>8, <1>9, OwnersKept
<1>11. EndedFirst'  BY <1>7, <1>8, EndedKept
<1>12. v = "queue" => ~Busy(i)
  <2> SUFFICES ASSUME v = "queue", Busy(i) PROVE FALSE  OBVIOUS
  <2>1. \A q \in Runs : ~ExecutionRun(i, q)  BY <1>4
  <2>2. PICK q \in Runs : Active(q) /\ runs[q].issue = i  BY DEF Busy
  <2>3. lock[i] = q  BY <1>1, <2>2 DEF ActiveOwns
  <2>4. q # 0  BY DEF Runs, ConstantsAssumption
  <2>5. ExecutionRun(i, q)  BY <2>2, <2>3, <2>4 DEF ExecutionRun
  <2>6. QED  BY <2>1, <2>5
<1>13. v # "queue" => lock[i] = r
  <2> SUFFICES ASSUME v # "queue" PROVE lock[i] = r  OBVIOUS
  <2>1. r \in Runs /\ ExecutionRun(i, r)  BY <1>4
  <2>2. lock[i] = r \/ (Active(r) /\ runs[r].issue = i)
    BY <2>1 DEF ExecutionRun, Oldest, Active
  <2>3. QED  BY <1>1, <2>1, <2>2 DEF ActiveOwns
<1>14. Decided'
  <2> SUFFICES ASSUME NEW u \in Tasks PROVE DecidedOK(u)'  BY DEF Decided
  <2>1. Busy(i)' <=> Busy(i)  BY <1>3 DEF Busy, Active
  <2>2. CASE u = w
    <3>1. task'[u] = h /\ i \in rowLock'  BY <1>3, <1>6, <2>2
    <3>2. v = "queue" => \A q \in Runs : ~(Active(q)' /\ runs'[q].issue = i)
      BY <1>3, <1>12 DEF Busy, Active
    <3>3. v # "queue" => lock'[i] = r  BY <1>3, <1>13
    <3>4. QED  BY <1>5, <3>1, <3>2, <3>3 DEF DecidedOK, Busy
  <2>3. CASE u # w
    <3>1. DecidedOK(u) /\ task'[u] = task[u]  BY <1>1, <1>6, <2>3 DEF Decided
    <3>2. QED  BY <1>3, <3>1 DEF DecidedOK, Busy, Active
  <2>4. QED  BY <2>2, <2>3
<1>15. OneDecides'
  <2>1. \A u \in Tasks : u # w /\ task'[u].pc = "commit" => task[u].issue # i
    BY <1>1, <1>3, <1>6 DEF Decided, DecidedOK
  <2>2. QED  BY <1>1, <1>5, <1>6, <2>1 DEF OneDecides
<1>16. Unscoped'  BY <1>1, <1>5, <1>6 DEF Unscoped
<1>17. QED  BY <1>10, <1>11, <1>14, <1>15, <1>16 DEF HandInv

LEMMA CommitHand ==
  ASSUME ConstantsAssumption, IInv, HandInv, NEW w \in Tasks, WakeCommit(w) PROVE HandInv'
<1>1. Typed /\ task[w].pc = "commit" /\ Decided /\ OneDecides
  BY DEF IInv, WakeCommit, At, HandInv
<1>2. PICK i \in Issues : i = task[w].issue  BY <1>1, Here DEF Meant
<1>3. PICK a \in Agents : a = task[w].agent  BY <1>1, Here DEF Meant
<1>4. rowLock' = rowLock \ {i} /\ TaskIs(w, Idle)  BY <1>2 DEF WakeCommit, TaskIs
<1>5. Steady(task[w], Idle)  BY <1>1, Blank DEF Steady, Ending, Deciding, Staying, Releasing
<1>6. AllSteady /\ task'[w] = Idle /\ \A u \in Tasks : u # w => task'[u] = task[u]
  BY <1>1, <1>4, <1>5, OneSteady
<1>7. \A u \in Tasks : task'[u].pc = "commit" => task'[u].issue # i
  BY <1>1, <1>2, <1>6, Blank DEF OneDecides
<1>8. /\ \A u \in Tasks : Ending(task[u], task'[u]) /\ Deciding(task[u], task'[u])
      /\ \A u \in Tasks : Staying(task[u], task'[u])
  BY <1>6 DEF AllSteady, Steady
<1>9. CASE task[w].verdict = "queue"
  <2>1. PICK r \in Runs : /\ NewRun(r) /\ runs' = [runs EXCEPT ![r] = QueuedRun(a, i, 0)]
                          /\ lock' = [lock EXCEPT ![i] = r] /\ deferred' = deferred
    BY <1>2, <1>3, <1>9 DEF WakeCommit
  <2>2. Inserts(r, a, i, 0)  BY <1>1, <2>1, Inserted
  <2>3. ~Busy(i)  BY <1>1, <1>2, <1>9 DEF Decided, DecidedOK
  <2>4. QED  BY <1>4, <1>7, <1>8, <2>1, <2>2, <2>3, HandInserted
<1>10. CASE task[w].verdict # "queue"
  <2>1. lock' = [lock EXCEPT ![i] = task[w].run] /\ UNCHANGED runs  BY <1>2, <1>10 DEF WakeCommit
  <2>2. lock[i] = task[w].run  BY <1>1, <1>2, <1>10 DEF Decided, DecidedOK
  <2>3. lock' = lock /\ lock[i] # 0
    <3>1. task[w].run \in Runs  BY <1>1, <1>10, Here DEF Meant
    <3>2. QED  BY <1>1, <2>1, <2>2, <3>1 DEF Typed, Runs, ConstantsAssumption
  <2>4. \A j \in Issues : j # i => deferred'[j] = deferred[j]
    BY <1>1, <1>2, <1>10 DEF WakeCommit, Typed
  <2>5. GivesUp({})  BY <2>3, <2>4 DEF GivesUp, HandInv, WaitsOwned
  <2>6. Later  BY <2>1, LaterSame
  <2>7. ActiveOwns' /\ LockOwned' /\ OwnerLives' /\ WaitsOwned'  BY <1>8, <2>5, <2>6, OwnersKept
  <2>8. EndedFirst'  BY <1>8, <2>6, EndedKept
  <2>9. Decided' /\ OneDecides' /\ Unscoped'
    BY <1>4, <1>7, <1>8, <2>5, <2>6, DecisionsKept
  <2>10. QED  BY <2>7, <2>8, <2>9 DEF HandInv
<1>11. QED  BY <1>9, <1>10

LEMMA InsertHand ==
  ASSUME ConstantsAssumption, IInv, HandInv, NEW w \in Tasks, WakeInsert(w) PROVE HandInv'
<1>1. Typed /\ task[w].pc = "insert" /\ Unscoped /\ NoIssue \notin Issues
  BY DEF IInv, WakeInsert, At, HandInv, ConstantsAssumption
<1>2. task[w].issue = NoIssue  BY <1>1 DEF Unscoped
<1>3. PICK a \in Agents : a = task[w].agent  BY <1>1, Here DEF Meant
<1>4. TaskIs(w, Idle) /\ UNCHANGED <<lock, deferred, rowLock>>  BY DEF WakeInsert, TaskIs
<1>5. Steady(task[w], Idle)  BY <1>1, Blank DEF Steady, Ending, Deciding, Staying, Releasing
<1>6. AllSteady  BY <1>1, <1>4, <1>5, OneSteady
<1>7. /\ \A u \in Tasks : Ending(task[u], task'[u]) /\ Deciding(task[u], task'[u])
      /\ \A u \in Tasks : Staying(task[u], task'[u])
  BY <1>6 DEF AllSteady, Steady
<1>8. PICK r \in Runs : NewRun(r) /\ runs' = [runs EXCEPT ![r] = QueuedRun(a, NoIssue, 0)]
  BY <1>2, <1>3 DEF WakeInsert
<1>9. Inserts(r, a, NoIssue, 0)  BY <1>1, <1>8, Inserted
<1>10. \A u \in Tasks : task'[u].pc = "commit" => task'[u].issue # NoIssue
  <2> SUFFICES ASSUME NEW u \in Tasks, task'[u].pc = "commit" PROVE task'[u].issue # NoIssue
    OBVIOUS
  <2>1. task'[u] = task[u]  BY <1>7 DEF Deciding
  <2>2. task[u].issue \in Issues  BY <2>1, Here DEF Meant
  <2>3. QED  BY <1>1, <2>1, <2>2
<1>11. QED  BY <1>1, <1>4, <1>7, <1>9, <1>10, HandInserted

\* The run that a task ends is released by this task.
LEMMA StoreHand ==
  ASSUME ConstantsAssumption, IInv, HandInv, NEW t \in Tasks, Store(t) PROVE HandInv'
<1>1. Typed /\ task[t].pc = "store" /\ UNCHANGED <<lock, deferred, rowLock>>
  BY DEF IInv, Store, At
<1>2. PICK r \in Runs : /\ r = task[t].run /\ runs[r].status # "none" /\ runs'[r].status \in Terminal
                        /\ runs'[r].issue = runs[r].issue
                        /\ \A q \in Runs : q # r => runs'[q] = runs[q]
  BY StoreFacts
<1> DEFINE h == [task[t] EXCEPT !.pc = "wake"]
<1>3. TaskIs(t, h) /\ h.pc = "wake"
  <2>1. "wake" \in PCs  BY DEF PCs
  <2>2. QED  BY <1>1, <2>1, GoFacts DEF Store
<1>4. h.run = r  BY <1>2, Here DEF Locals
<1> HIDE DEF h
<1>5. /\ \A u \in Tasks : Deciding(task[u], task'[u]) /\ Staying(task[u], task'[u])
      /\ task'[t] = h /\ \A u \in Tasks : u # t => task'[u] = task[u]
  <2>1. Deciding(task[t], h) /\ Staying(task[t], h)
    BY <1>2, <1>3, <1>4 DEF Deciding, Staying, Releasing
  <2>2. QED  BY <1>1, <1>3, <2>1, OneSteady DEF Steady
<1>6. BeingReleased(r)'  BY <1>3, <1>4, <1>5 DEF BeingReleased
<1>7. Later
  <2> SUFFICES ASSUME NEW q \in Runs
               PROVE  /\ Active(q)' => Active(q)
                      /\ Active(q) => Active(q)' \/ BeingReleased(q)'
                      /\ runs[q].status \in Terminal => runs'[q].status \in Terminal
                      /\ runs[q].status # "none" => runs'[q].status # "none"
                      /\ runs'[q].issue = runs[q].issue
    BY DEF Later
  <2>1. CASE q = r  BY <1>2, <1>6, <2>1 DEF Active, Terminal
  <2>2. CASE q # r  BY <1>2, <2>2 DEF Active
  <2>3. QED  BY <2>1, <2>2
<1>8. GivesUp({})  BY <1>1 DEF GivesUp, HandInv, WaitsOwned
<1>9. ActiveOwns' /\ LockOwned' /\ OwnerLives' /\ WaitsOwned'  BY <1>5, <1>7, <1>8, OwnersKept
<1>10. Decided' /\ OneDecides' /\ Unscoped'  BY <1>1, <1>5, <1>7, <1>8, DecisionsKept
<1>11. EndedFirst'
  <2> SUFFICES ASSUME NEW u \in Tasks, task'[u].pc \in {"wake", "release"}
               PROVE  runs'[task'[u].run].status \in Terminal
    BY DEF EndedFirst
  <2>1. CASE u = t  BY <1>2, <1>4, <1>5, <2>1
  <2>2. CASE u # t
    <3>1. task'[u] = task[u]  BY <1>5, <2>2
    <3>2. task[u].run \in Runs /\ runs[task[u].run].status \in Terminal
      BY <3>1, Closes DEF HandInv, EndedFirst, Closing
    <3>3. QED  BY <1>7, <3>1, <3>2 DEF Later
  <2>3. QED  BY <2>1, <2>2
<1>12. QED  BY <1>9, <1>10, <1>11 DEF HandInv

\* Nothing is active about the issue whose lock is released.
LEMMA ReleaseHand ==
  ASSUME ConstantsAssumption, IInv, HandInv, NEW t \in Tasks,
         ReleaseNothing(t) \/ \E i \in Issues : ReleaseAndPromote(t, i)
  PROVE  HandInv'
<1>1. /\ Typed /\ ActiveOwns /\ LockOwned /\ EndedFirst /\ Decided
      /\ task[t].pc = "release" /\ rowLock' = rowLock
  BY DEF IInv, ReleaseNothing, ReleaseAndPromote, At, HandInv
<1>2. PICK r \in Runs : r = task[t].run /\ runs[r].status \in Terminal
  BY <1>1, Closes DEF EndedFirst, Closing
<1> DEFINE p == AfterRelease(t)
           h == [task[t] EXCEPT !.pc = p]
<1>3. p \in {"next", "finalRead"} /\ p \in PCs  BY DEF AfterRelease, PCs
<1>4. TaskIs(t, h) /\ h.pc = p
  <2>1. Go(t, p)  BY DEF ReleaseNothing, ReleaseAndPromote
  <2>2. QED  BY <1>1, <1>3, <2>1, GoFacts
<1> HIDE DEF h, p
<1>5. Ending(task[t], h) /\ Deciding(task[t], h)  BY <1>3, <1>4 DEF Ending, Deciding
<1>6. /\ \A u \in Tasks : Ending(task[u], task'[u])
      /\ \A u \in Tasks : Deciding(task[u], task'[u])
      /\ \A u \in Tasks : u # t => Staying(task[u], task'[u])
  BY <1>1, <1>4, <1>5, OneSteady DEF Steady
<1>7. CASE ReleaseNothing(t)
  <2>1. \A i \in Issues : lock[i] # r  BY <1>2, <1>7 DEF ReleaseNothing
  <2>2. UNCHANGED <<runs, lock, deferred>>  BY <1>7 DEF ReleaseNothing, rowVars
  <2>3. Later  BY <2>2, LaterSame
  <2>4. GivesUp({})  BY <2>2 DEF GivesUp, HandInv, WaitsOwned
  <2>5. \A u \in Tasks : Staying(task[u], task'[u]) \/ \A i \in Issues : lock[i] # task[u].run
    BY <1>2, <1>6, <2>1
  <2>6. ActiveOwns' /\ LockOwned' /\ OwnerLives' /\ WaitsOwned'  BY <2>3, <2>4, <2>5, OwnersKept
  <2>7. Decided' /\ OneDecides' /\ Unscoped'  BY <1>1, <1>6, <2>3, <2>4, DecisionsKept
  <2>8. EndedFirst'  BY <1>6, <2>3, EndedKept
  <2>9. QED  BY <2>6, <2>7, <2>8 DEF HandInv
<1>8. ASSUME NEW i \in Issues, ReleaseAndPromote(t, i) PROVE HandInv'
  <2>1. lock[i] = r /\ i \notin rowLock  BY <1>2, <1>8 DEF ReleaseAndPromote
  <2>2. ~Busy(i)  BY <1>1, <1>2, <2>1 DEF Busy, ActiveOwns, Active, Terminal
  <2>3. \A u \in Tasks : task'[u].pc = "commit" => task'[u].issue \in rowLock /\ task'[u].issue # i
    BY <1>1, <1>6, <2>1 DEF Deciding, Decided, DecidedOK
  <2>4. CASE lock' = [lock EXCEPT ![i] = 0] /\ deferred' = [deferred EXCEPT ![i] = <<>>] /\ UNCHANGED runs
    <3>1. GivesUp({i})  BY <1>1, <2>2, <2>4 DEF GivesUp, HandInv, WaitsOwned, Typed
    <3>2. Later  BY <2>4, LaterSame
    <3>3. \A j \in Issues \ {i} : lock[j] # r
      BY <1>1, <2>1 DEF LockOwned, Runs, ConstantsAssumption
    <3>4. \A u \in Tasks : Staying(task[u], task'[u]) \/ \A j \in Issues \ {i} : lock[j] # task[u].run
      BY <1>2, <1>6, <3>3
    <3>5. ActiveOwns' /\ LockOwned' /\ OwnerLives' /\ WaitsOwned'
      BY <3>1, <3>2, <3>4, OwnersKept
    <3>6. Decided' /\ OneDecides' /\ Unscoped'
      BY <1>1, <1>6, <2>3, <3>1, <3>2, DecisionsKept
    <3>7. EndedFirst'  BY <1>6, <3>2, EndedKept
    <3>8. QED  BY <3>5, <3>6, <3>7 DEF HandInv
  <2>5. ASSUME NEW k \in DOMAIN deferred[i], NEW q \in Runs, NewRun(q),
               runs' = [runs EXCEPT ![q] = QueuedRun(deferred[i][k], i, 0)],
               lock' = [lock EXCEPT ![i] = q],
               deferred' = [deferred EXCEPT ![i] = SubSeq(@, k + 1, Len(@))]
        PROVE  HandInv'
    <3>1. PICK a \in Agents : a = deferred[i][k]  BY <1>1, <2>5 DEF Typed
    <3>2. Inserts(q, a, i, 0)  BY <1>1, <2>5, <3>1, Inserted
    <3>3. \A j \in Issues : j # i => deferred'[j] = deferred[j]  BY <1>1, <2>5 DEF Typed
    <3>4. \A u \in Tasks : Staying(task[u], task'[u]) \/ (i \in Issues /\ lock[i] = task[u].run)
      BY <1>2, <1>6, <2>1
    <3>5. /\ \A u \in Tasks : Ending(task[u], task'[u]) /\ Deciding(task[u], task'[u])
          /\ \A u \in Tasks : task'[u].pc = "commit" => task'[u].issue # i
          /\ rowLock \ {i} \subseteq rowLock'
      BY <1>1, <1>6, <2>3
    <3>6. lock' = [lock EXCEPT ![i] = q] /\ i \in Issues \cup {NoIssue}  BY <2>5
    <3>7. QED  BY <2>2, <3>2, <3>3, <3>4, <3>5, <3>6, HandInserted
  <2>6. QED  BY <1>8, <2>4, <2>5 DEF ReleaseAndPromote
<1>9. QED  BY <1>7, <1>8

\* A crash rolls the open transactions back, and leaves what is being released.
LEMMA CrashHand ==
  ASSUME ConstantsAssumption, IInv, HandInv, NEW p \in Processes, Crash(p) PROVE HandInv'
<1>1. UNCHANGED <<runs, lock, deferred>>  BY DEF Crash, rowVars
<1>2. MaxCrashes # 0  BY DEF Crash, ConstantsAssumption, IInv, Typed, Counters
<1>3. \A u \in Tasks : task'[u] \in {task[u], Idle}  BY DEF Crash
<1>4. \A u \in Tasks : task'[u].pc = "commit" => p # "server"
  <2> SUFFICES ASSUME NEW u \in Tasks, task'[u].pc = "commit", p = "server" PROVE FALSE  OBVIOUS
  <2>1. task'[u] = task[u] /\ task[u].pc = "commit"  BY <1>3, Blank
  <2>2. u[1] = "wake"  BY <2>1, WakesOnly
  <2>3. task'[u] = Idle  BY <2>2 DEF Crash
  <2>4. QED  BY <2>3, Blank
<1>5. /\ \A u \in Tasks : Ending(task[u], task'[u])
      /\ \A u \in Tasks : Deciding(task[u], task'[u])
  BY <1>3, Blank DEF Ending, Deciding
<1>6. Later  BY <1>1, LaterSame
<1>7. GivesUp({})  BY <1>1 DEF GivesUp, HandInv, WaitsOwned
<1>8. ActiveOwns' /\ LockOwned' /\ OwnerLives' /\ WaitsOwned'  BY <1>2, <1>6, <1>7, OwnersKept
<1>9. \A u \in Tasks : task'[u].pc = "commit" /\ task'[u].issue \in rowLock =>
        task'[u].issue \in rowLock'
  BY <1>4 DEF Crash
<1>10. Decided' /\ OneDecides' /\ Unscoped'  BY <1>5, <1>6, <1>7, <1>9, DecisionsKept
<1>11. EndedFirst'  BY <1>5, <1>6, EndedKept
<1>12. QED  BY <1>8, <1>10, <1>11 DEF HandInv

\* A task that goes on elsewhere.
LEMMA GoesOn ==
  ASSUME Typed, HandInv, NEW t \in Tasks, NEW h, TaskIs(t, h),
         h.pc \notin {"wake", "release", "commit"},
         h.pc \in {"scan", "insert"} =>
             h.issue = NoIssue \/ (task[t].pc \in {"scan", "insert"} /\ h.issue = task[t].issue),
         task[t].pc \in Releasing => h.pc \in Releasing /\ h.run = task[t].run
  PROVE  AllSteady
<1>1. Steady(task[t], h)  BY DEF Steady, Ending, Deciding, Staying
<1>2. QED  BY <1>1, OneSteady

LEMMA TasksSame == ASSUME task' = task PROVE AllSteady
BY SameSteady DEF AllSteady

LEMMA WakeSteady ==
  ASSUME ConstantsAssumption, "mention" \notin WakeKinds, IInv, HandInv, NEW w \in Tasks,
         \/ WakeScan(w)
         \/ \E a \in Agents, i \in Issues \cup {NoIssue}, kind \in WakeKinds : WakeBegin(w, a, i, kind)
  PROVE  AllSteady /\ UNCHANGED <<runs, lock, deferred, rowLock>>
<1>1. Typed /\ task[w] \in Locals  BY Here DEF IInv
<1>2. UNCHANGED <<runs, lock, deferred, rowLock>>  BY DEF WakeScan, WakeBegin, rowVars
<1>3. CASE WakeScan(w)
  <2>1. task[w].pc = "scan"  BY <1>3 DEF WakeScan, At
  <2>2. PICK h : TaskIs(w, h) /\ h \in {Idle, [task[w] EXCEPT !.pc = "insert"]}
    BY <1>3 DEF WakeScan, TaskIs
  <2>3. h.pc = "idle" \/ (h.pc = "insert" /\ h.issue = task[w].issue)  BY <1>1, <2>2, Blank DEF Locals
  <2>4. AllSteady  BY <1>1, <2>1, <2>2, <2>3, GoesOn DEF Releasing
  <2>5. QED  BY <1>2, <2>4
<1>4. ASSUME NEW a \in Agents, NEW i \in Issues \cup {NoIssue}, NEW kind \in WakeKinds,
             WakeBegin(w, a, i, kind)
      PROVE  AllSteady
  <2> DEFINE h == [Idle EXCEPT !.pc = IF kind \in {"timer", "mention"} THEN "scan" ELSE "lockIssue",
                               !.agent = a, !.issue = i, !.verdict = kind]
  <2>1. TaskIs(w, h) /\ task[w].pc = "idle"  BY <1>4 DEF WakeBegin, TaskIs, At
  <2>2. h.pc \in {"scan", "lockIssue"} /\ h.issue = i /\ (h.pc = "scan" => kind = "timer")
    BY DEF Idle
  <2>3. h.pc = "scan" => h.issue = NoIssue  BY <1>4, <2>2 DEF WakeBegin
  <2> HIDE DEF h
  <2>4. QED  BY <1>1, <2>1, <2>2, <2>3, GoesOn DEF Releasing
<1>5. QED  BY <1>2, <1>3, <1>4

LEMMA StartSteady ==
  ASSUME ConstantsAssumption, IInv, HandInv, NEW p \in Processes, NEW a \in Agents, Start(p, a)
  PROVE  AllSteady /\ Later /\ UNCHANGED <<lock, deferred, rowLock>>
<1>1. Typed /\ UNCHANGED <<lock, deferred, rowLock>>
  BY DEF IInv, Start, StartCount, StartSelect, StartCheck, StartClaim, StartSpawn, rowVars
<1>2. CASE StartCount(p, a) \/ StartSelect(p, a)
  BY <1>1, <1>2, TasksSame, LaterSame DEF StartCount, StartSelect, rowVars
<1>3. CASE StartClaim(p, a)
  BY <1>1, <1>3, TasksSame, LaterRows DEF StartClaim
<1> DEFINE r == starter[<<p, a>>].run
<1>4. CASE StartCheck(p, a)
  <2>1. Later  BY <1>4, LaterSame DEF StartCheck, rowVars
  <2>2. CASE task' = task  BY <1>1, <2>1, <2>2, TasksSame
  <2>3. CASE task' # task
    <3> DEFINE h == [Idle EXCEPT !.pc = "store", !.run = r, !.verdict = "cancelled"]
    <3>1. TaskIs(<<"cancel", r>>, h) /\ task[<<"cancel", r>>].pc = "idle"
      BY <1>4, <2>3 DEF StartCheck, TaskIs, At
    <3>2. h.pc = "store"  BY DEF Idle
    <3>3. PICK t \in Tasks : t = <<"cancel", r>>
      <4>1. r \in Runs  BY <1>4 DEF StartCheck, IInv, StartersOK, StarterOK, Slot
      <4>2. QED  BY <4>1, TaskNames
    <3> HIDE DEF h
    <3>4. AllSteady  BY <1>1, <3>1, <3>2, <3>3, GoesOn DEF Releasing
    <3>5. QED  BY <1>1, <2>1, <3>4
  <2>4. QED  BY <2>2, <2>3
<1>5. CASE StartSpawn(p, a)
  <2>1. r \in Runs /\ Marked(r)
    BY <1>5 DEF StartSpawn, IInv, StartersOK, StarterOK, Slot, Marked, Marks
  <2>2. task[Exec(r)].pc = "idle" /\ Exec(r) \in Tasks
    BY <2>1, TaskNames DEF IInv, LivesOK, LifeOK
  <2>3. PICK s \in Services : task' = [task EXCEPT ![<<"exec", r>>] =
                [Idle EXCEPT !.pc = "start", !.run = r, !.service = s]]
    BY <1>5 DEF StartSpawn
  <2> DEFINE h == [Idle EXCEPT !.pc = "start", !.run = r, !.service = s]
  <2>4. TaskIs(Exec(r), h)  BY <2>3 DEF Exec, TaskIs
  <2>5. h.pc = "start"  BY DEF Idle
  <2> HIDE DEF h
  <2>6. AllSteady  BY <1>1, <2>2, <2>4, <2>5, GoesOn DEF Releasing
  <2>7. runs' = [runs EXCEPT ![r].wake = "claimed"] /\ "claimed" \in WakeStatuses
    BY <1>5 DEF StartSpawn, WakeStatuses
  <2>8. \A q \in Runs : runs'[q].status = runs[q].status /\ runs'[q].issue = runs[q].issue
    BY <1>1, <2>1, <2>7, WakeFacts
  <2>9. Later  BY <2>8 DEF Later, Active
  <2>10. QED  BY <1>1, <2>6, <2>9
<1>6. QED  BY <1>2, <1>3, <1>4, <1>5 DEF Start

LEMMA RunSteady ==
  ASSUME ConstantsAssumption, IInv, HandInv, NEW r \in Runs,
         Execute(r) \/ RecordPid(r) \/ ChildExits(r) \/ ExecThrows(r) \/ CancelBegin(r)
  PROVE  AllSteady /\ Later /\ UNCHANGED <<lock, deferred, rowLock>>
<1>1. Typed /\ UNCHANGED <<lock, deferred, rowLock>>
  BY DEF IInv, Execute, ExecBegin, ExecSetup, ExecLaunch, ExecDecide, RecordPid, ChildExits,
     ExecThrows, CancelBegin, rowVars, memory
<1>2. Exec(r) \in Tasks /\ <<"cancel", r>> \in Tasks /\ task[Exec(r)] \in Locals
  BY TaskNames, Here
<1>3. CASE RecordPid(r)
  <2>1. task' = task /\ runs' = [runs EXCEPT ![r].pid = TRUE]  BY <1>3 DEF RecordPid, memory
  <2>2. \A q \in Runs : runs'[q].status = runs[q].status /\ runs'[q].issue = runs[q].issue
    BY <1>1, <2>1 DEF Typed, Rows
  <2>3. Later  BY <2>2 DEF Later, Active
  <2>4. QED  BY <1>1, <2>1, <2>3, TasksSame
<1>4. CASE ~RecordPid(r)
  <2>1. Later
    BY <1>4, LaterSame DEF Execute, ExecBegin, ExecSetup, ExecLaunch, ExecDecide, ChildExits,
       ExecThrows, CancelBegin, rowVars
  <2>2. CASE CancelBegin(r)
    <3> DEFINE h == [Idle EXCEPT !.pc = "store", !.run = r, !.verdict = "cancelled"]
    <3>1. TaskIs(<<"cancel", r>>, h) /\ task[<<"cancel", r>>].pc = "idle"
      BY <2>2 DEF CancelBegin, TaskIs, At
    <3>2. h.pc = "store"  BY DEF Idle
    <3> HIDE DEF h
    <3>3. PICK t \in Tasks : t = <<"cancel", r>>  BY <1>2
    <3>4. AllSteady  BY <1>1, <3>1, <3>2, <3>3, GoesOn DEF Releasing
    <3>5. QED  BY <1>1, <2>1, <3>4
  <2>3. CASE ChildExits(r) /\ task' = task  BY <1>1, <2>1, <2>3, TasksSame
  <2>4. CASE ~CancelBegin(r) /\ ~(ChildExits(r) /\ task' = task)
    <3>1. PICK h : /\ TaskIs(Exec(r), h)
                   /\ \/ h.pc = "store" /\ h.run = task[Exec(r)].run
                      \/ /\ h.pc \in {"idle", "setup", "launch", "child", "decide"}
                         /\ task[Exec(r)].pc \notin Releasing
      <4>1. CASE ExecBegin(r)
        <5>1. PICK h : TaskIs(Exec(r), h) /\ h \in {Idle, [task[Exec(r)] EXCEPT !.pc = "setup"]}
          BY <4>1 DEF ExecBegin, TaskIs
        <5>2. h.pc \in {"idle", "setup"}
          BY <1>2, <5>1, Blank DEF Locals
        <5>3. QED  BY <4>1, <5>1, <5>2 DEF ExecBegin, At, Releasing
      <4>2. ASSUME NEW q \in {"launch", "child", "decide"}, Go(Exec(r), q),
                   task[Exec(r)].pc \notin Releasing
            PROVE  \E h : TaskIs(Exec(r), h) /\ h.pc \in {"launch", "child", "decide"}
        <5>1. TaskIs(Exec(r), [task[Exec(r)] EXCEPT !.pc = q])
          BY <1>1, <1>2, <4>2 DEF Go, TaskIs, Typed
        <5>2. [task[Exec(r)] EXCEPT !.pc = q].pc = q  BY <1>2 DEF Locals
        <5>3. QED  BY <4>2, <5>1, <5>2
      <4>3. ASSUME NEW v, task' = [task EXCEPT ![Exec(r)].pc = "store", ![Exec(r)].verdict = v]
            PROVE  \E h : TaskIs(Exec(r), h) /\ h.run = task[Exec(r)].run /\ h.pc = "store"
        <5>1. TaskIs(Exec(r), [task[Exec(r)] EXCEPT !.pc = "store", !.verdict = v])
          BY <1>1, <1>2, <4>3 DEF TaskIs, Typed
        <5>2. [task[Exec(r)] EXCEPT !.pc = "store", !.verdict = v].run = task[Exec(r)].run
              /\ [task[Exec(r)] EXCEPT !.pc = "store", !.verdict = v].pc = "store"
          BY <1>2 DEF Locals
        <5>3. QED  BY <5>1, <5>2
      <4>4. CASE ExecSetup(r) \/ ExecLaunch(r) \/ ChildExits(r)
        BY <2>4, <4>2, <4>4 DEF ExecSetup, ExecLaunch, ChildExits, At, Go, Releasing
      <4>5. CASE ExecDecide(r) \/ ExecThrows(r)
        BY <4>3, <4>5 DEF ExecDecide, ExecThrows
      <4>6. QED  BY <1>4, <2>4, <4>1, <4>4, <4>5 DEF Execute
    <3>2. AllSteady
      BY <1>1, <1>2, <3>1, GoesOn DEF Releasing
    <3>3. QED  BY <1>1, <2>1, <3>2
  <2>5. QED  BY <2>2, <2>3, <2>4
<1>5. QED  BY <1>3, <1>4

LEMMA CloseSteady ==
  ASSUME ConstantsAssumption, Reapers = 0, IInv, HandInv, NEW t \in Tasks,
         SetWake(t) \/ FinalizeRead(t) \/ FinalizeWrite(t)
  PROVE  AllSteady /\ Later /\ UNCHANGED <<lock, deferred, rowLock>>
<1>1. Typed /\ task[t] \in Locals /\ UNCHANGED <<lock, deferred, rowLock>>
  BY Here DEF IInv, SetWake, FinalizeRead, FinalizeWrite, rowVars
<1>2. CASE SetWake(t)
  <2>1. task[t].pc = "wake" /\ task[t].run \in Runs /\ task[t].verdict \in Terminal \cup {"retrying"}
    BY <1>2, Closes DEF SetWake, At, Closing
  <2>2. task[t].verdict # "retrying"
    <3>1. t[1] # "reap"  BY TaskNames
    <3>2. QED  BY <3>1, Here DEF Meant
  <2>3. TaskIs(t, [task[t] EXCEPT !.pc = "release"])
    BY <1>1, <1>2, <2>2 DEF SetWake, Go, TaskIs, Typed
  <2>4. Steady(task[t], [task[t] EXCEPT !.pc = "release"])
    BY <1>1, <2>1 DEF Locals, Steady, Ending, Deciding, Staying, Releasing
  <2>5. AllSteady  BY <1>1, <2>3, <2>4, OneSteady
  <2>6. PICK s \in WakeStatuses : runs' = [runs EXCEPT ![task[t].run].wake = s]
    BY <1>2, <2>1 DEF SetWake, StatusOf, Terminal, WakeStatuses
  <2>7. \A q \in Runs : runs'[q].status = runs[q].status /\ runs'[q].issue = runs[q].issue
    BY <1>1, <2>1, <2>6, WakeFacts
  <2>8. Later  BY <2>7 DEF Later, Active
  <2>9. QED  BY <1>1, <2>5, <2>8
<1>3. CASE FinalizeRead(t) \/ FinalizeWrite(t)
  <2>1. Later  BY <1>3, LaterSame DEF FinalizeRead, FinalizeWrite, rowVars
  <2>2. task[t].pc \in {"finalRead", "finalWrite"}  BY <1>3 DEF FinalizeRead, FinalizeWrite, At
  <2>3. AfterFinalize(t, task[t]).pc \in {"idle", "next"}  BY <2>2, AfterFinalizeFacts
  <2>4. \A v : [task[t] EXCEPT !.pc = "finalWrite", !.verdict = v].pc = "finalWrite"
    BY <1>1 DEF Locals
  <2>5. \/ TaskIs(t, AfterFinalize(t, task[t]))
        \/ \E v : TaskIs(t, [task[t] EXCEPT !.pc = "finalWrite", !.verdict = v])
    BY <1>1, <1>3 DEF FinalizeRead, FinalizeWrite, TaskIs, Typed
  <2>6. PICK h : TaskIs(t, h) /\ h.pc \in {"idle", "next", "finalWrite"}
    BY <2>3, <2>4, <2>5
  <2>7. AllSteady  BY <1>1, <2>2, <2>6, GoesOn DEF Releasing
  <2>8. QED  BY <1>1, <2>1, <2>7
<1>4. QED  BY <1>2, <1>3

LEMMA BoardSteady ==
  ASSUME ConstantsAssumption, IInv, HandInv, NEW b \in Tasks,
         Board(b) \/ \E a, new : BoardBegin(b, a, new)
  PROVE  AllSteady /\ Later /\ UNCHANGED <<lock, deferred, rowLock>>
<1>1. Typed /\ task[b] \in Locals /\ UNCHANGED <<lock, deferred, rowLock>>
  BY Here DEF IInv, Board, BoardWrite, BoardList, BoardNext, BoardBegin, rowVars
<1>2. Later  BY LaterSame DEF Board, BoardWrite, BoardList, BoardNext, BoardBegin, rowVars
<1>3. task[b].pc \in {"idle", "write", "list", "next"}
  BY DEF Board, BoardWrite, BoardList, BoardNext, BoardBegin, At
<1>4. PICK h : TaskIs(b, h) /\ h.pc \in {"idle", "write", "list", "next", "store"}
  <2>1. CASE \E a, new : BoardBegin(b, a, new)
    <3>1. PICK a, new : BoardBegin(b, a, new)  BY <2>1
    <3>2. TaskIs(b, [Idle EXCEPT !.pc = "write", !.agent = a, !.verdict = new])
      BY <3>1 DEF BoardBegin, TaskIs
    <3>3. [Idle EXCEPT !.pc = "write", !.agent = a, !.verdict = new].pc = "write"  BY DEF Idle
    <3>4. QED  BY <3>2, <3>3
  <2>2. CASE BoardWrite(b)
    <3>1. PICK h : TaskIs(b, h) /\ h \in {Idle, [task[b] EXCEPT !.pc = "list"]}
      BY <2>2 DEF BoardWrite, TaskIs
    <3>2. h.pc \in {"idle", "list"}  BY <1>1, <3>1, Blank DEF Locals
    <3>3. QED  BY <3>1, <3>2
  <2>3. CASE BoardList(b)
    <3>1. PICK L : task' = [task EXCEPT ![b].pc = "next", ![b].left = L]  BY <2>3 DEF BoardList
    <3>2. TaskIs(b, [task[b] EXCEPT !.pc = "next", !.left = L])  BY <1>1, <3>1 DEF TaskIs, Typed
    <3>3. [task[b] EXCEPT !.pc = "next", !.left = L].pc = "next"  BY <1>1 DEF Locals
    <3>4. QED  BY <3>2, <3>3
  <2>4. CASE BoardNext(b)
    <3>1. CASE TaskIs(b, Idle)  BY <3>1, Blank
    <3>2. ASSUME NEW s,
            task' = [task EXCEPT ![b].pc = "store", ![b].run = s.run,
                                 ![b].left = @ \ {s}, ![b].verdict = "cancelled"]
          PROVE  \E h : TaskIs(b, h) /\ h.pc = "store"
      <4> DEFINE h == [task[b] EXCEPT !.pc = "store", !.run = s.run, !.left = task[b].left \ {s},
                                      !.verdict = "cancelled"]
      <4>1. TaskIs(b, h)  BY <1>1, <3>2 DEF TaskIs, Typed
      <4>2. h.pc = "store"  BY <1>1 DEF Locals
      <4>3. QED  BY <4>1, <4>2
    <3>3. QED  BY <2>4, <3>1, <3>2 DEF BoardNext, TaskIs
  <2>5. QED  BY <2>1, <2>2, <2>3, <2>4 DEF Board
<1>5. AllSteady  BY <1>1, <1>3, <1>4, GoesOn DEF Releasing
<1>6. QED  BY <1>1, <1>2, <1>5

LEMMA HandStep ==
  ASSUME ConstantsAssumption, Reapers = 0, "mention" \notin WakeKinds, IInv, HandInv, [Next]_vars
  PROVE  HandInv'
<1>1. ASSUME NEW w \in TasksOf("wake"), Wake(w) PROVE HandInv'
  <2>1. w \in Tasks  BY DEF TasksOf
  <2>2. CASE WakeScan(w)  BY <2>1, <2>2, WakeSteady, LaterSame, HandKept
  <2>3. QED  BY <1>1, <2>1, <2>2, LockHand, CommitHand, InsertHand DEF Wake
<1>2. ASSUME NEW w \in TasksOf("wake"), NEW a \in Agents, NEW i \in Issues \cup {NoIssue},
             NEW kind \in WakeKinds, WakeBegin(w, a, i, kind)
      PROVE  HandInv'
  <2>1. w \in Tasks  BY DEF TasksOf
  <2>2. QED  BY <1>2, <2>1, WakeSteady, LaterSame, HandKept
<1>3. ASSUME NEW p \in Processes, Crash(p) PROVE HandInv'  BY <1>3, CrashHand
<1>4. ASSUME NEW p \in Processes, NEW a \in Agents, Start(p, a) PROVE HandInv'
  BY <1>4, StartSteady, HandKept
<1>5. ASSUME NEW r \in Runs,
             Execute(r) \/ RecordPid(r) \/ ChildExits(r) \/ ExecThrows(r) \/ CancelBegin(r)
      PROVE  HandInv'
  BY <1>5, RunSteady, HandKept
<1>6. ASSUME NEW t \in Tasks, Close(t) PROVE HandInv'
  <2>1. CASE SetWake(t) \/ FinalizeRead(t) \/ FinalizeWrite(t)  BY <2>1, CloseSteady, HandKept
  <2>2. QED  BY <1>6, <2>1, StoreHand, ReleaseHand DEF Close
<1>7. ASSUME NEW b \in TasksOf("board"),
             Board(b) \/ \E a \in Agents, new \in {"paused", "terminated", "idle"} : BoardBegin(b, a, new)
      PROVE  HandInv'
  <2>1. b \in Tasks  BY DEF TasksOf
  <2>2. QED  BY <1>7, <2>1, BoardSteady, HandKept
<1>8. ASSUME NEW p \in TasksOf("reap") PROVE FALSE  BY TaskNames DEF TasksOf
<1>9. CASE Finished \/ UNCHANGED vars
  BY <1>9, TasksSame, LaterSame, HandKept DEF Finished, vars
<1>10. QED  BY <1>1, <1>2, <1>3, <1>4, <1>5, <1>6, <1>7, <1>8, <1>9 DEF Next

LEMMA HandInit == ASSUME ConstantsAssumption, Init PROVE HandInv
<1>1. \A r \in Runs : runs[r].status = "none"  BY DEF Init, NoRun
<1>2. \A i \in Issues : lock[i] = 0 /\ deferred[i] = <<>>  BY DEF Init
<1>3. \A t \in Tasks : task[t].pc = "idle"  BY Blank DEF Init
<1>4. ActiveOwns /\ LockOwned /\ OwnerLives /\ WaitsOwned
  BY <1>1, <1>2 DEF ActiveOwns, LockOwned, OwnerLives, WaitsOwned, Active
<1>5. EndedFirst /\ Decided /\ OneDecides /\ Unscoped
  BY <1>3 DEF EndedFirst, Decided, DecidedOK, OneDecides, Unscoped
<1>6. QED  BY <1>4, <1>5 DEF HandInv

\* As many runs as own their issue's lock.
LEMMA OwnersAreOne == ASSUME ConstantsAssumption, HandInv PROVE OneActiveRunPerIssue
<1> SUFFICES ASSUME NEW i \in Issues
             PROVE  Cardinality({r \in Runs : Active(r) /\ runs[r].issue = i}) <= 1
  BY DEF OneActiveRunPerIssue
<1> DEFINE S == {r \in Runs : Active(r) /\ runs[r].issue = i}
<1>1. \A r \in S : r = lock[i]  BY DEF HandInv, ActiveOwns
<1>2. S = {} \/ S = {lock[i]}  BY <1>1
<1> HIDE DEF S
<1>3. CASE S = {}
  <2>1. Cardinality(S) = 0  BY <1>3, FS_EmptySet
  <2>2. QED  BY <2>1 DEF S
<1>4. CASE S = {lock[i]}
  <2>1. Cardinality(S) = 1  BY <1>4, FS_Singleton
  <2>2. QED  BY <2>1 DEF S
<1>5. QED  BY <1>2, <1>3, <1>4

\* Whatever crashes, agents work on an issue one after the other: without mentions, which
\* bypass the lock, and while no pass of the reaper sets a run that ended meanwhile to
\* "running" once more.
THEOREM OneRunPerIssue ==
  ASSUME ConstantsAssumption, Reapers = 0, "mention" \notin WakeKinds
  PROVE  Spec => []OneActiveRunPerIssue
<1>1. Init => IInv /\ HandInv  BY InitInv, HandInit
<1>2. IInv /\ HandInv /\ [Next]_vars => (IInv /\ HandInv)'  BY StepInv, HandStep
<1>3. HandInv => OneActiveRunPerIssue  BY OwnersAreOne
<1>4. QED  BY <1>1, <1>2, <1>3, PTL DEF Spec

\* As long as the server does not stop there is also somebody to hand the issue on, while
\* wakes wait for it.
THEOREM IssuesAreHandedOn ==
  ASSUME ConstantsAssumption, Reapers = 0, "mention" \notin WakeKinds, MaxCrashes = 0
  PROVE  Spec => []IssueIsHandedOn
<1>1. Init => IInv /\ HandInv  BY InitInv, HandInit
<1>2. IInv /\ HandInv /\ [Next]_vars => (IInv /\ HandInv)'  BY StepInv, HandStep
<1>3. HandInv => IssueIsHandedOn
  BY OwnersAreOne DEF IssueIsHandedOn, NoStrandedWakes, HandInv, OwnerLives, WaitsOwned
<1>4. QED  BY <1>1, <1>2, <1>3, PTL DEF Spec

-----------------------------------------------------------------------------
(* No running run is forgotten *)

Pc(r) == task[Exec(r)].pc

\* Where an execution still has the end of its run to store.
Carrying == Waiting \cup {"decide", "store"}

\* A child and its handle are waited for, and a run is claimed by a starter that will
\* execute it or executed until its end is stored, unless a process stopped.
HandledOK(r) ==
    /\ tracked[r] => Pc(r) = "child"
    /\ child[r] = "alive" => Pc(r) = "child" \/ used.crashes > 0
    /\ runs[r].status = "running" =>
          \/ Pc(r) \in Carrying
          \/ Pc(r) = "idle" /\ (Marked(r) \/ used.crashes > 0)
Handled == \A r \in Runs : HandledOK(r)

\* What a step does to the execution of r that no crash takes ...
Goes(r) ==
    /\ Pc(r) \in Carrying /\ runs'[r].status = "running" => Pc(r)' \in Carrying
    /\ Pc(r) = "idle" => Pc(r)' \in {"idle", "start"}
    /\ Marked(r) => Marked(r)' \/ Pc(r)' = "start"
    /\ used.crashes > 0 => used'.crashes > 0
    /\ (tracked[r] => Pc(r) = "child") => (tracked'[r] => Pc(r)' = "child")

\* ... and a crash of a process to any.
Stops(r) ==
    /\ Pc(r)' \in {Pc(r), "idle"}
    /\ used'.crashes > 0
    /\ tracked'[r] => tracked[r] /\ Pc(r)' = Pc(r)

\* Crashes are only counted up.
LEMMA CrashesCount ==
  ASSUME Typed
  PROVE  /\ \A event \in {"wakes", "cancels", "boards", "faults"} :
               Count(event) => (used.crashes > 0 => used'.crashes > 0)
         /\ Count("crashes") => used'.crashes > 0
BY DEF Typed, Counters, Count

\* A step that leaves the execution of r where it is.
LEMMA StaysThere ==
  ASSUME NEW r \in Runs, task'[Exec(r)] = task[Exec(r)], tracked'[r] => tracked[r],
         \A x \in Slot : Marks(x, r) => Marks(x, r)',
         used.crashes > 0 => used'.crashes > 0
  PROVE  Goes(r)
<1>1. Marked(r) => Marked(r)'  BY DEF Marked
<1>2. QED  BY <1>1 DEF Goes, Pc

\* A starter that is not about to execute r keeps what the others mark.
LEMMA MarksStay ==
  ASSUME Typed, NEW r \in Runs, NEW x \in Slot, ~Marks(x, r), NEW h,
         starter' = [starter EXCEPT ![x] = h]
  PROVE  \A y \in Slot : Marks(y, r) => Marks(y, r)'
BY DEF Typed, Marks

\* The steps of an execution that its task takes.
LEMMA ExecutionGoes ==
  ASSUME IInv, NEW r \in Runs, Execute(r) \/ ChildExits(r) \/ ExecThrows(r)
  PROVE  Goes(r)
<1> DEFINE e == Exec(r)
<1>1. Typed /\ e \in Tasks /\ task[e] \in Locals  BY TaskNames DEF IInv, Typed
<1>2. UNCHANGED starter
  BY DEF Execute, ExecBegin, ExecSetup, ExecLaunch, ExecDecide, ChildExits, ExecThrows
<1>3. Marked(r) => Marked(r)'  BY <1>2 DEF Marked, Marks
<1> HIDE DEF e
<1>4. CASE ExecBegin(r)
  <2>1. /\ task[e].pc = "start" /\ UNCHANGED <<runs, tracked, used>>
        /\ task'[e] = IF Active(r) THEN [task[e] EXCEPT !.pc = "setup"] ELSE Idle
    BY <1>1, <1>4 DEF ExecBegin, At, Typed, rowVars, e
  <2>2. task'[e].pc = "setup" \/ (task'[e].pc = "idle" /\ ~Active(r))
    BY <1>1, <2>1, Blank DEF Locals
  <2>3. QED  BY <1>3, <2>1, <2>2 DEF Goes, Pc, Carrying, Waiting, Launching, Active, e
<1>5. CASE ExecSetup(r) \/ ExecDecide(r) \/ ExecThrows(r)
  <2>1. task[e].pc \notin {"idle", "child"} /\ UNCHANGED tracked
    BY <1>5 DEF ExecSetup, ExecDecide, ExecThrows, At, e
  <2>2. task'[e].pc \in {"launch", "store"}
    BY <1>1, <1>5 DEF ExecSetup, ExecDecide, ExecThrows, Go, At, Typed, Locals, e
  <2>3. used.crashes > 0 => used'.crashes > 0
    BY <1>1, <1>5, CrashesCount DEF ExecSetup, ExecDecide, ExecThrows
  <2>4. QED  BY <1>3, <2>1, <2>2, <2>3 DEF Goes, Pc, Carrying, Waiting, Launching, e
<1>6. CASE ExecLaunch(r)
  <2>1. task[e].pc = "launch" /\ task'[e].pc = "child" /\ UNCHANGED used
    BY <1>1, <1>6, GoPlace DEF ExecLaunch, At, PCs, e
  <2>2. QED  BY <1>3, <2>1 DEF Goes, Pc, Carrying, Waiting, Launching, e
<1>7. CASE ChildExits(r)
  <2>1. ~tracked'[r] /\ UNCHANGED used
    BY <1>1, <1>7 DEF ChildExits, Typed
  <2>2. \/ task'[e] = task[e]
        \/ task[e].pc = "child" /\ task'[e].pc = "decide"
    BY <1>1, <1>7 DEF ChildExits, At, Typed, Locals, e
  <2>3. QED  BY <1>3, <2>1, <2>2 DEF Goes, Pc, Carrying, Waiting, Launching, e
<1>8. QED  BY <1>4, <1>5, <1>6, <1>7 DEF Execute

\* The steps that close the run of its execution.
LEMMA ClosingGoes ==
  ASSUME IInv, NEW r \in Runs, NEW t \in Tasks, Close(t)
  PROVE  Goes(r)
<1> DEFINE e == Exec(r)
<1>1. Typed /\ e \in Tasks /\ task[e] \in Locals  BY TaskNames DEF IInv, Typed
<1>2. UNCHANGED <<starter, used>> /\ (t # e => task'[e] = task[e])
  BY <1>1 DEF Close, Store, SetWake, ReleaseNothing, ReleaseAndPromote, FinalizeRead,
     FinalizeWrite, Go, Typed
<1>3. tracked'[r] => tracked[r]
  BY <1>1 DEF Close, Store, SetWake, ReleaseNothing, ReleaseAndPromote, Untrack, FinalizeRead,
     FinalizeWrite, Typed
<1>4. \A x \in Slot : Marks(x, r) => Marks(x, r)'  BY <1>2 DEF Marks
<1>5. CASE t # e  BY <1>2, <1>3, <1>4, <1>5, StaysThere
<1>6. CASE t = e
  <2>1. task[e].pc \in Closing
    BY <1>6 DEF Close, Store, SetWake, ReleaseNothing, ReleaseAndPromote, FinalizeRead,
       FinalizeWrite, At, Closing
  <2>2. Store(t) => runs'[r].status \in Terminal
    <3>1. Meant(e, task[e]) /\ e[1] = "exec" /\ e[2] = r  BY <1>1, Here, TaskNames
    <3>2. task[e].run = r  BY <2>1, <3>1 DEF Meant, Closing
    <3>3. QED  BY <1>6, <3>2, StoreFacts
  <2>3. task[e].pc = "store" => Store(t)
    BY <1>6 DEF Close, Store, SetWake, ReleaseNothing, ReleaseAndPromote, FinalizeRead,
       FinalizeWrite, At
  <2>4. Marked(r) => Marked(r)'  BY <1>4 DEF Marked
  <2> HIDE DEF e
  <2>5. /\ task[e].pc \notin {"idle", "child"}
        /\ task[e].pc \in Carrying => runs'[r].status # "running"
    BY <2>1, <2>2, <2>3 DEF Closing, Carrying, Waiting, Launching, Terminal
  <2>6. QED  BY <1>2, <1>3, <2>4, <2>5 DEF Goes, Pc, e
<1>7. QED  BY <1>5, <1>6

\* The steps of the start chain of an agent.
LEMMA StartingGoes ==
  ASSUME IInv, NEW r \in Runs, NEW p \in Processes, NEW a \in Agents, Start(p, a)
  PROVE  Goes(r)
<1> DEFINE e == Exec(r)
           x == <<p, a>>
<1>1. /\ Typed /\ e \in Tasks /\ e = <<"exec", r>> /\ x \in Slot
      /\ UNCHANGED <<tracked, used>>
  BY TaskNames DEF Exec, IInv, Slot, Start, StartCount, StartSelect, StartCheck, StartClaim, StartSpawn
<1>2. CASE StartCount(p, a) \/ StartSelect(p, a) \/ StartCheck(p, a) \/ StartClaim(p, a)
  <2>1. starter[x].pc # "mark"
    BY <1>2 DEF StartCount, StartSelect, StartCheck, StartClaim
  <2>2. PICK h : starter' = [starter EXCEPT ![x] = h]
    BY <1>1, <1>2 DEF StartCount, StartSelect, StartCheck, StartClaim, Typed
  <2>3. task'[e] = task[e]
    BY <1>1, <1>2 DEF StartCount, StartSelect, StartCheck, StartClaim, Typed
  <2>4. ~Marks(x, r)  BY <2>1 DEF Marks
  <2> HIDE DEF x
  <2>5. \A y \in Slot : Marks(y, r) => Marks(y, r)'  BY <1>1, <2>2, <2>4, MarksStay
  <2>6. QED  BY <1>1, <2>3, <2>5, StaysThere
<1>3. CASE StartSpawn(p, a)
  <2>1. starter[x].run \in Runs /\ starter[x].pc = "mark" /\ starter' = [starter EXCEPT ![x] = NotStarting]
    BY <1>1, <1>3 DEF StartSpawn, IInv, StartersOK, StarterOK
  <2>2. CASE r = starter[x].run
    <3>1. Marked(r)  BY <1>1, <2>1, <2>2 DEF Marked, Marks
    <3>2. task[e].pc = "idle"  BY <3>1 DEF IInv, LivesOK, LifeOK
    <3>3. task'[e].pc = "start"
      <4>1. PICK s \in Services :
              task' = [task EXCEPT ![e] = [Idle EXCEPT !.pc = "start", !.run = r, !.service = s]]
        BY <1>1, <1>3, <2>2 DEF StartSpawn
      <4>2. [Idle EXCEPT !.pc = "start", !.run = r, !.service = s].pc = "start"
        BY Blank DEF Locals
      <4>3. QED  BY <1>1, <4>1, <4>2 DEF Typed
    <3>4. QED  BY <1>1, <3>2, <3>3 DEF Goes, Pc, Carrying, Waiting, Launching
  <2>3. CASE r # starter[x].run
    <3>1. task'[e] = task[e]  BY <1>1, <1>3, <2>1, <2>3 DEF StartSpawn, Typed
    <3>2. ~Marks(x, r)  BY <2>3 DEF Marks
    <3> HIDE DEF x
    <3>3. \A y \in Slot : Marks(y, r) => Marks(y, r)'  BY <1>1, <2>1, <3>2, MarksStay
    <3>4. QED  BY <1>1, <3>1, <3>3, StaysThere
  <2>4. QED  BY <2>2, <2>3
<1>4. QED  BY <1>2, <1>3 DEF Start

\* What every step does to the execution of r.
LEMMA GoesOrStops ==
  ASSUME ConstantsAssumption, IInv, [Next]_vars, NEW r \in Runs
  PROVE  Goes(r) \/ Stops(r)
<1> DEFINE e == Exec(r)
<1>1. Typed /\ e \in Tasks /\ e[1] = "exec" /\ e = <<"exec", r>>
  BY TaskNames DEF Exec, IInv
<1>2. ASSUME UNCHANGED <<starter, tracked>>, task'[e] = task[e], used.crashes > 0 => used'.crashes > 0
      PROVE  Goes(r)
  <2>1. \A x \in Slot : Marks(x, r) => Marks(x, r)'  BY <1>2 DEF Marks
  <2>2. QED  BY <1>2, <2>1, StaysThere
<1>3. ASSUME NEW w \in TasksOf("wake"), \/ Wake(w) \/ \E a, i, kind : WakeBegin(w, a, i, kind)
      PROVE  Goes(r)
  <2>1. w \in Tasks /\ w # e  BY <1>1 DEF TasksOf
  <2>2. UNCHANGED <<tracked, starter>> /\ task'[e] = task[e]
    BY <1>1, <1>3, <2>1 DEF Wake, WakeLockIssue, WakeCommit, WakeScan, WakeInsert, WakeBegin, Typed
  <2>3. UNCHANGED used \/ Count("wakes")
    BY <1>3 DEF Wake, WakeLockIssue, WakeCommit, WakeScan, WakeInsert, WakeBegin
  <2>4. QED  BY <1>1, <1>2, <2>2, <2>3, CrashesCount
<1>4. ASSUME NEW b \in TasksOf("board"), \/ Board(b) \/ \E a, new : BoardBegin(b, a, new)
      PROVE  Goes(r)
  <2>1. b \in Tasks /\ b # e  BY <1>1 DEF TasksOf
  <2>2. UNCHANGED <<tracked, starter>> /\ task'[e] = task[e]
    BY <1>1, <1>4, <2>1 DEF Board, BoardWrite, BoardList, BoardNext, BoardBegin, Typed
  <2>3. UNCHANGED used \/ Count("boards")
    BY <1>4 DEF Board, BoardWrite, BoardList, BoardNext, BoardBegin
  <2>4. QED  BY <1>1, <1>2, <2>2, <2>3, CrashesCount
<1>5. ASSUME NEW p \in TasksOf("reap"), ReapBegin(p) \/ Reap(p) PROVE Goes(r)
  <2>1. p \in Tasks /\ p # e  BY <1>1 DEF TasksOf
  <2>2. UNCHANGED <<tracked, starter, used>> /\ task'[e] = task[e]
    BY <1>1, <1>5, <2>1 DEF Reap, ReapBegin, ReapDone, ReapSkip, ReapDetach, ReapLost, ReapRetry, Typed
  <2>3. QED  BY <1>2, <2>2
<1>6. ASSUME NEW q \in Runs, CancelBegin(q) PROVE Goes(r)
  <2>1. <<"cancel", q>> \in Tasks /\ <<"cancel", q>> # e  BY <1>1, TaskNames
  <2>2. UNCHANGED <<tracked, starter>> /\ task'[e] = task[e] /\ Count("cancels")
    BY <1>1, <1>6, <2>1 DEF CancelBegin, Typed
  <2>3. QED  BY <1>1, <1>2, <2>2, CrashesCount
<1>7. ASSUME NEW q \in Runs, RecordPid(q) PROVE Goes(r)
  BY <1>2, <1>7 DEF RecordPid, memory
<1>8. ASSUME NEW q \in Runs, Execute(q) \/ ChildExits(q) \/ ExecThrows(q) PROVE Goes(r)
  <2>1. CASE q = r  BY <1>8, <2>1, ExecutionGoes
  <2>2. CASE q # r
    <3>1. Exec(q) \in Tasks /\ Exec(q) # e  BY <1>1, <2>2, TaskNames DEF Exec
    <3>2. /\ UNCHANGED starter /\ tracked'[r] = tracked[r] /\ task'[e] = task[e]
          /\ UNCHANGED used \/ Count("faults")
      BY <1>1, <1>8, <2>2, <3>1 DEF Execute, ExecBegin, ExecSetup, ExecLaunch, ExecDecide, ChildExits,
         ExecThrows, Go, At, Typed
    <3>3. \A x \in Slot : Marks(x, r) => Marks(x, r)'  BY <3>2 DEF Marks
    <3>4. QED  BY <1>1, <3>2, <3>3, CrashesCount, StaysThere
  <2>3. QED  BY <2>1, <2>2
<1>9. ASSUME NEW p \in Processes, Crash(p) PROVE Stops(r)
  <2> DEFINE lost(t) == IF t[1] = "exec" THEN ProcessOf(task[t].service) = p ELSE p = "server"
  <2>1. /\ task'[e] = IF lost(e) THEN Idle ELSE task[e]
        /\ tracked'[r] = (tracked[r] /\ ~lost(e))
        /\ Count("crashes")
    BY <1>1, <1>9 DEF Crash
  <2> HIDE DEF lost
  <2>2. QED  BY <1>1, <2>1, Blank, CrashesCount DEF Stops, Pc
<1>10. CASE Finished \/ UNCHANGED vars
  BY <1>2, <1>10 DEF Finished, vars
<1>11. QED
  BY <1>3, <1>4, <1>5, <1>6, <1>7, <1>8, <1>9, <1>10, ClosingGoes, StartingGoes DEF Next
\* A queued run that is claimed is marked by its starter.
LEMMA ClaimMarks ==
  ASSUME IInv, NEW p \in Processes, NEW a \in Agents, StartClaim(p, a), NEW r \in Runs,
         runs'[r].status = "running", runs[r].status # "running"
  PROVE  Marked(r)'
<1> DEFINE x == <<p, a>>
<1>1. x \in Slot /\ Typed /\ starter[x] \in Starters  BY DEF Slot, IInv, Typed
<1>2. r = starter[x].run /\ runs[r].status = "queued"
  BY ClaimFacts
<1>3. starter' = [starter EXCEPT ![x] = [starter[x] EXCEPT !.pc = "mark"]]
  BY <1>1, <1>2 DEF StartClaim, Typed
<1> HIDE DEF x
<1>4. Marks(x, r)'  BY <1>1, <1>2, <1>3 DEF Typed, Starters, Marks
<1>5. QED  BY <1>1, <1>4 DEF Marked

\* A run that is running comes from a claim, or was made so by a reaper that saw its
\* child alive.
LEMMA RunningComes ==
  ASSUME ConstantsAssumption, IInv, [Next]_vars, NEW r \in Runs,
         runs'[r].status = "running", runs[r].status # "running"
  PROVE  Marked(r)' \/ child[r] = "alive"
<1>1. RowStep  BY RowSteps
<1>2. ~Kept  BY DEF Kept
<1>3. ASSUME NEW q \in Runs, NEW a, NEW i, NEW o, Inserts(q, a, i, o) PROVE FALSE
  BY <1>3 DEF Inserts
<1>4. ASSUME NEW t \in Tasks, Store(t) PROVE FALSE
  BY <1>4, StoreFacts DEF Terminal
<1>5. ASSUME NEW p \in TasksOf("reap"), ReapDetach(p) PROVE child[r] = "alive"
  <2>1. PICK s \in task[p].left :
          /\ child[s.run] = "alive"
          /\ runs' = IF s.detached THEN runs
                     ELSE [runs EXCEPT ![s.run].status = "running", ![s.run].detached = TRUE]
    BY <1>5 DEF ReapDetach
  <2>2. s.run \in Runs /\ Typed  BY <1>5, LeftFacts DEF ReapDetach, IInv
  <2>3. s.run = r  BY <2>1, <2>2, DetachFacts
  <2>4. QED  BY <2>1, <2>3
<1>6. ASSUME NEW p \in TasksOf("reap"), ReapRetry(p) PROVE FALSE
  BY <1>3, <1>6, RetryFacts
<1>7. QED  BY <1>1, <1>2, <1>3, <1>4, <1>5, <1>6, ClaimMarks DEF RowStep

LEMMA HandledStep ==
  ASSUME ConstantsAssumption, IInv, IInv', Handled, [Next]_vars
  PROVE  Handled'
<1> SUFFICES ASSUME NEW r \in Runs PROVE HandledOK(r)'  BY DEF Handled
<1> DEFINE crash == \E p \in Processes : Crash(p)
<1>1. HandledOK(r) /\ LifeOK(r) /\ LifeOK(r)'  BY DEF Handled, IInv, LivesOK
<1>2. Goes(r) \/ Stops(r)  BY GoesOrStops
<1>3. Lived(r, crash)  BY LifeSteps
<1>4. crash => used'.crashes > 0
  BY CrashesCount DEF Crash, IInv
<1>5. used.crashes > 0 => used'.crashes > 0
  BY <1>2 DEF Goes, Stops
<1> HIDE DEF crash
<1>6. tracked'[r] => Pc(r)' = "child"
  BY <1>1, <1>2 DEF Goes, Stops, HandledOK
<1>7. child'[r] = "alive" => Pc(r)' = "child" \/ used'.crashes > 0
  BY <1>1, <1>3, <1>4, <1>5 DEF HandledOK, Lived, Pc
<1>8. ASSUME runs'[r].status = "running"
      PROVE  \/ Pc(r)' \in Carrying
             \/ Pc(r)' = "idle" /\ (Marked(r)' \/ used'.crashes > 0)
  <2>1. ASSUME \/ Pc(r) \in Carrying
               \/ Pc(r) = "idle" /\ (Marked(r) \/ used.crashes > 0)
        PROVE  \/ Pc(r)' \in Carrying
               \/ Pc(r)' = "idle" /\ (Marked(r)' \/ used'.crashes > 0)
    <3>1. CASE Stops(r)  BY <2>1, <3>1 DEF Stops
    <3>2. CASE Goes(r)
      <4>1. "start" \in Carrying  BY DEF Carrying, Waiting, Launching
      <4>2. CASE Pc(r) \in Carrying  BY <1>8, <3>2, <4>2 DEF Goes
      <4>3. CASE Pc(r) = "idle" /\ (Marked(r) \/ used.crashes > 0)
        BY <3>2, <4>1, <4>3 DEF Goes
      <4>4. QED  BY <2>1, <4>2, <4>3
    <3>3. QED  BY <1>2, <3>1, <3>2
  <2>2. CASE runs[r].status = "running"  BY <1>1, <2>1, <2>2 DEF HandledOK
  <2>3. CASE Marked(r)'
    <3>1. Pc(r)' = "idle"  BY <1>1, <2>3 DEF LifeOK, Pc
    <3>2. QED  BY <2>3, <3>1
  <2>4. CASE child[r] = "alive"
    <3>1. Pc(r) \in {"idle", "child"} /\ "child" \in Carrying
      BY <1>1, <2>4 DEF LifeOK, Pc, Carrying, Waiting
    <3>2. QED  BY <1>1, <2>1, <2>4, <3>1 DEF HandledOK
  <2>5. QED  BY <1>8, <2>2, <2>3, <2>4, RunningComes
<1>9. QED  BY <1>6, <1>7, <1>8 DEF HandledOK, Pc

\* No running run is forgotten, for any faults, cancellations, reapers and services: it
\* is about to be executed, or executed until its end is stored, and if a process that
\* stopped had it, a reaper does not take it for one that is executed.
THEOREM RunningRunsAreInHand ==
  ASSUME ConstantsAssumption PROVE Spec => []NoRunIsForgotten
<1>1. ASSUME Init PROVE Handled
  <2>1. \A r \in Runs : runs[r].status = "none" /\ child[r] = "none" /\ ~tracked[r]
    BY <1>1 DEF Init, NoRun
  <2>2. QED  BY <2>1 DEF Handled, HandledOK
<1>2. IInv /\ IInv' /\ Handled /\ [Next]_vars => Handled'  BY HandledStep
<1>3. IInv /\ Handled => NoRunIsForgotten
  <2> SUFFICES ASSUME IInv, Handled, NEW r \in Runs, runs[r].status = "running"
               PROVE  \/ JustClaimed(r)
                      \/ task[Exec(r)].pc \in {"child", "decide", "store"}
                      \/ used.crashes > 0 /\ ~SeenExecuting(r)
    BY DEF NoRunIsForgotten
  <2>1. HandledOK(r)  BY DEF Handled
  <2>2. CASE Pc(r) \in Carrying
    BY <2>2 DEF Carrying, Waiting, Launching, JustClaimed, Pc
  <2>3. CASE Marked(r)
    <3>1. DOMAIN starter = Slot  BY DEF IInv, Typed
    <3>2. QED  BY <2>3, <3>1 DEF Marked, Marks, JustClaimed
  <2>4. CASE Pc(r) = "idle" /\ used.crashes > 0
    <3>1. ~HasHandle(r) /\ ~Executing(r)  BY <2>1, <2>4 DEF HandledOK, HasHandle, Executing, Pc
    <3>2. QED  BY <2>4, <3>1 DEF SeenExecuting
  <2>5. QED  BY <2>1, <2>2, <2>3, <2>4 DEF HandledOK
<1>4. QED  BY <1>1, <1>2, <1>3, Invariance, PTL DEF Spec
=============================================================================
