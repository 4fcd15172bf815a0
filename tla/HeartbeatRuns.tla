---------------------------- MODULE HeartbeatRuns ----------------------------
(***************************************************************************)
(* Heartbeat runs and the execution lock of issues, from                   *)
(* server/src/services/heartbeat.ts: a wakeup inserts a queued run, a run  *)
(* is claimed, executed in a child process and finished, and while a run   *)
(* owns an issue the wakes of other agents for that issue are deferred.    *)
(*                                                                         *)
(* The rows of the database survive a crash of the server; the tasks, the  *)
(* process handles and the row locks of transactions do not.  A task is an *)
(* async function of the service in progress; one step is the code between *)
(* two awaits, or one transaction.  The start lock, which AgentStartLock   *)
(* is about, is a single starter per process and agent here.               *)
(*                                                                         *)
(* The server makes many instances of heartbeatService: the one of its     *)
(* timer, those of its routes, and the worker process makes its own.  Each *)
(* instance has its own activeRunExecutions, and each process its own      *)
(* runningProcesses and start locks.                                       *)
(***************************************************************************)
EXTENDS Naturals, FiniteSets, Sequences, SequencesExt

CONSTANTS
    Agents,             \* the agents of a company
    Issues,             \* its issues
    MaxConcurrentRuns,  \* heartbeat.maxConcurrentRuns of every agent
    Services,           \* instances of heartbeatService: of {"timer", "routes", "worker"}
    WakeKinds,          \* which wakeups: subset of {"timer", "plain", "comment", "mention"}
    Outcomes,           \* what an adapter may report: subset of RunOutcome
    RunCount,           \* bound: runs ever inserted
    MaxWakes,           \* bound: wakeups ever requested
    Wakers,             \* bound: wakeups in progress at a time
    Boards,             \* bound: pause, terminate and resume requests at a time
    Reapers,            \* bound: passes of reapOrphanedRuns at a time
    MaxCancels,         \* bound: cancellations by the board
    MaxBoardCalls,      \* bound: pause, terminate and resume requests
    MaxLate,            \* bound: how many older runs may still wait in their transactions
    MaxFaults,          \* bound: exceptions inside executeRun
    MaxCrashes,         \* bound: crashes of the server
    NoAgent,            \* no agent
    NoIssue             \* the scope of a run that is about no issue

Runs == 1 .. RunCount
Tasks == ({"exec", "cancel"} \X Runs) \cup ({"wake"} \X (1 .. Wakers))
            \cup ({"board"} \X (1 .. Boards)) \cup ({"reap"} \X (1 .. Reapers))

ProcessOf(s) == IF s = "worker" THEN "worker" ELSE "server"
Processes == {ProcessOf(s) : s \in Services}

ASSUME ConstantsAssumption ==
    /\ {RunCount, MaxWakes, Wakers, Boards, Reapers, MaxCancels, MaxBoardCalls,
        MaxFaults, MaxCrashes} \subseteq Nat
    /\ MaxConcurrentRuns \in Nat \ {0}
    /\ Services \subseteq {"timer", "routes", "worker"}
    /\ WakeKinds \subseteq {"timer", "plain", "comment", "mention"}
    /\ Outcomes \subseteq {"succeeded", "failed", "timed_out"}
    /\ NoAgent \notin Agents
    /\ NoIssue \notin Issues

VARIABLES
    runs,        \* heartbeat_runs, with the wakeup request of each run
    lock,        \* issues.execution_run_id (0: null)
    deferred,    \* deferred_issue_execution wakeups of an issue, oldest first
    agentStatus, \* agents.status
    child,       \* the child process of a run: "none" | "alive" | "dead"
    tracked,     \* runningProcesses.has(run)
    task,        \* where each task stands, and its locals
    starter,     \* the body of startNextQueuedRunForAgent, of a process and an agent
    rowLock,     \* issues whose row a wakeup's transaction holds FOR UPDATE
    booted,      \* whether the startup pass of the reaper has begun
    used         \* how often each bounded event has happened

rowVars == <<runs, lock, deferred, agentStatus>>
memory == <<tracked, task, starter, rowLock, booted>>
vars == <<runs, lock, deferred, agentStatus, child, tracked, task, starter,
          rowLock, booted, used>>

Terminal == {"succeeded", "failed", "timed_out", "cancelled"}
NoRun == [status |-> "none", agent |-> NoAgent, issue |-> NoIssue, wake |-> "none",
          pid |-> FALSE, detached |-> FALSE, retryOf |-> 0]
Idle == [pc |-> "idle", run |-> 0, agent |-> NoAgent, issue |-> NoIssue,
         left |-> {}, verdict |-> "none", service |-> "none"]
NotStarting == [pc |-> "idle", run |-> 0]
NoEvents == [wakes |-> 0, cancels |-> 0, boards |-> 0, faults |-> 0, crashes |-> 0]

Init ==
    /\ runs = [r \in Runs |-> NoRun]
    /\ lock = [i \in Issues |-> 0]
    /\ deferred = [i \in Issues |-> <<>>]
    /\ agentStatus = [a \in Agents |-> "idle"]
    /\ child = [r \in Runs |-> "none"]
    /\ tracked = [r \in Runs |-> FALSE]
    /\ task = [t \in Tasks |-> Idle]
    /\ starter = [x \in Processes \X Agents |-> NotStarting]
    /\ rowLock = {}
    /\ booted = FALSE
    /\ used = NoEvents

-----------------------------------------------------------------------------
(* Rows *)

Active(r) == runs[r].status \in {"queued", "running"}
Invokable(a) == agentStatus[a] \notin {"paused", "terminated"}
InStatus(a, s) == {r \in Runs : runs[r].agent = a /\ runs[r].status = s}
Oldest(S, r) == r \in S /\ \A q \in S : r <= q

\* Runs are numbered in the order of createdAt, the start of the transaction that
\* inserts them; a transaction that waits may insert after younger ones.
NewRun(r) ==
    /\ runs[r].status = "none"
    /\ Cardinality({q \in 1 .. r : runs[q].status = "none"}) <= MaxLate + 1

\* The row an insert makes, together with its wakeup request.
QueuedRun(a, i, retryOf) ==
    [NoRun EXCEPT !.status = "queued", !.agent = a, !.issue = i,
                  !.wake = "queued", !.retryOf = retryOf]

At(t, p) == task[t].pc = p
Go(t, p) == task' = [task EXCEPT ![t].pc = p]
Count(event) == used' = [used EXCEPT ![event] = @ + 1]

\* The agent that the run of a task belongs to.
AgentOf(t) == runs[task[t].run].agent

-----------------------------------------------------------------------------
(* enqueueWakeup *)

\* The agent is read and checked, then everything that follows runs without
\* reading it again.  A mention bypasses the lock of the issue.
WakeBegin(w, a, i, kind) ==
    /\ At(w, "idle")
    /\ used.wakes < MaxWakes
    /\ Count("wakes")
    /\ i = NoIssue <=> kind = "timer"
    /\ Invokable(a)
    /\ task' = [task EXCEPT ![w] =
            [Idle EXCEPT !.pc = IF kind \in {"timer", "mention"} THEN "scan" ELSE "lockIssue",
                         !.agent = a, !.issue = i, !.verdict = kind]]
    /\ UNCHANGED <<rowVars, child, tracked, starter, rowLock, booted>>

\* The active run of issue i: the owner of its lock, else the oldest running,
\* else the oldest queued run about it.
ExecutionRun(i, r) ==
    LET about(s) == {q \in Runs : runs[q].issue = i /\ runs[q].status = s} IN
    IF lock[i] # 0 /\ Active(lock[i]) THEN r = lock[i]
    ELSE IF about("running") # {} THEN Oldest(about("running"), r)
    ELSE Oldest(about("queued"), r)

\* Mutant: the issue is read without FOR UPDATE.
WakeLockIssueUnlocked(w) ==
    LET i == task[w].issue
        found == {r \in Runs : ExecutionRun(i, r)} IN
    /\ At(w, "lockIssue")
    /\ \/ /\ found = {}
          /\ task' = [task EXCEPT ![w].pc = "commit", ![w].verdict = "queue"]
       \/ \E r \in found :
            task' = [task EXCEPT ![w].pc = "commit", ![w].run = r,
                ![w].verdict = IF runs[r].agent = task[w].agent THEN "coalesce" ELSE "defer"]
    /\ UNCHANGED <<rowVars, child, tracked, starter, rowLock, booted, used>>

\* SELECT ... FOR UPDATE of the issue, then of its active run: decide.
WakeLockIssue(w) ==
    LET i == task[w].issue
        a == task[w].agent
        found == {r \in Runs : ExecutionRun(i, r)}
        followUp(r) == task[w].verdict = "comment" /\ runs[r].status = "running" IN
    /\ At(w, "lockIssue")
    /\ i \notin rowLock
    /\ rowLock' = rowLock \cup {i}
    /\ \/ /\ found = {}
          /\ task' = [task EXCEPT ![w].pc = "commit", ![w].verdict = "queue"]
       \/ \E r \in found :
            task' = [task EXCEPT
                ![w].pc = "commit",
                ![w].run = r,
                ![w].verdict = IF runs[r].agent = a /\ ~followUp(r) THEN "coalesce" ELSE "defer"]
    /\ UNCHANGED <<rowVars, child, tracked, starter, booted, used>>

\* The writes of the transaction; a second deferral of an agent merges into the
\* first.
WakeCommit(w) ==
    LET i == task[w].issue
        a == task[w].agent IN
    /\ At(w, "commit")
    /\ \/ /\ task[w].verdict = "queue"
          /\ \E r \in Runs :
                /\ NewRun(r)
                /\ runs' = [runs EXCEPT ![r] = QueuedRun(a, i, 0)]
                /\ lock' = [lock EXCEPT ![i] = r]
          /\ UNCHANGED deferred
       \/ /\ task[w].verdict # "queue"
          /\ lock' = [lock EXCEPT ![i] = task[w].run]
          /\ deferred' = IF task[w].verdict = "defer" /\ a \notin ToSet(deferred[i])
                         THEN [deferred EXCEPT ![i] = Append(@, a)]
                         ELSE deferred
          /\ UNCHANGED runs
    /\ rowLock' = rowLock \ {i}
    /\ task' = [task EXCEPT ![w] = Idle]
    /\ UNCHANGED <<agentStatus, child, tracked, starter, booted, used>>

\* Without an issue, or with a mention: read the agent's active runs ...
WakeScan(w) ==
    LET same(s) == {r \in InStatus(task[w].agent, s) : runs[r].issue = task[w].issue}
        coalesced == same("queued") # {} \/ (same("running") # {} /\ task[w].verdict = "timer") IN
    /\ At(w, "scan")
    /\ task' = [task EXCEPT ![w] = IF coalesced THEN Idle ELSE [@ EXCEPT !.pc = "insert"]]
    /\ UNCHANGED <<rowVars, child, tracked, starter, rowLock, booted, used>>

\* ... and insert a run, in no transaction with what was read.
WakeInsert(w) ==
    /\ At(w, "insert")
    /\ \E r \in Runs :
        /\ NewRun(r)
        /\ runs' = [runs EXCEPT ![r] = QueuedRun(task[w].agent, task[w].issue, 0)]
    /\ task' = [task EXCEPT ![w] = Idle]
    /\ UNCHANGED <<lock, deferred, agentStatus, child, tracked, starter, rowLock, booted, used>>

-----------------------------------------------------------------------------
(* startNextQueuedRunForAgent and claimQueuedRun *)

\* Mutant: the running runs are not counted.
StartCountNothing(p, a) ==
    /\ starter[<<p, a>>].pc = "idle"
    /\ Invokable(a)
    /\ InStatus(a, "queued") # {}
    /\ starter' = [starter EXCEPT ![<<p, a>>].pc = "select"]
    /\ UNCHANGED <<rowVars, child, tracked, task, rowLock, booted, used>>

\* Mutant: one slot too few.
StartCountOffByOne(p, a) ==
    /\ Cardinality(InStatus(a, "running")) + 1 < MaxConcurrentRuns
    /\ StartCountNothing(p, a)

\* Read the agent and count its running runs.
StartCount(p, a) ==
    /\ starter[<<p, a>>].pc = "idle"
    /\ Invokable(a)
    /\ InStatus(a, "queued") # {}
    /\ Cardinality(InStatus(a, "running")) < MaxConcurrentRuns
    /\ starter' = [starter EXCEPT ![<<p, a>>].pc = "select"]
    /\ UNCHANGED <<rowVars, child, tracked, task, rowLock, booted, used>>

\* Read the oldest queued run.
StartSelect(p, a) ==
    LET queued == InStatus(a, "queued") IN
    /\ starter[<<p, a>>].pc = "select"
    /\ \/ /\ queued = {}
          /\ starter' = [starter EXCEPT ![<<p, a>>] = NotStarting]
       \/ \E r \in Runs :
            /\ Oldest(queued, r)
            /\ starter' = [starter EXCEPT ![<<p, a>>] = [pc |-> "check", run |-> r]]
    /\ UNCHANGED <<rowVars, child, tracked, task, rowLock, booted, used>>

\* claimQueuedRun reads the agent again; the run of one that was paused since is
\* cancelled.
StartCheck(p, a) ==
    LET r == starter[<<p, a>>].run IN
    /\ starter[<<p, a>>].pc = "check"
    /\ IF Invokable(a)
       THEN /\ starter' = [starter EXCEPT ![<<p, a>>].pc = "claim"]
            /\ UNCHANGED task
       ELSE /\ starter' = [starter EXCEPT ![<<p, a>>] = NotStarting]
            /\ IF Active(r)
               THEN /\ At(<<"cancel", r>>, "idle")
                    /\ task' = [task EXCEPT ![<<"cancel", r>>] =
                            [Idle EXCEPT !.pc = "store", !.run = r, !.verdict = "cancelled"]]
               ELSE UNCHANGED task
    /\ UNCHANGED <<rowVars, child, tracked, rowLock, booted, used>>

\* Mutant: the UPDATE does not ask for status = 'queued'.
StartClaimUnguarded(p, a) ==
    /\ starter[<<p, a>>].pc = "claim"
    /\ runs' = [runs EXCEPT ![starter[<<p, a>>].run].status = "running"]
    /\ starter' = [starter EXCEPT ![<<p, a>>].pc = "mark"]
    /\ UNCHANGED <<lock, deferred, agentStatus, child, tracked, task, rowLock, booted, used>>

\* UPDATE ... SET status = 'running' WHERE status = 'queued'.
StartClaim(p, a) ==
    LET r == starter[<<p, a>>].run IN
    /\ starter[<<p, a>>].pc = "claim"
    /\ IF runs[r].status = "queued"
       THEN /\ runs' = [runs EXCEPT ![r].status = "running"]
            /\ starter' = [starter EXCEPT ![<<p, a>>].pc = "mark"]
       ELSE /\ starter' = [starter EXCEPT ![<<p, a>>] = NotStarting]
            /\ UNCHANGED runs
    /\ UNCHANGED <<lock, deferred, agentStatus, child, tracked, task, rowLock, booted, used>>

\* The wakeup request becomes "claimed", then executeRun begins, in the service
\* that was called.
StartSpawn(p, a) ==
    LET r == starter[<<p, a>>].run IN
    /\ starter[<<p, a>>].pc = "mark"
    /\ runs' = [runs EXCEPT ![r].wake = "claimed"]
    /\ \E s \in Services :
        /\ ProcessOf(s) = p
        /\ task' = [task EXCEPT ![<<"exec", r>>] =
                [Idle EXCEPT !.pc = "start", !.run = r, !.service = s]]
    /\ starter' = [starter EXCEPT ![<<p, a>>] = NotStarting]
    /\ UNCHANGED <<lock, deferred, agentStatus, child, tracked, rowLock, booted, used>>

-----------------------------------------------------------------------------
(* executeRun *)

Exec(r) == <<"exec", r>>

\* Run r is in the activeRunExecutions of the service that executes it.
Executing(r) == task[Exec(r)].pc \notin {"idle", "start"}

\* runningProcesses.has(r) in the server.
HasHandle(r) == tracked[r] /\ ProcessOf(task[Exec(r)].service) = "server"

\* Read the run: one that was finished meanwhile is not executed.
ExecBegin(r) ==
    /\ At(Exec(r), "start")
    /\ task' = [task EXCEPT ![Exec(r)] = IF Active(r) THEN [@ EXCEPT !.pc = "setup"] ELSE Idle]
    /\ UNCHANGED <<rowVars, child, tracked, starter, rowLock, booted, used>>

\* Read the agent, resolve the workspace and the session, then set the agent to
\* "running".
ExecSetup(r) ==
    /\ At(Exec(r), "setup")
    /\ agentStatus' = [agentStatus EXCEPT ![runs[r].agent] = "running"]
    /\ Go(Exec(r), "launch")
    /\ UNCHANGED <<runs, lock, deferred, child, tracked, starter, rowLock, booted, used>>

\* adapter.execute spawns the child.
ExecLaunch(r) ==
    /\ At(Exec(r), "launch")
    /\ child' = [child EXCEPT ![r] = "alive"]
    /\ tracked' = [tracked EXCEPT ![r] = TRUE]
    /\ Go(Exec(r), "child")
    /\ UNCHANGED <<rowVars, starter, rowLock, booted, used>>

\* onSpawn: persistRunProcessMetadata, which nothing waits for.
RecordPid(r) ==
    /\ At(Exec(r), "child")
    /\ ~runs[r].pid
    /\ runs' = [runs EXCEPT ![r].pid = TRUE]
    /\ UNCHANGED <<lock, deferred, agentStatus, child, memory, used>>

\* The child ends, by itself or by a signal; the adapter of a run that is still
\* executed returns.
ChildExits(r) ==
    /\ child[r] = "alive"
    /\ child' = [child EXCEPT ![r] = "dead"]
    /\ tracked' = [tracked EXCEPT ![r] = FALSE]
    /\ task' = IF At(Exec(r), "child") THEN [task EXCEPT ![Exec(r)].pc = "decide"] ELSE task
    /\ UNCHANGED <<rowVars, starter, rowLock, booted, used>>

\* Read the run again and settle the outcome.
ExecDecide(r) ==
    /\ At(Exec(r), "decide")
    /\ \E outcome \in IF runs[r].status = "cancelled" THEN {"cancelled"} ELSE Outcomes :
        task' = [task EXCEPT ![Exec(r)].pc = "store", ![Exec(r)].verdict = outcome]
    /\ UNCHANGED <<rowVars, child, tracked, starter, rowLock, booted, used>>

\* Mutant: the adapter rejects while its child still works.
ExecThrowsEarly(r) ==
    /\ task[Exec(r)].pc \in {"setup", "launch", "child", "decide"}
    /\ used.faults < MaxFaults
    /\ Count("faults")
    /\ task' = [task EXCEPT ![Exec(r)].pc = "store", ![Exec(r)].verdict = "failed"]
    /\ UNCHANGED <<rowVars, child, tracked, starter, rowLock, booted>>

\* An exception after the setup began: the catch blocks store "failed".
ExecThrows(r) ==
    /\ task[Exec(r)].pc \in {"setup", "launch", "decide", "store", "wake", "release", "finalRead"}
    /\ used.faults < MaxFaults
    /\ Count("faults")
    /\ task' = [task EXCEPT ![Exec(r)].pc = "store", ![Exec(r)].verdict = "failed"]
    /\ UNCHANGED <<rowVars, child, tracked, starter, rowLock, booted>>

-----------------------------------------------------------------------------
(* What executeRun, cancelRunInternal, cancelActiveForAgentInternal and       *)
(* reapOrphanedRuns share.                                                    *)

\* The run status a verdict stands for.
StatusOf(verdict) == IF verdict = "retrying" THEN "failed" ELSE verdict

\* setRunStatus(run, ...), whatever the status was.
Store(t) ==
    /\ At(t, "store")
    /\ runs' = [runs EXCEPT ![task[t].run].status = StatusOf(task[t].verdict)]
    /\ Go(t, "wake")
    /\ UNCHANGED <<lock, deferred, agentStatus, child, tracked, starter, rowLock, booted, used>>

\* Mutant: the run's status is stored as the wakeup's.
SetWakeUnmapped(t) ==
    /\ At(t, "wake")
    /\ runs' = [runs EXCEPT ![task[t].run].wake = task[t].verdict]
    /\ Go(t, "release")
    /\ UNCHANGED <<lock, deferred, agentStatus, child, tracked, starter, rowLock, booted, used>>

\* Mutant: a cancellation does not release the issue.
SetWakeKeepsLock(t) ==
    LET s == StatusOf(task[t].verdict) IN
    /\ At(t, "wake")
    /\ runs' = [runs EXCEPT ![task[t].run].wake = IF s = "succeeded" THEN "completed" ELSE s]
    /\ Go(t, IF t[1] = "board" THEN "next"
             ELSE IF t[1] = "cancel" THEN "finalRead" ELSE "release")
    /\ UNCHANGED <<lock, deferred, agentStatus, child, tracked, starter, rowLock, booted, used>>

\* setWakeupStatus(run.wakeupRequestId, ...).
SetWake(t) ==
    LET s == StatusOf(task[t].verdict) IN
    /\ At(t, "wake")
    /\ runs' = [runs EXCEPT ![task[t].run].wake = IF s = "succeeded" THEN "completed" ELSE s]
    /\ Go(t, IF task[t].verdict = "retrying" THEN "retry" ELSE "release")
    /\ UNCHANGED <<lock, deferred, agentStatus, child, tracked, starter, rowLock, booted, used>>

\* cancelActiveForAgentInternal goes to the next run, the others finalize the agent.
AfterRelease(t) == IF t[1] = "board" THEN "next" ELSE "finalRead"

\* cancelActiveForAgentInternal and cancelRunInternal forget the process handle.
Untrack(t) ==
    tracked' = IF t[1] \in {"board", "cancel"} /\ HasHandle(task[t].run)
               THEN [tracked EXCEPT ![task[t].run] = FALSE]
               ELSE tracked

\* The first deferred wake of an agent that may run; the ones before it fail.
Promotable(i, k) ==
    /\ k \in DOMAIN deferred[i]
    /\ Invokable(deferred[i][k])
    /\ \A j \in 1 .. (k - 1) : ~Invokable(deferred[i][j])

\* releaseIssueExecutionAndPromote, when the run owns no lock.
ReleaseNothing(t) ==
    /\ At(t, "release")
    /\ \A i \in Issues : lock[i] # task[t].run
    /\ Untrack(t)
    /\ Go(t, AfterRelease(t))
    /\ UNCHANGED <<rowVars, child, starter, rowLock, booted, used>>

\* ... when it owns the lock of issue i: hand it to the first deferred wake that
\* can be promoted.
ReleaseAndPromote(t, i) ==
    /\ At(t, "release")
    /\ lock[i] = task[t].run
    /\ i \notin rowLock
    /\ \/ \E k \in DOMAIN deferred[i], r \in Runs :
            /\ Promotable(i, k)
            /\ NewRun(r)
            /\ runs' = [runs EXCEPT ![r] = QueuedRun(deferred[i][k], i, 0)]
            /\ lock' = [lock EXCEPT ![i] = r]
            /\ deferred' = [deferred EXCEPT ![i] = SubSeq(@, k + 1, Len(@))]
       \/ /\ \A k \in DOMAIN deferred[i] : ~Promotable(i, k)
          /\ lock' = [lock EXCEPT ![i] = 0]
          /\ deferred' = [deferred EXCEPT ![i] = <<>>]
          /\ UNCHANGED runs
    /\ Untrack(t)
    /\ Go(t, AfterRelease(t))
    /\ UNCHANGED <<agentStatus, child, starter, rowLock, booted, used>>

\* What follows finalizeAgentStatus: the reaper forgets the handle and goes on.
AfterFinalize(t, rec) ==
    IF t[1] = "reap" THEN [rec EXCEPT !.pc = "next", !.run = 0, !.verdict = "none"] ELSE Idle

\* finalizeAgentStatus: read the agent and count its running runs ...
FinalizeRead(t) ==
    LET a == AgentOf(t) IN
    /\ At(t, "finalRead")
    /\ task' = [task EXCEPT ![t] =
            IF ~Invokable(a) THEN AfterFinalize(t, @)
            ELSE [@ EXCEPT !.pc = "finalWrite",
                           !.verdict = IF InStatus(a, "running") # {} THEN "running"
                                       ELSE IF task[t].verdict \in {"succeeded", "cancelled"} THEN "idle"
                                       ELSE "error"]]
    /\ UNCHANGED <<rowVars, child, tracked, starter, rowLock, booted, used>>

\* ... and set its status, whatever it is by now.
FinalizeWrite(t) ==
    /\ At(t, "finalWrite")
    /\ agentStatus' = [agentStatus EXCEPT ![AgentOf(t)] = task[t].verdict]
    /\ task' = [task EXCEPT ![t] = AfterFinalize(t, @)]
    /\ UNCHANGED <<runs, lock, deferred, child, tracked, starter, rowLock, booted, used>>

-----------------------------------------------------------------------------
(* Cancellation by the board *)

\* cancelRunInternal reads the run and signals its child.
CancelBegin(r) ==
    LET c == <<"cancel", r>> IN
    /\ At(c, "idle")
    /\ used.cancels < MaxCancels
    /\ Count("cancels")
    /\ Active(r)
    /\ task' = [task EXCEPT ![c] = [Idle EXCEPT !.pc = "store", !.run = r, !.verdict = "cancelled"]]
    /\ UNCHANGED <<rowVars, child, tracked, starter, rowLock, booted>>

\* agents.pause, terminate and resume read the agent and then write its status.
BoardBegin(b, a, new) ==
    /\ At(b, "idle")
    /\ used.boards < MaxBoardCalls
    /\ Count("boards")
    /\ new # "terminated" => agentStatus[a] # "terminated"
    /\ task' = [task EXCEPT ![b] = [Idle EXCEPT !.pc = "write", !.agent = a, !.verdict = new]]
    /\ UNCHANGED <<rowVars, child, tracked, starter, rowLock, booted>>

BoardWrite(b) ==
    /\ At(b, "write")
    /\ agentStatus' = [agentStatus EXCEPT ![task[b].agent] = task[b].verdict]
    /\ task' = [task EXCEPT ![b] =
            IF @.verdict = "idle" THEN Idle ELSE [@ EXCEPT !.pc = "list"]]
    /\ UNCHANGED <<runs, lock, deferred, child, tracked, starter, rowLock, booted, used>>

\* What a task keeps of the rows it read.
Snapshot(S) == {[run |-> r, pid |-> runs[r].pid, detached |-> runs[r].detached,
                 retryOf |-> runs[r].retryOf] : r \in S}

\* cancelActiveForAgent: read the agent's active runs, then cancel each.
BoardList(b) ==
    /\ At(b, "list")
    /\ task' = [task EXCEPT ![b].pc = "next",
            ![b].left = Snapshot({r \in Runs : Active(r) /\ runs[r].agent = task[b].agent})]
    /\ UNCHANGED <<rowVars, child, tracked, starter, rowLock, booted, used>>

BoardNext(b) ==
    /\ b[1] = "board"
    /\ At(b, "next")
    /\ \/ /\ task[b].left = {}
          /\ task' = [task EXCEPT ![b] = Idle]
       \/ \E s \in task[b].left :
            task' = [task EXCEPT ![b].pc = "store", ![b].run = s.run,
                                 ![b].left = @ \ {s}, ![b].verdict = "cancelled"]
    /\ UNCHANGED <<rowVars, child, tracked, starter, rowLock, booted, used>>

-----------------------------------------------------------------------------
(* reapOrphanedRuns *)

\* Claimed, and its child not yet started: updatedAt is recent.
JustClaimed(r) ==
    \/ task[Exec(r)].pc \in {"start", "setup", "launch"}
    \/ \E x \in DOMAIN starter : starter[x].pc = "mark" /\ starter[x].run = r

\* What the reaper can see of run r being executed: its process handle, and the
\* activeRunExecutions of its own service.
SeenExecuting(r) == HasHandle(r) \/ (Executing(r) /\ task[Exec(r)].service = "timer")

\* Mutant: runs without a recorded child are never looked at.
ReapBeginRecorded(p) ==
    /\ At(p, "idle")
    /\ LET running == {r \in Runs : runs[r].status = "running" /\ runs[r].pid} IN
        /\ running # {} \/ ~booted
        /\ task' = [task EXCEPT ![p].pc = "next", ![p].left = Snapshot(running)]
    /\ booted' = TRUE
    /\ UNCHANGED <<rowVars, child, tracked, starter, rowLock, used>>

\* Read the running runs.  The first pass after a start has no staleness
\* threshold, the later ones leave alone what was updated recently.
ReapBegin(p) ==
    /\ At(p, "idle")
    /\ LET running == {r \in Runs : runs[r].status = "running" /\ (booted => ~JustClaimed(r))} IN
        /\ running # {} \/ ~booted
        /\ task' = [task EXCEPT ![p].pc = "next", ![p].left = Snapshot(running)]
    /\ booted' = TRUE
    /\ UNCHANGED <<rowVars, child, tracked, starter, rowLock, used>>

ReapDone(p) ==
    /\ At(p, "next")
    /\ task[p].left = {}
    /\ task' = [task EXCEPT ![p] = Idle]
    /\ UNCHANGED <<rowVars, child, tracked, starter, rowLock, booted, used>>

\* A run this service executes, or whose child is tracked, is skipped.
ReapSkip(p) ==
    /\ At(p, "next")
    /\ \E s \in task[p].left :
        /\ SeenExecuting(s.run)
        /\ task' = [task EXCEPT ![p].left = @ \ {s}]
    /\ UNCHANGED <<rowVars, child, tracked, starter, rowLock, booted, used>>

\* One whose recorded child is alive is marked detached, with its status set to
\* "running" once more.
ReapDetach(p) ==
    /\ At(p, "next")
    /\ \E s \in task[p].left :
        /\ ~SeenExecuting(s.run)
        /\ s.pid /\ child[s.run] = "alive"
        /\ runs' = IF s.detached THEN runs
                   ELSE [runs EXCEPT ![s.run].status = "running", ![s.run].detached = TRUE]
        /\ task' = [task EXCEPT ![p].left = @ \ {s}]
    /\ UNCHANGED <<lock, deferred, agentStatus, child, tracked, starter, rowLock, booted, used>>

\* Mutant: the child's liveness is not looked at.
ReapLostAlive(p) ==
    /\ At(p, "next")
    /\ \E s \in task[p].left :
        /\ ~SeenExecuting(s.run)
        /\ task' = [task EXCEPT
                ![p].pc = "store", ![p].run = s.run, ![p].left = @ \ {s},
                ![p].verdict = IF s.pid /\ s.retryOf = 0 THEN "retrying" ELSE "failed"]
    /\ UNCHANGED <<rowVars, child, tracked, starter, rowLock, booted, used>>

\* Mutant: a retry is retried.
ReapLostForEver(p) ==
    /\ At(p, "next")
    /\ \E s \in task[p].left :
        /\ ~SeenExecuting(s.run)
        /\ ~(s.pid /\ child[s.run] = "alive")
        /\ task' = [task EXCEPT
                ![p].pc = "store", ![p].run = s.run, ![p].left = @ \ {s},
                ![p].verdict = IF s.pid THEN "retrying" ELSE "failed"]
    /\ UNCHANGED <<rowVars, child, tracked, starter, rowLock, booted, used>>

\* Any other is failed; it is retried if its child was recorded and it is no retry.
ReapLost(p) ==
    /\ At(p, "next")
    /\ \E s \in task[p].left :
        /\ ~SeenExecuting(s.run)
        /\ ~(s.pid /\ child[s.run] = "alive")
        /\ task' = [task EXCEPT
                ![p].pc = "store", ![p].run = s.run, ![p].left = @ \ {s},
                ![p].verdict = IF s.pid /\ s.retryOf = 0 THEN "retrying" ELSE "failed"]
    /\ UNCHANGED <<rowVars, child, tracked, starter, rowLock, booted, used>>

\* enqueueProcessLossRetry: a new run, which takes over the lock the run owns.
ReapRetry(p) ==
    LET r == task[p].run
        i == runs[r].issue IN
    /\ At(p, "retry")
    /\ i \in Issues /\ lock[i] = r => i \notin rowLock
    /\ \E q \in Runs :
        /\ NewRun(q)
        /\ runs' = [runs EXCEPT ![q] = QueuedRun(runs[r].agent, i, r)]
        /\ lock' = [j \in Issues |-> IF j = i /\ lock[j] = r THEN q ELSE lock[j]]
    /\ task' = [task EXCEPT ![p].pc = "finalRead", ![p].verdict = "failed"]
    /\ UNCHANGED <<deferred, agentStatus, child, tracked, starter, rowLock, booted, used>>

-----------------------------------------------------------------------------
(* The server *)

\* Process p stops at any point and starts again: the rows remain, and the
\* children may go on without it.
Crash(p) ==
    LET lost(t) == IF t[1] = "exec" THEN ProcessOf(task[t].service) = p ELSE p = "server" IN
    /\ used.crashes < MaxCrashes
    /\ Count("crashes")
    /\ task' = [t \in Tasks |-> IF lost(t) THEN Idle ELSE task[t]]
    /\ tracked' = [r \in Runs |-> tracked[r] /\ ~lost(Exec(r))]
    /\ starter' = [x \in DOMAIN starter |-> IF x[1] = p THEN NotStarting ELSE starter[x]]
    /\ rowLock' = IF p = "server" THEN {} ELSE rowLock
    /\ booted' = (booted /\ p # "server")
    /\ UNCHANGED <<rowVars, child>>

Wake(w) == WakeLockIssue(w) \/ WakeCommit(w) \/ WakeScan(w) \/ WakeInsert(w)
Start(p, a) ==
    \/ StartCount(p, a) \/ StartSelect(p, a) \/ StartCheck(p, a)
    \/ StartClaim(p, a) \/ StartSpawn(p, a)
Execute(r) == ExecBegin(r) \/ ExecSetup(r) \/ ExecLaunch(r) \/ ExecDecide(r)
Close(t) ==
    \/ Store(t) \/ SetWake(t) \/ ReleaseNothing(t)
    \/ \E i \in Issues : ReleaseAndPromote(t, i)
    \/ FinalizeRead(t) \/ FinalizeWrite(t)
Board(b) == BoardWrite(b) \/ BoardList(b) \/ BoardNext(b)
Reap(p) == ReapDone(p) \/ ReapSkip(p) \/ ReapDetach(p) \/ ReapLost(p) \/ ReapRetry(p)

TasksOf(kind) == {t \in Tasks : t[1] = kind}

\* Every call has returned and no child is alive.
Quiet ==
    /\ \A t \in Tasks : At(t, "idle")
    /\ \A x \in DOMAIN starter : starter[x].pc = "idle"
    /\ \A r \in Runs : child[r] # "alive"

Finished == Quiet /\ UNCHANGED vars

Next ==
    \/ \E w \in TasksOf("wake") :
        \/ Wake(w)
        \/ \E a \in Agents, i \in Issues \cup {NoIssue}, kind \in WakeKinds : WakeBegin(w, a, i, kind)
    \/ \E p \in Processes : Crash(p) \/ \E a \in Agents : Start(p, a)
    \/ \E r \in Runs :
        Execute(r) \/ RecordPid(r) \/ ChildExits(r) \/ ExecThrows(r) \/ CancelBegin(r)
    \/ \E t \in Tasks : Close(t)
    \/ \E b \in TasksOf("board") :
        \/ Board(b)
        \/ \E a \in Agents, new \in {"paused", "terminated", "idle"} : BoardBegin(b, a, new)
    \/ \E p \in TasksOf("reap") : ReapBegin(p) \/ Reap(p)
    \/ Finished

Spec == Init /\ [][Next]_vars

\* Every continuation whose await has settled runs, a child ends, and the timer
\* keeps calling reapOrphanedRuns and resumeQueuedRuns.
Fairness ==
    /\ \A w \in TasksOf("wake") : WF_vars(Wake(w))
    /\ \A p \in Processes, a \in Agents : WF_vars(Start(p, a))
    /\ \A r \in Runs : WF_vars(Execute(r)) /\ WF_vars(ChildExits(r))
    /\ \A t \in Tasks : WF_vars(Close(t))
    /\ \A b \in TasksOf("board") : WF_vars(Board(b))
    /\ \A p \in TasksOf("reap") : WF_vars(ReapBegin(p)) /\ WF_vars(Reap(p))

FairSpec == Spec /\ Fairness
-----------------------------------------------------------------------------
(* Properties *)

PCs == {"idle", "lockIssue", "commit", "scan", "insert", "start", "setup", "launch",
        "child", "decide", "store", "wake", "release", "finalRead", "finalWrite",
        "write", "list", "next", "retry"}

TypeOK ==
    /\ runs \in [Runs -> [status : Terminal \cup {"none", "queued", "running"},
                          agent : Agents \cup {NoAgent},
                          issue : Issues \cup {NoIssue},
                          wake : {"none", "queued", "claimed", "completed", "failed",
                                  "cancelled", "timed_out"},
                          pid : BOOLEAN, detached : BOOLEAN, retryOf : Runs \cup {0}]]
    /\ \A r \in Runs : runs[r].status # "none" => runs[r].agent \in Agents
    /\ lock \in [Issues -> Runs \cup {0}]
    /\ deferred \in [Issues -> Seq(Agents)]
    /\ agentStatus \in [Agents -> {"idle", "running", "error", "paused", "terminated"}]
    /\ child \in [Runs -> {"none", "alive", "dead"}]
    /\ tracked \in [Runs -> BOOLEAN]
    /\ DOMAIN task = Tasks
    /\ \A t \in Tasks :
        /\ task[t].pc \in PCs
        /\ task[t].run \in Runs \cup {0}
        /\ task[t].agent \in Agents \cup {NoAgent}
        /\ task[t].issue \in Issues \cup {NoIssue}
        /\ \A s \in task[t].left : s.run \in Runs
        /\ task[t].service \in Services \cup {"none"}
    /\ starter \in [Processes \X Agents -> [pc : {"idle", "select", "check", "claim", "mark"},
                                           run : Runs \cup {0}]]
    /\ rowLock \subseteq Issues
    /\ booted \in BOOLEAN
    /\ used \in [DOMAIN NoEvents -> Nat]

\* Some task is about to release the lock that run r owns.
BeingReleased(r) ==
    \E t \in Tasks : task[t].run = r /\ task[t].pc \in {"store", "wake", "release", "retry"}

\* Agents work on an issue one after the other: at most one run of it is queued or
\* running, and while wakes wait for it there is an owner that will promote them,
\* active or being finished.
OneActiveRunPerIssue ==
    \A i \in Issues : Cardinality({r \in Runs : Active(r) /\ runs[r].issue = i}) <= 1
NoStrandedWakes ==
    \A i \in Issues : deferred[i] # <<>> =>
        lock[i] # 0 /\ (Active(lock[i]) \/ BeingReleased(lock[i]))
IssueIsHandedOn == OneActiveRunPerIssue /\ NoStrandedWakes

\* A child works only for a run that is running or was cancelled: apart from a
\* cancellation no slot and no issue is given away while the child that used it is
\* alive.
ChildrenKeepTheirSlot ==
    \A r \in Runs : child[r] = "alive" => runs[r].status \in {"running", "cancelled"}

\* A lost run is retried at most once, and a retry never.
RetriedOnce ==
    \A r, q \in Runs : runs[r].retryOf # 0 =>
        /\ runs[runs[r].retryOf].retryOf = 0
        /\ runs[q].retryOf = runs[r].retryOf => q = r

\* A run that a former server process left behind is not given up while its
\* recorded child is alive.
LiveChildrenKeepTheirRun ==
    [][\A r \in Runs :
        /\ runs[r].status = "running" /\ runs'[r].status = "failed"
        /\ runs[r].pid /\ ~Executing(r)
        => child[r] = "dead"]_vars

\* A deferred wake is promoted, or fails because its agent may not run.
DeferredWakesArePromoted ==
    \A i \in Issues, a \in Agents : a \in ToSet(deferred[i]) ~> a \notin ToSet(deferred[i])

\* Every queued run ends.
QueuedRunsEnd ==
    \A r \in Runs : runs[r].status = "queued" ~> runs[r].status \in Terminal

\* A running run ends, also when the server crashed under it.
RunningRunsEnd ==
    \A r \in Runs : runs[r].status = "running" ~> runs[r].status \in Terminal

\* What RunningRunsEnd needs besides fairness: a running run is in the hands of the
\* one that claimed it, or of its execution until its end is stored; after a crash the
\* reaper can see that nobody executes it.
NoRunIsForgotten ==
    \A r \in Runs : runs[r].status = "running" =>
        \/ JustClaimed(r)
        \/ task[Exec(r)].pc \in {"child", "decide", "store"}
        \/ used.crashes > 0 /\ ~SeenExecuting(r)

\* The promise of RunSlots, whatever became of a run that ended.
Phase(r) == IF runs[r].status \in Terminal THEN "ended" ELSE runs[r].status
Slots == INSTANCE RunSlots WITH
            phase <- [r \in Runs |-> Phase(r)],
            owner <- [r \in Runs |-> runs[r].agent]
ImplementsRunSlots == Slots!Spec
=============================================================================
