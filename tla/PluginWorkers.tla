---------------------------- MODULE PluginWorkers ----------------------------
(***************************************************************************)
(* PluginWorkers: the worker process of one plugin, what the operator's     *)
(* calls do to it, and the restarts after a crash (plugin-worker-manager.ts,*)
(* plugin-lifecycle.ts, activatePlugin, loadSingle and unloadSingle of      *)
(* plugin-loader.ts).                                                       *)
(*                                                                         *)
(* Everything runs in one process, so a handler runs up to its next await.  *)
(* What follows the exit of a child at once, the continuations of promises  *)
(* that it settles, runs before any other event: the steps in `Immediate`.  *)
(* A child that was sent SIGKILL exits in time, fork itself does not fail,  *)
(* and the server is not shut down.                                         *)
(***************************************************************************)
EXTENDS Naturals, FiniteSets

CONSTANTS
    Operators,     \* requests of operators, and the start of the server
    MaxHandles,    \* bound: handles in memory at once
    MaxProcs,      \* bound: worker processes alive at once
    MaxConsecutiveCrashes \* MAX_CONSECUTIVE_CRASHES

WorkersAssumption ==
    /\ {MaxHandles, MaxProcs, MaxConsecutiveCrashes} \subseteq Nat \ {0}
    /\ Operators \cap Nat = {}

Handles == 1..MaxHandles
Procs == 1..MaxProcs
Threads == Operators \cup Handles  \* the timer of a handle is a thread of its own

VARIABLES
    plugin, \* plugins.status
    worker, \* the registered handle, 0: none
    lock,   \* the handle whose start holds the startup lock, 0: none
    handle, \* the state of each handle
    proc,   \* the worker processes
    task    \* what each thread waits for

workerVars == <<plugin, worker, lock, handle, proc, task>>

Valid ==
    [installed |-> {"ready", "error", "uninstalled"},
     ready |-> {"ready", "disabled", "error", "upgrade_pending", "uninstalled"},
     disabled |-> {"ready", "uninstalled"},
     error |-> {"ready", "uninstalled"},
     upgrade_pending |-> {"ready", "error", "uninstalled"},
     uninstalled |-> {"installed"}]
PluginStatuses == DOMAIN Valid

NoTask == [pc |-> "idle", op |-> "none", read |-> "none", to |-> "none", h |-> 0, child |-> 0]
NoHandle == [status |-> "stopped", child |-> 0, intentional |-> FALSE, crashes |-> 0, timer |-> FALSE]
NoProc == [state |-> "none", of |-> 0]

\* Before the plugin is installed, or when the server starts with it.
WorkersInit ==
    /\ worker = 0 /\ lock = 0
    /\ handle = [h \in Handles |-> NoHandle]
    /\ proc = [p \in Procs |-> NoProc]
    /\ \/ plugin = "uninstalled" /\ task = [t \in Threads |-> NoTask]
       \/ /\ plugin = "ready"
          /\ \E o \in Operators :
                task = [t \in Threads |-> IF t = o THEN [NoTask EXCEPT !.pc = "start", !.op = "boot"]
                                          ELSE NoTask]

TaskAt(t, pc) == task[t].pc = pc
TaskGo(t, pc) == task' = [task EXCEPT ![t].pc = pc]
EndTask(t) == task' = [task EXCEPT ![t] = NoTask]

Immediate == {"initFailed", "setStopped", "returned"}
Settled == \A t \in Threads : task[t].pc \notin Immediate
Alive == {p \in Procs : proc[p].state # "none"}
FreeProcs == Procs \ Alive
FreeHandles ==
    {h \in Handles : /\ h # worker /\ ~handle[h].timer
                     /\ \A p \in Alive : proc[p].of # h
                     /\ \A t \in Threads : task[t].h # h}
Least(S) == CHOOSE x \in S : \A y \in S : x <= y

-----------------------------------------------------------------------------
(* startInternal and stopInternal of a handle *)

\* startInternal up to the answer to "initialize", for a thread whose task is `at`.
Spawn(t, h, at) ==
    /\ FreeProcs # {}
    /\ LET p == Least(FreeProcs) IN
        /\ proc' = [proc EXCEPT ![p] = [state |-> "up", of |-> h]]
        /\ handle' = [handle EXCEPT ![h].status = "starting", ![h].child = p,
                                    ![h].intentional = FALSE, ![h].timer = FALSE]
        /\ task' = [task EXCEPT ![t] = [at EXCEPT !.pc = "init", !.h = h, !.child = p]]

\* stopInternal up to its first wait, for a thread whose task is `at`; `timer` is
\* whether a pending restart stays.
StopHandle(t, h, at, timer) ==
    LET child == handle[h].child
        over == handle[h].status \in {"stopped", "stopping"}
    IN  /\ handle' = [handle EXCEPT ![h].timer = timer,
                        ![h].intentional = ~over \/ @,
                        ![h].status = IF over THEN @ ELSE IF child = 0 THEN "stopped" ELSE "stopping"]
        /\ task' = [task EXCEPT ![t] = [at EXCEPT !.h = h, !.child = child,
                        !.pc = IF over \/ child = 0 THEN "returned" ELSE "drain"]]
        /\ proc' = IF over \/ child = 0 THEN proc
                   ELSE [proc EXCEPT ![child].state = IF @ = "up" THEN "leaving" ELSE @]

\* Mutant: the pending restart is not cancelled.
BeginStopKeepsTimer(t, h, at) == StopHandle(t, h, at, handle[h].timer)

BeginStop(t, h, at) == StopHandle(t, h, at, FALSE)

\* The drain period and the grace period of SIGTERM end.
Escalate(t) ==
    /\ task[t].pc \in {"drain", "term"}
    /\ LET child == handle[task[t].h].child IN
        IF child = 0
        THEN TaskGo(t, "setStopped") /\ UNCHANGED proc
        ELSE /\ task' = [task EXCEPT ![t].pc = IF @ = "drain" THEN "term" ELSE "kill",
                                     ![t].child = child]
             /\ proc' = [proc EXCEPT ![child].state =
                            IF TaskAt(t, "term") \/ @ = "killed" THEN "killed" ELSE "leaving"]
    /\ UNCHANGED <<plugin, worker, lock, handle>>

\* The worker answers "initialize": whatever became of the handle meanwhile.  What
\* activatePlugin does after that, the jobs for one, may fail.
Initialized(t) ==
    /\ TaskAt(t, "init")
    /\ proc[task[t].child].state \in {"up", "leaving"}
    /\ LET h == task[t].h
           mine == {u \in Threads : u = t \/ (TaskAt(u, "wait") /\ lock = h)}
           activating == {u \in mine \cap Operators : lock = h}
       IN /\ handle' = [handle EXCEPT ![h].status = "running", ![h].crashes = 0]
          /\ lock' = IF lock = h THEN 0 ELSE lock
          /\ \E failed \in SUBSET activating :
                task' = [u \in Threads |->
                    IF u \in failed THEN [NoTask EXCEPT !.pc = "mark", !.op = "markError"]
                    ELSE IF u \in mine THEN NoTask ELSE task[u]]
    /\ UNCHANGED <<plugin, worker, proc>>

\* It refuses, or does not answer in time: killProcess.
NotInitialized(t) ==
    /\ TaskAt(t, "init")
    /\ LET h == task[t].h
           child == handle[h].child
       IN IF child = 0
          THEN TaskGo(t, "initFailed") /\ UNCHANGED <<handle, proc>>
          ELSE /\ handle' = [handle EXCEPT ![h].intentional = TRUE]
               /\ proc' = [proc EXCEPT ![child].state = "killed"]
               /\ task' = [task EXCEPT ![t].pc = "killing", ![t].child = child]
    /\ UNCHANGED <<plugin, worker, lock>>

\* handleProcessExit: a crash is restarted after a while, up to a number of
\* crashes in a row (the count starts again after a long time without one), and
\* every call to the worker that was under way is answered.
WorkerExit(p) ==
    /\ p \in Alive
    /\ LET h == proc[p].of
           wanted == handle[h].intentional
           answered(t) ==
             CASE task[t].h = h /\ task[t].pc = "init" -> "initFailed"
               [] task[t].h = h /\ task[t].pc = "drain" -> "setStopped"
               [] task[t].child = p /\ task[t].pc \in {"term", "kill"} -> "setStopped"
               [] task[t].child = p /\ task[t].pc = "killing" -> "initFailed"
               [] OTHER -> task[t].pc
       IN /\ \E n \in {1, IF handle[h].crashes > MaxConsecutiveCrashes THEN handle[h].crashes
                             ELSE handle[h].crashes + 1} :
                handle' = [handle EXCEPT ![h].child = 0,
                    ![h].crashes = IF wanted THEN @ ELSE n,
                    ![h].timer = @ \/ (~wanted /\ n <= MaxConsecutiveCrashes),
                    ![h].status = IF wanted THEN "stopped"
                                  ELSE IF n <= MaxConsecutiveCrashes THEN "backoff" ELSE "crashed"]
          /\ task' = [t \in Threads |-> [task[t] EXCEPT !.pc = answered(t)]]
    /\ proc' = [proc EXCEPT ![p] = NoProc]
    /\ UNCHANGED <<plugin, worker, lock>>

\* The backoff is over.
FireTimer(h) ==
    /\ handle[h].timer /\ TaskAt(h, "idle")
    /\ IF handle[h].status \in {"running", "starting"}
       THEN handle' = [handle EXCEPT ![h].timer = FALSE] /\ UNCHANGED <<proc, task>>
       ELSE Spawn(h, h, NoTask)
    /\ UNCHANGED <<plugin, worker, lock>>

-----------------------------------------------------------------------------
(* The continuations *)

\* startInternal throws: the activation marks the plugin, and so does one that
\* waited for the lock; a restart and a timer only report it.
InitFailed(t) ==
    /\ TaskAt(t, "initFailed")
    /\ LET h == task[t].h
           failed == {u \in Operators : lock = h /\ (u = t \/ TaskAt(u, "wait"))}
       IN /\ handle' = [handle EXCEPT ![h].status = "crashed"]
          /\ lock' = IF t \in failed THEN 0 ELSE lock
          /\ task' = [u \in Threads |->
                IF t \in failed /\ u \in failed THEN [NoTask EXCEPT !.pc = "mark", !.op = "markError"]
                ELSE IF u = t THEN NoTask ELSE task[u]]
    /\ UNCHANGED <<plugin, worker, proc>>

\* The task of a request once the worker of its plugin is off.
Offline(at) ==
    IF at.op = "upgrade" THEN [at EXCEPT !.pc = "download", !.h = 0, !.child = 0]
    ELSE IF at.to \in Valid[at.read] THEN [at EXCEPT !.pc = "write", !.h = 0, !.child = 0]
    ELSE NoTask

\* The last statement of stopInternal,
SetStopped(t) ==
    /\ TaskAt(t, "setStopped")
    /\ \A u \in Threads : ~TaskAt(u, "initFailed")
    /\ handle' = [handle EXCEPT ![task[t].h].status = "stopped"]
    /\ TaskGo(t, "returned")
    /\ UNCHANGED <<plugin, worker, lock, proc>>

\* and what follows its return: a restart starts the handle again,
\* manager.stopWorker forgets it.
Returned(t) ==
    /\ TaskAt(t, "returned")
    /\ \A u \in Threads : task[u].pc \notin {"initFailed", "setStopped"}
    /\ LET h == task[t].h IN
        IF task[t].op # "restart"
        THEN /\ worker' = 0
             /\ task' = [task EXCEPT ![t] = Offline(@)]
             /\ UNCHANGED <<handle, proc>>
        ELSE /\ IF handle[h].status \in {"running", "starting"}
                THEN EndTask(t) /\ UNCHANGED <<handle, proc>>
                ELSE Spawn(t, h, task[t])
             /\ UNCHANGED worker
    /\ UNCHANGED <<plugin, lock>>

-----------------------------------------------------------------------------
(* The operator's calls *)

\* installPlugin inserts the row again, load follows.
Install(o) ==
    /\ TaskAt(o, "idle") /\ plugin = "uninstalled"
    /\ plugin' = "installed"
    /\ task' = [task EXCEPT ![o] = [NoTask EXCEPT !.pc = "read", !.op = "install", !.to = "ready"]]
    /\ UNCHANGED <<worker, lock, handle, proc>>

ReadForLoad(o) ==
    /\ TaskAt(o, "read")
    /\ IF "ready" \in Valid[plugin] THEN TaskGo(o, "write") ELSE EndTask(o)
    /\ UNCHANGED <<plugin, worker, lock, handle, proc>>

Enable(o) ==
    /\ TaskAt(o, "idle") /\ plugin \in {"disabled", "error", "upgrade_pending"}
    /\ task' = [task EXCEPT ![o] = [NoTask EXCEPT !.pc = "write", !.op = "enable", !.to = "ready"]]
    /\ UNCHANGED <<plugin, worker, lock, handle, proc>>

\* disable, unload and upgrade: the row is read, then the runtime is taken down.
Accepts == [disable |-> {"ready"},
            unload |-> PluginStatuses \ {"uninstalled"},
            upgrade |-> {"ready", "upgrade_pending"}]
Target == [disable |-> "disabled", unload |-> "uninstalled", upgrade |-> "none"]

TakeDown(o, op) ==
    /\ TaskAt(o, "idle") /\ plugin \in Accepts[op]
    /\ task' = [task EXCEPT ![o] = [NoTask EXCEPT !.pc = "unload", !.op = op,
                                        !.read = plugin, !.to = Target[op]]]
    /\ UNCHANGED <<plugin, worker, lock, handle, proc>>

\* unloadSingle stops the worker only if it is running.
UnloadSingle(o) ==
    /\ TaskAt(o, "unload")
    /\ IF worker # 0 /\ handle[worker].status = "running"
       THEN BeginStop(o, worker, task[o])
       ELSE task' = [task EXCEPT ![o] = Offline(@)] /\ UNCHANGED <<handle, proc>>
    /\ UNCHANGED <<plugin, worker, lock>>

\* The package is fetched: that may fail, and may ask for more capabilities.
UpgradePlugin(o) ==
    /\ TaskAt(o, "download")
    /\ \/ EndTask(o)
       \/ \E to \in {"ready", "upgrade_pending"} \cap Valid[task[o].read] :
            task' = [task EXCEPT ![o].pc = "write", ![o].to = to]
    /\ UNCHANGED <<plugin, worker, lock, handle, proc>>

RestartWorker(o) ==
    /\ TaskAt(o, "idle") /\ plugin = "ready" /\ worker # 0
    /\ BeginStop(o, worker, [NoTask EXCEPT !.op = "restart"])
    /\ UNCHANGED <<plugin, worker, lock>>

\* markError after a failed activation: stopWorkerIfRunning stops a handle in
\* any status.
MarkError(o) ==
    /\ TaskAt(o, "mark")
    /\ LET at == [task[o] EXCEPT !.read = plugin, !.to = "error"] IN
        IF worker # 0 THEN BeginStop(o, worker, at)
        ELSE task' = [task EXCEPT ![o] = Offline(at)] /\ UNCHANGED <<handle, proc>>
    /\ UNCHANGED <<plugin, worker, lock>>

\* transition and registry.uninstall write by id.
WriteStatus(o) ==
    /\ TaskAt(o, "write")
    /\ plugin' = task[o].to
    /\ IF task[o].to = "ready" THEN TaskGo(o, "load") ELSE EndTask(o)
    /\ UNCHANGED <<worker, lock, handle, proc>>

\* loadSingle reads the row again.
LoadSingle(o) ==
    /\ TaskAt(o, "load")
    /\ IF plugin = "ready" THEN TaskGo(o, "start") ELSE EndTask(o)
    /\ UNCHANGED <<plugin, worker, lock, handle, proc>>

\* The new handle of a plugin: it takes the startup lock and starts.
Register(o) ==
    /\ FreeHandles # {} /\ FreeProcs # {}
    /\ LET h == Least(FreeHandles)
           p == Least(FreeProcs)
       IN /\ worker' = h /\ lock' = h
          /\ proc' = [proc EXCEPT ![p] = [state |-> "up", of |-> h]]
          /\ handle' = [handle EXCEPT ![h] = [NoHandle EXCEPT !.status = "starting", !.child = p]]
          /\ task' = [task EXCEPT ![o].pc = "init", ![o].h = h, ![o].child = p]

\* Mutant: a registered handle is replaced.
StartWorkerAnyway(o) ==
    /\ TaskAt(o, "start") /\ lock = 0
    /\ Register(o)
    /\ UNCHANGED plugin

\* manager.startWorker: wait for a start in flight, refuse a registered handle
\* that is not stopped, or start a new one.
StartWorker(o) ==
    /\ TaskAt(o, "start")
    /\ IF lock = 0 /\ (worker = 0 \/ handle[worker].status = "stopped")
       THEN Register(o)
       ELSE /\ task' = [task EXCEPT ![o] = IF lock # 0 THEN [@ EXCEPT !.pc = "wait"]
                                          ELSE [NoTask EXCEPT !.pc = "mark", !.op = "markError"]]
            /\ UNCHANGED <<worker, lock, handle, proc>>
    /\ UNCHANGED plugin

-----------------------------------------------------------------------------
Event ==
    \/ \E t \in Threads : Escalate(t) \/ Initialized(t) \/ NotInitialized(t)
    \/ \E p \in Procs : WorkerExit(p)
    \/ \E h \in Handles : FireTimer(h)
    \/ \E o \in Operators :
        \/ Install(o) \/ ReadForLoad(o) \/ Enable(o) \/ UnloadSingle(o) \/ UpgradePlugin(o)
        \/ RestartWorker(o) \/ MarkError(o) \/ WriteStatus(o) \/ LoadSingle(o) \/ StartWorker(o)
    \/ \E o \in Operators, op \in DOMAIN Accepts : TakeDown(o, op)

WorkersNext ==
    \/ \E t \in Threads : InitFailed(t) \/ SetStopped(t) \/ Returned(t)
    \/ Settled /\ Event

WorkersSpec == WorkersInit /\ [][WorkersNext]_workerVars

-----------------------------------------------------------------------------
(* Properties *)

WorkerStatuses == {"stopped", "starting", "running", "stopping", "crashed", "backoff"}

WorkersTypeOK ==
    /\ plugin \in PluginStatuses /\ {worker, lock} \subseteq 0..MaxHandles
    /\ handle \in [Handles -> [status : WorkerStatuses, child : 0..MaxProcs, intentional : BOOLEAN,
                               crashes : 0..MaxConsecutiveCrashes + 1, timer : BOOLEAN]]
    /\ proc \in [Procs -> [state : {"none", "up", "leaving", "killed"}, of : 0..MaxHandles]]
    /\ \A t \in Threads : task[t].h \in 0..MaxHandles /\ task[t].child \in 0..MaxProcs

NoTasks == \A t \in Threads : TaskAt(t, "idle")

\* One process per plugin, not counting one that was told to go, whatever crashes,
\* restarts and calls of an operator follow each other.
OneProcess == Cardinality({p \in Procs : proc[p].state = "up"}) <= 1

\* A process the host has lost sight of would never be stopped: each one alive is
\* the child of its handle, and the handle is the registered one unless the
\* process was told to go, also after a timer restarted it; and a plugin marked as
\* failed has nothing left that runs or would start again.
NoOrphans ==
    /\ \A p \in Alive : /\ handle[proc[p].of].child = p
                        /\ proc[p].state = "up" => proc[p].of = worker
    /\ NoTasks /\ plugin = "error" =>
        worker = 0 /\ Alive = {} /\ \A h \in Handles : ~handle[h].timer
=============================================================================
