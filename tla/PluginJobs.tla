----------------------------- MODULE PluginJobs -----------------------------
(***************************************************************************)
(* PluginJobs: the scheduled jobs of one plugin, its runs and the calls to  *)
(* its worker (plugin-job-scheduler.ts, plugin-job-store.ts).               *)
(*                                                                         *)
(* The scheduler keeps which jobs are active in memory and the runs in the  *)
(* database; a handler runs up to its next await, and the statement or call *)
(* that it waits for may fail; a tick dispatches what its query returned at  *)
(* once.  Every job is enabled and has a valid cron expression; the worker   *)
(* itself is PluginWorkers.                                                 *)
(***************************************************************************)
EXTENDS Naturals, FiniteSets

CONSTANTS
    Jobs,          \* the jobs the plugin declares
    JobRuns,       \* bound: runs ever dispatched
    Callers,       \* calls of triggerJob in flight
    MaxConcurrent, \* maxConcurrentJobs
    MaxJobFaults,  \* bound: statements of the database that fail
    MaxOutages,    \* bound: how often the worker stops
    MaxUnloads,    \* bound: calls of unregisterPlugin
    MaxHostCrashes, \* bound: crashes of the server
    NoJob

PluginJobsAssumption ==
    /\ {MaxJobFaults, MaxOutages, MaxUnloads, MaxHostCrashes} \subseteq Nat
    /\ MaxConcurrent \in Nat \ {0} /\ NoJob \notin Jobs

VARIABLES
    due,        \* jobs whose nextRunAt has passed
    active,     \* activeJobs
    ticking,    \* tickInProgress
    jobRun,     \* of each run: its row, and where its dispatch is
    call,       \* triggerJob in flight
    unload,     \* unregisterPlugin in flight
    up,         \* whether the worker is running
    late,       \* runs the worker goes on with after their call timed out
    unrecorded, \* history: runs whose outcome could not be stored
    mishaps     \* how often each bounded event has happened

jobVars == <<due, active, ticking, jobRun, call, unload, up, late, unrecorded, mishaps>>

Final == {"succeeded", "failed", "cancelled"}
Bounds ==
    [faults |-> MaxJobFaults, outages |-> MaxOutages, unloads |-> MaxUnloads,
     crashes |-> MaxHostCrashes]

Run(row, at, job, trigger) == [row |-> row, at |-> at, job |-> job, trigger |-> trigger]
NoJobRun == Run("none", "none", NoJob, "none")
NoCall == [at |-> "idle", job |-> NoJob]
NoUnload == [at |-> "idle", rows |-> {}]

JobsInit ==
    /\ due \in SUBSET Jobs /\ active = {} /\ ticking = FALSE
    /\ jobRun = [r \in JobRuns |-> NoJobRun]
    /\ call = [c \in Callers |-> NoCall]
    /\ unload = NoUnload
    /\ up = TRUE
    /\ late = {} /\ unrecorded = {}
    /\ mishaps = [b \in DOMAIN Bounds |-> 0]

Spend(b) == mishaps[b] < Bounds[b] /\ mishaps' = [mishaps EXCEPT ![b] = @ + 1]
JobRunAt(r, p) == jobRun[r].at = p
JobRunGo(r, p) == jobRun' = [jobRun EXCEPT ![r].at = p]
InFlight(r) == jobRun[r].at \notin {"none", "done", "lost"}
Fresh == {r \in JobRuns : JobRunAt(r, "none")}

-----------------------------------------------------------------------------
(* tick *)

BecomeDue(j) ==
    /\ j \notin due
    /\ due' = due \cup {j}
    /\ UNCHANGED <<active, ticking, jobRun, call, unload, up, late, unrecorded, mishaps>>

\* The due jobs that are not active, as many as the limit allows.
Dispatched(chosen) ==
    /\ chosen \subseteq due \ active /\ chosen # {}
    /\ Cardinality(active) + Cardinality(chosen) <= MaxConcurrent
    /\ \/ chosen = due \ active
       \/ Cardinality(active) + Cardinality(chosen) = MaxConcurrent

\* dispatchJob marks a job active before it waits for anything.
DispatchAll(chosen) ==
    /\ active' = active \cup chosen
    /\ \E first \in [chosen -> Fresh] :
        /\ \A i, j \in chosen : i # j => first[i] # first[j]
        /\ jobRun' = [r \in JobRuns |->
                   IF \E j \in chosen : first[j] = r
                   THEN Run("none", "create", CHOOSE j \in chosen : first[j] = r, "schedule")
                   ELSE jobRun[r]]

\* Mutant: the tick does not ask whether one is in progress.
TickAnyway ==
    /\ up
    /\ \E chosen \in SUBSET Jobs : Dispatched(chosen) /\ DispatchAll(chosen)
    /\ ticking' = TRUE
    /\ UNCHANGED <<due, call, unload, up, late, unrecorded, mishaps>>

\* A tick waits for all that it dispatched, and no other one begins meanwhile.
\* (One that finds nothing to do changes nothing.)
Tick ==
    /\ ~ticking /\ up
    /\ \E chosen \in SUBSET Jobs : Dispatched(chosen) /\ DispatchAll(chosen)
    /\ ticking' = TRUE
    /\ UNCHANGED <<due, call, unload, up, late, unrecorded, mishaps>>

-----------------------------------------------------------------------------
(* dispatchJob and dispatchManualRun *)

Fault(r, p) ==
    /\ Spend("faults") /\ JobRunGo(r, p)

CreateRun(r) ==
    /\ JobRunAt(r, "create")
    /\ \/ /\ jobRun' = [jobRun EXCEPT ![r].row = "queued", ![r].at = "mark"]
          /\ UNCHANGED <<active, mishaps>>
       \/ Fault(r, "advance") /\ active' = active \ {jobRun[r].job}
    /\ UNCHANGED <<due, ticking, call, unload, up, late, unrecorded>>

MarkRunning(r) ==
    /\ JobRunAt(r, "mark")
    /\ \/ jobRun' = [jobRun EXCEPT ![r].row = "running", ![r].at = "call"] /\ UNCHANGED mishaps
       \/ Fault(r, "failed")
    /\ UNCHANGED <<due, active, ticking, call, unload, up, late, unrecorded>>

CallWorker(r) ==
    /\ JobRunAt(r, "call")
    /\ JobRunGo(r, IF up THEN "working" ELSE "failed")
    /\ UNCHANGED <<due, active, ticking, call, unload, up, late, unrecorded, mishaps>>

Answered(r) ==
    /\ JobRunAt(r, "working")
    /\ JobRunGo(r, "succeeded") \/ JobRunGo(r, "failed")
    /\ UNCHANGED <<due, active, ticking, call, unload, up, late, unrecorded, mishaps>>

\* The timer rejects the host's promise; the worker is not told, and goes on.
TimesOut(r) ==
    /\ JobRunAt(r, "working")
    /\ JobRunGo(r, "failed")
    /\ late' = late \cup {r}
    /\ UNCHANGED <<due, active, ticking, call, unload, up, unrecorded, mishaps>>

\* The late answer belongs to no pending request, and is dropped.
LateEnd(r) ==
    /\ r \in late
    /\ late' = late \ {r}
    /\ UNCHANGED <<due, active, ticking, jobRun, call, unload, up, unrecorded, mishaps>>

\* What follows the last statement of the try: the job is not active any more.
ReleaseJob(r, row) ==
    /\ jobRun' = [jobRun EXCEPT ![r].row = row,
                                ![r].at = IF jobRun[r].trigger = "schedule" THEN "advance" ELSE "done"]
    /\ active' = active \ {jobRun[r].job}

\* Mutant: only the run that succeeds frees its job.
CompleteKeepsActive(r) ==
    /\ jobRun[r].at \in {"succeeded", "failed"}
    /\ jobRun' = [jobRun EXCEPT ![r].row = jobRun[r].at,
                                ![r].at = IF jobRun[r].trigger = "schedule" THEN "advance" ELSE "done"]
    /\ active' = IF JobRunAt(r, "failed") THEN active ELSE active \ {jobRun[r].job}
    /\ UNCHANGED <<due, ticking, call, unload, up, late, unrecorded, mishaps>>

\* completeRun, whatever the row says: a success that cannot be stored is a
\* failure, a failure that cannot be stored is only reported.
CompleteRun(r) ==
    /\ jobRun[r].at \in {"succeeded", "failed"}
    /\ \/ ReleaseJob(r, jobRun[r].at) /\ UNCHANGED <<unrecorded, mishaps>>
       \/ JobRunAt(r, "succeeded") /\ Fault(r, "failed") /\ UNCHANGED <<active, unrecorded>>
       \/ /\ JobRunAt(r, "failed") /\ Spend("faults")
          /\ ReleaseJob(r, jobRun[r].row)
          /\ unrecorded' = unrecorded \cup {r}
    /\ UNCHANGED <<due, ticking, call, unload, up, late>>

\* advanceSchedulePointer; the tick ends with the last of its dispatches.
Advance(r) ==
    /\ JobRunAt(r, "advance")
    /\ \/ due' = due \ {jobRun[r].job} /\ UNCHANGED mishaps
       \/ Spend("faults") /\ UNCHANGED due
    /\ JobRunGo(r, "done")
    /\ ticking' = (\E q \in JobRuns \ {r} : InFlight(q) /\ jobRun[q].trigger = "schedule")
    /\ UNCHANGED <<active, call, unload, up, late, unrecorded>>

-----------------------------------------------------------------------------
(* triggerJob *)

\* The job is read, and is not active.
Trigger(c, j) ==
    /\ call[c].at = "idle" /\ Fresh # {} /\ j \notin active
    /\ call' = [call EXCEPT ![c] = [at |-> "query", job |-> j]]
    /\ UNCHANGED <<due, active, ticking, jobRun, unload, up, late, unrecorded, mishaps>>

\* No run of it is running, and the worker is.
QueryRuns(c) ==
    /\ call[c].at = "query"
    /\ call' = [call EXCEPT ![c] =
            IF up /\ \A r \in JobRuns : jobRun[r].job = call[c].job => jobRun[r].row # "running"
            THEN [@ EXCEPT !.at = "create"] ELSE NoCall]
    /\ UNCHANGED <<due, active, ticking, jobRun, unload, up, late, unrecorded, mishaps>>

\* The run is stored, and only then is its job active.
CreateManualRun(c) ==
    /\ call[c].at = "create"
    /\ \/ /\ \E r \in Fresh :
            jobRun' = [jobRun EXCEPT ![r] = Run("queued", "mark", call[c].job, "manual")]
          /\ active' = active \cup {call[c].job}
          /\ UNCHANGED mishaps
       \/ Spend("faults") /\ UNCHANGED <<active, jobRun>>
    /\ call' = [call EXCEPT ![c] = NoCall]
    /\ UNCHANGED <<due, ticking, unload, up, late, unrecorded>>

-----------------------------------------------------------------------------
(* unregisterPlugin, registerPlugin, the worker and the server *)

SelectRuns ==
    /\ unload.at = "idle" /\ Spend("unloads")
    /\ unload' = [at |-> "cancel", rows |-> {r \in JobRuns : jobRun[r].row \in {"queued", "running"}}]
    /\ UNCHANGED <<due, active, ticking, jobRun, call, up, late, unrecorded>>

\* One by one, whatever a row has become since it was read.
CancelRun ==
    /\ unload.at = "cancel"
    /\ \E r \in unload.rows :
        /\ jobRun' = [jobRun EXCEPT ![r].row = "cancelled"]
        /\ unload' = [unload EXCEPT !.rows = @ \ {r}]
    /\ UNCHANGED <<due, active, ticking, call, up, late, unrecorded, mishaps>>

\* The dispatches go on; their jobs are forgotten, also when a cancellation failed.
ForgetActive ==
    /\ unload.at = "cancel"
    /\ \/ unload.rows = {} /\ UNCHANGED mishaps
       \/ unload.rows # {} /\ Spend("faults")
    /\ active' = {}
    /\ unload' = NoUnload
    /\ UNCHANGED <<due, ticking, jobRun, call, up, late, unrecorded>>

\* registerPlugin gives jobs that are due a time to come.
EnsureNextRun(j) ==
    /\ j \in due
    /\ due' = due \ {j}
    /\ UNCHANGED <<active, ticking, jobRun, call, unload, up, late, unrecorded, mishaps>>

\* The worker is stopped or crashes: its calls are answered with an error.
WorkerStops ==
    /\ up /\ Spend("outages")
    /\ up' = FALSE /\ late' = {}
    /\ jobRun' = [r \in JobRuns |->
            IF JobRunAt(r, "working") THEN [jobRun[r] EXCEPT !.at = "failed"] ELSE jobRun[r]]
    /\ UNCHANGED <<due, active, ticking, call, unload, unrecorded>>

WorkerStarts ==
    /\ ~up
    /\ up' = TRUE
    /\ UNCHANGED <<due, active, ticking, jobRun, call, unload, late, unrecorded, mishaps>>

\* Memory is lost, rows stay as they are; the worker leaves when its input closes.
HostCrash ==
    /\ Spend("crashes")
    /\ active' = {} /\ ticking' = FALSE
    /\ jobRun' = [r \in JobRuns |->
            IF InFlight(r) THEN [jobRun[r] EXCEPT !.at = "lost"] ELSE jobRun[r]]
    /\ call' = [c \in Callers |-> NoCall]
    /\ unload' = NoUnload
    /\ up' = FALSE /\ late' = {}
    /\ UNCHANGED <<due, unrecorded>>

-----------------------------------------------------------------------------
JobsNext ==
    \/ Tick
    \/ \E j \in Jobs : BecomeDue(j) \/ EnsureNextRun(j)
    \/ \E r \in JobRuns :
        \/ CreateRun(r) \/ MarkRunning(r) \/ CallWorker(r) \/ Answered(r)
        \/ TimesOut(r) \/ LateEnd(r) \/ CompleteRun(r) \/ Advance(r)
    \/ \E c \in Callers : QueryRuns(c) \/ CreateManualRun(c)
    \/ \E c \in Callers, j \in Jobs : Trigger(c, j)
    \/ SelectRuns \/ CancelRun \/ ForgetActive
    \/ WorkerStops \/ WorkerStarts \/ HostCrash

JobsSpec == JobsInit /\ [][JobsNext]_jobVars

-----------------------------------------------------------------------------
(* Properties *)

Steps == {"none", "create", "mark", "call", "working", "succeeded", "failed", "advance", "done", "lost"}
RunRecords == [row : {"none", "queued", "running"} \cup Final, at : Steps,
               job : Jobs \cup {NoJob}, trigger : {"none", "schedule", "manual"}]

JobsTypeOK ==
    /\ due \subseteq Jobs /\ active \subseteq Jobs /\ {ticking, up} \subseteq BOOLEAN
    /\ jobRun \in [JobRuns -> RunRecords]
    /\ call \in [Callers -> [at : {"idle", "query", "create"}, job : Jobs \cup {NoJob}]]
    /\ {unload.rows, late, unrecorded} \subseteq SUBSET JobRuns
    /\ \A b \in DOMAIN Bounds : mishaps[b] <= Bounds[b]

\* A schedule never has two dispatches of a job in flight at once, although
\* unregisterPlugin forgets the active jobs of dispatches that go on: the next
\* tick waits for the last one.  So two of its runs are at work in the worker
\* together only if the call of one timed out; nothing else keeps them apart.
AtWork(r) == JobRunAt(r, "working") \/ r \in late

ScheduledRunsDoNotOverlap ==
    \A q, r \in JobRuns :
        (q # r /\ jobRun[q].job = jobRun[r].job
            /\ jobRun[q].trigger = "schedule" /\ jobRun[r].trigger = "schedule")
        => /\ ~(InFlight(q) /\ InFlight(r))
           /\ AtWork(q) /\ AtWork(r) => late \cap {q, r} # {}

\* Nothing that is over stands in the way of the next run of a job, however it
\* ended: an active job has a run in flight, and the row of a run that is done says
\* how it ended (unless the failure itself could not be stored, or the server
\* crashed), since one left at "running" refuses every later trigger of its job.
JobsAreReleased ==
    /\ \A j \in active : \E r \in JobRuns : InFlight(r) /\ jobRun[r].job = j
    /\ \A r \in JobRuns : JobRunAt(r, "done") /\ jobRun[r].row # "none" /\ r \notin unrecorded
                        => jobRun[r].row \in Final
=============================================================================
