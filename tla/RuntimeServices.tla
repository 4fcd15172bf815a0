--------------------------- MODULE RuntimeServices ---------------------------
(***************************************************************************)
(* RuntimeServices: the local processes that a run's workspace declares     *)
(* (workspace-runtime.ts).  A run leases them while it is set up, reusing a *)
(* shared one that is there, and releases them when it ends; a service      *)
(* nobody leases is stopped at once, when its idle timer fires, or never.   *)
(*                                                                         *)
(* The host is one event loop: an action is the code between two awaits.    *)
(* The host's maps are byId (here the services in state "running") and      *)
(* byReuseKey; the rows that are saved of them, ports, URLs and environments *)
(* are left out, but saving takes time and may fail.                        *)
(***************************************************************************)
EXTENDS Naturals, Sequences, Functions

CONSTANTS
    LeaseRuns,
    Wants,         \* the declarations of each run's workspace, in their order
    MaxServices,   \* bound: processes started
    MaxSaveFaults, \* bound: rows that cannot be saved
    MaxCloses,     \* bound: workspaces closed
    NoKey, NoDecl, NoService

Services == 1..MaxServices
\* key: the reuse key of a shared service; an ephemeral one has none.  stop: its
\* stopPolicy, "finish" for on_run_finish, "idle" for idle_timeout, or "manual".
Decls == UNION {Range(Wants[r]) : r \in LeaseRuns}
Keys == {d.key : d \in Decls} \ {NoKey}

RuntimeServicesAssumption ==
    /\ {MaxServices, MaxSaveFaults, MaxCloses} \subseteq Nat
    /\ NoService \notin Services
    /\ DOMAIN Wants = LeaseRuns /\ \A r \in LeaseRuns : Wants[r] \in Seq(Range(Wants[r]))
    /\ \A d \in Decls : d.stop \in {"finish", "idle", "manual"}

VARIABLES
    service,  \* runtimeServicesById, with the services not yet or no longer in it
    child,    \* the processes
    byKey,    \* runtimeServicesByReuseKey
    lease,    \* ensureRuntimeServicesForRun and releaseRuntimeServicesForRun of each run
    closing,  \* services that stopRuntimeServicesForExecutionWorkspace has yet to stop
    dropped,  \* history: services a run let go of, or never noted, as a row was not saved
    counts    \* counters of the bounds

localVars == <<service, child, byKey, lease, closing, dropped, counts>>

Record(state, decl) == [state |-> state, decl |-> decl, leases |-> {}, timer |-> FALSE]
NoRecord == Record("none", NoDecl)
Local(pc) == [pc |-> pc, step |-> 0, at |-> NoService, acquired |-> <<>>]

LocalInit ==
    /\ service = [s \in Services |-> NoRecord]
    /\ child = [s \in Services |-> "none"]
    /\ byKey = [k \in Keys |-> NoService]
    /\ lease = [r \in LeaseRuns |-> Local("idle")]
    /\ closing = {} /\ dropped = {}
    /\ counts = [starts |-> 0, faults |-> 0, closes |-> 0]

LeaseAt(r, pc) == lease[r].pc = pc
Running(s) == service[s].state = "running"
Count(what) == counts' = [counts EXCEPT ![what] = @ + 1]
Decl(r) == Wants[r][lease[r].step]
\* An ephemeral service and one with on_run_finish stop with their last run.
EndsWithRuns(d) == d.key = NoKey \/ d.stop = "finish"

\* stopRuntimeService: it asks the process to end and forgets the service; the
\* reuse key goes even if another service has it now.
Stop(s) ==
    /\ service' = [service EXCEPT ![s].state = "stopped", ![s].timer = FALSE]
    /\ child' = [child EXCEPT ![s] = IF @ = "up" THEN "leaving" ELSE @]
    /\ byKey' = [k \in Keys |-> IF k = service[s].decl.key THEN NoService ELSE byKey[k]]

-----------------------------------------------------------------------------
(* ensureRuntimeServicesForRun *)

Ensure(r) ==
    /\ LeaseAt(r, "idle")
    /\ lease' = [lease EXCEPT ![r].pc = "next", ![r].step = 1]
    /\ UNCHANGED <<service, child, byKey, closing, dropped, counts>>

\* The service under the key of the run's next declaration.
Found(r) == IF Decl(r).key = NoKey THEN NoService ELSE byKey[Decl(r).key]

\* Mutant: the idle timer goes on.
ReuseKeepsTimer(r) ==
    /\ LeaseAt(r, "next") /\ lease[r].step <= Len(Wants[r])
    /\ \E s \in Services :
        /\ Found(r) = s /\ Running(s)
        /\ service' = [service EXCEPT ![s].leases = @ \cup {r}]
        /\ lease' = [lease EXCEPT ![r].pc = "saving", ![r].at = s]
    /\ UNCHANGED <<child, byKey, closing, dropped, counts>>

\* A shared service that runs is leased, and its idle timer cleared.
Reuse(r) ==
    /\ LeaseAt(r, "next") /\ lease[r].step <= Len(Wants[r])
    /\ \E s \in Services :
        /\ Found(r) = s /\ Running(s)
        /\ service' = [service EXCEPT ![s].leases = @ \cup {r}, ![s].timer = FALSE]
        /\ lease' = [lease EXCEPT ![r].pc = "saving", ![r].at = s]
    /\ UNCHANGED <<child, byKey, closing, dropped, counts>>

\* Else a process is started, which nobody else knows of until it is ready.
Start(r) ==
    /\ LeaseAt(r, "next") /\ lease[r].step <= Len(Wants[r])
    /\ ~\E s \in Services : Found(r) = s /\ Running(s)
    /\ counts.starts < MaxServices
    /\ LET s == counts.starts + 1 IN
        /\ service' = [service EXCEPT ![s] = Record("starting", Decl(r))]
        /\ child' = [child EXCEPT ![s] = "up"]
        /\ lease' = [lease EXCEPT ![r].pc = "starting", ![r].at = s]
    /\ Count("starts")
    /\ UNCHANGED <<byKey, closing, dropped>>

\* registerRuntimeService, also for a process that has ended meanwhile.
Ready(r) ==
    /\ LeaseAt(r, "starting")
    /\ LET s == lease[r].at IN
        /\ service' = [service EXCEPT ![s].state = "running", ![s].leases = {r}]
        /\ byKey' = [k \in Keys |-> IF k = service[s].decl.key THEN s ELSE byKey[k]]
    /\ lease' = [lease EXCEPT ![r].pc = "saving"]
    /\ UNCHANGED <<child, closing, dropped, counts>>

\* Mutant: a run that cannot be set up keeps what it has.
NotReadyKeeps(r) ==
    /\ LeaseAt(r, "starting")
    /\ service' = [service EXCEPT ![lease[r].at].state = "stopped"]
    /\ child' = [child EXCEPT ![lease[r].at] = IF @ = "up" THEN "leaving" ELSE @]
    /\ lease' = [lease EXCEPT ![r].pc = "done"]
    /\ UNCHANGED <<byKey, closing, dropped, counts>>

\* waitForReadiness gives up: the run fails and releases what it has acquired.
NotReady(r) ==
    /\ LeaseAt(r, "starting")
    /\ service' = [service EXCEPT ![lease[r].at].state = "stopped"]
    /\ child' = [child EXCEPT ![lease[r].at] = IF @ = "up" THEN "leaving" ELSE @]
    /\ lease' = [lease EXCEPT ![r].pc = "release"]
    /\ UNCHANGED <<byKey, closing, dropped, counts>>

\* The row is saved, and only then is the service one the run has acquired.
Saved(r) ==
    /\ LeaseAt(r, "saving")
    /\ lease' = [lease EXCEPT ![r].pc = "next", ![r].step = @ + 1,
                              ![r].acquired = Append(@, lease[r].at)]
    /\ UNCHANGED <<service, child, byKey, closing, dropped, counts>>

\* The row is not saved: the run fails and releases the others, not this one.
NotSaved(r) ==
    /\ LeaseAt(r, "saving") /\ counts.faults < MaxSaveFaults
    /\ lease' = [lease EXCEPT ![r].pc = "release"]
    /\ dropped' = dropped \cup {lease[r].at}
    /\ Count("faults")
    /\ UNCHANGED <<service, child, byKey, closing>>

\* The adapter has ended.
Finish(r) ==
    /\ LeaseAt(r, "next") /\ lease[r].step > Len(Wants[r])
    /\ lease' = [lease EXCEPT ![r].pc = "release"]
    /\ UNCHANGED <<service, child, byKey, closing, dropped, counts>>

-----------------------------------------------------------------------------
(* releaseRuntimeServicesForRun *)

\* The lease of the next service goes, unless the service has ended.
ReleaseService(r) ==
    /\ LeaseAt(r, "release") /\ lease[r].acquired # <<>>
    /\ LET s == Head(lease[r].acquired) IN
        IF Running(s)
        THEN /\ service' = [service EXCEPT ![s].leases = @ \ {r}]
             /\ lease' = [lease EXCEPT ![r].pc = "releasing", ![r].at = s, ![r].acquired = Tail(@)]
        ELSE /\ lease' = [lease EXCEPT ![r].acquired = Tail(@)]
             /\ UNCHANGED service
    /\ UNCHANGED <<child, byKey, closing, dropped, counts>>

\* The row is saved: who leases the service is asked now, not before.
Released(r) ==
    /\ LeaseAt(r, "releasing")
    /\ LET s == lease[r].at
           d == service[s].decl
       IN \/ /\ service[s].leases # {} \/ ~Running(s)
             /\ lease' = [lease EXCEPT ![r].pc = "release"]
             /\ UNCHANGED <<service, child, byKey>>
          \/ /\ service[s].leases = {} /\ Running(s) /\ EndsWithRuns(d)
             /\ Stop(s)
             /\ lease' = [lease EXCEPT ![r].pc = "stopping"]
          \/ /\ service[s].leases = {} /\ Running(s) /\ ~EndsWithRuns(d)
             /\ service' = [service EXCEPT ![s].timer = d.stop = "idle"]
             /\ lease' = [lease EXCEPT ![r].pc = "release"]
             /\ UNCHANGED <<child, byKey>>
    /\ UNCHANGED <<closing, dropped, counts>>

Stopped(r) ==
    /\ LeaseAt(r, "stopping")
    /\ lease' = [lease EXCEPT ![r].pc = "release"]
    /\ UNCHANGED <<service, child, byKey, closing, dropped, counts>>

\* A row is not saved: the rest is not released, and nobody hears of it.
ReleaseFails(r) ==
    /\ lease[r].pc \in {"releasing", "stopping"} /\ counts.faults < MaxSaveFaults
    /\ lease' = [lease EXCEPT ![r] = Local("done")]
    /\ dropped' = dropped \cup {lease[r].at} \cup Range(lease[r].acquired)
    /\ Count("faults")
    /\ UNCHANGED <<service, child, byKey, closing>>

EndLease(r) ==
         /\ LeaseAt(r, "release") /\ lease[r].acquired = <<>>
         /\ lease' = [lease EXCEPT ![r] = Local("done")]
         /\ UNCHANGED <<service, child, byKey, closing, dropped, counts>>

-----------------------------------------------------------------------------
(* The processes, the timers and the board *)

\* The handler of "exit" knows only a service that is registered.
ServiceExit(s) ==
    /\ child[s] \in {"up", "leaving"}
    /\ child' = [child EXCEPT ![s] = "gone"]
    /\ IF Running(s)
       THEN /\ service' = [service EXCEPT ![s].state = "stopped", ![s].timer = FALSE]
            /\ byKey' = [k \in Keys |-> IF byKey[k] = s THEN NoService ELSE byKey[k]]
       ELSE UNCHANGED <<service, byKey>>
    /\ UNCHANGED <<lease, closing, dropped, counts>>

IdleStop(s) ==
    /\ Running(s) /\ service[s].timer
    /\ Stop(s)
    /\ UNCHANGED <<lease, closing, dropped, counts>>

\* A workspace is closed: every service it has now is stopped, one after another.
CloseWorkspace ==
    /\ closing = {} /\ counts.closes < MaxCloses
    /\ closing' = {s \in Services : Running(s)}
    /\ Count("closes")
    /\ UNCHANGED <<service, child, byKey, lease, dropped>>

\* One that is stopped and whose row is not saved ends the rest of it.
CloseNext(s) ==
    /\ s \in closing
    /\ IF Running(s) THEN Stop(s) ELSE UNCHANGED <<service, child, byKey>>
    /\ \/ closing' = closing \ {s} /\ UNCHANGED counts
       \/ /\ Running(s) /\ counts.faults < MaxSaveFaults
          /\ closing' = {} /\ Count("faults")
    /\ UNCHANGED <<lease, dropped>>

-----------------------------------------------------------------------------
LeaseStep(r) ==
    \/ Ensure(r) \/ Reuse(r) \/ Start(r) \/ Ready(r) \/ NotReady(r) \/ Saved(r) \/ NotSaved(r)
    \/ Finish(r)
    \/ ReleaseService(r) \/ Released(r) \/ Stopped(r) \/ ReleaseFails(r) \/ EndLease(r)

LocalNext ==
    \/ \E r \in LeaseRuns : LeaseStep(r)
    \/ \E s \in Services : ServiceExit(s) \/ IdleStop(s) \/ CloseNext(s)
    \/ CloseWorkspace

LocalSpec == LocalInit /\ [][LocalNext]_localVars

-----------------------------------------------------------------------------
(* Properties *)

Records == [state : {"none", "starting", "running", "stopped"}, decl : Decls \cup {NoDecl},
            leases : SUBSET LeaseRuns, timer : BOOLEAN]
Locals == [pc : {"idle", "next", "starting", "saving", "release", "releasing", "stopping", "done"},
           step : Nat, at : Services \cup {NoService}, acquired : Seq(Services)]

LocalTypeOK ==
    /\ service \in [Services -> Records]
    /\ child \in [Services -> {"none", "up", "leaving", "gone"}]
    /\ byKey \in [Keys -> Services \cup {NoService}]
    /\ lease \in [LeaseRuns -> Locals] /\ \A r \in LeaseRuns : lease[r].step <= Len(Wants[r]) + 1
    /\ closing \subseteq Services /\ dropped \subseteq Services
    /\ counts \in [starts : 0..MaxServices, faults : 0..MaxSaveFaults, closes : 0..MaxCloses]

\* A service that a run leases is not stopped under it, whatever other runs release
\* it and whichever timers they have set, unless the workspace is closed.
KeepsLeased ==
    \A s \in Services :
        child[s] = "up" /\ Running(s) /\ service[s].leases # {} /\ s \notin closing
            => child'[s] # "leaving"
LeasedServicesAreKept == [][KeepsLeased]_localVars

\* No service is left running for nobody: a lease is one that its run will still
\* release, and without leases a service has its timer or a run that is about to
\* stop it.  Only a row that could not be saved leaves one behind.
UnleasedServicesStop ==
    \A s \in Services :
        Running(s) /\ s \notin dropped =>
            /\ \A r \in service[s].leases :
                /\ ~LeaseAt(r, "done")
                /\ \/ s \in Range(lease[r].acquired)
                   \/ LeaseAt(r, "saving") /\ lease[r].at = s
            /\ \/ service[s].leases # {} \/ service[s].timer
               \/ ~EndsWithRuns(service[s].decl) /\ service[s].decl.stop = "manual"
               \/ \E r \in LeaseRuns : LeaseAt(r, "releasing") /\ lease[r].at = s
=============================================================================
