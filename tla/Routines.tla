------------------------------ MODULE Routines ------------------------------
(***************************************************************************)
(* One routine with a schedule trigger, from                               *)
(* server/src/services/routines.ts: who fires it, and the transaction that *)
(* turns a firing into an execution issue whose assignee is woken.         *)
(*                                                                         *)
(* Three kinds of dispatcher fire it: passes of the server's timer, which  *)
(* claim a due tick by compare-and-set; requests of the board and of       *)
(* webhooks; and jobs of the worker process, which claim nothing.  The     *)
(* transaction holds the routine's row FOR UPDATE, and meanwhile creates   *)
(* the issue and wakes its assignee through other connections, whose       *)
(* effects are there at once and stay if the transaction does not commit.  *)
(*                                                                         *)
(* Time is counted in ticks of the cron expression.  One step is one       *)
(* statement, or one transaction of another service.                       *)
(***************************************************************************)
EXTENDS Naturals, FiniteSets

CONSTANTS
    Timers,         \* passes of tickScheduledTriggers, which may overlap
    Callers,        \* requests in progress: run now, fire a webhook
    Workers,        \* worker processes that dispatch jobs
    AlwaysEnqueue,  \* concurrencyPolicy = "always_enqueue"
    CatchUp,        \* catchUpPolicy = "enqueue_missed_with_cap"
    MaxCatchUp,     \* MAX_CATCH_UP_RUNS
    Connections,    \* size of the server's connection pool
    IssueCount,     \* bound: issues of the routine at a time
    MaxTime,        \* bound: the clock
    MaxCalls,       \* bound: requests ever made
    MaxUpsets,      \* bound: refusals, wakes of an earlier issue, crashes, together
    NoDispatcher    \* no dispatcher

Server == Timers \cup Callers
Dispatchers == Server \cup Workers
Issues == 1 .. IssueCount

ASSUME RoutineConstants ==
    /\ {MaxTime, MaxCalls, MaxUpsets} \subseteq Nat
    /\ {MaxCatchUp, Connections} \subseteq Nat \ {0}
    /\ IssueCount \in Nat \ {0, 1}
    /\ {AlwaysEnqueue, CatchUp} \subseteq BOOLEAN
    /\ Timers \cap Callers = {} /\ Server \cap Workers = {}
    /\ NoDispatcher \notin Dispatchers

VARIABLES
    clock,      \* the last tick that has passed
    nextRun,    \* routine_triggers.next_run_at
    issue,      \* the routine's open issues, by what execution_run_id says
    disp,       \* where each dispatcher stands, and its locals
    holder,     \* the dispatcher whose transaction has the routine's row
    used        \* how often each bounded event has happened

vars == <<clock, nextRun, issue, disp, holder, used>>

NoDispatch == [pc |-> "idle", due |-> 0, left |-> 0, at |-> 0, issue |-> 0, verdict |-> "none"]
NoEvents == [calls |-> 0, faults |-> 0, rewakes |-> 0, crashes |-> 0]

Init ==
    /\ clock = 0
    /\ nextRun = 1
    /\ issue = [i \in Issues |-> "none"]
    /\ disp = [d \in Dispatchers |-> NoDispatch]
    /\ holder = NoDispatcher
    /\ used = NoEvents

-----------------------------------------------------------------------------

\* Mutant: the cursor is moved on once too often.
NextTickLate(t) == t + 2

\* nextCronTickInTimeZone: the first tick after t.
NextTick(t) == t + 1

\* "created": no run yet; "live": its run is queued or running; "stale": the end of
\* its run is stored and execution_run_id still set; "idle": no run any more.
Live(i) == issue[i] = "live"

\* issues_open_routine_execution_uq: one open issue of a routine at most has an
\* execution_run_id.
Bound(i) == issue[i] \in {"live", "stale"}

MayBind(i) == \A j \in Issues \ {i} : ~Bound(j)

At(d, p) == disp[d].pc = p
Go(d, p) == disp' = [disp EXCEPT ![d].pc = p]
Count(event) == used' = [used EXCEPT ![event] = @ + 1]
Upsets == used.faults + used.rewakes + used.crashes

InTransaction(d) == disp[d].pc \in {"lock", "find", "create", "wake", "start", "commit"}

\* Mutant: a statement needs two free connections.
ConnectionPair(d) ==
    d \in Server => Cardinality({e \in Server : InTransaction(e)}) + 1 < Connections

\* A statement outside the transaction finds a connection: the worker has a pool
\* of its own.
Connection(d) ==
    d \in Server => Cardinality({e \in Server : InTransaction(e)}) < Connections

-----------------------------------------------------------------------------
(* Who fires the trigger *)

\* tickScheduledTriggers reads the due triggers.
TickRead(d) ==
    /\ d \in Timers /\ At(d, "idle") /\ Connection(d)
    /\ nextRun <= clock
    /\ disp' = [disp EXCEPT ![d] = [NoDispatch EXCEPT !.pc = "claim", !.due = nextRun, !.at = clock]]
    /\ UNCHANGED <<clock, nextRun, issue, holder, used>>

\* How often a tick that was due fires.
RunsFor(due, now) ==
    IF ~CatchUp THEN 1
    ELSE IF now - due < MaxCatchUp THEN now - due + 1 ELSE MaxCatchUp

\* Mutant: the comparison never matches.
TickClaimNever(d) ==
    /\ At(d, "claim") /\ Connection(d)
    /\ disp' = [disp EXCEPT ![d] = NoDispatch]
    /\ UNCHANGED <<clock, nextRun, issue, holder, used>>

\* UPDATE ... WHERE next_run_at is what was read.
TickClaim(d) ==
    LET due == disp[d].due
        runs == RunsFor(due, disp[d].at) IN
    /\ At(d, "claim") /\ Connection(d)
    /\ IF nextRun = due
         THEN /\ nextRun' = IF CatchUp THEN due + runs ELSE NextTick(disp[d].at)
              /\ disp' = [disp EXCEPT ![d].pc = "connect", ![d].left = runs]
         ELSE /\ disp' = [disp EXCEPT ![d] = NoDispatch]
              /\ UNCHANGED nextRun
    /\ UNCHANGED <<clock, issue, holder, used>>

\* runRoutine and firePublicTrigger.
Call(d) ==
    /\ d \in Callers /\ At(d, "idle") /\ Connection(d)
    /\ used.calls < MaxCalls /\ Count("calls")
    /\ disp' = [disp EXCEPT ![d].pc = "connect", ![d].left = 1]
    /\ UNCHANGED <<clock, nextRun, issue, holder>>

\* The tick handler of the worker has enqueued a job for a due tick, and a worker
\* takes it.
JobBegin(d) ==
    /\ d \in Workers /\ At(d, "idle")
    /\ nextRun <= clock
    /\ disp' = [disp EXCEPT ![d].pc = "check", ![d].due = nextRun]
    /\ UNCHANGED <<clock, nextRun, issue, holder, used>>

\* routineDispatchHandler skips a tick that was overtaken, which one that another
\* job has completed always is.
JobCheck(d) ==
    /\ At(d, "check")
    /\ disp' = [disp EXCEPT ![d] =
            IF nextRun > @.due THEN NoDispatch ELSE [@ EXCEPT !.pc = "connect", !.left = 1]]
    /\ UNCHANGED <<clock, nextRun, issue, holder, used>>

-----------------------------------------------------------------------------
(* dispatchRoutineRun *)

\* BEGIN takes a connection from the pool.
Connect(d) ==
    /\ At(d, "connect") /\ Connection(d)
    /\ Go(d, "lock")
    /\ UNCHANGED <<clock, nextRun, issue, holder, used>>

\* Mutant: the row is read without FOR UPDATE.
LockRoutineUnlocked(d) ==
    /\ At(d, "lock")
    /\ holder' = d
    /\ disp' = [disp EXCEPT ![d].pc = "find", ![d].at = clock]
    /\ UNCHANGED <<clock, nextRun, issue, used>>

\* SELECT ... FOR UPDATE of the routine; the routine run is inserted.
LockRoutine(d) ==
    /\ At(d, "lock")
    /\ holder = NoDispatcher
    /\ holder' = d
    /\ disp' = [disp EXCEPT ![d].pc = "find", ![d].at = clock]
    /\ UNCHANGED <<clock, nextRun, issue, used>>

\* findLiveExecutionIssue: coalesce into it or skip, unless the policy is to
\* enqueue always.
FindLiveIssue(d) ==
    /\ At(d, "find")
    /\ disp' = [disp EXCEPT ![d] =
            IF (\E i \in Issues : Live(i)) /\ ~AlwaysEnqueue
            THEN [@ EXCEPT !.pc = "commit", !.verdict = "coalesced"]
            ELSE [@ EXCEPT !.pc = "create"]]
    /\ UNCHANGED <<clock, nextRun, issue, holder, used>>

\* The place of a new issue.  Bound: with no place left, an issue that has no run
\* and is in no dispatcher's hands is forgotten.
NewIssue(i) ==
    \/ issue[i] = "none"
    \/ /\ \A j \in Issues : issue[j] # "none"
       /\ issue[i] \in {"created", "idle"}
       /\ \A d \in Dispatchers : disp[d].issue # i

\* issueService.create, a transaction of its own.
CreateIssue(d) ==
    /\ At(d, "create") /\ Connection(d)
    /\ \E i \in Issues :
        /\ NewIssue(i)
        /\ issue' = [issue EXCEPT ![i] = "created"]
        /\ disp' = [disp EXCEPT ![d].pc = "wake", ![d].issue = i]
    /\ UNCHANGED <<clock, nextRun, holder, used>>

\* queueIssueAssignmentWakeup: enqueueWakeup inserts a run and binds the issue to
\* it, in a transaction of its own.
WakeAssignee(d) ==
    LET i == disp[d].issue IN
    /\ At(d, "wake") /\ Connection(d)
    /\ IF MayBind(i)
         THEN /\ issue' = [issue EXCEPT ![i] = "live"]
              /\ Go(d, "start")
         ELSE /\ disp' = [disp EXCEPT ![d].pc = "commit", ![d].verdict = "failed"]
              /\ UNCHANGED issue
    /\ UNCHANGED <<clock, nextRun, holder, used>>

\* The agent does not wake on demand: enqueueWakeup returns null, and the issue stays
\* without a run.
WakeDeclined(d) ==
    /\ At(d, "wake") /\ Connection(d)
    /\ issue' = [issue EXCEPT ![disp[d].issue] = "idle"]
    /\ disp' = [disp EXCEPT ![d].pc = "commit", ![d].verdict = "issue_created"]
    /\ UNCHANGED <<clock, nextRun, holder, used>>

\* enqueueWakeup awaits startNextQueuedRunForAgent before it returns.
StartRun(d) ==
    /\ At(d, "start") /\ Connection(d)
    /\ disp' = [disp EXCEPT ![d].pc = "commit", ![d].verdict = "issue_created"]
    /\ UNCHANGED <<clock, nextRun, issue, holder, used>>

\* The issue is refused, or the wake, whose agent is paused or over its budget, or the
\* start of its run fails.
DispatchFails(d) ==
    /\ disp[d].pc \in {"create", "wake", "start"}
    /\ Upsets < MaxUpsets /\ Count("faults")
    /\ disp' = [disp EXCEPT ![d].pc = "commit", ![d].verdict = "failed"]
    /\ UNCHANGED <<clock, nextRun, issue, holder>>

\* Mutant: the issue of a failed dispatch is left behind.
CommitKeepsIssue(d) ==
    /\ At(d, "commit")
    /\ nextRun' = IF d \in Callers THEN nextRun ELSE NextTick(disp[d].at)
    /\ holder' = NoDispatcher
    /\ disp' = [disp EXCEPT ![d] =
            IF @.left > 1 THEN [NoDispatch EXCEPT !.pc = "connect", !.left = disp[d].left - 1]
            ELSE NoDispatch]
    /\ UNCHANGED <<clock, issue, used>>

\* A failed dispatch deletes its issue; finalizeRun; updateRoutineTouchedState
\* writes a next_run_at computed when the transaction began; COMMIT.
Commit(d) ==
    /\ At(d, "commit")
    /\ issue' = [i \in Issues |-> IF i = disp[d].issue /\ disp[d].verdict = "failed"
                                  THEN "none" ELSE issue[i]]
    /\ nextRun' = IF d \in Callers THEN nextRun ELSE NextTick(disp[d].at)
    /\ holder' = NoDispatcher
    /\ disp' = [disp EXCEPT ![d] =
            IF @.left > 1 THEN [NoDispatch EXCEPT !.pc = "connect", !.left = disp[d].left - 1]
            ELSE NoDispatch]
    /\ UNCHANGED <<clock, used>>

-----------------------------------------------------------------------------
(* The issues, the clock and the server *)

\* setRunStatus stores the end of the run, from executeRun, a cancellation or the
\* reaper.
RunEnds(i) ==
    /\ Live(i)
    /\ issue' = [issue EXCEPT ![i] = "stale"]
    /\ UNCHANGED <<clock, nextRun, disp, holder, used>>

\* releaseIssueExecutionAndPromote, some awaits later, clears execution_run_id; after
\* a crash it never does.
ReleaseIssue(i) ==
    /\ issue[i] = "stale"
    /\ issue' = [issue EXCEPT ![i] = "idle"]
    /\ UNCHANGED <<clock, nextRun, disp, holder, used>>

\* The issue is done or cancelled.
CloseIssue(i) ==
    /\ issue[i] \in {"live", "idle", "stale"}
    /\ issue' = [issue EXCEPT ![i] = "none"]
    /\ UNCHANGED <<clock, nextRun, disp, holder, used>>

\* A comment on an earlier issue wakes its assignee again, or the release of the run
\* that has ended promotes a wake deferred behind it.
Rewake(i) ==
    /\ issue[i] \in {"idle", "stale"} /\ MayBind(i)
    /\ Upsets < MaxUpsets /\ Count("rewakes")
    /\ issue' = [issue EXCEPT ![i] = "live"]
    /\ UNCHANGED <<clock, nextRun, disp, holder>>

TimePasses ==
    /\ clock < MaxTime
    /\ clock' = clock + 1
    /\ UNCHANGED <<nextRun, issue, disp, holder, used>>

\* The open transactions are rolled back; what other connections did stays.
Crash ==
    /\ Upsets < MaxUpsets /\ Count("crashes")
    /\ disp' = [d \in Dispatchers |-> IF d \in Server THEN NoDispatch ELSE disp[d]]
    /\ holder' = IF holder \in Server THEN NoDispatcher ELSE holder
    /\ UNCHANGED <<clock, nextRun, issue>>

\* Nothing is in progress and no tick is due.
Finished ==
    /\ clock = MaxTime
    /\ \A d \in Dispatchers : At(d, "idle")
    /\ UNCHANGED vars

-----------------------------------------------------------------------------

Dispatch(d) ==
    \/ TickClaim(d) \/ JobCheck(d)
    \/ Connect(d) \/ LockRoutine(d) \/ FindLiveIssue(d)
    \/ CreateIssue(d) \/ WakeAssignee(d) \/ StartRun(d) \/ Commit(d)

Next ==
    \/ \E d \in Dispatchers :
        \/ TickRead(d) \/ Call(d) \/ JobBegin(d)
        \/ Dispatch(d) \/ WakeDeclined(d) \/ DispatchFails(d)
    \/ \E i \in Issues : RunEnds(i) \/ ReleaseIssue(i) \/ CloseIssue(i) \/ Rewake(i)
    \/ TimePasses \/ Crash \/ Finished

Spec == Init /\ [][Next]_vars

\* The timer fires again and again, a continuation whose await has settled runs,
\* the row is handed to a transaction that waits for it, and time passes.
Fairness ==
    /\ \A d \in Dispatchers : WF_vars(Dispatch(d)) /\ WF_vars(TickRead(d))
    /\ WF_vars(TimePasses)

FairSpec == Spec /\ Fairness

-----------------------------------------------------------------------------
(* Properties *)

TypeOK ==
    /\ clock \in 0 .. MaxTime
    /\ nextRun \in 1 .. MaxTime + 1
    /\ issue \in [Issues -> {"none", "created", "live", "idle", "stale"}]
    /\ \A d \in Dispatchers :
        /\ disp[d].pc \in {"idle", "claim", "check", "connect", "lock", "find", "create",
                           "wake", "start", "commit"}
        /\ disp[d].due \in 0 .. MaxTime /\ disp[d].at \in 0 .. MaxTime
        /\ disp[d].left \in 0 .. MaxCatchUp
        /\ disp[d].issue \in Issues \cup {0}
        /\ disp[d].verdict \in {"none", "coalesced", "issue_created", "failed"}
    /\ holder \in Dispatchers \cup {NoDispatcher}
    /\ used \in [DOMAIN NoEvents -> Nat]

\* Dispatches of one routine, from any process, never trip over each other's runs:
\* from its look for a live issue until it has woken the assignee of its own, nothing
\* that a dispatch does makes another issue live.  So the index refuses a wake only
\* because of an issue whose run has ended and is not released yet, unless someone
\* else wakes an earlier issue meanwhile.
NoLiveIssueIsMissed ==
    ~AlwaysEnqueue /\ used.rewakes = 0 =>
        \A d \in Dispatchers : disp[d].pc \in {"create", "wake"} => \A i \in Issues : ~Live(i)

\* An issue whose assignee has not been asked to work on it is in the hands of a
\* dispatch that will wake it or delete the issue: a failing dispatch leaves none
\* behind, only a crash does.
CreatedIssuesAreWoken ==
    used.crashes = 0 =>
        \A i \in Issues : issue[i] = "created" =>
            \E d \in Dispatchers : disp[d].issue = i /\ disp[d].pc \in {"wake", "commit"}

\* Every dispatch comes to its end.
DispatchesFinish ==
    \A d \in Dispatchers : InTransaction(d) ~> ~InTransaction(d)

\* A due tick fires, or is overtaken, although the timer and the worker both claim
\* or dispatch it, write next_run_at over each other, and the server may crash with
\* it: the schedule goes on.
DueTicksFire == nextRun <= clock ~> nextRun > clock

-----------------------------------------------------------------------------
(* Waiting: what DispatchesFinish needs besides fairness *)

\* The step d is about to make is possible now.
CanGoOn(d) ==
    \/ disp[d].pc \in {"check", "find", "commit"}
    \/ disp[d].pc \in {"claim", "connect", "wake", "start"} /\ Connection(d)
    \/ At(d, "create") /\ Connection(d) /\ \E i \in Issues : NewIssue(i)
    \/ At(d, "lock") /\ holder = NoDispatcher

\* Dispatches do not wait for one another in a circle, the one for the row that the
\* other has and the other for a connection: one in progress can go on, or waits for
\* the row of one that can.
DispatchesGoOn ==
    \A d \in Dispatchers : ~At(d, "idle") =>
        CanGoOn(d) \/ (At(d, "lock") /\ holder # NoDispatcher /\ CanGoOn(holder))
=============================================================================
