------------------------------ MODULE JobQueue ------------------------------
(***************************************************************************)
(* The background job queue: server/src/services/job-queue.ts over the     *)
(* table background_jobs, and the worker processes of                      *)
(* server/src/worker/index.ts that poll it.                                *)
(*                                                                         *)
(* A worker locks the first due row with FOR UPDATE SKIP LOCKED, commits   *)
(* it as processing, and races the handler against a timer.  A handler     *)
(* that loses the race is not stopped: it goes on, and only its result is  *)
(* ignored.  Two kinds of job are told apart: a heartbeat tick, whose      *)
(* handler enqueues the next tick, and any other job (a workspace cleanup),*)
(* which comes from a route and may be cancelled by the board.             *)
(*                                                                         *)
(* Time is counted in units of the 30 s between a tick and the next one it *)
(* asks for.  One step is the code between two statements of the database. *)
(***************************************************************************)
EXTENDS Naturals, Sequences, FiniteSets, SequencesExt

CONSTANTS
    Workers,       \* worker processes
    JobCount,      \* bound: rows of background_jobs (a settled row is reused)
    MaxAttempts,   \* background_jobs.max_attempts
    Window,        \* dedupeWindowMs, in units
    MaxCleanups,   \* bound: how many jobs routes enqueue
    MaxStops,      \* bound: how often a worker process ends
    MaxFaults,     \* bound: how many statements of the database fail
    NoJob          \* no job

Jobs == 1 .. JobCount

ASSUME JobConstants ==
    /\ JobCount \in Nat
    /\ MaxAttempts \in Nat \ {0}
    /\ Window \in Nat \ {0}
    /\ MaxCleanups \in Nat /\ MaxStops \in Nat /\ MaxFaults \in Nat
    /\ NoJob \notin Jobs

VARIABLES
    row,        \* background_jobs: status, kind, attempts, waiting, age, ahead
    order,      \* the unsettled rows by scheduledAt
    worker,     \* the loop of each worker process: where it stands and its job
    late,       \* where the timed-out tick handlers of each process stand
    cron,       \* where the cron route that kicks the chain of ticks stands
    cleanups, stops, faults   \* what is spent of the bounds

vars == <<row, order, worker, late, cron, cleanups, stops, faults>>

Kinds == {"cleanup", "tick"}
Settled == {"none", "completed", "failed", "cancelled"}
PCs == {"off", "boot", "bootInsert", "poll", "locked", "work", "insert",
        "complete", "fail"}

\* nextRetryAt is in the future: waiting.  age counts from createdAt, ahead is
\* how far tickTimestamp lies after it.
JobRow(s, kind, ahead) ==
    [status |-> s, kind |-> kind, attempts |-> 0, waiting |-> FALSE, age |-> 0, ahead |-> ahead]

Init ==
    /\ row = [j \in Jobs |-> JobRow("none", "cleanup", 0)]
    /\ order = <<>>
    /\ worker = [w \in Workers |-> [pc |-> "off", job |-> NoJob]]
    /\ late = [w \in Workers |-> {}]
    /\ cron = "idle"
    /\ cleanups = 0
    /\ stops = 0
    /\ faults = 0

-----------------------------------------------------------------------------
(* The table *)

Live(j) == row[j].status \in {"pending", "processing"}

\* A row lock lasts from the SELECT to the commit of acquireNextJob.
Locked(j) == \E w \in Workers : worker[w].pc = "locked" /\ worker[w].job = j

\* Mutant: the SELECT does not skip locked rows.
DueLocked(j) == row[j].status = "pending" /\ ~row[j].waiting

\* status pending, nextRetryAt null or past, and not skipped as locked.
Due(j) == row[j].status = "pending" /\ ~row[j].waiting /\ ~Locked(j)

\* orderBy(desc(priority), scheduledAt): a tick has priority -1, others 0.
Precedes(i, j) ==
    \/ row[i].kind = "cleanup" /\ row[j].kind = "tick"
    \/ row[i].kind = row[j].kind /\ SelectInSeq(order, LAMBDA k : k = i)
                                      < SelectInSeq(order, LAMBDA k : k = j)

FirstDue(j) == Due(j) /\ \A i \in Jobs \ {j} : Due(i) => Precedes(j, i)

\* The row an INSERT makes or reuses.
NewRow(j) == ~Live(j) /\ \A i \in 1 .. (j - 1) : Live(i)

Insert(j, kind, ahead) ==
    /\ NewRow(j)
    /\ row' = [row EXCEPT ![j] = JobRow("pending", kind, ahead)]
    /\ order' = Append(order, j)

\* enqueue of a tick.  Bound: with every row in use the tick is left out.
InsertTick(ahead) ==
    \/ \E j \in Jobs : Insert(j, "tick", ahead)
    \/ (\A j \in Jobs : Live(j)) /\ UNCHANGED <<row, order>>

\* An UPDATE of the row by id.
Update(j, new) == row' = [row EXCEPT ![j] = new] /\ UNCHANGED order

\* An UPDATE that settles the row: nothing but its status is read again.
Settle(j, s) ==
    /\ row' = [row EXCEPT ![j] = JobRow(s, "cleanup", 0)]
    /\ order' = RemoveFirst(order, j)

\* Mutant: any tick that is not settled is a duplicate, however old.
DuplicateForEver(ahead) == \E j \in Jobs : Live(j) /\ row[j].kind = "tick"

\* enqueueHeartbeatTick finds an unsettled tick created within the window whose
\* tickTimestamp is within the window of the requested one.
Duplicate(ahead) ==
    \E j \in Jobs :
        /\ Live(j) /\ row[j].kind = "tick"
        /\ row[j].age <= Window
        /\ row[j].age + ahead <= Window + row[j].ahead

-----------------------------------------------------------------------------
(* A worker process *)

At(w, p) == worker[w].pc = p
Go(w, p, j) == worker' = [worker EXCEPT ![w] = [pc |-> p, job |-> j]]
Step(w, p) == Go(w, p, worker[w].job)

\* The worker has been handed the job and has not written its outcome yet.
HoldsLease(w, j) ==
    /\ worker[w].job = j
    /\ worker[w].pc \in {"work", "insert", "complete", "fail"}

Spend == faults < MaxFaults /\ faults' = faults + 1

Start(w) ==
    /\ At(w, "off") /\ Step(w, "boot")
    /\ UNCHANGED <<row, order, late, cron, cleanups, stops, faults>>

\* bootstrap: read the candidates, then insert the first tick or not.
Bootstrap(w) ==
    /\ At(w, "boot")
    /\ Step(w, IF Duplicate(0) THEN "poll" ELSE "bootInsert")
    /\ UNCHANGED <<row, order, late, cron, cleanups, stops, faults>>

BootstrapInsert(w) ==
    /\ At(w, "bootInsert") /\ Step(w, "poll")
    /\ InsertTick(0)
    /\ UNCHANGED <<late, cron, cleanups, stops, faults>>

\* main catches it and the process exits.
BootstrapFails(w) ==
    /\ worker[w].pc \in {"boot", "bootInsert"} /\ Step(w, "off") /\ Spend
    /\ UNCHANGED <<row, order, late, cron, cleanups, stops>>

\* SELECT ... FOR UPDATE SKIP LOCKED LIMIT 1.
AcquireLock(w) ==
    /\ At(w, "poll")
    /\ \E j \in Jobs : FirstDue(j) /\ Go(w, "locked", j)
    /\ UNCHANGED <<row, order, late, cron, cleanups, stops, faults>>

\* Mutant: the attempt is not counted.
AcquireUncounted(w) ==
    LET j == worker[w].job IN
    /\ At(w, "locked") /\ Step(w, "work")
    /\ Update(j, [row[j] EXCEPT !.status = "processing"])
    /\ UNCHANGED <<late, cron, cleanups, stops, faults>>

\* The UPDATE and the commit of the transaction; the handler is called.
AcquireCommit(w) ==
    LET j == worker[w].job IN
    /\ At(w, "locked") /\ Step(w, "work")
    /\ Update(j, [row[j] EXCEPT !.status = "processing", !.attempts = @ + 1])
    /\ UNCHANGED <<late, cron, cleanups, stops, faults>>

\* The transaction is rolled back; the next cycle starts over.
AcquireFails(w) ==
    /\ At(w, "locked") /\ Go(w, "poll", NoJob) /\ Spend
    /\ UNCHANGED <<row, order, late, cron, cleanups, stops>>

\* The tick handler has ticked the timers and reads whether a next tick waits.
HandlerReads(w) ==
    /\ At(w, "work") /\ row[worker[w].job].kind = "tick"
    /\ Step(w, IF Duplicate(1) THEN "complete" ELSE "insert")
    /\ UNCHANGED <<row, order, late, cron, cleanups, stops, faults>>

HandlerInserts(w) ==
    /\ At(w, "insert") /\ Step(w, "complete")
    /\ InsertTick(1)
    /\ UNCHANGED <<late, cron, cleanups, stops, faults>>

\* Any other handler succeeds or skips.
HandlerReturns(w) ==
    /\ At(w, "work") /\ row[worker[w].job].kind = "cleanup"
    /\ Step(w, "complete")
    /\ UNCHANGED <<row, order, late, cron, cleanups, stops, faults>>

HandlerThrows(w) ==
    /\ worker[w].pc \in {"work", "insert"} /\ Step(w, "fail")
    /\ UNCHANGED <<row, order, late, cron, cleanups, stops, faults>>

\* The timer wins the race; the handler goes on by itself.
Timeout(w) ==
    /\ worker[w].pc \in {"work", "insert"} /\ Step(w, "fail")
    /\ late' = [late EXCEPT ![w] = IF row[worker[w].job].kind = "tick"
                                     THEN @ \cup {worker[w].pc} ELSE @]
    /\ UNCHANGED <<row, order, cron, cleanups, stops, faults>>

\* markCompleted: by id, whatever the status.
MarkCompleted(w) ==
    /\ At(w, "complete") /\ Go(w, "poll", NoJob)
    /\ Settle(worker[w].job, "completed")
    /\ UNCHANGED <<late, cron, cleanups, stops, faults>>

\* Mutant: off by one.
CanRetryOnceMore(n) == n <= MaxAttempts

CanRetry(n) == n < MaxAttempts

\* markFailed reads the row and writes it by id.  The two are one step: while
\* the worker has the lease no one else writes the row (OneLease).
MarkFailed(w) ==
    LET j == worker[w].job IN
    /\ At(w, "fail") /\ Go(w, "poll", NoJob)
    /\ IF CanRetry(row[j].attempts)
         THEN Update(j, [row[j] EXCEPT !.status = "pending", !.waiting = TRUE])
         ELSE Settle(j, "failed")
    /\ UNCHANGED <<late, cron, cleanups, stops, faults>>

\* A statement that writes the outcome fails: runJobCycle logs and goes on.
MarkFails(w) ==
    /\ worker[w].pc \in {"complete", "fail"}
    /\ Go(w, "poll", NoJob) /\ Spend
    /\ UNCHANGED <<row, order, late, cron, cleanups, stops>>

\* SIGTERM: shutdown finds currentJobCompletion null, it is never set, and
\* exits at once.  A crash does the same.
Stop(w) ==
    /\ ~At(w, "off") /\ stops < MaxStops
    /\ Go(w, "off", NoJob)
    /\ late' = [late EXCEPT ![w] = {}]
    /\ stops' = stops + 1
    /\ UNCHANGED <<row, order, cron, cleanups, faults>>

\* A tick handler that lost its race goes on.
LateReads(w) ==
    /\ "work" \in late[w]
    /\ late' = [late EXCEPT ![w] = (@ \ {"work"})
                                     \cup IF Duplicate(1) THEN {} ELSE {"insert"}]
    /\ UNCHANGED <<row, order, worker, cron, cleanups, stops, faults>>

LateInserts(w) ==
    /\ "insert" \in late[w]
    /\ late' = [late EXCEPT ![w] = @ \ {"insert"}]
    /\ InsertTick(1)
    /\ UNCHANGED <<worker, cron, cleanups, stops, faults>>

-----------------------------------------------------------------------------
(* Routes and time *)

EnqueueCleanup ==
    /\ cleanups < MaxCleanups /\ cleanups' = cleanups + 1
    /\ \E j \in Jobs : Insert(j, "cleanup", 0)
    /\ UNCHANGED <<worker, late, cron, stops, faults>>

\* Mutant: the status is not checked again by the UPDATE.
CancelAnyLive(j) ==
    /\ Live(j) /\ ~Locked(j) /\ row[j].kind = "cleanup"
    /\ Settle(j, "cancelled")
    /\ UNCHANGED <<worker, late, cron, cleanups, stops, faults>>

\* The route only finds jobs of a company, and a tick has none.  The UPDATE
\* waits for the lock of an acquiring worker and checks the status again.
Cancel(j) ==
    /\ row[j].status = "pending" /\ ~Locked(j) /\ row[j].kind = "cleanup"
    /\ Settle(j, "cancelled")
    /\ UNCHANGED <<worker, late, cron, cleanups, stops, faults>>

\* A cron route, called from outside, asks for a tick now.
CronReads ==
    /\ cron = "idle" /\ ~Duplicate(0)
    /\ cron' = "insert"
    /\ UNCHANGED <<row, order, worker, late, cleanups, stops, faults>>

CronInserts ==
    /\ cron = "insert" /\ cron' = "idle"
    /\ InsertTick(0)
    /\ UNCHANGED <<worker, late, cleanups, stops, faults>>

\* The route answers 500.
CronFails ==
    /\ cron = "insert" /\ cron' = "idle" /\ Spend
    /\ UNCHANGED <<row, order, worker, late, cleanups, stops>>

\* nextRetryAt passes.
BackoffEnds(j) ==
    /\ row[j].status = "pending" /\ row[j].waiting
    /\ row' = [row EXCEPT ![j].waiting = FALSE]
    /\ UNCHANGED <<order, worker, late, cron, cleanups, stops, faults>>

\* Ages past Window + 1 are alike: such a tick is no duplicate of any other.
Ageing(j) == Live(j) /\ row[j].kind = "tick" /\ row[j].age <= Window

TimePasses ==
    /\ \E j \in Jobs : Ageing(j)
    /\ row' = [j \in Jobs |-> IF Ageing(j) THEN [row[j] EXCEPT !.age = @ + 1] ELSE row[j]]
    /\ UNCHANGED <<order, worker, late, cron, cleanups, stops, faults>>

-----------------------------------------------------------------------------

LoopStep(w) ==
    \/ Start(w) \/ Bootstrap(w) \/ BootstrapInsert(w)
    \/ AcquireLock(w) \/ AcquireCommit(w)
    \/ MarkCompleted(w) \/ MarkFailed(w)
    \/ Timeout(w)

HandlerStep(w) ==
    \/ HandlerReads(w) \/ HandlerInserts(w) \/ HandlerReturns(w) \/ HandlerThrows(w)
    \/ LateReads(w) \/ LateInserts(w)

Next ==
    \/ \E w \in Workers :
          \/ LoopStep(w) \/ HandlerStep(w)
          \/ BootstrapFails(w) \/ AcquireFails(w) \/ MarkFails(w) \/ Stop(w)
    \/ \E j \in Jobs : Cancel(j) \/ BackoffEnds(j)
    \/ EnqueueCleanup \/ CronReads \/ CronInserts \/ CronFails \/ TimePasses

Spec == Init /\ [][Next]_vars

\* A process that ended is started again, its loop polls for ever, setTimeout
\* fires and time passes.  A handler need never return, and only the cron route
\* is relied upon to come back.
Fairness ==
    /\ \A w \in Workers : WF_vars(LoopStep(w))
    /\ \A j \in Jobs : WF_vars(BackoffEnds(j))
    /\ WF_vars(CronReads \/ CronInserts)
    /\ WF_vars(TimePasses)

FairSpec == Spec /\ Fairness

-----------------------------------------------------------------------------
(* Properties *)

RowsOK ==
    row \in [Jobs -> [status : Settled \cup {"pending", "processing"},
                      kind : Kinds, attempts : 0 .. MaxAttempts,
                      waiting : BOOLEAN, age : 0 .. Window + 1, ahead : {0, 1}]]

WorkersOK == worker \in [Workers -> [pc : PCs, job : Jobs \cup {NoJob}]]

\* The unsettled rows are in the order, each once.
OrderOK ==
    /\ order \in Seq(Jobs)
    /\ ToSet(order) = {j \in Jobs : Live(j)} /\ IsInjective(order)

LateOK == late \in [Workers -> SUBSET {"work", "insert"}] /\ cron \in {"idle", "insert"}

SpentOK == cleanups \in 0 .. MaxCleanups /\ stops \in 0 .. MaxStops /\ faults \in 0 .. MaxFaults

TypeOK == RowsOK /\ WorkersOK /\ OrderOK /\ LateOK /\ SpentOK

\* A job handed to a worker is that worker's until it writes the outcome: no
\* other worker locks or holds it, and no cancel, late handler or other writer
\* has taken it out of processing.  markCompleted and markFailed write by id
\* and rely on it.
OneLease ==
    \A w \in Workers, j \in Jobs :
        HoldsLease(w, j) =>
            /\ row[j].status = "processing"
            /\ \A v \in Workers \ {w} : worker[v].job # j

\* A worker has a job from the row lock to the outcome, and no other has it.
JobsAreExclusive ==
    \A w \in Workers :
        /\ worker[w].job \in Jobs
              <=> worker[w].pc \in {"locked", "work", "insert", "complete", "fail"}
        /\ \A v \in Workers \ {w} : worker[w].job \in Jobs => worker[v].job # worker[w].job

\* The status of its row says how far the worker is.
StatusOfLease ==
    \A w \in Workers, j \in Jobs :
        /\ At(w, "locked") /\ worker[w].job = j => row[j].status = "pending"
        /\ HoldsLease(w, j) => row[j].status = "processing"

\* What is left of the attempts of a row.
AttemptsOK ==
    \A j \in Jobs :
        /\ row[j].status = "pending" => row[j].attempts < MaxAttempts
        /\ ~Live(j) => row[j].attempts = 0

\* The inductive invariant behind OneLease and ImplementsJobLifecycle.
IInv == RowsOK /\ WorkersOK /\ JobsAreExclusive /\ StatusOfLease /\ AttemptsOK

\* Every row follows the life of a job: see JobLifecycle.
Lifecycle == INSTANCE JobLifecycle
               WITH phase <- [j \in Jobs |-> row[j].status],
                    attempts <- [j \in Jobs |-> row[j].attempts]

ImplementsJobLifecycle == Lifecycle!Spec

\* The jobs in processing that no worker will write the outcome of.  Nothing looks
\* for them: processing rows are never acquired again.
Lost ==
    {j \in Jobs : row[j].status = "processing" /\ \A w \in Workers : ~HoldsLease(w, j)}

\* A job is lost only with the process that worked on it, or with the statement that
\* was to write its outcome, and each of them loses one at most: no timeout, retry,
\* late handler or cancel takes a job from its worker.
LossesAreAccountedFor == Cardinality(Lost) <= stops + faults

\* Whatever its handler does, a job a route enqueued is settled in the end, or
\* lost with the process or the failed write that had it.
JobsSettle ==
    \A j \in Jobs :
        (Live(j) /\ row[j].kind = "cleanup") ~> (~Live(j) \/ j \in Lost)

\* Heartbeat ticks are worked on again and again, though one may hang, be lost
\* with its process, or find the tick it would enqueue a duplicate.
TicksKeepComing ==
    []<>(\E w \in Workers : At(w, "work") /\ row[worker[w].job].kind = "tick")
=============================================================================
