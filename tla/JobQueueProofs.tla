--------------------------- MODULE JobQueueProofs ---------------------------
(***************************************************************************)
(* Proofs about JobQueue, for any workers, any rows, any number of         *)
(* attempts and any window.                                                *)
(***************************************************************************)
EXTENDS JobQueue, FiniteSetTheorems, SequenceTheorems, TLAPS

(***************************************************************************)
(* What a statement does to the rows                                       *)
(***************************************************************************)

\* Row j has status s and n attempts after the step, the other rows are as before.
Becomes(j, s, n) ==
    /\ RowsOK'
    /\ row'[j].status = s
    /\ row'[j].attempts = n
    /\ \A i \in Jobs \ {j} : row'[i] = row[i]

\* No row changes its status or its attempts.
RowsStand ==
    /\ RowsOK'
    /\ \A j \in Jobs : row'[j].status = row[j].status /\ row'[j].attempts = row[j].attempts

\* An INSERT takes a row that no one reads and makes it pending.
LEMMA InsertRow ==
    ASSUME RowsOK, NEW j \in Jobs, NEW kind \in Kinds, NEW ahead \in {0, 1},
           Insert(j, kind, ahead)
    PROVE  ~Live(j) /\ Becomes(j, "pending", 0)
  BY JobConstants DEF Insert, NewRow, JobRow, RowsOK, Becomes

\* So does the INSERT of a tick, or it is left out.
LEMMA InsertTickRow ==
    ASSUME RowsOK, NEW ahead \in {0, 1}, InsertTick(ahead)
    PROVE  RowsStand \/ \E j \in Jobs : ~Live(j) /\ Becomes(j, "pending", 0)
  BY InsertRow DEF InsertTick, RowsStand, RowsOK, Kinds

\* An UPDATE that settles a row clears its attempts.
LEMMA SettleRow ==
    ASSUME RowsOK, NEW j \in Jobs, NEW s \in Settled, Settle(j, s)
    PROVE  Becomes(j, s, 0)
  BY JobConstants DEF Settle, JobRow, RowsOK, Becomes, Kinds

(***************************************************************************)
(* The jobs of the workers                                                 *)
(***************************************************************************)

\* A worker that moves on with its job, or takes one no other worker has, or
\* drops it, leaves the jobs exclusive.
LEMMA GoKeepsExclusive ==
    ASSUME WorkersOK, JobsAreExclusive, NEW w \in Workers, NEW p \in PCs,
           NEW j \in Jobs \cup {NoJob}, Go(w, p, j),
           j \in Jobs <=> p \in {"locked", "work", "insert", "complete", "fail"},
           \A v \in Workers \ {w} : j \in Jobs => worker[v].job # j
    PROVE  WorkersOK' /\ JobsAreExclusive'
  BY DEF WorkersOK, JobsAreExclusive, Go

(***************************************************************************)
(* The statuses                                                            *)
(***************************************************************************)

\* A worker may move on with its job, to a place that asks the same status of
\* the row or nothing.
LEMMA GoKeepsStatus ==
    ASSUME WorkersOK, StatusOfLease, NEW w \in Workers, NEW p, Step(w, p),
           p \in {"work", "insert", "complete", "fail"} => \A j \in Jobs : worker[w].job = j => HoldsLease(w, j),
           p # "locked",
           \A j \in Jobs : Live(j) => row'[j].status = row[j].status
    PROVE  StatusOfLease'
  BY DEF WorkersOK, StatusOfLease, HoldsLease, At, Go, Step, Live

\* So may it drop its job, whose row is then free to change.
LEMMA DropKeepsStatus ==
    ASSUME WorkersOK, StatusOfLease, JobsAreExclusive, NEW w \in Workers, NEW p \in {"poll", "off"},
           Go(w, p, NoJob),
           \A j \in Jobs : worker[w].job # j => row'[j] = row[j]
    PROVE  StatusOfLease'
  BY JobConstants DEF WorkersOK, StatusOfLease, JobsAreExclusive, HoldsLease, At, Go

(***************************************************************************)
(* What a step does to the rows                                            *)
(***************************************************************************)

\* The steps of JobLifecycle, as changes of a row.
RowStep ==
    \/ RowsStand
    \/ \E j \in Jobs :
          \/ ~Live(j) /\ Becomes(j, "pending", 0)
          \/ row[j].status = "pending" /\ Becomes(j, "processing", row[j].attempts + 1)
          \/ row[j].status = "processing" /\ Becomes(j, "completed", 0)
          \/ row[j].status = "processing" /\ row[j].attempts < MaxAttempts
               /\ Becomes(j, "pending", row[j].attempts)
          \/ row[j].status = "processing" /\ ~(row[j].attempts < MaxAttempts)
               /\ Becomes(j, "failed", 0)
          \/ row[j].status = "pending" /\ Becomes(j, "cancelled", 0)

\* Such a change leaves the attempts in order.
LEMMA RowStepKeepsAttempts ==
    ASSUME RowsOK, AttemptsOK, RowStep
    PROVE  RowsOK' /\ AttemptsOK'
<1>1. CASE RowsStand
  BY <1>1 DEF RowsStand, AttemptsOK, Live
<1>2. ASSUME NEW j \in Jobs, NEW s, NEW n, Becomes(j, s, n),
             s = "pending" => n < MaxAttempts,
             s \notin {"pending", "processing"} => n = 0
      PROVE  RowsOK' /\ AttemptsOK'
  BY <1>2 DEF Becomes, AttemptsOK, Live
<1> QED
  BY <1>1, <1>2, JobConstants DEF RowStep

\* It is a step of JobLifecycle, or none.
LEMMA RowStepImplementsLifecycle ==
    ASSUME RowsOK, AttemptsOK, RowStep
    PROVE  [Lifecycle!Next]_(Lifecycle!vars)
<1> DEFINE Phase == [j \in Jobs |-> row[j].status]
           Attempts == [j \in Jobs |-> row[j].attempts]
<1>1. CASE RowsStand
  BY <1>1 DEF RowsStand, Lifecycle!vars
<1>2. ASSUME NEW j \in Jobs, NEW s, NEW n, Becomes(j, s, n)
      PROVE  /\ Phase' = [Phase EXCEPT ![j] = s]
             /\ Attempts' = [Attempts EXCEPT ![j] = n]
  BY <1>2 DEF Becomes
<1>3. \A j \in Jobs : Phase[j] = row[j].status /\ Attempts[j] = row[j].attempts
                        /\ row[j].status \in Settled \cup {"pending", "processing"}
                        /\ row[j].attempts \in 0 .. MaxAttempts
  BY DEF RowsOK
<1>4. ASSUME NEW j \in Jobs, ~Live(j), Becomes(j, "pending", 0)
      PROVE  Lifecycle!Enqueue(j)
  <2>1. Phase' = [Phase EXCEPT ![j] = "pending"] /\ Attempts' = [Attempts EXCEPT ![j] = 0]
    BY <1>2, <1>4
  <2> QED
    BY <2>1, <1>3, <1>4 DEF Live, Settled, Lifecycle!Enqueue, Lifecycle!Settled,
         Lifecycle!Become, Lifecycle!Reset
<1>5. ASSUME NEW j \in Jobs, row[j].status = "pending",
             Becomes(j, "processing", row[j].attempts + 1)
      PROVE  Lifecycle!Attempt(j)
  <2>1. Phase' = [Phase EXCEPT ![j] = "processing"] /\ Attempts' = [Attempts EXCEPT ![j] = row[j].attempts + 1]
    BY <1>2, <1>5
  <2> QED
    BY <2>1, <1>3, <1>5 DEF AttemptsOK, Lifecycle!Attempt, Lifecycle!Become
<1>6. ASSUME NEW j \in Jobs, row[j].status = "processing", Becomes(j, "completed", 0)
      PROVE  Lifecycle!Complete(j)
  <2>1. Phase' = [Phase EXCEPT ![j] = "completed"] /\ Attempts' = [Attempts EXCEPT ![j] = 0]
    BY <1>2, <1>6
  <2> QED
    BY <2>1, <1>3, <1>6 DEF Lifecycle!Complete, Lifecycle!Become, Lifecycle!Reset
<1>7. ASSUME NEW j \in Jobs, row[j].status = "processing",
             row[j].attempts < MaxAttempts, Becomes(j, "pending", row[j].attempts)
      PROVE  Lifecycle!Retry(j)
  <2>1. Phase' = [Phase EXCEPT ![j] = "pending"] /\ Attempts' = [Attempts EXCEPT ![j] = row[j].attempts]
    BY <1>2, <1>7
  <2> QED
    BY <2>1, <1>3, <1>7 DEF Lifecycle!Retry, Lifecycle!Become
<1>8. ASSUME NEW j \in Jobs, row[j].status = "processing",
             ~(row[j].attempts < MaxAttempts), Becomes(j, "failed", 0)
      PROVE  Lifecycle!Fail(j)
  <2>1. row[j].attempts = MaxAttempts
    BY <1>3, <1>8, JobConstants
  <2> QED
    BY <1>2, <1>3, <1>8, <2>1 DEF Lifecycle!Fail, Lifecycle!Become, Lifecycle!Reset
<1>9. ASSUME NEW j \in Jobs, row[j].status = "pending", Becomes(j, "cancelled", 0)
      PROVE  Lifecycle!Cancel(j)
  <2>1. Phase' = [Phase EXCEPT ![j] = "cancelled"] /\ Attempts' = [Attempts EXCEPT ![j] = 0]
    BY <1>2, <1>9
  <2> QED
    BY <2>1, <1>3, <1>9 DEF Lifecycle!Cancel, Lifecycle!Become, Lifecycle!Reset
<1> QED
  BY <1>1, <1>4, <1>5, <1>6, <1>7, <1>8, <1>9 DEF RowStep, Lifecycle!Next
(***************************************************************************)
(* The steps of a worker                                                   *)
(***************************************************************************)

\* What every step is shown to keep, and to be for the rows.
StepOK == RowStep /\ WorkersOK' /\ JobsAreExclusive' /\ StatusOfLease'

\* Places where a worker has a job.
Busy == {"locked", "work", "insert", "complete", "fail"}

\* A worker that moves on with its job, or without one, and leaves live rows alone.
LEMMA MoveOn ==
    ASSUME IInv, RowStep, NEW w \in Workers, NEW p \in PCs \ {"locked"}, Step(w, p),
           ~At(w, "locked"), worker[w].pc \in Busy <=> p \in Busy,
           \A j \in Jobs : Live(j) => row'[j].status = row[j].status
    PROVE  StepOK
<1>1. worker[w].job \in Jobs \cup {NoJob}
  BY DEF IInv, WorkersOK
<1>2. WorkersOK' /\ JobsAreExclusive'
  BY <1>1, GoKeepsExclusive DEF IInv, JobsAreExclusive, Step, Busy
<1>3. StatusOfLease'
  BY GoKeepsStatus DEF IInv, HoldsLease, Busy, At
<1> QED
  BY <1>2, <1>3 DEF StepOK

\* Steps that touch no row.
LEMMA QuietSteps ==
    ASSUME IInv, NEW w \in Workers,
           \/ Start(w) \/ Bootstrap(w) \/ BootstrapFails(w)
           \/ HandlerReads(w) \/ HandlerReturns(w) \/ HandlerThrows(w) \/ Timeout(w)
    PROVE  StepOK
<1>1. row' = row
  BY DEF Start, Bootstrap, BootstrapFails, HandlerReads, HandlerReturns, HandlerThrows, Timeout
<1>2. RowStep
  BY <1>1 DEF IInv, RowsOK, RowStep, RowsStand
<1>3. PICK p \in PCs \ {"locked"} :
         Step(w, p) /\ ~At(w, "locked") /\ (worker[w].pc \in Busy <=> p \in Busy)
  <2>1. CASE Start(w)
    BY <2>1 DEF Start, At, Busy, PCs
  <2>2. CASE Bootstrap(w)
    BY <2>2 DEF Bootstrap, At, Busy, PCs
  <2>3. CASE BootstrapFails(w)
    BY <2>3 DEF BootstrapFails, At, Busy, PCs
  <2>4. CASE HandlerReads(w)
    BY <2>4 DEF HandlerReads, At, Busy, PCs
  <2>5. CASE HandlerReturns(w)
    BY <2>5 DEF HandlerReturns, At, Busy, PCs
  <2>6. CASE HandlerThrows(w) \/ Timeout(w)
    BY <2>6 DEF HandlerThrows, Timeout, At, Busy, PCs
  <2> QED
    BY <2>1, <2>2, <2>3, <2>4, <2>5, <2>6
<1> QED
  BY <1>1, <1>2, <1>3, MoveOn

\* Steps that insert a tick.
LEMMA InsertingSteps ==
    ASSUME IInv, NEW w \in Workers, BootstrapInsert(w) \/ HandlerInserts(w)
    PROVE  StepOK
<1>1. PICK ahead \in {0, 1} : InsertTick(ahead)
  BY DEF BootstrapInsert, HandlerInserts
<1>2. RowsStand \/ \E j \in Jobs : ~Live(j) /\ Becomes(j, "pending", 0)
  BY <1>1, InsertTickRow DEF IInv
<1>3. RowStep /\ \A j \in Jobs : Live(j) => row'[j].status = row[j].status
  BY <1>2 DEF RowStep, RowsStand, Becomes
<1>4. PICK p \in PCs \ {"locked"} :
         Step(w, p) /\ ~At(w, "locked") /\ (worker[w].pc \in Busy <=> p \in Busy)
  BY DEF BootstrapInsert, HandlerInserts, At, Busy, PCs
<1> QED
  BY <1>3, <1>4, MoveOn

\* A worker locks a row that is pending and that no other worker has locked.
LEMMA AcquireLockStep ==
    ASSUME IInv, NEW w \in Workers, AcquireLock(w)
    PROVE  StepOK
<1>1. PICK j \in Jobs : Due(j) /\ Go(w, "locked", j)
  BY DEF AcquireLock, FirstDue
<1>2. RowStep
  BY DEF AcquireLock, IInv, RowsOK, RowStep, RowsStand
<1>3. \A v \in Workers \ {w} : worker[v].job # j
  BY <1>1 DEF Due, Locked, IInv, JobsAreExclusive, StatusOfLease, HoldsLease
<1>4. WorkersOK' /\ JobsAreExclusive'
  BY <1>1, <1>3, GoKeepsExclusive DEF IInv, PCs
<1>5. StatusOfLease'
  BY <1>1 DEF AcquireLock, Due, Go, IInv, WorkersOK, StatusOfLease, HoldsLease, At
<1> QED
  BY <1>2, <1>4, <1>5 DEF StepOK
\* It commits the row as processing.
LEMMA AcquireCommitStep ==
    ASSUME IInv, NEW w \in Workers, AcquireCommit(w)
    PROVE  StepOK
<1> DEFINE j == worker[w].job
<1>1. /\ At(w, "locked") /\ Step(w, "work") /\ j \in Jobs
      /\ row' = [row EXCEPT ![j] = [row[j] EXCEPT !.status = "processing", !.attempts = @ + 1]]
  BY DEF AcquireCommit, Update, At, IInv, JobsAreExclusive
<1>2. row[j].status = "pending" /\ row[j].attempts < MaxAttempts
  BY <1>1 DEF IInv, StatusOfLease, AttemptsOK
<1>3. Becomes(j, "processing", row[j].attempts + 1)
  <2> DEFINE new == [row[j] EXCEPT !.status = "processing", !.attempts = @ + 1]
  <2>1. row[j].attempts + 1 \in 0 .. MaxAttempts
    BY <1>1, <1>2, JobConstants DEF IInv, RowsOK
  <2>2. /\ new \in [status : Settled \cup {"pending", "processing"},
                    kind : Kinds, attempts : 0 .. MaxAttempts,
                    waiting : BOOLEAN, age : 0 .. Window + 1, ahead : {0, 1}]
        /\ new.status = "processing" /\ new.attempts = row[j].attempts + 1
    BY <1>1, <2>1 DEF IInv, RowsOK
  <2> HIDE DEF new
  <2>3. row' = [row EXCEPT ![j] = new]
    BY <1>1 DEF new
  <2> QED
    BY <1>1, <2>2, <2>3 DEF IInv, RowsOK, Becomes
<1>4. RowStep
  BY <1>1, <1>2, <1>3 DEF RowStep
<1>5. WorkersOK' /\ JobsAreExclusive'
  BY <1>1, GoKeepsExclusive DEF IInv, JobsAreExclusive, Step, PCs
<1>6. StatusOfLease'
  <2>1. \A v \in Workers \ {w} : worker'[v] = worker[v] /\ worker[v].job # j
    BY <1>1 DEF Step, Go, IInv, WorkersOK, JobsAreExclusive
  <2>2. worker'[w] = [pc |-> "work", job |-> j]
    BY <1>1 DEF Step, Go, IInv, WorkersOK
  <2> QED
    BY <1>3, <2>1, <2>2 DEF Becomes, IInv, StatusOfLease, HoldsLease, At
<1> QED
  BY <1>4, <1>5, <1>6 DEF StepOK

\* A worker gives its job up: the row is settled, pending again, or left as it is.
LEMMA GivesUp ==
    ASSUME IInv, RowStep, NEW w \in Workers, NEW p \in {"poll", "off"}, Go(w, p, NoJob),
           \A j \in Jobs : worker[w].job # j => row'[j] = row[j]
    PROVE  StepOK
<1>1. WorkersOK' /\ JobsAreExclusive'
  BY JobConstants, GoKeepsExclusive DEF IInv, PCs
<1>2. StatusOfLease'
  BY DropKeepsStatus DEF IInv
<1> QED
  BY <1>1, <1>2 DEF StepOK

\* Steps that lose the job and write nothing.
LEMMA LosingSteps ==
    ASSUME IInv, NEW w \in Workers, AcquireFails(w) \/ MarkFails(w) \/ Stop(w)
    PROVE  StepOK
<1>1. row' = row
  BY DEF AcquireFails, MarkFails, Stop
<1>2. RowStep
  BY <1>1 DEF IInv, RowsOK, RowStep, RowsStand
<1>3. PICK p \in {"poll", "off"} : Go(w, p, NoJob)
  BY DEF AcquireFails, MarkFails, Stop
<1> QED
  BY <1>1, <1>2, <1>3, GivesUp

\* markCompleted settles the row of the lease.
LEMMA MarkCompletedStep ==
    ASSUME IInv, NEW w \in Workers, MarkCompleted(w)
    PROVE  StepOK
<1> DEFINE j == worker[w].job
<1>1. j \in Jobs /\ row[j].status = "processing"
  BY DEF MarkCompleted, At, IInv, JobsAreExclusive, StatusOfLease, HoldsLease
<1>2. Becomes(j, "completed", 0)
  BY <1>1, SettleRow DEF MarkCompleted, IInv, Settled
<1>3. RowStep
  BY <1>1, <1>2 DEF RowStep
<1> QED
  BY <1>2, <1>3, GivesUp DEF MarkCompleted, Becomes

\* markFailed makes it pending again, or settles it.
LEMMA MarkFailedStep ==
    ASSUME IInv, NEW w \in Workers, MarkFailed(w)
    PROVE  StepOK
<1> DEFINE j == worker[w].job
<1>1. j \in Jobs /\ row[j].status = "processing"
  BY DEF MarkFailed, At, IInv, JobsAreExclusive, StatusOfLease, HoldsLease
<1>2. CASE CanRetry(row[j].attempts)
  <2>1. row' = [row EXCEPT ![j] = [row[j] EXCEPT !.status = "pending", !.waiting = TRUE]]
    BY <1>2 DEF MarkFailed, Update
  <2>2. Becomes(j, "pending", row[j].attempts)
    BY <1>1, <2>1, JobConstants DEF IInv, RowsOK, Becomes
  <2>3. RowStep
    BY <1>1, <1>2, <2>2 DEF RowStep, CanRetry
  <2> QED
    BY <2>2, <2>3, GivesUp DEF MarkFailed, Becomes
<1>3. CASE ~CanRetry(row[j].attempts)
  <2>1. Becomes(j, "failed", 0)
    BY <1>1, <1>3, SettleRow DEF MarkFailed, IInv, Settled
  <2>2. RowStep
    BY <1>1, <1>3, <2>1 DEF RowStep, CanRetry
  <2> QED
    BY <2>1, <2>2, GivesUp DEF MarkFailed, Becomes
<1> QED
  BY <1>2, <1>3

(***************************************************************************)
(* The other steps                                                         *)
(***************************************************************************)

\* While the workers stand still, a row that is in no lease and not locked may
\* change.
LEMMA Elsewhere ==
    ASSUME IInv, RowStep, UNCHANGED worker,
           \A w \in Workers, j \in Jobs : worker[w].job = j => row'[j].status = row[j].status
    PROVE  StepOK
  BY DEF IInv, StepOK, WorkersOK, JobsAreExclusive, StatusOfLease, HoldsLease, At

\* No worker has a row that is not live.
LEMMA JobsAreLive ==
    ASSUME IInv, NEW w \in Workers, NEW j \in Jobs, worker[w].job = j
    PROVE  Live(j)
  BY DEF IInv, JobsAreExclusive, StatusOfLease, HoldsLease, Live, At

\* Inserts by late handlers and by routes.
LEMMA OtherInserts ==
    ASSUME IInv, EnqueueCleanup \/ CronInserts \/ \E w \in Workers : LateInserts(w)
    PROVE  StepOK
<1>1. RowsStand \/ \E j \in Jobs : ~Live(j) /\ Becomes(j, "pending", 0)
  <2>1. CASE EnqueueCleanup
    BY <2>1, InsertRow DEF EnqueueCleanup, IInv, Kinds
  <2>2. CASE CronInserts
    BY <2>2, InsertTickRow DEF CronInserts, IInv
  <2>3. CASE \E w \in Workers : LateInserts(w)
    BY <2>3, InsertTickRow DEF LateInserts, IInv
  <2> QED
    BY <2>1, <2>2, <2>3
<1>2. RowStep /\ \A j \in Jobs : Live(j) => row'[j].status = row[j].status
  BY <1>1 DEF RowStep, RowsStand, Becomes
<1>3. UNCHANGED worker
  BY DEF EnqueueCleanup, CronInserts, LateInserts
<1> QED
  BY <1>2, <1>3, JobsAreLive, Elsewhere

\* A cancel finds the row pending and not locked, so no worker has it.
LEMMA CancelStep ==
    ASSUME IInv, NEW j \in Jobs, Cancel(j)
    PROVE  StepOK
<1>1. row[j].status = "pending" /\ ~Locked(j) /\ Becomes(j, "cancelled", 0)
  BY SettleRow DEF Cancel, IInv, Settled
<1>2. \A w \in Workers : worker[w].job # j
  BY <1>1 DEF Locked, IInv, JobsAreExclusive, StatusOfLease, HoldsLease
<1>3. RowStep
  BY <1>1 DEF RowStep
<1> QED
  BY <1>1, <1>2, <1>3, Elsewhere DEF Becomes, Cancel

\* Time and backoff change neither status nor attempts.
LEMMA TimeStep ==
    ASSUME IInv, TimePasses \/ \E j \in Jobs : BackoffEnds(j)
    PROVE  StepOK
<1>1. RowsStand
  <2>1. CASE TimePasses
    <3>1. ASSUME NEW j \in Jobs
          PROVE  /\ row'[j] \in [status : Settled \cup {"pending", "processing"},
                                 kind : Kinds, attempts : 0 .. MaxAttempts,
                                 waiting : BOOLEAN, age : 0 .. Window + 1, ahead : {0, 1}]
                 /\ row'[j].status = row[j].status /\ row'[j].attempts = row[j].attempts
      BY <2>1, JobConstants DEF TimePasses, Ageing, IInv, RowsOK
    <3> QED
      BY <2>1, <3>1 DEF TimePasses, RowsStand, RowsOK
  <2>2. ASSUME NEW j \in Jobs, BackoffEnds(j)
        PROVE  RowsStand
    BY <2>2 DEF BackoffEnds, IInv, RowsOK, RowsStand
  <2> QED
    BY <2>1, <2>2
<1>2. UNCHANGED worker
  BY DEF TimePasses, BackoffEnds
<1> QED
  BY <1>1, <1>2, Elsewhere DEF RowStep, RowsStand

\* Steps that change neither rows nor workers.
LEMMA IdleStep ==
    ASSUME IInv, UNCHANGED <<row, worker>>
    PROVE  StepOK
  BY Elsewhere DEF IInv, RowsOK, RowStep, RowsStand

(***************************************************************************)
(* The order of the rows                                                   *)
(***************************************************************************)

\* RemoveAt closes the gap.
LEMMA RemoveAtFacts ==
    ASSUME NEW S, NEW s \in Seq(S), NEW i \in 1 .. Len(s)
    PROVE  /\ RemoveAt(s, i) \in Seq(S)
           /\ Len(RemoveAt(s, i)) = Len(s) - 1
           /\ \A k \in 1 .. Len(s) - 1 :
                 RemoveAt(s, i)[k] = IF k < i THEN s[k] ELSE s[k + 1]
<1> DEFINE a == SubSeq(s, 1, i - 1)
           b == SubSeq(s, i + 1, Len(s))
<1>1. a \in Seq(S) /\ Len(a) = i - 1 /\ \A k \in 1 .. i - 1 : a[k] = s[k]
  OBVIOUS
<1>2. b \in Seq(S) /\ Len(b) = Len(s) - i /\ \A k \in 1 .. Len(s) - i : b[k] = s[k + i]
  OBVIOUS
<1> HIDE DEF a, b
<1>3. /\ a \o b \in Seq(S) /\ Len(a \o b) = Len(a) + Len(b)
      /\ \A k \in 1 .. Len(a) + Len(b) :
            (a \o b)[k] = IF k <= Len(a) THEN a[k] ELSE b[k - Len(a)]
  BY <1>1, <1>2, ConcatProperties
<1>4. ASSUME NEW k \in 1 .. Len(s) - 1
      PROVE  (a \o b)[k] = IF k < i THEN s[k] ELSE s[k + 1]
  <2>1. CASE k < i
    BY <1>1, <1>2, <1>3, <2>1
  <2>2. CASE ~(k < i)
    <3> DEFINE l == k - Len(a)
    <3>1. l \in 1 .. Len(s) - i /\ l + i = k + 1 /\ ~(k <= Len(a))
      BY <1>1, <2>2
    <3>2. b[l] = s[k + 1]
      BY <1>2, <3>1
    <3>3. (a \o b)[k] = b[l]
      BY <1>1, <1>2, <1>3, <3>1
    <3> QED
      BY <2>2, <3>2, <3>3
  <2> QED
    BY <2>1, <2>2
<1>5. RemoveAt(s, i) = a \o b
  BY DEF RemoveAt, a, b
<1>6. Len(a \o b) = Len(s) - 1
  BY <1>1, <1>2, <1>3
<1> QED
  BY <1>3, <1>4, <1>5, <1>6

\* Where the elements are distinct, RemoveFirst removes the one it is asked for.
LEMMA RemoveFirstOnce ==
    ASSUME NEW S, NEW s \in Seq(S), IsInjective(s), NEW i \in 1 .. Len(s)
    PROVE  RemoveFirst(s, s[i]) = RemoveAt(s, i)
<1> DEFINE I == {k \in 1 .. Len(s) : s[k] = s[i]}
<1>1. I = {i}
  BY DEF IsInjective
<1>2. Min(I) = i
  BY <1>1 DEF Min
<1> QED
  BY <1>1, <1>2 DEF RemoveFirst, SelectInSeq

\* The rest of the order is what it was.
LEMMA RemoveFirstFacts ==
    ASSUME NEW S, NEW s \in Seq(S), IsInjective(s), NEW j \in ToSet(s)
    PROVE  /\ RemoveFirst(s, j) \in Seq(S)
           /\ ToSet(RemoveFirst(s, j)) = ToSet(s) \ {j}
           /\ IsInjective(RemoveFirst(s, j))
<1>1. PICK i \in 1 .. Len(s) : s[i] = j
  BY DEF ToSet
<1> DEFINE t == RemoveAt(s, i)
<1>2. RemoveFirst(s, j) = t
  BY <1>1, RemoveFirstOnce
<1>3. /\ t \in Seq(S) /\ Len(t) = Len(s) - 1
      /\ \A k \in 1 .. Len(s) - 1 : t[k] = IF k < i THEN s[k] ELSE s[k + 1]
  BY RemoveAtFacts
<1> HIDE DEF t
<1>4. IsInjective(t)
  <2> SUFFICES ASSUME NEW k \in 1 .. Len(s) - 1, NEW l \in 1 .. Len(s) - 1, t[k] = t[l]
               PROVE  k = l
    BY <1>3 DEF IsInjective
  <2> DEFINE Old(n) == IF n < i THEN n ELSE n + 1
  <2>1. Old(k) \in 1 .. Len(s) /\ Old(l) \in 1 .. Len(s) /\ s[Old(k)] = s[Old(l)]
    BY <1>3
  <2>2. Old(k) = Old(l)
    BY <2>1 DEF IsInjective
  <2> QED
    BY <2>2
<1>5. ASSUME NEW x \in ToSet(t) PROVE x \in ToSet(s) \ {j}
  <2>1. PICK k \in 1 .. Len(s) - 1 : t[k] = x
    BY <1>3 DEF ToSet
  <2> DEFINE m == IF k < i THEN k ELSE k + 1
  <2>2. m \in 1 .. Len(s) /\ s[m] = x /\ m # i
    BY <1>3, <2>1
  <2> QED
    BY <1>1, <2>2 DEF ToSet, IsInjective
<1>6. ASSUME NEW x \in ToSet(s), x # j PROVE x \in ToSet(t)
  <2>1. PICK m \in 1 .. Len(s) : s[m] = x
    BY DEF ToSet
  <2> DEFINE k == IF m < i THEN m ELSE m - 1
  <2>2. k \in 1 .. Len(s) - 1 /\ t[k] = x
    BY <1>1, <1>3, <1>6, <2>1
  <2> QED
    BY <1>3, <2>2 DEF ToSet
<1> QED
  BY <1>2, <1>3, <1>4, <1>5, <1>6

\* So is what an Append leaves before it.
LEMMA AppendFacts ==
    ASSUME NEW S, NEW s \in Seq(S), IsInjective(s), NEW j \in S, j \notin ToSet(s)
    PROVE  /\ Append(s, j) \in Seq(S)
           /\ ToSet(Append(s, j)) = ToSet(s) \cup {j}
           /\ IsInjective(Append(s, j))
<1> DEFINE t == Append(s, j)
<1>1. /\ t \in Seq(S) /\ Len(t) = Len(s) + 1 /\ t[Len(s) + 1] = j
      /\ \A k \in 1 .. Len(s) : t[k] = s[k]
  OBVIOUS
<1> HIDE DEF t
<1>2. \A k \in 1 .. Len(s) : s[k] # j
  BY DEF ToSet
<1>3. IsInjective(t)
  BY <1>1, <1>2 DEF IsInjective
<1>4. ToSet(t) \subseteq ToSet(s) \cup {j}
  BY <1>1 DEF ToSet
<1>5. \A x \in ToSet(s) : x \in ToSet(t)
  BY <1>1 DEF ToSet
<1>6. j \in ToSet(t)
  BY <1>1 DEF ToSet
<1> QED
  BY <1>1, <1>3, <1>4, <1>5, <1>6 DEF t

\* While every row stays live or stays settled, the order may stay too.
LEMMA OrderStands ==
    ASSUME OrderOK, order' = order, \A i \in Jobs : Live(i)' <=> Live(i)
    PROVE  OrderOK'
  BY DEF OrderOK

\* An INSERT appends the row to the order it was not in.
LEMMA InsertOrder ==
    ASSUME RowsOK, OrderOK, NEW j \in Jobs, NEW kind \in Kinds, NEW ahead \in {0, 1},
           Insert(j, kind, ahead)
    PROVE  OrderOK'
<1>1. j \notin ToSet(order) /\ order' = Append(order, j)
  BY DEF OrderOK, Insert, NewRow
<1>2. order' \in Seq(Jobs) /\ ToSet(order') = ToSet(order) \cup {j} /\ IsInjective(order')
  BY <1>1, AppendFacts DEF OrderOK
<1>3. \A i \in Jobs : Live(i)' <=> (Live(i) \/ i = j)
  BY InsertRow DEF Becomes, Live
<1> QED
  BY <1>2, <1>3 DEF OrderOK

LEMMA InsertTickOrder ==
    ASSUME RowsOK, OrderOK, NEW ahead \in {0, 1}, InsertTick(ahead)
    PROVE  OrderOK'
<1>1. CASE UNCHANGED <<row, order>>
  BY <1>1, OrderStands DEF Live
<1> QED
  BY <1>1, InsertOrder DEF InsertTick, Kinds

\* An UPDATE that settles a row takes it out of the order it was in.
LEMMA SettleOrder ==
    ASSUME RowsOK, OrderOK, NEW j \in Jobs, Live(j), NEW s \in Settled, Settle(j, s)
    PROVE  OrderOK'
<1>1. j \in ToSet(order) /\ order' = RemoveFirst(order, j)
  BY DEF OrderOK, Settle
<1>2. order' \in Seq(Jobs) /\ ToSet(order') = ToSet(order) \ {j} /\ IsInjective(order')
  BY <1>1, RemoveFirstFacts DEF OrderOK
<1>3. \A i \in Jobs : Live(i)' <=> (Live(i) /\ i # j)
  BY SettleRow DEF Becomes, Live, Settled
<1> QED
  BY <1>2, <1>3 DEF OrderOK

(***************************************************************************)
(* The theorems                                                            *)
(***************************************************************************)

LEMMA EveryStep == IInv /\ [Next]_vars => StepOK
<1> SUFFICES ASSUME IInv, [Next]_vars PROVE StepOK
  OBVIOUS
<1>1. ASSUME NEW w \in Workers, LoopStep(w)
      PROVE  StepOK
  BY <1>1, QuietSteps, InsertingSteps, AcquireLockStep, AcquireCommitStep,
     MarkCompletedStep, MarkFailedStep DEF LoopStep
<1>2. ASSUME NEW w \in Workers, LateReads(w)
      PROVE  StepOK
  BY <1>2, IdleStep DEF LateReads
<1>3. ASSUME NEW w \in Workers, HandlerStep(w)
      PROVE  StepOK
  BY <1>2, <1>3, QuietSteps, InsertingSteps, OtherInserts DEF HandlerStep
<1>4. ASSUME NEW w \in Workers,
             BootstrapFails(w) \/ AcquireFails(w) \/ MarkFails(w) \/ Stop(w)
      PROVE  StepOK
  BY <1>4, QuietSteps, LosingSteps
<1>5. CASE CronReads \/ CronFails \/ UNCHANGED vars
  BY <1>5, IdleStep DEF CronReads, CronFails, vars
<1> QED
  BY <1>1, <1>3, <1>4, <1>5, OtherInserts, CancelStep, TimeStep DEF Next

LEMMA InitIInv == Init => IInv
<1> SUFFICES ASSUME Init PROVE IInv
  OBVIOUS
<1>1. RowsOK
  BY JobConstants DEF Init, JobRow, RowsOK, Settled, Kinds
<1>2. WorkersOK /\ JobsAreExclusive /\ StatusOfLease
  BY JobConstants DEF Init, WorkersOK, PCs, JobsAreExclusive, StatusOfLease, HoldsLease, At
<1>3. AttemptsOK
  BY DEF Init, JobRow, AttemptsOK, Live
<1> QED
  BY <1>1, <1>2, <1>3 DEF IInv

\* A worker has a job exclusively, the status of the row says how far it is, and
\* attempts are left as long as the row is pending.
THEOREM Invariance == Spec => []IInv
<1>1. IInv /\ [Next]_vars => IInv'
  BY EveryStep, RowStepKeepsAttempts DEF StepOK, IInv
<1> QED
  BY <1>1, InitIInv, PTL DEF Spec

\* The statements that change the table keep the order of the unsettled rows.
LEMMA OrderStep == IInv /\ OrderOK /\ [Next]_vars => OrderOK'
<1> SUFFICES ASSUME IInv, OrderOK, [Next]_vars PROVE OrderOK'
  OBVIOUS
<1> USE DEF IInv
<1>1. CASE UNCHANGED <<row, order>>
  BY <1>1, OrderStands DEF Live
<1>2. ASSUME NEW w \in Workers,
             BootstrapInsert(w) \/ HandlerInserts(w) \/ LateInserts(w)
      PROVE  OrderOK'
  BY <1>2, InsertTickOrder DEF BootstrapInsert, HandlerInserts, LateInserts
<1>3. CASE CronInserts
  BY <1>3, InsertTickOrder DEF CronInserts
<1>4. CASE EnqueueCleanup
  BY <1>4, InsertOrder DEF EnqueueCleanup, Kinds
<1>5. ASSUME NEW w \in Workers, AcquireCommit(w)
      PROVE  OrderOK'
  <2> DEFINE j == worker[w].job
  <2>1. j \in Jobs /\ Live(j) /\ order' = order
    BY <1>5, JobsAreLive DEF AcquireCommit, At, JobsAreExclusive, Update
  <2>2. \A i \in Jobs : Live(i)' <=> Live(i)
    BY <1>5, <2>1 DEF AcquireCommit, Update, Live, RowsOK
  <2> QED
    BY <2>1, <2>2, OrderStands
<1>6. ASSUME NEW w \in Workers, MarkCompleted(w)
      PROVE  OrderOK'
  <2>1. worker[w].job \in Jobs /\ Live(worker[w].job)
    BY <1>6, JobsAreLive DEF MarkCompleted, At, JobsAreExclusive
  <2> QED
    BY <1>6, <2>1, SettleOrder DEF MarkCompleted, Settled
<1>7. ASSUME NEW w \in Workers, MarkFailed(w)
      PROVE  OrderOK'
  <2> DEFINE j == worker[w].job
  <2>1. j \in Jobs /\ Live(j)
    BY <1>7, JobsAreLive DEF MarkFailed, At, JobsAreExclusive
  <2>2. CASE CanRetry(row[j].attempts)
    <3>1. order' = order /\ \A i \in Jobs : Live(i)' <=> Live(i)
      BY <1>7, <2>1, <2>2 DEF MarkFailed, Update, Live, RowsOK
    <3> QED
      BY <3>1, OrderStands
  <2>3. CASE ~CanRetry(row[j].attempts)
    BY <1>7, <2>1, <2>3, SettleOrder DEF MarkFailed, Settled
  <2> QED
    BY <2>2, <2>3
<1>8. ASSUME NEW j \in Jobs, Cancel(j)
      PROVE  OrderOK'
  BY <1>8, SettleOrder DEF Cancel, Live, Settled
<1>9. ASSUME NEW j \in Jobs, BackoffEnds(j)
      PROVE  OrderOK'
  BY <1>9, OrderStands DEF BackoffEnds, Live, RowsOK
<1>10. CASE TimePasses
  BY <1>10, OrderStands DEF TimePasses, Live, RowsOK
<1>11. ASSUME NEW w \in Workers, LoopStep(w)
       PROVE  OrderOK'
  BY <1>1, <1>2, <1>5, <1>6, <1>7, <1>11
     DEF LoopStep, Start, Bootstrap, AcquireLock, Timeout
<1>12. ASSUME NEW w \in Workers, HandlerStep(w)
       PROVE  OrderOK'
  BY <1>1, <1>2, <1>12
     DEF HandlerStep, HandlerReads, HandlerReturns, HandlerThrows, LateReads
<1>13. ASSUME NEW w \in Workers,
              BootstrapFails(w) \/ AcquireFails(w) \/ MarkFails(w) \/ Stop(w)
       PROVE  OrderOK'
  BY <1>1, <1>13 DEF BootstrapFails, AcquireFails, MarkFails, Stop
<1>14. CASE CronReads \/ CronFails \/ UNCHANGED vars
  BY <1>1, <1>14 DEF CronReads, CronFails, vars
<1> QED
  BY <1>3, <1>4, <1>8, <1>9, <1>10, <1>11, <1>12, <1>13, <1>14 DEF Next

\* Late handlers and the cron route are at places they know, and no bound is
\* overspent.
LEMMA LateStep == WorkersOK /\ LateOK /\ SpentOK /\ [Next]_vars => LateOK' /\ SpentOK'
<1> SUFFICES ASSUME WorkersOK, LateOK, SpentOK, [Next]_vars PROVE LateOK' /\ SpentOK'
  OBVIOUS
<1> USE JobConstants DEF WorkersOK, LateOK, SpentOK
<1>1. ASSUME NEW w \in Workers, LoopStep(w)
      PROVE  LateOK' /\ SpentOK'
  BY <1>1 DEF LoopStep, Start, Bootstrap, BootstrapInsert, AcquireLock, AcquireCommit,
              MarkCompleted, MarkFailed, Timeout
<1>2. ASSUME NEW w \in Workers, HandlerStep(w)
      PROVE  LateOK' /\ SpentOK'
  BY <1>2 DEF HandlerStep, HandlerReads, HandlerInserts, HandlerReturns, HandlerThrows,
              LateReads, LateInserts
<1>3. ASSUME NEW w \in Workers,
             BootstrapFails(w) \/ AcquireFails(w) \/ MarkFails(w) \/ Stop(w)
      PROVE  LateOK' /\ SpentOK'
  BY <1>3 DEF BootstrapFails, AcquireFails, MarkFails, Stop, Spend
<1>4. CASE \E j \in Jobs : Cancel(j) \/ BackoffEnds(j)
  BY <1>4 DEF Cancel, BackoffEnds
<1>5. CASE EnqueueCleanup \/ CronReads \/ CronInserts \/ CronFails \/ TimePasses
  BY <1>5 DEF EnqueueCleanup, CronReads, CronInserts, CronFails, TimePasses, Spend
<1>6. CASE UNCHANGED vars
  BY <1>6 DEF vars
<1> QED
  BY <1>1, <1>2, <1>3, <1>4, <1>5, <1>6 DEF Next

\* The variables keep their types: the order lists exactly the unsettled rows,
\* each once, although workers, routes and late handlers insert and settle.
THEOREM TypeCorrect == Spec => []TypeOK
<1>1. Init => OrderOK /\ LateOK /\ SpentOK
  BY JobConstants DEF Init, JobRow, OrderOK, Live, ToSet, IsInjective, LateOK, SpentOK
<1>2. IInv /\ OrderOK /\ LateOK /\ SpentOK /\ [Next]_vars => OrderOK' /\ LateOK' /\ SpentOK'
  BY OrderStep, LateStep DEF IInv
<1>3. IInv /\ OrderOK /\ LateOK /\ SpentOK => TypeOK
  BY DEF IInv, TypeOK
<1> QED
  BY <1>1, <1>2, <1>3, Invariance, PTL DEF Spec

\* A job handed to a worker is processing and that worker's alone, so the outcome
\* that markCompleted and markFailed write by id is the outcome of that worker.
THEOREM LeaseIsExclusive == Spec => []OneLease
<1>1. IInv => OneLease
  BY DEF IInv, JobsAreExclusive, StatusOfLease, OneLease, HoldsLease
<1> QED
  BY <1>1, Invariance, PTL

\* Every row follows the life of a job: attempts are bounded and used up before
\* it fails, and a settled job is not attempted again.
THEOREM JobsFollowTheirLife == Spec => ImplementsJobLifecycle
<1>1. Init => Lifecycle!Init
  BY DEF Init, JobRow, Lifecycle!Init
<1>2. IInv /\ [Next]_vars => [Lifecycle!Next]_(Lifecycle!vars)
  BY EveryStep, RowStepImplementsLifecycle DEF StepOK, IInv
<1> QED
  BY <1>1, <1>2, Invariance, PTL DEF Spec, ImplementsJobLifecycle, Lifecycle!Spec

(***************************************************************************)
(* Lost jobs                                                               *)
(***************************************************************************)

\* A step that makes no row processing and takes no lease of one loses no job.
LEMMA NothingLost ==
    ASSUME \A j \in Jobs : row'[j].status = "processing" => row[j].status = "processing",
           \A w \in Workers, j \in Jobs :
               HoldsLease(w, j) /\ row'[j].status = "processing" => HoldsLease(w, j)'
    PROVE  Lost' \subseteq Lost
  BY DEF Lost

\* A worker that writes no outcome keeps the lease of its job.
LEMMA MovesKeepLeases ==
    ASSUME WorkersOK, NEW w \in Workers, NEW p \in PCs, Step(w, p),
           worker[w].pc \in {"work", "insert", "complete", "fail"}
               => p \in {"work", "insert", "complete", "fail"}
    PROVE  \A v \in Workers, j \in Jobs : HoldsLease(v, j) => HoldsLease(v, j)'
  BY DEF Step, Go, WorkersOK, HoldsLease

\* The INSERTs and the UPDATEs beside a worker make no row processing.
LEMMA InsertsLoseNothing ==
    ASSUME RowsOK, NEW ahead \in {0, 1}, InsertTick(ahead)
    PROVE  \A j \in Jobs : row'[j].status = "processing" => row[j].status = "processing"
  BY InsertTickRow DEF RowsStand, Becomes

\* The steps that only move a worker on.
LEMMA WorkersLoseNothing ==
    ASSUME IInv, NEW w \in Workers,
           \/ Start(w) \/ Bootstrap(w) \/ BootstrapFails(w) \/ BootstrapInsert(w)
           \/ HandlerReads(w) \/ HandlerInserts(w) \/ HandlerReturns(w) \/ HandlerThrows(w)
           \/ Timeout(w)
    PROVE  Lost' \subseteq Lost
<1>1. PICK p \in PCs :
        /\ Step(w, p)
        /\ worker[w].pc \in {"work", "insert", "complete", "fail"}
               => p \in {"work", "insert", "complete", "fail"}
  BY DEF Start, Bootstrap, BootstrapFails, BootstrapInsert, HandlerReads, HandlerInserts,
         HandlerReturns, HandlerThrows, Timeout, At, PCs
<1>2. \A j \in Jobs : row'[j].status = "processing" => row[j].status = "processing"
  <2>1. CASE BootstrapInsert(w) \/ HandlerInserts(w)
    BY <2>1, InsertsLoseNothing DEF BootstrapInsert, HandlerInserts, IInv
  <2>2. CASE row' = row
    BY <2>2
  <2> QED
    BY <2>1, <2>2 DEF Start, Bootstrap, BootstrapFails, HandlerReads, HandlerReturns,
       HandlerThrows, Timeout
<1> QED
  BY <1>1, <1>2, NothingLost, MovesKeepLeases DEF IInv

\* A worker acquires a job or writes an outcome.
LEMMA LeasesLoseNothing ==
    ASSUME IInv, NEW w \in Workers,
           \/ AcquireLock(w) \/ AcquireCommit(w) \/ AcquireFails(w)
           \/ MarkCompleted(w) \/ MarkFailed(w)
    PROVE  Lost' \subseteq Lost
<1>1. CASE AcquireLock(w) \/ AcquireFails(w)
  <2>1. row' = row /\ worker[w].pc \in {"poll", "locked"}
        /\ \A v \in Workers \ {w} : worker'[v] = worker[v]
    BY <1>1 DEF AcquireLock, AcquireFails, At, Go, IInv, WorkersOK
  <2> QED
    BY <2>1, NothingLost DEF HoldsLease
<1>2. CASE AcquireCommit(w)
  <2> DEFINE k == worker[w].job
  <2>1. /\ k \in Jobs
        /\ \A j \in Jobs \ {k} : row'[j] = row[j]
        /\ \A v \in Workers \ {w} : worker'[v] = worker[v]
        /\ worker'[w].job = k /\ worker'[w].pc = "work" /\ worker[w].pc = "locked"
    BY <1>2 DEF AcquireCommit, Update, At, Step, Go, IInv, WorkersOK, RowsOK, JobsAreExclusive
  <2>2. HoldsLease(w, k)'
    <3>1. ASSUME NEW j \in Jobs, worker'[w].job = j  PROVE HoldsLease(w, j)'
      BY <2>1, <3>1 DEF HoldsLease
    <3>2. PICK j \in Jobs : j = k
      BY <2>1
    <3> QED
      BY <2>1, <3>1, <3>2 DEF HoldsLease
  <2>3. ASSUME NEW j \in Lost'  PROVE j \in Lost
    <3>1. j \in Jobs /\ row'[j].status = "processing" /\ \A v \in Workers : ~HoldsLease(v, j)'
      BY <2>3 DEF Lost
    <3>2. j # k
      BY <2>1, <3>1 DEF HoldsLease
    <3>3. ASSUME NEW v \in Workers  PROVE ~HoldsLease(v, j)
      <4>1. CASE v = w
        BY <3>2, <4>1 DEF HoldsLease
      <4>2. CASE v # w
        BY <2>1, <3>1, <4>2 DEF HoldsLease
      <4> QED
        BY <4>1, <4>2
    <3> QED
      BY <2>1, <3>1, <3>2, <3>3 DEF Lost
  <2> QED
    BY <2>3
<1>3. CASE MarkCompleted(w) \/ MarkFailed(w)
  <2> DEFINE k == worker[w].job
  <2>1. k \in Jobs
    BY <1>3 DEF MarkCompleted, MarkFailed, At, IInv, JobsAreExclusive
  <2>2. /\ row'[k].status # "processing"
        /\ \A j \in Jobs \ {k} : row'[j] = row[j]
        /\ \A v \in Workers \ {w} : worker'[v] = worker[v]
    <3>1. \A v \in Workers \ {w} : worker'[v] = worker[v]
      BY <1>3 DEF MarkCompleted, MarkFailed, Go, IInv, WorkersOK
    <3>2. CASE MarkCompleted(w)
      BY <2>1, <3>1, <3>2 DEF MarkCompleted, Settle, JobRow, IInv, RowsOK
    <3>3. CASE MarkFailed(w)
      <4>1. CASE CanRetry(row[k].attempts)
        <5> DEFINE new == [row[k] EXCEPT !.status = "pending", !.waiting = TRUE]
        <5>1. new.status = "pending"
          BY <2>1 DEF IInv, RowsOK
        <5>2. row' = [row EXCEPT ![k] = new]
          BY <3>3, <4>1 DEF MarkFailed, Update
        <5> HIDE DEF new
        <5>3. row'[k] = new /\ \A j \in Jobs \ {k} : row'[j] = row[j]
          BY <2>1, <5>2 DEF IInv, RowsOK
        <5> QED
          BY <3>1, <5>1, <5>3
      <4>2. CASE ~CanRetry(row[k].attempts)
        BY <2>1, <3>1, <3>3, <4>2 DEF MarkFailed, Settle, JobRow, IInv, RowsOK
      <4> QED
        BY <4>1, <4>2
    <3> QED
      BY <1>3, <3>2, <3>3
  <2>3. ASSUME NEW v \in Workers, NEW j \in Jobs, HoldsLease(v, j), row'[j].status = "processing"
        PROVE  HoldsLease(v, j)'
    BY <2>2, <2>3 DEF HoldsLease
  <2>4. \A j \in Jobs : row'[j].status = "processing" => row[j].status = "processing"
    BY <2>2
  <2> QED
    BY <2>3, <2>4, NothingLost
<1> QED
  BY <1>1, <1>2, <1>3

\* What no worker's loop does touches no row in processing.
LEMMA OthersLoseNothing ==
    ASSUME IInv,
           \/ \E w \in Workers : LateReads(w) \/ LateInserts(w)
           \/ \E j \in Jobs : Cancel(j) \/ BackoffEnds(j)
           \/ EnqueueCleanup \/ CronReads \/ CronInserts \/ CronFails \/ TimePasses
           \/ UNCHANGED vars
    PROVE  Lost' \subseteq Lost
<1>1. worker' = worker
  BY DEF LateReads, LateInserts, Cancel, BackoffEnds, EnqueueCleanup, CronReads, CronInserts,
         CronFails, TimePasses, vars
<1>2. \A j \in Jobs : row'[j].status = "processing" => row[j].status = "processing"
  <2>1. CASE (\E w \in Workers : LateInserts(w)) \/ CronInserts
    BY <2>1, InsertsLoseNothing DEF LateInserts, CronInserts, IInv
  <2>2. CASE \E j \in Jobs : Cancel(j) \/ BackoffEnds(j)
    BY <2>2 DEF Cancel, BackoffEnds, Settle, JobRow, IInv, RowsOK
  <2>3. CASE EnqueueCleanup
    BY <2>3 DEF EnqueueCleanup, Insert, JobRow, IInv, RowsOK
  <2>4. CASE TimePasses
    BY <2>4 DEF TimePasses, IInv, RowsOK
  <2>5. CASE row' = row
    BY <2>5
  <2> QED
    BY <2>1, <2>2, <2>3, <2>4, <2>5 DEF LateReads, CronReads, CronFails, vars
<1> QED
  BY <1>1, <1>2, NothingLost DEF HoldsLease

\* What is lost is a finite set; a process or a failed write adds its own job.
LEMMA LossStep ==
    ASSUME IInv, SpentOK, LossesAreAccountedFor, [Next]_vars
    PROVE  LossesAreAccountedFor'
<1>1. IsFiniteSet(Lost) /\ IsFiniteSet(Lost') /\ Cardinality(Lost) \in Nat /\ Cardinality(Lost') \in Nat
  <2>1. IsFiniteSet(Jobs)
    BY JobConstants, FS_Interval DEF Jobs
  <2>2. Lost \subseteq Jobs /\ Lost' \subseteq Jobs
    BY DEF Lost
  <2> QED
    BY <2>1, <2>2, FS_Subset, FS_CardinalityType
<1>2. stops \in Nat /\ faults \in Nat
  BY DEF SpentOK
<1>3. ASSUME NEW w \in Workers, MarkFails(w) \/ Stop(w)
      PROVE  Cardinality(Lost') <= Cardinality(Lost) + 1 /\ stops' + faults' = stops + faults + 1
  <2> DEFINE k == worker[w].job
  <2>1. /\ row' = row /\ \A v \in Workers \ {w} : worker'[v] = worker[v]
        /\ stops' + faults' = stops + faults + 1
    BY <1>2, <1>3 DEF MarkFails, Stop, Spend, Go, IInv, WorkersOK
  <2>2. Lost' \subseteq Lost \cup {k}
    BY <2>1 DEF Lost, HoldsLease
  <2>3. IsFiniteSet(Lost \cup {k}) /\ Cardinality(Lost \cup {k}) <= Cardinality(Lost) + 1
    BY <1>1, FS_AddElement
  <2>4. Cardinality(Lost') <= Cardinality(Lost \cup {k})
    BY <2>2, <2>3, FS_Subset
  <2>5. Cardinality(Lost \cup {k}) \in Nat
    BY <2>3, FS_CardinalityType
  <2> QED
    BY <1>1, <2>1, <2>3, <2>4, <2>5
<1>4. CASE Lost' \subseteq Lost /\ ~\E w \in Workers : MarkFails(w) \/ Stop(w)
  <2>1. Cardinality(Lost') <= Cardinality(Lost)
    BY <1>1, <1>4, FS_Subset
  <2>2. stops' = stops /\ faults' \in {faults, faults + 1}
    BY <1>4 DEF Next, LoopStep, HandlerStep, Start, Bootstrap, BootstrapInsert, AcquireLock,
       AcquireCommit, MarkCompleted, MarkFailed, Timeout, HandlerReads, HandlerInserts,
       HandlerReturns, HandlerThrows, LateReads, LateInserts, BootstrapFails, AcquireFails,
       Cancel, BackoffEnds, EnqueueCleanup, CronReads, CronInserts, CronFails, TimePasses,
       Spend, vars
  <2> QED
    BY <1>1, <1>2, <2>1, <2>2 DEF LossesAreAccountedFor
<1>5. CASE \E w \in Workers : MarkFails(w) \/ Stop(w)
  BY <1>1, <1>2, <1>3, <1>5 DEF LossesAreAccountedFor
<1>6. CASE Lost' \subseteq Lost
  BY <1>4, <1>5, <1>6
<1> QED
  BY <1>5, <1>6, WorkersLoseNothing, LeasesLoseNothing, OthersLoseNothing
     DEF Next, LoopStep, HandlerStep

\* A job that was acquired is worked on until its outcome is written: only the end of
\* a process or a failed write leaves one in processing, one job each.
THEOREM JobsAreLostOneByOne == Spec => []LossesAreAccountedFor
<1>1. Init => LossesAreAccountedFor
  <2> SUFFICES ASSUME Init PROVE LossesAreAccountedFor
    OBVIOUS
  <2>1. Lost = {} /\ stops = 0 /\ faults = 0
    BY DEF Init, JobRow, Lost
  <2>2. Cardinality(Lost) = 0
    BY <2>1, FS_EmptySet
  <2> QED
    BY <2>1, <2>2 DEF LossesAreAccountedFor
<1>2. TypeOK => SpentOK
  BY DEF TypeOK
<1> QED
  BY <1>1, <1>2, Invariance, TypeCorrect, LossStep, PTL DEF Spec
=============================================================================
