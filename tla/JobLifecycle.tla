---------------------------- MODULE JobLifecycle ----------------------------
(***************************************************************************)
(* What background_jobs promises of one row, with no worker, no lock and   *)
(* no handler: a job is attempted at most MaxAttempts times, one attempt   *)
(* at a time, fails for good only when its attempts are used up, and once  *)
(* it is settled it is never attempted again.  A settled row is never read *)
(* again, so its place is reused for the next job.                         *)
(***************************************************************************)
EXTENDS Naturals

CONSTANTS
    Jobs,         \* rows of background_jobs
    MaxAttempts   \* background_jobs.max_attempts

VARIABLES
    phase,        \* "none", "pending", "processing" or how the job was settled
    attempts      \* how often an unsettled job was handed to a worker

vars == <<phase, attempts>>

Settled == {"none", "completed", "failed", "cancelled"}

Init ==
    /\ phase = [j \in Jobs |-> "none"]
    /\ attempts = [j \in Jobs |-> 0]

Become(j, p) == phase' = [phase EXCEPT ![j] = p]

Reset(j, p) == Become(j, p) /\ attempts' = [attempts EXCEPT ![j] = 0]

Enqueue(j) ==
    /\ phase[j] \in Settled
    /\ Reset(j, "pending")

Attempt(j) ==
    /\ phase[j] = "pending"
    /\ attempts[j] < MaxAttempts
    /\ Become(j, "processing")
    /\ attempts' = [attempts EXCEPT ![j] = @ + 1]

Complete(j) == phase[j] = "processing" /\ Reset(j, "completed")

Retry(j) ==
    /\ phase[j] = "processing"
    /\ attempts[j] < MaxAttempts
    /\ Become(j, "pending")
    /\ UNCHANGED attempts

Fail(j) ==
    /\ phase[j] = "processing"
    /\ attempts[j] = MaxAttempts
    /\ Reset(j, "failed")

Cancel(j) == phase[j] = "pending" /\ Reset(j, "cancelled")

Next ==
    \E j \in Jobs :
        Enqueue(j) \/ Attempt(j) \/ Complete(j) \/ Retry(j) \/ Fail(j) \/ Cancel(j)

Spec == Init /\ [][Next]_vars
=============================================================================
