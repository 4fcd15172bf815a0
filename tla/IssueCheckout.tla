---------------------------- MODULE IssueCheckout ----------------------------
(***************************************************************************)
(* IssueCheckout: who works on an issue.  The issue row has a checkout,     *)
(* which the routes of issues.ts take and give back for a run of an agent,  *)
(* and an execution lock, which heartbeat.ts takes for the run it queues    *)
(* for the issue.  Both sides write both columns, one statement or one      *)
(* transaction at a time, between the statements of the other requests.     *)
(*                                                                         *)
(* One issue.  A run is an attempt of its agent; what the routes ask of     *)
(* the agent itself (that it may be assigned) is left out, as are users as *)
(* assignees and the wakeups that a change of the issue queues.            *)
(***************************************************************************)
EXTENDS Naturals, FiniteSets

CONSTANTS
    Agents,     \* agents of one company
    Runs,       \* heartbeat runs, ever
    AgentOf,    \* the agent of each run
    NoOne,      \* null in any column
    Board,      \* a request of the board: an actor without a run
    Changes,    \* the patches of PATCH /issues/:id: a status, an assignee or "keep"
    Requests,   \* HTTP requests in flight
    MaxRequests \* bound: requests ever made

CheckoutAssumption ==
    /\ AgentOf \in [Runs -> Agents]
    /\ NoOne \notin Runs \cup Agents /\ Board \notin Runs \cup Agents
    /\ Changes \subseteq [status : {"keep", "todo", "in_progress", "done"},
                          assignee : {"keep", NoOne} \cup Agents]
    /\ MaxRequests \in Nat

VARIABLES
    issue,  \* status, assigneeAgentId, checkoutRunId and executionRunId
    run,    \* "none", "live" (queued or running) or "ended", for each run
    about,  \* the runs whose context names the issue
    req,    \* requests in flight
    made    \* number of requests made

checkoutVars == <<issue, run, about, req, made>>

Statuses == {"todo", "in_progress", "done"}
Expected == {{"todo"}, {"todo", "in_progress"}}

NoPatch == [status |-> "keep", assignee |-> "keep"]
\* seen: the assignee that was read; stale: the run whose checkout may be adopted.
Request(op, pc, actor, agent, expect, patch) ==
    [pc |-> pc, op |-> op, actor |-> actor, agent |-> agent, expect |-> expect,
     patch |-> patch, seen |-> NoOne, stale |-> NoOne]
NoReq == Request("none", "idle", NoOne, NoOne, {}, NoPatch)

\* The issue is open, or a run of its assignee is at work on it.
CheckoutInit ==
    /\ \/ /\ \E a \in Agents \cup {NoOne} :
                issue = [status |-> "todo", assignee |-> a,
                         checkout |-> NoOne, execution |-> NoOne]
          /\ run = [r \in Runs |-> "none"]
          /\ about = {}
       \/ \E owner \in Runs :
            /\ issue = [status |-> "in_progress", assignee |-> AgentOf[owner],
                        checkout |-> owner, execution |-> owner]
            /\ run = [r \in Runs |-> IF r = owner THEN "live" ELSE "none"]
            /\ about = {owner}
    /\ req = [q \in Requests |-> NoReq]
    /\ made = 0

Live(r) == r \in Runs /\ run[r] = "live"
RequestAt(q, p) == req[q].pc = p
RequestGo(q, p) == req' = [req EXCEPT ![q].pc = p]
Answer(q) == req' = [req EXCEPT ![q] = NoReq]
ActorRun(q) == IF req[q].actor = Board THEN NoOne ELSE req[q].actor

Receive(q, h) ==
    /\ RequestAt(q, "idle")
    /\ made < MaxRequests
    /\ made' = made + 1
    /\ req' = [req EXCEPT ![q] = h]
    /\ UNCHANGED <<issue, run, about>>

-----------------------------------------------------------------------------
(* heartbeat.ts: the execution lock *)

\* enqueueWakeup for the issue, under the lock on its row: while a run that is not
\* over has the lock the wake coalesces or waits, which changes nothing here.
\* A live run about the issue that lost the lock gets it,
AdoptLegacyRun(r) ==
    /\ ~Live(issue.execution)
    /\ r \in about /\ Live(r)
    /\ issue' = [issue EXCEPT !.execution = r]
    /\ UNCHANGED <<run, about, req, made>>

\* or else a new one.
QueueForIssue(r) ==
    /\ ~Live(issue.execution)
    /\ run[r] = "none" /\ \A other \in about : ~Live(other)
    /\ run' = [run EXCEPT ![r] = "live"]
    /\ about' = about \cup {r}
    /\ issue' = [issue EXCEPT !.execution = r]
    /\ UNCHANGED <<req, made>>

\* A run that takes no lock: it is about something else, or answers a mention.
QueueBeside(r) ==
    /\ run[r] = "none"
    /\ run' = [run EXCEPT ![r] = "live"]
    /\ about' \in {about, about \cup {r}}
    /\ UNCHANGED <<issue, req, made>>

\* Its row becomes final: succeeded, failed, cancelled or timed out.
EndRun(r) ==
    /\ Live(r)
    /\ run' = [run EXCEPT ![r] = "ended"]
    /\ UNCHANGED <<issue, about, req, made>>

\* Mutant: the lock is freed although it is another run's.
ReleaseExecutionAny(r) ==
    /\ run[r] = "ended"
    /\ issue' = [issue EXCEPT !.execution = NoOne]
    /\ UNCHANGED <<run, about, req, made>>

\* releaseIssueExecutionAndPromote, one transaction: the lock is freed, or goes
\* to the run of the oldest deferred wake.
ReleaseExecution(r) ==
    /\ run[r] = "ended" /\ issue.execution = r
    /\ \/ issue' = [issue EXCEPT !.execution = NoOne] /\ UNCHANGED <<run, about>>
       \/ \E next \in Runs :
            /\ run[next] = "none"
            /\ run' = [run EXCEPT ![next] = "live"]
            /\ about' = about \cup {next}
            /\ issue' = [issue EXCEPT !.execution = next]
    /\ UNCHANGED <<req, made>>

\* enqueueProcessLossRetry: the retry of a lost run inherits its lock.
RetryLostRun(r, retry) ==
    /\ run[r] = "ended" /\ run[retry] = "none" /\ AgentOf[retry] = AgentOf[r]
    /\ run' = [run EXCEPT ![retry] = "live"]
    /\ about' = IF r \in about THEN about \cup {retry} ELSE about
    /\ issue' = IF issue.execution = r /\ r \in about
                THEN [issue EXCEPT !.execution = retry] ELSE issue
    /\ UNCHANGED <<req, made>>

-----------------------------------------------------------------------------
(* checkout *)

\* An agent checks out as itself and names its run; the board names any agent.
\* The process of a run outlives the row that says it ended.
ReceiveCheckout(q, actor, agent, expect) ==
    /\ actor \in Runs => (run[actor] # "none" /\ AgentOf[actor] = agent)
    /\ Receive(q, Request("checkout", "take", actor, agent, expect, NoPatch))

MayTake(q) ==
    LET me == ActorRun(q) IN
        /\ issue.status \in req[q].expect
        /\ \/ issue.assignee = NoOne
           \/ (issue.assignee = req[q].agent /\ issue.checkout \in {NoOne, me})
        /\ issue.execution \in {NoOne, me}

\* The conditional update of checkout.
Take(q) ==
    /\ RequestAt(q, "take")
    /\ IF MayTake(q)
       THEN /\ issue' = [status |-> "in_progress", assignee |-> req[q].agent,
                         checkout |-> ActorRun(q), execution |-> ActorRun(q)]
            /\ Answer(q)
       ELSE RequestGo(q, "reread") /\ UNCHANGED issue
    /\ UNCHANGED <<run, about, made>>

\* The row is read again to find out why: a checkout without a run, a checkout of
\* another run, or one of this run (or none at all), and a conflict.
Reread(q) ==
    /\ RequestAt(q, "reread")
    /\ LET me == ActorRun(q)
           ours == issue.assignee = req[q].agent /\ issue.status = "in_progress" /\ me # NoOne
       IN req' = [req EXCEPT ![q] =
            IF ours /\ issue.checkout = NoOne /\ issue.execution \in {NoOne, me}
            THEN [@ EXCEPT !.pc = "adoptFree"]
            ELSE IF ours /\ issue.checkout \notin {NoOne, me}
            THEN [@ EXCEPT !.pc = "stale", !.stale = issue.checkout]
            ELSE NoReq]
    /\ UNCHANGED <<issue, run, about, made>>

AdoptFree(q) ==
    /\ RequestAt(q, "adoptFree")
    /\ issue' = IF /\ issue.status = "in_progress" /\ issue.assignee = req[q].agent
                   /\ issue.checkout = NoOne /\ issue.execution \in {NoOne, req[q].actor}
                THEN [issue EXCEPT !.checkout = req[q].actor, !.execution = req[q].actor]
                ELSE issue
    /\ Answer(q)
    /\ UNCHANGED <<run, about, made>>

\* Mutant: any former run counts as over.
CheckStaleBlind(q) ==
    /\ RequestAt(q, "stale")
    /\ RequestGo(q, "adoptStale")
    /\ UNCHANGED <<issue, run, about, made>>

\* adoptStaleCheckoutRun: only a run that is over loses its checkout,
CheckStale(q) ==
    /\ RequestAt(q, "stale")
    /\ IF Live(req[q].stale) THEN Answer(q) ELSE RequestGo(q, "adoptStale")
    /\ UNCHANGED <<issue, run, about, made>>

\* and only if the row still says so.  Then the patch or the release goes on.
AdoptStale(q) ==
    /\ RequestAt(q, "adoptStale")
    /\ LET adopts == /\ issue.status = "in_progress" /\ issue.assignee = req[q].agent
                     /\ issue.checkout = req[q].stale
       IN /\ issue' = IF adopts THEN [issue EXCEPT !.checkout = req[q].actor,
                                                   !.execution = req[q].actor]
                      ELSE issue
          /\ IF adopts /\ req[q].op # "checkout" THEN RequestGo(q, "read") ELSE Answer(q)
    /\ UNCHANGED <<run, about, made>>

-----------------------------------------------------------------------------
(* PATCH /issues/:id and POST /issues/:id/release *)

\* The route reads the row: only the agent it is in progress for has to own it.
ReceiveChange(q, op, actor, patch) ==
    /\ actor \in Runs => run[actor] # "none"
    /\ LET agent == IF actor = Board THEN NoOne ELSE AgentOf[actor]
           owns == issue.status = "in_progress" /\ issue.assignee = agent /\ actor # Board
       IN Receive(q, Request(op, IF owns THEN "own" ELSE "read", actor, agent, {}, patch))

\* assertCheckoutOwner
AssertOwner(q) ==
    /\ RequestAt(q, "own")
    /\ LET ours == issue.status = "in_progress" /\ issue.assignee = req[q].agent IN
        req' = [req EXCEPT ![q] =
            IF ours /\ issue.checkout = req[q].actor THEN [@ EXCEPT !.pc = "read"]
            ELSE IF ours /\ issue.checkout # NoOne
            THEN [@ EXCEPT !.pc = "stale", !.stale = issue.checkout]
            ELSE NoReq]
    /\ UNCHANGED <<issue, run, about, made>>

\* update and release read the row themselves.
ReadIssue(q) ==
    /\ RequestAt(q, "read")
    /\ LET me == ActorRun(q)
           refused ==
             \/ /\ req[q].op = "release" /\ req[q].actor # Board
                /\ \/ issue.assignee \notin {NoOne, req[q].agent}
                   \/ /\ issue.status = "in_progress" /\ issue.assignee = req[q].agent
                      /\ issue.checkout \notin {NoOne, me}
             \/ /\ req[q].patch.status = "in_progress"
                /\ (IF req[q].patch.assignee = "keep" THEN issue.assignee
                    ELSE req[q].patch.assignee) = NoOne
       IN req' = [req EXCEPT ![q] = IF refused THEN NoReq
                                    ELSE [@ EXCEPT !.pc = "write", !.seen = issue.assignee]]
    /\ UNCHANGED <<issue, run, about, made>>

\* Mutant: what the patch leaves out is written too.
WritePatchWhole(q) ==
    /\ RequestAt(q, "write") /\ req[q].op = "patch"
    /\ issue' = [issue EXCEPT !.status = req[q].patch.status,
                              !.assignee = req[q].patch.assignee, !.checkout = NoOne]
    /\ Answer(q)
    /\ UNCHANGED <<run, about, made>>

\* A patch gives up the checkout when it leaves in_progress, or changes the
\* assignee that was read.
WritePatch(q) ==
    /\ RequestAt(q, "write") /\ req[q].op = "patch"
    /\ LET p == req[q].patch
           drops == \/ p.status \notin {"keep", "in_progress"}
                    \/ p.assignee \notin {"keep", req[q].seen}
       IN issue' = [issue EXCEPT !.status = IF p.status = "keep" THEN @ ELSE p.status,
                                 !.assignee = IF p.assignee = "keep" THEN @ ELSE p.assignee,
                                 !.checkout = IF drops THEN NoOne ELSE @]
    /\ Answer(q)
    /\ UNCHANGED <<run, about, made>>

\* A release keeps the execution lock of the run.
WriteRelease(q) ==
    /\ RequestAt(q, "write") /\ req[q].op = "release"
    /\ issue' = [issue EXCEPT !.status = "todo", !.assignee = NoOne, !.checkout = NoOne]
    /\ Answer(q)
    /\ UNCHANGED <<run, about, made>>

-----------------------------------------------------------------------------
RequestStep(q) ==
    \/ Take(q) \/ Reread(q) \/ AdoptFree(q) \/ CheckStale(q) \/ AdoptStale(q)
    \/ AssertOwner(q) \/ ReadIssue(q) \/ WritePatch(q) \/ WriteRelease(q)

CheckoutNext ==
    \/ \E r \in Runs :
            \/ AdoptLegacyRun(r) \/ QueueForIssue(r) \/ QueueBeside(r)
            \/ EndRun(r) \/ ReleaseExecution(r)
    \/ \E r, retry \in Runs : RetryLostRun(r, retry)
    \/ \E q \in Requests, a \in Agents, actor \in Runs \cup {Board}, expect \in Expected :
            ReceiveCheckout(q, actor, a, expect)
    \/ \E q \in Requests, actor \in Runs \cup {Board}, patch \in Changes :
            ReceiveChange(q, "patch", actor, patch)
    \/ \E q \in Requests, actor \in Runs \cup {Board} :
            ReceiveChange(q, "release", actor, NoPatch)
    \/ \E q \in Requests : RequestStep(q)

CheckoutSpec == CheckoutInit /\ [][CheckoutNext]_checkoutVars

-----------------------------------------------------------------------------
(* Properties *)

Patches == [status : {"keep"} \cup Statuses, assignee : {"keep", NoOne} \cup Agents]
Reqs == [pc : {"idle", "take", "reread", "adoptFree", "stale", "adoptStale", "own", "read", "write"},
         op : {"none", "checkout", "patch", "release"},
         actor : Runs \cup {Board, NoOne}, agent : Agents \cup {NoOne},
         expect : {{}} \cup Expected, patch : Patches,
         seen : Agents \cup {NoOne}, stale : Runs \cup {NoOne}]

CheckoutTypeOK ==
    /\ issue \in [status : Statuses, assignee : Agents \cup {NoOne},
                  checkout : Runs \cup {NoOne}, execution : Runs \cup {NoOne}]
    /\ run \in [Runs -> {"none", "live", "ended"}] /\ about \in SUBSET Runs
    /\ req \in [Requests -> Reqs]
    /\ made \in 0..MaxRequests

\* A live checkout is never handed to another run: however checkouts, adoptions,
\* patches and releases interleave with the runs that end meanwhile, the checkout
\* of a live run stays, or is given up, and only then is another run's.
KeepsLiveCheckout ==
    Live(issue.checkout) => issue'.checkout \in {issue.checkout, NoOne}

LiveCheckoutIsKept == [][KeepsLiveCheckout]_checkoutVars

\* The two owners agree: the live run that has the issue checked out also has its
\* execution lock, whatever heartbeat.ts queues, promotes or retries, so that a
\* wake for the issue waits for the run that works on it.
CheckoutHoldsExecution == Live(issue.checkout) => issue.execution = issue.checkout
=============================================================================
