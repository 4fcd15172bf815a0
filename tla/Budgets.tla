------------------------------ MODULE Budgets ------------------------------
(***************************************************************************)
(* Budgets: what a cost event, a change of a policy and a decision of the  *)
(* board on an incident do to the scopes they are about, and what runs     *)
(* read of it and write over it (budgets.ts, costs.ts; claimQueuedRun,     *)
(* executeRun, finalizeAgentStatus and cancelBudgetScopeWork of            *)
(* heartbeat.ts), with the routes that change an approval by itself        *)
(* (approvals.ts).                                                         *)
(*                                                                         *)
(* Every request runs one statement at a time between those of the others. *)
(* A scope is an agent or the company; a project behaves as the company    *)
(* and is left out, as are a policy switched off with its amount kept, the *)
(* window (one month is modelled) and the switches hardStopEnabled and     *)
(* notifyEnabled (both on, their defaults).                                *)
(***************************************************************************)
EXTENDS Integers, FiniteSets, Sequences

CONSTANTS
    Staff,        \* agents of one company
    Company,      \* the company, a scope of its own
    Policed,      \* the scopes that the board gives a policy
    Evaluators,   \* requests in flight: cost events and decisions of the board
    Starters,     \* calls of enqueueWakeup, claimQueuedRun, finalizeAgentStatus in flight
    RunCount,     \* bound: runs ever queued
    Amounts,      \* amounts the board may give a policy; 0 switches it off
    WarnPercent,  \* budget_policies.warn_percent
    MaxSpend,     \* bound: cost events, each of one unit
    MaxDecisions, \* bound: changes of policies and decisions on incidents
    MaxPauses,    \* bound: changes of a scope's status by the board
    MaxRouted     \* bound: approvals the approval routes are called on

Scopes == Staff \cup {Company}
RunIds == 1..RunCount

BudgetsAssumption ==
    /\ Company \notin Staff
    /\ Amounts \subseteq Nat /\ WarnPercent \in 1..100
    /\ {RunCount, MaxSpend, MaxDecisions, MaxPauses, MaxRouted} \subseteq Nat
    /\ Policed \subseteq Scopes

VARIABLES
    limit,     \* budget_policies.amount of a scope; 0: no active policy
    spend,     \* the sum of the cost events of a scope in the window
    state,     \* status of a scope, paused or not, and its pause_reason
    incident,  \* the incident of a threshold that is not dismissed, if any
    override,  \* approvals of type budget_override_required, by number
    budgetRun, \* status and agent of each run
    eval,      \* evaluations in flight: evaluateCostEvent and the board's calls
    start,     \* enqueueWakeup, claimQueuedRun and finalizeAgentStatus in flight
    aborted,   \* history: an evaluation died on the unique index of incidents
    events     \* how often each bounded event has happened; history: the
               \* approvals that a route has changed

budgetVars == <<limit, spend, state, incident, override, budgetRun, eval, start, aborted, events>>

NoEval == [pc |-> "idle", op |-> "none", scopes |-> {}, at |-> Company,
           read |-> [s \in Scopes |-> 0], seen |-> 0, amount |-> 0,
           approval |-> 0, work |-> {}]
NoStart == [pc |-> "idle", run |-> 0, agent |-> Company, read |-> 0]
NoBudgetRun == [status |-> "none", agent |-> Company]
NoIncident == [status |-> "none", approval |-> 0]
Thresholds == {"soft", "hard"}

\* A status that is overwritten leaves the reason of the pause behind.
Scope(status, reason) == [status |-> status, reason |-> reason]
Active == Scope("active", "none")
Paused(s) == state[s].status = "paused"
Overwritten(s, status) == state' = [state EXCEPT ![s].status = status]

BudgetsInit ==
    /\ limit \in {l \in [Scopes -> Amounts \cup {0}] : \A s \in Scopes \ Policed : l[s] = 0}
    /\ spend = [s \in Scopes |-> 0]
    /\ state = [s \in Scopes |-> Active]
    /\ incident = [s \in Scopes |-> [t \in Thresholds |-> NoIncident]]
    /\ override = <<>>
    /\ budgetRun = [r \in RunIds |-> NoBudgetRun]
    /\ eval = [e \in Evaluators |-> NoEval]
    /\ start = [c \in Starters |-> NoStart]
    /\ aborted = FALSE
    /\ events = [decisions |-> 0, pauses |-> 0, handled |-> {}]

EvalAt(e, p) == eval[e].pc = p
Here(e) == eval[e].at
EvalGo(e, p) == eval' = [eval EXCEPT ![e].pc = p]

\* The budget a scope was left when `read` was read is used up.
Exhausted(s, read, total) == read > 0 /\ total >= read
Over(s) == Exhausted(s, limit[s], spend[s])
SoftThreshold(amount) == (amount * WarnPercent + 99) \div 100

WorkOf(s) ==
    {r \in RunIds : budgetRun[r].status \in {"queued", "running"}
                    /\ (s = Company \/ budgetRun[r].agent = s)}

-----------------------------------------------------------------------------
(* The evaluation of a policy, shared by a cost event and upsertPolicy *)

\* Where an evaluation goes when it is done with a policy: the next of a cost
\* event, the end of a call of the board.
Finished(e) ==
    IF eval[e].op = "cost" /\ eval[e].scopes # {}
    THEN [eval[e] EXCEPT !.pc = "next", !.seen = 0, !.work = {}]
    ELSE NoEval

\* After the soft threshold comes the hard one, if the spend reached it.
AfterSoft(e) ==
    LET h == eval[e] IN
        IF h.seen >= h.read[h.at] THEN [h EXCEPT !.pc = "softResolve"] ELSE Finished(e)

\* createIncidentIfNeeded for the soft threshold: look first.
SoftLook(e) ==
    /\ EvalAt(e, "softLook")
    /\ eval' = [eval EXCEPT ![e] =
            IF incident[Here(e)]["soft"].status = "none" THEN [@ EXCEPT !.pc = "softInsert"]
            ELSE AfterSoft(e)]
    /\ UNCHANGED <<limit, spend, state, incident, override, budgetRun, start, aborted, events>>

\* An insert that meets a row of the unique index throws, and nothing catches
\* it: the rest of the evaluation does not happen.
SoftInsert(e) ==
    /\ EvalAt(e, "softInsert")
    /\ IF incident[Here(e)]["soft"].status = "none"
       THEN /\ incident' = [incident EXCEPT ![Here(e)]["soft"].status = "open"]
            /\ eval' = [eval EXCEPT ![e] = AfterSoft(e)]
            /\ UNCHANGED aborted
       ELSE /\ eval' = [eval EXCEPT ![e] = NoEval]
            /\ aborted' = TRUE
            /\ UNCHANGED incident
    /\ UNCHANGED <<limit, spend, state, override, budgetRun, start, events>>

\* resolveOpenSoftIncidents
SoftResolve(e) ==
    /\ EvalAt(e, "softResolve")
    /\ incident' = [incident EXCEPT ![Here(e)]["soft"].status =
                        IF @ = "open" THEN "resolved" ELSE @]
    /\ EvalGo(e, "hardLook")
    /\ UNCHANGED <<limit, spend, state, override, budgetRun, start, aborted, events>>

HardLook(e) ==
    /\ EvalAt(e, "hardLook")
    /\ EvalGo(e, IF incident[Here(e)]["hard"].status = "none" THEN "approval" ELSE "pause")
    /\ UNCHANGED <<limit, spend, state, incident, override, budgetRun, start, aborted, events>>

\* The approval is inserted before the incident that needs it.
InsertApproval(e) ==
    /\ EvalAt(e, "approval")
    /\ override' = Append(override, "pending")
    /\ eval' = [eval EXCEPT ![e].pc = "hardInsert", ![e].approval = Len(override) + 1]
    /\ UNCHANGED <<limit, spend, state, incident, budgetRun, start, aborted, events>>

HardInsert(e) ==
    /\ EvalAt(e, "hardInsert")
    /\ IF incident[Here(e)]["hard"].status = "none"
       THEN /\ incident' = [incident EXCEPT ![Here(e)]["hard"] =
                                [status |-> "open", approval |-> eval[e].approval]]
            /\ eval' = [eval EXCEPT ![e].pc = "pause", ![e].approval = 0]
            /\ UNCHANGED aborted
       ELSE /\ eval' = [eval EXCEPT ![e] = NoEval]
            /\ aborted' = TRUE
            /\ UNCHANGED incident
    /\ UNCHANGED <<limit, spend, state, override, budgetRun, start, events>>

\* Mutant: whatever the status of the agent.
PauseScopeAlways(e) ==
    /\ EvalAt(e, "pause")
    /\ state' = [state EXCEPT ![Here(e)] = Scope("paused", "budget")]
    /\ EvalGo(e, "select")
    /\ UNCHANGED <<limit, spend, incident, override, budgetRun, start, aborted, events>>

\* pauseScopeForBudget: an agent only if it is not paused, a company always.
PauseScope(e) ==
    /\ EvalAt(e, "pause")
    /\ state' = IF Here(e) = Company \/ ~Paused(Here(e))
                THEN [state EXCEPT ![Here(e)] = Scope("paused", "budget")] ELSE state
    /\ EvalGo(e, "select")
    /\ UNCHANGED <<limit, spend, incident, override, budgetRun, start, aborted, events>>

\* cancelBudgetScopeWork: the queued and running runs of the scope, then one
\* by one.
SelectWork(e) ==
    /\ EvalAt(e, "select")
    /\ eval' = [eval EXCEPT ![e] =
            IF WorkOf(Here(e)) = {} THEN Finished(e)
            ELSE [@ EXCEPT !.work = WorkOf(Here(e)), !.pc = "cancel"]]
    /\ UNCHANGED <<limit, spend, state, incident, override, budgetRun, start, aborted, events>>

\* cancelActiveForAgentInternal writes the status whatever it has become,
\* cancelRunInternal reads the run again.
CancelWork(e) ==
    /\ EvalAt(e, "cancel")
    /\ \E r \in eval[e].work :
        /\ budgetRun' = IF Here(e) \in Staff \/ r \in WorkOf(Company)
                        THEN [budgetRun EXCEPT ![r].status = "cancelled"] ELSE budgetRun
        /\ eval' = [eval EXCEPT ![e] =
                IF eval[e].work = {r} THEN Finished(e) ELSE [@ EXCEPT !.work = eval[e].work \ {r}]]
    /\ UNCHANGED <<limit, spend, state, incident, override, start, aborted, events>>

EvaluatePolicy(e) ==
    \/ SoftLook(e) \/ SoftInsert(e) \/ SoftResolve(e)
    \/ HardLook(e) \/ InsertApproval(e) \/ HardInsert(e)
    \/ PauseScope(e) \/ SelectWork(e) \/ CancelWork(e)

-----------------------------------------------------------------------------
(* createEvent and evaluateCostEvent *)

\* Reported by a run that ends, an agent or the board, at any time.
CostEvent(e, a) ==
    /\ EvalAt(e, "idle")
    /\ spend[Company] < MaxSpend
    /\ spend' = [spend EXCEPT ![a] = @ + 1, ![Company] = @ + 1]
    /\ eval' = [eval EXCEPT ![e] = [NoEval EXCEPT !.pc = "policies", !.op = "cost", !.at = a]]
    /\ UNCHANGED <<limit, state, incident, override, budgetRun, start, aborted, events>>

\* Mutant: the policies of the company alone.
SelectPoliciesOfCompany(e) ==
    /\ EvalAt(e, "policies")
    /\ LET relevant == {s \in {Company} : limit[s] > 0} IN
        eval' = [eval EXCEPT ![e] =
            IF relevant = {} THEN NoEval
            ELSE [@ EXCEPT !.pc = "next", !.scopes = relevant, !.at = Company,
                           !.read = [s \in Scopes |-> IF s \in relevant THEN limit[s] ELSE 0]]]
    /\ UNCHANGED <<limit, spend, state, incident, override, budgetRun, start, aborted, events>>

\* The active policies of the agent and the company, all in one select.
SelectPolicies(e) ==
    /\ EvalAt(e, "policies")
    /\ LET relevant == {s \in {Here(e), Company} : limit[s] > 0} IN
        eval' = [eval EXCEPT ![e] =
            IF relevant = {} THEN NoEval
            ELSE [@ EXCEPT !.pc = "next", !.scopes = relevant, !.at = Company,
                           !.read = [s \in Scopes |-> IF s \in relevant THEN limit[s] ELSE 0]]]
    /\ UNCHANGED <<limit, spend, state, incident, override, budgetRun, start, aborted, events>>

\* The next policy: computeObservedAmount, then against the amount read before.
ObserveNext(e) ==
    /\ EvalAt(e, "next")
    /\ \E s \in eval[e].scopes :
        LET h == [eval[e] EXCEPT !.scopes = @ \ {s}, !.at = s] IN
            eval' = [eval EXCEPT ![e] =
                IF spend[s] >= SoftThreshold(h.read[s])
                THEN [h EXCEPT !.pc = "softLook", !.seen = spend[s]]
                ELSE IF h.scopes = {} THEN NoEval ELSE h]
    /\ UNCHANGED <<limit, spend, state, incident, override, budgetRun, start, aborted, events>>

-----------------------------------------------------------------------------
(* upsertPolicy and resolveIncident *)

Decide(e, h) ==
    /\ EvalAt(e, "idle")
    /\ events.decisions < MaxDecisions
    /\ events' = [events EXCEPT !.decisions = @ + 1]
    /\ eval' = [eval EXCEPT ![e] = h]

\* upsertPolicy up to its write of the policy.
UpsertPolicy(e, s, amount) ==
    /\ Decide(e, [NoEval EXCEPT !.op = "upsert", !.at = s, !.amount = amount,
                    !.read = [NoEval.read EXCEPT ![s] = amount],
                    !.pc = IF amount > 0 THEN "observe" ELSE "resume"])
    /\ limit' = [limit EXCEPT ![s] = amount]
    /\ UNCHANGED <<spend, state, incident, override, budgetRun, start, aborted>>

\* The policy in its new form against the spend: resume, or enforce it.
ObserveUpsert(e) ==
    /\ EvalAt(e, "observe") /\ eval[e].op = "upsert"
    /\ LET total == spend[Here(e)] IN
        eval' = [eval EXCEPT ![e].seen = total,
                    ![e].pc = IF total < eval[e].amount THEN "resume" ELSE "softLook"]
    /\ UNCHANGED <<limit, spend, state, incident, override, budgetRun, start, aborted, events>>

\* resolveIncident reads the incident of a hard stop.
ResolveIncident(e, s, action, amount) ==
    /\ incident[s]["hard"].status # "none"
    /\ Decide(e, [NoEval EXCEPT !.op = action, !.at = s, !.amount = amount,
                    !.approval = incident[s]["hard"].approval,
                    !.pc = IF action = "raise" THEN "observe" ELSE "dismiss"])
    /\ UNCHANGED <<limit, spend, state, incident, override, budgetRun, start, aborted>>

\* A raise must exceed what is spent, as far as it was read.
ObserveRaise(e) ==
    /\ EvalAt(e, "observe") /\ eval[e].op = "raise"
    /\ eval' = IF eval[e].amount > spend[Here(e)] THEN [eval EXCEPT ![e].pc = "raise"]
               ELSE [eval EXCEPT ![e] = NoEval]
    /\ UNCHANGED <<limit, spend, state, incident, override, budgetRun, start, aborted, events>>

RaiseLimit(e) ==
    /\ EvalAt(e, "raise")
    /\ limit' = [limit EXCEPT ![Here(e)] = eval[e].amount]
    /\ EvalGo(e, "resume")
    /\ UNCHANGED <<spend, state, incident, override, budgetRun, start, aborted, events>>

\* resumeScopeFromBudget: what names the budget as its reason, paused or not.
ResumeScope(e) ==
    /\ EvalAt(e, "resume")
    /\ state' = [state EXCEPT ![Here(e)] = IF @.reason = "budget" THEN Active ELSE @]
    /\ EvalGo(e, IF eval[e].op = "raise" THEN "resolve" ELSE "openRows")
    /\ UNCHANGED <<limit, spend, incident, override, budgetRun, start, aborted, events>>

\* Mutant: the approvals are marked first.
SelectOpenMarks(e) ==
    /\ EvalAt(e, "openRows")
    /\ LET hard == incident[Here(e)]["hard"] IN
        override' = IF hard.status = "open"
                    THEN [override EXCEPT ![hard.approval] = "approved"] ELSE override
    /\ EvalGo(e, "resolve")
    /\ UNCHANGED <<limit, spend, state, incident, budgetRun, start, aborted, events>>

\* resolveOpenIncidentsForPolicy reads the open incidents for their approvals
\* and closes, in a statement of its own, those that are open by then.
SelectOpen(e) ==
    /\ EvalAt(e, "openRows")
    /\ LET hard == incident[Here(e)]["hard"] IN
        eval' = [eval EXCEPT ![e].pc = "resolve",
                    ![e].approval = IF hard.status = "open" THEN hard.approval ELSE 0]
    /\ UNCHANGED <<limit, spend, state, incident, override, budgetRun, start, aborted, events>>

ResolveOpen(e) ==
    /\ EvalAt(e, "resolve")
    /\ incident' = [incident EXCEPT ![Here(e)] =
            [t \in Thresholds |-> IF @[t].status = "open"
                                  THEN [@[t] EXCEPT !.status = "resolved"] ELSE @[t]]]
    /\ EvalGo(e, "mark")
    /\ UNCHANGED <<limit, spend, state, override, budgetRun, start, aborted, events>>

\* A dismissed incident leaves the unique index; its row is found by its id.
Dismiss(e) ==
    /\ EvalAt(e, "dismiss")
    /\ incident' = [incident EXCEPT ![Here(e)]["hard"] =
                        IF @.approval = eval[e].approval THEN NoIncident ELSE @]
    /\ EvalGo(e, "mark")
    /\ UNCHANGED <<limit, spend, state, override, budgetRun, start, aborted, events>>

\* markApprovalStatus, whatever the approval has become.
MarkApproval(e) ==
    /\ EvalAt(e, "mark")
    /\ override' = IF eval[e].approval = 0 THEN override
                   ELSE [override EXCEPT ![eval[e].approval] =
                            IF eval[e].op = "dismiss" THEN "rejected" ELSE "approved"]
    /\ eval' = [eval EXCEPT ![e] = NoEval]
    /\ UNCHANGED <<limit, spend, state, incident, budgetRun, start, aborted, events>>

-----------------------------------------------------------------------------
(* The board, and the approval routes                                      *)

ByTheBoard ==
    /\ events.pauses < MaxPauses
    /\ events' = [events EXCEPT !.pauses = @ + 1]
    /\ UNCHANGED <<limit, spend, incident, override, budgetRun, eval, start, aborted>>

\* pause and resume of an agent, whatever paused it.
BoardPause(a) == ByTheBoard /\ state' = [state EXCEPT ![a] = Scope("paused", "manual")]
BoardResume(a) == ByTheBoard /\ state[a] # Active /\ state' = [state EXCEPT ![a] = Active]

\* The PATCH of an agent or a company writes the status alone.
BoardPatch(s, status) == ByTheBoard /\ state[s].status # status /\ Overwritten(s, status)

Route(n, status) ==
    /\ n <= MaxRouted
    /\ events' = [events EXCEPT !.handled = @ \cup {n}]
    /\ override' = [override EXCEPT ![n] = status]
    /\ UNCHANGED <<limit, spend, state, incident, budgetRun, eval, start, aborted>>

\* approve and reject: the approval alone, its incident and its limit stay.
DecideApproval(n, status) == override[n] \in {"pending", "revision_requested"} /\ Route(n, status)

\* requestRevision, of one that was pending when it was read, as each is at first.
RequestRevision(n) == Route(n, "revision_requested")

\* (After a read that is stale, this is a late requestRevision and a resubmit.)
ResubmitApproval(n) == override[n] = "revision_requested" /\ Route(n, "pending")

-----------------------------------------------------------------------------
(* Runs: getInvocationBlock before one is queued and starts, and the       *)
(* status of its agent once it has started, and once it has ended          *)

StartAt(c, p) == start[c].pc = p
StartGo(c, p) == start' = [start EXCEPT ![c].pc = p]

\* enqueueWakeup (no run yet) and claimQueuedRun (a queued run) read the row of
\* the agent, then that of its company.
CheckAgent(c, r, a) ==
    /\ StartAt(c, "idle")
    /\ \/ r = 0 /\ \E q \in RunIds : budgetRun[q].status = "none"
       \/ r \in RunIds /\ budgetRun[r].status = "queued" /\ budgetRun[r].agent = a
    /\ start' = [start EXCEPT ![c] = [pc |-> IF Paused(a) THEN "blocked" ELSE "row",
                                     run |-> r, agent |-> a, read |-> 0]]
    /\ UNCHANGED <<limit, spend, state, incident, override, budgetRun, eval, aborted, events>>

CheckCompany(c) ==
    /\ StartAt(c, "row")
    /\ StartGo(c, IF Paused(Company) THEN "blocked" ELSE "company")
    /\ UNCHANGED <<limit, spend, state, incident, override, budgetRun, eval, aborted, events>>

\* A policy, then the spend it is held against: of the company, then the agent.
ReadPolicy(c) ==
    /\ start[c].pc \in {"company", "agent"}
    /\ LET s == IF StartAt(c, "company") THEN Company ELSE start[c].agent IN
        start' = [start EXCEPT ![c].read = limit[s],
                    ![c].pc = IF @ = "company" THEN "companySpend" ELSE "agentSpend"]
    /\ UNCHANGED <<limit, spend, state, incident, override, budgetRun, eval, aborted, events>>

CheckSpend(c) ==
    /\ start[c].pc \in {"companySpend", "agentSpend"}
    /\ LET company == StartAt(c, "companySpend")
           s == IF company THEN Company ELSE start[c].agent
       IN StartGo(c, IF Exhausted(s, start[c].read, spend[s]) THEN "blocked"
                     ELSE IF company THEN "agent" ELSE "go")
    /\ UNCHANGED <<limit, spend, state, incident, override, budgetRun, eval, aborted, events>>

\* A block refuses the wakeup, or cancels the run that was to start.
Refuse(c) ==
    /\ StartAt(c, "blocked")
    /\ start' = [start EXCEPT ![c] = NoStart]
    /\ LET r == start[c].run IN
        budgetRun' = IF r \in WorkOf(Company)
                     THEN [budgetRun EXCEPT ![r].status = "cancelled"] ELSE budgetRun
    /\ UNCHANGED <<limit, spend, state, incident, override, eval, aborted, events>>

QueueRun(c) ==
    /\ StartAt(c, "go") /\ start[c].run = 0
    /\ start' = [start EXCEPT ![c] = NoStart]
    /\ \E r \in RunIds :
        /\ budgetRun[r].status = "none" /\ \A q \in 1..(r - 1) : budgetRun[q].status # "none"
        /\ budgetRun' = [budgetRun EXCEPT ![r] = [status |-> "queued", agent |-> start[c].agent]]
    /\ UNCHANGED <<limit, spend, state, incident, override, eval, aborted, events>>

\* Claimed only if the row is still queued.
ClaimRun(c) ==
    /\ StartAt(c, "go") /\ start[c].run # 0
    /\ LET r == start[c].run IN
        IF budgetRun[r].status = "queued"
        THEN budgetRun' = [budgetRun EXCEPT ![r].status = "running"] /\ StartGo(c, "execute")
        ELSE start' = [start EXCEPT ![c] = NoStart] /\ UNCHANGED budgetRun
    /\ UNCHANGED <<limit, spend, state, incident, override, eval, aborted, events>>

\* executeRun writes the status of the agent long after it looked whether the run
\* goes on, whatever either has become; unless it failed or gave up before.
ExecuteRun(c) ==
    /\ StartAt(c, "execute")
    /\ Overwritten(start[c].agent, "active") \/ UNCHANGED state
    /\ start' = [start EXCEPT ![c] = NoStart]
    /\ UNCHANGED <<limit, spend, incident, override, budgetRun, eval, aborted, events>>

\* finalizeAgentStatus, which several callers make of one end of a run: an agent that
\* is paused when it is read is left alone;
ReadAgent(c, r) ==
    /\ StartAt(c, "idle") /\ budgetRun[r].status \in {"ended", "cancelled"}
    /\ ~Paused(budgetRun[r].agent)
    /\ start' = [start EXCEPT ![c] = [pc |-> "finalize", run |-> r,
                                     agent |-> budgetRun[r].agent, read |-> 0]]
    /\ UNCHANGED <<limit, spend, state, incident, override, budgetRun, eval, aborted, events>>

\* its status is written in another statement, after the running runs are counted.
FinalizeAgent(c) ==
    /\ StartAt(c, "finalize")
    /\ Overwritten(start[c].agent, "active")
    /\ start' = [start EXCEPT ![c] = NoStart]
    /\ UNCHANGED <<limit, spend, incident, override, budgetRun, eval, aborted, events>>

FinishRun(r) ==
    /\ budgetRun[r].status = "running"
    /\ budgetRun' = [budgetRun EXCEPT ![r].status = "ended"]
    /\ UNCHANGED <<limit, spend, state, incident, override, eval, start, aborted, events>>

-----------------------------------------------------------------------------
EvalStep(e) ==
    \/ EvaluatePolicy(e) \/ SelectPolicies(e) \/ ObserveNext(e)
    \/ ObserveUpsert(e) \/ ObserveRaise(e) \/ RaiseLimit(e) \/ ResumeScope(e)
    \/ SelectOpen(e) \/ ResolveOpen(e) \/ Dismiss(e) \/ MarkApproval(e)

StartStep(c) ==
    \/ CheckCompany(c) \/ ReadPolicy(c) \/ CheckSpend(c) \/ Refuse(c) \/ QueueRun(c) \/ ClaimRun(c)
    \/ ExecuteRun(c) \/ FinalizeAgent(c) \/ \E r \in RunIds : ReadAgent(c, r)

BudgetsNext ==
    \/ \E e \in Evaluators : EvalStep(e)
    \/ \E e \in Evaluators, a \in Staff : CostEvent(e, a)
    \/ \E e \in Evaluators, s \in Policed, amount \in Amounts : UpsertPolicy(e, s, amount)
    \/ \E e \in Evaluators, s \in Policed, amount \in Amounts : ResolveIncident(e, s, "raise", amount)
    \/ \E e \in Evaluators, s \in Policed : ResolveIncident(e, s, "dismiss", 0)
    \/ \E a \in Staff \cap Policed : BoardPause(a) \/ BoardResume(a)
    \/ \E s \in Policed, status \in {"active", "paused"} : BoardPatch(s, status)
    \/ \E n \in DOMAIN override :
        \/ RequestRevision(n) \/ ResubmitApproval(n)
        \/ DecideApproval(n, "approved") \/ DecideApproval(n, "rejected")
    \/ \E c \in Starters : StartStep(c)
    \/ \E c \in Starters, a \in Staff, r \in RunIds \cup {0} : CheckAgent(c, r, a)
    \/ \E r \in RunIds : FinishRun(r)

BudgetsSpec == BudgetsInit /\ [][BudgetsNext]_budgetVars

-----------------------------------------------------------------------------
(* Properties *)

RunStatuses == {"none", "queued", "running", "ended", "cancelled"}

EvalPCs == {"idle", "policies", "next", "softLook", "softInsert", "softResolve", "hardLook",
            "approval", "hardInsert", "pause", "select", "cancel", "observe", "raise", "resume",
            "openRows", "resolve", "dismiss", "mark"}
Evals == [pc : EvalPCs, op : {"none", "cost", "upsert", "raise", "dismiss"},
          scopes : SUBSET Scopes, at : Scopes, read : [Scopes -> Nat], seen : Nat, amount : Nat,
          approval : Nat, work : SUBSET RunIds]
Starts == [pc : {"idle", "row", "blocked", "company", "companySpend", "agent", "agentSpend", "go",
                 "execute", "finalize"},
           run : RunIds \cup {0}, agent : Scopes, read : Nat]

ScopeStates == [status : {"active", "paused"}, reason : {"none", "manual", "budget"}]

BudgetsTypeOK ==
    /\ limit \in [Scopes -> Nat] /\ spend \in [Scopes -> Nat]
    /\ state \in [Scopes -> ScopeStates]
    /\ incident \in [Scopes -> [Thresholds ->
            [status : {"none", "open", "resolved"}, approval : 0..Len(override)]]]
    /\ override \in Seq({"pending", "revision_requested", "approved", "rejected"})
    /\ budgetRun \in [RunIds -> [status : RunStatuses, agent : Scopes]]
    /\ eval \in [Evaluators -> Evals] /\ start \in [Starters -> Starts]
    /\ aborted \in BOOLEAN
    /\ events \in [decisions : 0..MaxDecisions, pauses : 0..MaxPauses,
                   handled : SUBSET Nat]

NoEvaluations == \A e \in Evaluators : EvalAt(e, "idle")

\* A hard stop reaches all the work of its scope: once no evaluation is in
\* flight, nothing runs in a scope that has used up its budget.  It rests on
\* the order of statements of three requests: a cost event is stored before the
\* policies are read, a policy before the spend, and the start of a run reads
\* both before it takes a row that the cancellation also takes.  (An evaluation
\* that died on the unique index is the exception; see HardStopPauses.  So are
\* two decisions that overlap: a raise writes its amount long after it was held
\* against the spend.)
NoWorkOverLimit ==
    NoEvaluations /\ ~aborted =>
        \A s \in Scopes : Over(s) => \A r \in WorkOf(s) : budgetRun[r].status # "running"

\* An agent the board paused stays paused until the board changes its status: neither
\* a hard stop nor the raise that ends one takes the pause over.  Only the status that
\* a run of the agent writes, started or over, lifts it (see README, section 8).
PausedByBoard(a) == Paused(a) /\ state[a].reason # "budget"

KeepsBoardPause ==
    \A a \in Staff : PausedByBoard(a) /\ ~PausedByBoard(a)' =>
        \/ events'.pauses > events.pauses
        \/ ~Paused(a)' /\ \E c \in Starters : /\ start[c].agent = a
                                              /\ start[c].pc \in {"execute", "finalize"}
                                              /\ start'[c].pc = "idle"

BoardPauseIsKept == [][KeepsBoardPause]_budgetVars

\* An open hard incident still waits for its own decision: no path of the budgets
\* closes its approval before it closes the incident; only the approval routes do.
Awaited(n) == override[n] = "pending" \/ n \in events.handled

OpenIncidentsAreDecidable ==
    \A s \in Scopes : LET i == incident[s]["hard"] IN
        i.status = "open" => i.approval # 0 /\ Awaited(i.approval)

\* A scope that has used up its budget is paused once no evaluation is in flight.
HardStopPauses == NoEvaluations => \A s \in Scopes : Over(s) => Paused(s)

\* It was paused for that, at least: a status written over the pause leaves the reason.
HardStopTakes == NoEvaluations => \A s \in Scopes : Over(s) => state[s].reason = "budget"
=============================================================================
