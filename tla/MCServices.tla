----------------------------- MODULE MCServices -----------------------------
(* Small instances of the services beside the runs.  No action of one      *)
(* reads or writes a row or a variable of another, so that a behaviour of  *)
(* all is their behaviours side by side: each behaviour here drives one of *)
(* them, `driven`.                                                         *)
EXTENDS
    IssueCheckout, Documents, Budgets, Approvals, PluginWorkers, PluginJobs, RuntimeServices, TLC

CONSTANTS a1, a2, co, e1, e2, c1, p1, q1, q2, q3, r1, r2, r3, o1, j1

VARIABLE driven

\* What the theorems about the services assume of the constants.
ASSUME ServicesAssumption ==
    /\ CheckoutAssumption /\ DocumentsAssumption /\ BudgetsAssumption /\ ApprovalsAssumption
    /\ WorkersAssumption /\ PluginJobsAssumption /\ RuntimeServicesAssumption
    /\ MaxDecisions <= 1 /\ \A o, u \in Operators : o = u

\* Of IssueCheckout: two runs of one agent, one of another, and a patch that assigns.
OwnerOf == [r \in {r1, r2, r3} |-> IF r = r3 THEN a2 ELSE a1]
Reassign == {[status |-> "keep", assignee |-> a1]}

\* One run wants a shared service with an idle timer and one of its own, the other
\* the same shared service, to be stopped with its last run.
Shared(stop) == [key |-> "k", stop |-> stop]
Own == [key |-> "none", stop |-> "manual"]
TwoWants == <<<<Shared("idle"), Own>>, <<Shared("finish")>>>>

\* The issue is nobody's, or one of the two runs of one agent is at work on it.  A
\* service that is not driven stays in one of its initial states.
ServicesInit ==
    /\ driven \in {"budgets", "approvals", "issues", "workers", "jobs", "local", "documents"}
    /\ BudgetsInit /\ (driven = "budgets" \/ \A s \in Scopes : limit[s] = 0)
    /\ ApprovalsInit /\ (driven = "approvals" \/ \A a \in Approvals : kind[a] = "hire")
    /\ CheckoutInit /\ (issue.assignee = NoOne \/ issue.checkout \in {r1, r2})
    /\ (driven = "issues" \/ (issue.status = "todo" /\ issue.assignee = NoOne))
    /\ WorkersInit /\ (driven = "workers" \/ plugin = "uninstalled")
    /\ JobsInit /\ (driven = "jobs" \/ due = {})
    /\ LocalInit /\ DocumentsInit

ServicesNext ==
    /\ UNCHANGED driven
    /\ \/ driven = "budgets" /\ BudgetsNext
          /\ UNCHANGED <<approvalVars, checkoutVars, workerVars, jobVars, localVars, documentVars>>
       \/ driven = "approvals" /\ ApprovalsNext
          /\ UNCHANGED <<budgetVars, checkoutVars, workerVars, jobVars, localVars, documentVars>>
       \/ driven = "issues" /\ CheckoutNext
          /\ UNCHANGED <<budgetVars, approvalVars, workerVars, jobVars, localVars, documentVars>>
       \/ driven = "workers" /\ WorkersNext
          /\ UNCHANGED <<budgetVars, approvalVars, checkoutVars, jobVars, localVars, documentVars>>
       \/ driven = "jobs" /\ JobsNext
          /\ UNCHANGED <<budgetVars, approvalVars, checkoutVars, workerVars, localVars, documentVars>>
       \/ driven = "local" /\ LocalNext
          /\ UNCHANGED <<budgetVars, approvalVars, checkoutVars, workerVars, jobVars, documentVars>>
       \/ driven = "documents" /\ DocumentsNext
          /\ UNCHANGED <<budgetVars, approvalVars, checkoutVars, workerVars, jobVars, localVars>>

ServicesSpec ==
    ServicesInit /\ [][ServicesNext]_<<driven, budgetVars, approvalVars, checkoutVars, workerVars,
                                       jobVars, localVars, documentVars>>

\* Every column, thread and counter of the service holds a value of its kind.
ServicesTypeOK ==
    /\ driven = "budgets" => BudgetsTypeOK
    /\ driven = "approvals" => ApprovalsTypeOK
    /\ driven = "issues" => CheckoutTypeOK
    /\ driven = "workers" => WorkersTypeOK
    /\ driven = "jobs" => JobsTypeOK
    /\ driven = "local" => LocalTypeOK
    /\ driven = "documents" => DocumentsTypeOK

\* The two runs of one agent, and of one job.
Symmetry == Permutations({r1, r2})
=============================================================================
