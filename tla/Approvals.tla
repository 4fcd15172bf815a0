------------------------------ MODULE Approvals ------------------------------
(***************************************************************************)
(* Approvals: decisions of the board on hires, what they do to the agents   *)
(* they are about, and the other writers of both rows (approvals.ts, the    *)
(* routes that file approvals, markApprovalStatus of budgets.ts; pause,     *)
(* resume, terminate and activatePendingApproval of agents.ts).             *)
(*                                                                         *)
(* A request runs one statement at a time between those of the others, and  *)
(* a crash of the server ends them all where they are.  An approval is one  *)
(* of three kinds: "hire" names an agent that waits for it, "proposal"      *)
(* describes an agent to be created, "override" belongs to a budget         *)
(* incident.  Comments, the budget policy and the wake of the requester     *)
(* that follow a decision are left out.                                     *)
(***************************************************************************)
EXTENDS Naturals, FiniteSets

CONSTANTS
    Approvals,       \* approvals; a hire's agent goes by the name of its approval
    Deciders,        \* HTTP requests in flight
    MaxDeciding,     \* bound: requests ever made
    MaxServerCrashes \* bound: crashes of the server

ApprovalsAssumption == {MaxDeciding, MaxServerCrashes} \subseteq Nat /\ IsFiniteSet(Deciders)

VARIABLES
    kind,     \* what each approval is about
    approval, \* approvals.status
    agent,    \* agents.status of the agent of a hire
    decision, \* requests in flight
    past,     \* history of each approval: see NoPast
    happened  \* requests made and crashes so far

approvalVars == <<kind, approval, agent, decision, past, happened>>

Kinds == {"hire", "proposal", "override"}
Resolvable == {"pending", "revision_requested"}
Decided == {"approved", "rejected"}

NoDecision == [pc |-> "idle", op |-> "none", about |-> "none"]

\* hires: agents put to work for it; reopened: decisions that were overwritten;
\* fired: the board terminated its agent; revived: a terminated agent was
\* written over; lost: a crash came between its decision and the effect.
NoPast == [hires |-> 0, reopened |-> 0, fired |-> FALSE, revived |-> FALSE, lost |-> FALSE]

ApprovalsInit ==
    /\ kind \in [Approvals -> Kinds]
    /\ approval = [a \in Approvals |-> "none"]
    /\ agent = [a \in Approvals |-> "none"]
    /\ decision = [q \in Deciders |-> NoDecision]
    /\ past = [a \in Approvals |-> NoPast]
    /\ happened = [requests |-> 0, crashes |-> 0]

DecisionAt(q, p) == decision[q].pc = p
About(q) == decision[q].about
DecisionGo(q, p) == decision' = [decision EXCEPT ![q].pc = p]
Reply(q) == decision' = [decision EXCEPT ![q] = NoDecision]

ReceiveDecision(q, op, a, p) ==
    /\ DecisionAt(q, "idle")
    /\ happened.requests < MaxDeciding
    /\ happened' = [happened EXCEPT !.requests = @ + 1]
    /\ decision' = [decision EXCEPT ![q] = [pc |-> p, op |-> op, about |-> a]]

Note(a, field) == past' = [past EXCEPT ![a][field] = TRUE]

-----------------------------------------------------------------------------
(* Filing *)

\* POST /companies/:id/agent-hires creates the agent first,
RequestHire(q, a) ==
    /\ kind[a] = "hire" /\ agent[a] = "none"
    /\ ReceiveDecision(q, "file", a, "file")
    /\ agent' = [agent EXCEPT ![a] = "pending_approval"]
    /\ UNCHANGED <<kind, approval, past>>

\* then the approval that names it.
FileHire(q) ==
    /\ DecisionAt(q, "file")
    /\ approval' = [approval EXCEPT ![About(q)] = "pending"]
    /\ Reply(q)
    /\ UNCHANGED <<kind, agent, past, happened>>

\* POST /companies/:id/approvals, or the hard stop of a budget.
File(a) ==
    /\ kind[a] # "hire" /\ approval[a] = "none"
    /\ approval' = [approval EXCEPT ![a] = "pending"]
    /\ UNCHANGED <<kind, agent, decision, past, happened>>

-----------------------------------------------------------------------------
(* approve and reject *)

\* resolveApproval reads the approval; a decided one ends the request here.
ReadForDecision(q, op, a) ==
    /\ approval[a] \in Resolvable
    /\ ReceiveDecision(q, op, a, "resolve")
    /\ UNCHANGED <<kind, approval, agent, past>>

\* What the one decision that was applied has still to do.
Effect(op, k) ==
    CASE k = "hire" /\ op = "approved" -> "lookPending"
      [] k = "hire" /\ op = "rejected" -> "terminate"
      [] k = "proposal" /\ op = "approved" -> "create"
      [] OTHER -> "idle"

\* Mutant: the update has no condition.
ResolveUnconditional(q) ==
    /\ DecisionAt(q, "resolve")
    /\ approval' = [approval EXCEPT ![About(q)] = decision[q].op]
    /\ IF Effect(decision[q].op, kind[About(q)]) = "idle" THEN Reply(q)
       ELSE DecisionGo(q, Effect(decision[q].op, kind[About(q)]))
    /\ UNCHANGED <<kind, agent, past, happened>>

\* The conditional update: of two decisions one is applied.
Resolve(q) ==
    /\ DecisionAt(q, "resolve")
    /\ LET a == About(q)
           next == Effect(decision[q].op, kind[a])
       IN IF approval[a] \in Resolvable
          THEN /\ approval' = [approval EXCEPT ![a] = decision[q].op]
               /\ IF next = "idle" THEN Reply(q) ELSE DecisionGo(q, next)
          ELSE Reply(q) /\ UNCHANGED approval
    /\ UNCHANGED <<kind, agent, past, happened>>

CreateAgent(q) ==
    /\ DecisionAt(q, "create")
    /\ past' = [past EXCEPT ![About(q)].hires = @ + 1]
    /\ Reply(q)
    /\ UNCHANGED <<kind, approval, agent, happened>>

\* activatePendingApproval: only a pending agent,
LookPending(q) ==
    /\ DecisionAt(q, "lookPending")
    /\ IF agent[About(q)] = "pending_approval" THEN DecisionGo(q, "activate") ELSE Reply(q)
    /\ UNCHANGED <<kind, approval, agent, past, happened>>

\* as it was when it was read.
Activate(q) ==
    /\ DecisionAt(q, "activate")
    /\ agent' = [agent EXCEPT ![About(q)] = "idle"]
    /\ past' = [past EXCEPT ![About(q)].hires = @ + 1,
                            ![About(q)].revived = @ \/ agent[About(q)] = "terminated"]
    /\ Reply(q)
    /\ UNCHANGED <<kind, approval, happened>>

TerminateRejected(q) ==
    /\ DecisionAt(q, "terminate")
    /\ agent' = [agent EXCEPT ![About(q)] = "terminated"]
    /\ Reply(q)
    /\ UNCHANGED <<kind, approval, past, happened>>

-----------------------------------------------------------------------------
(* requestRevision, resubmit and markApprovalStatus: an update by id *)

ReadForRevision(q, a) ==
    /\ approval[a] = "pending"
    /\ ReceiveDecision(q, "revision_requested", a, "overwrite")
    /\ UNCHANGED <<kind, approval, agent, past>>

ReadForResubmit(q, a) ==
    /\ approval[a] = "revision_requested"
    /\ ReceiveDecision(q, "pending", a, "overwrite")
    /\ UNCHANGED <<kind, approval, agent, past>>

Overwrite(q) ==
    /\ DecisionAt(q, "overwrite")
    /\ approval' = [approval EXCEPT ![About(q)] = decision[q].op]
    /\ past' = [past EXCEPT ![About(q)].reopened =
                    IF approval[About(q)] \in Decided THEN @ + 1 ELSE @]
    /\ Reply(q)
    /\ UNCHANGED <<kind, agent, happened>>

\* A decision on the incident decides its approval too.
MarkOverride(a, status) ==
    /\ kind[a] = "override" /\ approval[a] # "none"
    /\ approval' = [approval EXCEPT ![a] = status]
    /\ UNCHANGED <<kind, agent, decision, past, happened>>

-----------------------------------------------------------------------------
(* The board's calls on the agent itself, and crashes *)

\* pause refuses a terminated agent, resume a pending one as well, when they look.
ReadForPause(q, a) ==
    /\ agent[a] \in {"pending_approval", "idle", "paused"}
    /\ ReceiveDecision(q, "paused", a, "setAgent")
    /\ UNCHANGED <<kind, approval, agent, past>>

ReadForResume(q, a) ==
    /\ agent[a] \in {"idle", "paused"}
    /\ ReceiveDecision(q, "idle", a, "setAgent")
    /\ UNCHANGED <<kind, approval, agent, past>>

SetAgent(q) ==
    /\ DecisionAt(q, "setAgent")
    /\ agent' = [agent EXCEPT ![About(q)] = decision[q].op]
    /\ past' = [past EXCEPT ![About(q)].revived = @ \/ agent[About(q)] = "terminated"]
    /\ Reply(q)
    /\ UNCHANGED <<kind, approval, happened>>

TerminateAgent(a) ==
    /\ agent[a] \notin {"none", "terminated"}
    /\ agent' = [agent EXCEPT ![a] = "terminated"]
    /\ Note(a, "fired")
    /\ UNCHANGED <<kind, approval, decision, happened>>

ServerCrash ==
    /\ happened.crashes < MaxServerCrashes
    /\ happened' = [happened EXCEPT !.crashes = @ + 1]
    /\ decision' = [q \in Deciders |-> NoDecision]
    /\ past' = [a \in Approvals |-> [past[a] EXCEPT !.lost = @ \/
            \E q \in Deciders : About(q) = a
                /\ decision[q].pc \in {"create", "lookPending", "activate", "terminate"}]]
    /\ UNCHANGED <<kind, approval, agent>>

-----------------------------------------------------------------------------
DecisionStep(q) ==
    \/ FileHire(q) \/ Resolve(q) \/ CreateAgent(q) \/ LookPending(q) \/ Activate(q)
    \/ TerminateRejected(q) \/ Overwrite(q) \/ SetAgent(q)

NewRequest(q, a) ==
    \/ RequestHire(q, a)
    \/ \E op \in Decided : ReadForDecision(q, op, a)
    \/ ReadForRevision(q, a) \/ ReadForResubmit(q, a)
    \/ ReadForPause(q, a) \/ ReadForResume(q, a)

ApprovalsNext ==
    \/ \E q \in Deciders : DecisionStep(q)
    \/ \E q \in Deciders, a \in Approvals : NewRequest(q, a)
    \/ \E a \in Approvals : File(a) \/ TerminateAgent(a)
    \/ \E a \in Approvals, status \in Decided : MarkOverride(a, status)
    \/ ServerCrash

ApprovalsSpec == ApprovalsInit /\ [][ApprovalsNext]_approvalVars

-----------------------------------------------------------------------------
(* Properties *)

ApprovalStatuses == {"none"} \cup Resolvable \cup Decided
AgentStatuses == {"none", "pending_approval", "idle", "paused", "terminated"}
DeciderStates == [pc : {"idle", "file", "resolve", "create", "lookPending", "activate", "terminate",
                        "overwrite", "setAgent"},
                  op : {"none", "file", "paused", "idle"} \cup Resolvable \cup Decided,
                  about : Approvals \cup {"none"}]
Pasts == [hires : Nat, reopened : Nat, fired : BOOLEAN, revived : BOOLEAN, lost : BOOLEAN]

ApprovalsTypeOK ==
    /\ kind \in [Approvals -> Kinds]
    /\ approval \in [Approvals -> ApprovalStatuses]
    /\ agent \in [Approvals -> AgentStatuses]
    /\ decision \in [Deciders -> DeciderStates]
    /\ past \in [Approvals -> Pasts]
    /\ happened \in [requests : 0..MaxDeciding, crashes : 0..MaxServerCrashes]

\* An approval hires one agent, once, whoever approves it, twice or at once; only
\* a stale revision or resubmission that wrote over the decision makes it two.
HiredOnce == \A a \in Approvals : past[a].hires <= 1 + past[a].reopened

\* The decision on a hire and the status of its agent agree once no request about
\* it is in flight: an approved agent waits for nothing and is only terminated by
\* the board, a rejected one is gone.  (Not after a crash between the two writes,
\* or when a stale write went over a decision or a termination.)
DecisionsTakeEffect ==
    \A a \in Approvals :
        (/\ kind[a] = "hire" /\ past[a].reopened = 0 /\ ~past[a].lost /\ ~past[a].revived
         /\ \A q \in Deciders : About(q) # a)
        => /\ approval[a] = "approved" =>
                agent[a] \in {"idle", "paused"} \/ (past[a].fired /\ agent[a] = "terminated")
           /\ approval[a] = "rejected" => agent[a] = "terminated"
=============================================================================
