-------------------------- MODULE GovernanceProofs --------------------------
(***************************************************************************)
(* Theorems of Budgets, for any scopes, requests, amounts and decisions.   *)
(* That an open incident can still be decided is not inductive: a request  *)
(* writes the approval it has read long before, so that the invariant says *)
(* whose approval a request has in hand.  It is of its own scope, is new   *)
(* while its incident is not inserted, and belongs to no open incident     *)
(* once the request is about to close it.                                  *)
(*                                                                         *)
(* NoWorkOverLimit speaks of quiet states.  For the others the invariant   *)
(* says what is at stake in a scope that is over its limit, the runs that  *)
(* run and those a start may no longer refuse, and that some evaluation in *)
(* flight will come to each.  A raise may spoil it; the last part shows    *)
(* that one decision alone cannot be such a raise.                         *)
(*                                                                         *)
(* Theorems of Approvals.  HiredOnce is not inductive: it also takes that  *)
(* every decision was stored by one conditional update, which lets one     *)
(* request act, so that the requests still about to hire are counted too.  *)
(***************************************************************************)
EXTENDS Budgets, Approvals, FiniteSetTheorems, TLAPS

(***************************************************************************)
(* Budgets                                                                 *)
(***************************************************************************)

Hard(s) == incident[s]["hard"]
InHand(e) == eval[e].approval

\* No two incidents share an approval.
OwnApprovals ==
    \A s, t \in Scopes : s # t /\ Hard(s).approval # 0 => Hard(s).approval # Hard(t).approval

NewApproval(e) ==
    /\ InHand(e) # 0 /\ Awaited(InHand(e))
    /\ \A s \in Scopes : Hard(s).approval # InHand(e)
    /\ \A f \in Evaluators \ {e} : InHand(f) # InHand(e)

\* Where a request may have an approval in hand.
HasApproval(h) ==
    \/ h.pc \in {"hardInsert", "raise", "resume", "openRows", "resolve", "dismiss", "mark"}
    \/ h.pc = "observe" /\ h.op = "raise"

EvalOK(e) ==
    /\ InHand(e) <= Len(override)
    /\ InHand(e) # 0 => HasApproval(eval[e])
    /\ EvalAt(e, "hardInsert") => NewApproval(e)
    /\ InHand(e) # 0 => \A s \in Scopes \ {Here(e)} : Hard(s).approval # InHand(e)
    /\ EvalAt(e, "mark") /\ InHand(e) # 0 /\ Hard(Here(e)).status = "open"
        => Hard(Here(e)).approval # InHand(e)

EvalsOK == \A e \in Evaluators : EvalOK(e)

BudgetsIInv == BudgetsTypeOK /\ OwnApprovals /\ EvalsOK /\ OpenIncidentsAreDecidable

Incidents(n) == [status : {"none", "open", "resolved"}, approval : 0..n]
Decisions == {"pending", "revision_requested", "approved", "rejected"}
EventCounts == [decisions : 0..MaxDecisions, pauses : 0..MaxPauses, handled : SUBSET Nat]

-----------------------------------------------------------------------------
\* The initial states satisfy the invariant.
LEMMA BudgetsInitInv == ASSUME BudgetsAssumption PROVE BudgetsInit => BudgetsIInv
<1> SUFFICES ASSUME BudgetsInit PROVE BudgetsIInv  OBVIOUS
<1>1. NoEval \in Evals /\ NoEval.approval = 0 /\ NoEval.pc = "idle"
  BY DEF NoEval, Evals, EvalPCs, Scopes
<1>2. NoStart \in Starts  BY DEF NoStart, Starts, Scopes
<1>3. NoIncident \in Incidents(0) /\ NoIncident.approval = 0 /\ NoIncident.status = "none"
  BY DEF NoIncident, Incidents
<1>4. override \in Seq(Decisions) /\ Len(override) = 0  BY DEF BudgetsInit
<1>5. incident \in [Scopes -> [Thresholds -> Incidents(Len(override))]]
  BY <1>3, <1>4 DEF BudgetsInit
<1>6. limit \in [Scopes -> Nat]
  <2>1. limit \in [Scopes -> Amounts \cup {0}]  BY DEF BudgetsInit
  <2>2. Amounts \cup {0} \subseteq Nat  BY DEF BudgetsAssumption
  <2>3. QED  BY <2>1, <2>2
<1>7. budgetRun \in [RunIds -> [status : RunStatuses, agent : Scopes]]
  BY DEF BudgetsInit, NoBudgetRun, RunStatuses, Scopes
<1>8. events \in EventCounts
  BY DEF BudgetsInit, BudgetsAssumption, EventCounts
<1>a. Active \in ScopeStates  BY DEF Active, Scope, ScopeStates
<1>9. BudgetsTypeOK
  BY <1>1, <1>2, <1>4, <1>5, <1>6, <1>7, <1>8, <1>a DEF EventCounts, BudgetsInit, BudgetsTypeOK, Incidents, Decisions
<1>10. \A s \in Scopes : Hard(s) = NoIncident  BY DEF BudgetsInit, Hard, Thresholds
<1>11. \A e \in Evaluators : eval[e] = NoEval  BY DEF BudgetsInit
<1>12. OwnApprovals  BY <1>3, <1>10 DEF OwnApprovals
<1>13. EvalsOK  BY <1>1, <1>4, <1>11 DEF EvalsOK, EvalOK, InHand, EvalAt, HasApproval
<1>14. OpenIncidentsAreDecidable  BY <1>3, <1>10 DEF OpenIncidentsAreDecidable, Hard
<1>15. QED  BY <1>9, <1>12, <1>13, <1>14 DEF BudgetsIInv

-----------------------------------------------------------------------------
(* A step that leaves the hard incidents and the approvals alone *)

\* What a request may take in hand: nothing, the approval of its scope's incident,
\* or what it had.
Takes(e, h) ==
    \/ h.approval = 0
    \/ /\ HasApproval(h)
       /\ \/ h.approval = Hard(h.at).approval
          \/ h.approval = eval[e].approval /\ h.at = eval[e].at

LEMMA MovesOn ==
  ASSUME BudgetsIInv, NEW e \in Evaluators, NEW h \in Evals,
         eval' = [eval EXCEPT ![e] = h], override' = override,
         \A s \in Scopes : Hard(s)' = Hard(s),
         h.pc \notin {"hardInsert", "mark"},
         ~EvalAt(e, "hardInsert") \/ h.approval = 0, Takes(e, h),
         events.handled \subseteq events'.handled
  PROVE  OwnApprovals' /\ EvalsOK' /\ OpenIncidentsAreDecidable'
<1>1. OwnApprovals'  BY DEF BudgetsIInv, OwnApprovals
<1>0. \A n : Awaited(n) => Awaited(n)'  BY DEF Awaited
<1>2. OpenIncidentsAreDecidable'  BY <1>0 DEF BudgetsIInv, OpenIncidentsAreDecidable, Hard
<1>3. eval \in [Evaluators -> Evals]  BY DEF BudgetsIInv, BudgetsTypeOK
<1>4. eval'[e] = h /\ \A f \in Evaluators \ {e} : eval'[f] = eval[f]  BY <1>3
<1>5. \A s \in Scopes : Hard(s).approval \in 0..Len(override)
  BY DEF BudgetsIInv, BudgetsTypeOK, Hard, Thresholds
<1>6. h.at \in Scopes /\ eval[e].at \in Scopes  BY <1>3 DEF Evals
<1>7. InHand(e)' <= Len(override)'
  BY <1>4, <1>5, <1>6 DEF InHand, Takes, BudgetsIInv, EvalsOK, EvalOK
<1>8. h.approval # 0 => \A s \in Scopes \ {h.at} : Hard(s).approval # h.approval
  BY <1>6 DEF Takes, BudgetsIInv, OwnApprovals, EvalsOK, EvalOK, InHand, Here
<1>9. EvalOK(e)'  BY <1>4, <1>7, <1>8 DEF EvalOK, InHand, EvalAt, Here, Takes, HasApproval
<1>10. ASSUME NEW f \in Evaluators, f # e PROVE EvalOK(f)'
  <2>1. EvalOK(f) /\ eval'[f] = eval[f]  BY <1>4, <1>10 DEF BudgetsIInv, EvalsOK
  <2>2. EvalAt(f, "hardInsert") => h.approval # InHand(f)
    BY <1>6, <1>10, <2>1 DEF EvalOK, NewApproval, InHand, Takes
  <2>3. EvalAt(f, "hardInsert") => NewApproval(f)'
    BY <1>0, <1>4, <2>1, <2>2 DEF EvalOK, NewApproval, InHand
  <2>4. eval[f].at \in Scopes  BY <1>3 DEF Evals
  <2>5. QED  BY <2>1, <2>3, <2>4 DEF EvalOK, InHand, EvalAt, Here, HasApproval
<1>11. QED  BY <1>1, <1>2, <1>9, <1>10 DEF EvalsOK

\* The same, for a step that no request takes.
LEMMA StaysPut ==
  ASSUME BudgetsIInv, UNCHANGED <<eval, incident, override>>, events.handled \subseteq events'.handled
  PROVE  OwnApprovals' /\ EvalsOK' /\ OpenIncidentsAreDecidable'
BY DEF Awaited, BudgetsIInv, OwnApprovals, EvalsOK, EvalOK, NewApproval, InHand, EvalAt, Here, Hard, HasApproval,
  OpenIncidentsAreDecidable

-----------------------------------------------------------------------------
(* The evaluation of a policy *)

\* Where an evaluation goes from a policy: to the next one, or to its end.
LEMMA FinishedEval ==
  ASSUME BudgetsAssumption, BudgetsTypeOK, NEW e \in Evaluators
  PROVE  /\ Finished(e) \in Evals /\ Finished(e).pc \in {"next", "idle"}
         /\ Finished(e) = NoEval \/ (/\ Finished(e).approval = eval[e].approval
                                     /\ Finished(e).at = eval[e].at)
         /\ NoEval \in Evals /\ NoEval.approval = 0 /\ NoEval.pc = "idle"
<1>1. eval[e] \in Evals  BY DEF BudgetsTypeOK
<1>2. NoEval \in Evals /\ NoEval.approval = 0 /\ NoEval.pc = "idle"
  BY DEF NoEval, Evals, EvalPCs, Scopes
<1>3. QED  BY <1>1, <1>2 DEF Finished, Evals, EvalPCs

\* What is left to show of a step that changes an evaluation and maybe the scope's
\* soft incident, its state or runs.
LEMMA EvalStepInv ==
  ASSUME BudgetsAssumption, BudgetsIInv, NEW e \in Evaluators, NEW h \in Evals,
         eval' = [eval EXCEPT ![e] = h], override' = override,
         \A s \in Scopes : Hard(s)' = Hard(s),
         h.pc \notin {"hardInsert", "mark"},
         ~EvalAt(e, "hardInsert") \/ h.approval = 0, Takes(e, h),
         incident' \in [Scopes -> [Thresholds -> Incidents(Len(override))]],
         limit' \in [Scopes -> Nat], spend' \in [Scopes -> Nat],
         state' \in [Scopes -> ScopeStates],
         budgetRun' \in [RunIds -> [status : RunStatuses, agent : Scopes]],
         start' \in [Starters -> Starts], aborted' \in BOOLEAN,
         events' \in EventCounts, events.handled \subseteq events'.handled
  PROVE  BudgetsIInv'
<1>1. BudgetsTypeOK'  BY DEF BudgetsIInv, BudgetsTypeOK, Incidents, EventCounts
<1>2. QED  BY <1>1, MovesOn DEF BudgetsIInv

\* The types of what a step leaves alone.
LEMMA BudgetsRows ==
  ASSUME BudgetsTypeOK
  PROVE  /\ incident \in [Scopes -> [Thresholds -> Incidents(Len(override))]]
         /\ limit \in [Scopes -> Nat] /\ spend \in [Scopes -> Nat]
         /\ state \in [Scopes -> ScopeStates]
         /\ budgetRun \in [RunIds -> [status : RunStatuses, agent : Scopes]]
         /\ start \in [Starters -> Starts] /\ aborted \in BOOLEAN
         /\ events \in EventCounts
         /\ eval \in [Evaluators -> Evals] /\ override \in Seq(Decisions)
BY DEF BudgetsTypeOK, Incidents, Decisions, EventCounts

\* A statement about soft incidents changes no hard one.
LEMMA SoftStatus ==
  ASSUME BudgetsTypeOK, NEW s \in Scopes, NEW x \in {"none", "open", "resolved"},
         incident' = [incident EXCEPT ![s]["soft"].status = x]
  PROVE  /\ incident' \in [Scopes -> [Thresholds -> Incidents(Len(override))]]
         /\ \A t \in Scopes : Hard(t)' = Hard(t)
<1>1. incident \in [Scopes -> [Thresholds -> Incidents(Len(override))]]  BY BudgetsRows
<1> DEFINE soft == [incident[s]["soft"] EXCEPT !.status = x]
           both == [incident[s] EXCEPT !["soft"] = soft]
<1>2. incident' = [incident EXCEPT ![s] = both]  OBVIOUS
<1>3. incident[s] \in [Thresholds -> Incidents(Len(override))]  BY <1>1
<1>4. incident[s]["soft"] \in Incidents(Len(override))  BY <1>3 DEF Thresholds
<1>5. soft \in Incidents(Len(override))  BY <1>4 DEF Incidents
<1> HIDE DEF soft
<1>6. both \in [Thresholds -> Incidents(Len(override))] /\ both["hard"] = incident[s]["hard"]
  BY <1>3, <1>5 DEF Thresholds
<1> HIDE DEF both
<1>7. QED  BY <1>1, <1>2, <1>6 DEF Hard

\* Only the evaluation itself moves.
LEMMA EvalMoves ==
  ASSUME BudgetsAssumption, BudgetsIInv, NEW e \in Evaluators, NEW h \in Evals,
         eval' = [eval EXCEPT ![e] = h],
         h.pc \notin {"hardInsert", "mark"},
         ~EvalAt(e, "hardInsert") \/ h.approval = 0, Takes(e, h),
         UNCHANGED <<limit, spend, state, incident, override, budgetRun, start, aborted, events>>
  PROVE  BudgetsIInv'
<1>1. BudgetsTypeOK  BY DEF BudgetsIInv
<1>2. \A s \in Scopes : Hard(s)' = Hard(s)  BY DEF Hard
<1>3. QED  BY <1>1, <1>2, BudgetsRows, EvalStepInv

LEMMA SoftInv ==
  ASSUME BudgetsAssumption, BudgetsIInv, NEW e \in Evaluators,
         SoftLook(e) \/ SoftInsert(e) \/ SoftResolve(e) \/ HardLook(e)
  PROVE  BudgetsIInv'
<1>1. BudgetsTypeOK /\ eval[e] \in Evals /\ eval[e].at \in Scopes  BY DEF BudgetsIInv, BudgetsTypeOK, Evals
<1>0. eval[e].approval = 0
  BY DEF SoftLook, SoftInsert, SoftResolve, HardLook, EvalAt, BudgetsIInv, EvalsOK, EvalOK, InHand, HasApproval
<1>2. /\ AfterSoft(e) \in Evals /\ AfterSoft(e).pc \in {"next", "idle", "softResolve"}
      /\ Takes(e, AfterSoft(e))
  BY <1>0, <1>1, FinishedEval DEF AfterSoft, Evals, EvalPCs, Takes
<1>3. NoEval \in Evals /\ Takes(e, NoEval) /\ NoEval.pc = "idle"
  BY <1>1, FinishedEval DEF Takes
<1>4. CASE SoftLook(e)
  <2>1. PICK h : /\ h = [eval[e] EXCEPT !.pc = "softInsert"] \/ h = AfterSoft(e)
                 /\ eval' = [eval EXCEPT ![e] = h]
    BY <1>4 DEF SoftLook
  <2>2. h \in Evals /\ Takes(e, h) /\ h.pc \notin {"hardInsert", "mark"}
    BY <1>0, <1>1, <1>2, <2>1 DEF Evals, EvalPCs, Takes
  <2>3. QED  BY <1>4, <2>1, <2>2, EvalMoves DEF SoftLook, EvalAt
<1>5. CASE SoftInsert(e)
  <2>1. PICK h : /\ h = AfterSoft(e) \/ h = NoEval
                 /\ eval' = [eval EXCEPT ![e] = h]
    BY <1>5 DEF SoftInsert
  <2>2. h \in Evals /\ Takes(e, h) /\ h.pc \notin {"hardInsert", "mark"}
    BY <1>2, <1>3, <2>1
  <2>3. /\ incident' \in [Scopes -> [Thresholds -> Incidents(Len(override))]]
        /\ \A s \in Scopes : Hard(s)' = Hard(s)
    <3>1. CASE UNCHANGED incident  BY <1>1, <3>1, BudgetsRows DEF Hard
    <3>2. CASE incident' = [incident EXCEPT ![Here(e)]["soft"].status = "open"]
      BY <1>1, <3>2, SoftStatus DEF Here
    <3>3. QED  BY <1>5, <3>1, <3>2 DEF SoftInsert
  <2>4. aborted' \in BOOLEAN  BY <1>1, <1>5, BudgetsRows DEF SoftInsert
  <2>5. QED  BY <1>1, <1>5, <2>1, <2>2, <2>3, <2>4, BudgetsRows, EvalStepInv DEF SoftInsert, EvalAt
<1>6. CASE SoftResolve(e)
  <2> DEFINE h == [eval[e] EXCEPT !.pc = "hardLook"]
  <2>1. h \in Evals /\ Takes(e, h) /\ h.pc = "hardLook"
    BY <1>0, <1>1 DEF Evals, EvalPCs, Takes
  <2>2. eval' = [eval EXCEPT ![e] = h]  BY <1>6 DEF SoftResolve, EvalGo
  <2>3. /\ incident' \in [Scopes -> [Thresholds -> Incidents(Len(override))]]
        /\ \A s \in Scopes : Hard(s)' = Hard(s)
    <3>1. PICK x : /\ x = IF incident[Here(e)]["soft"].status = "open" THEN "resolved"
                           ELSE incident[Here(e)]["soft"].status
                   /\ incident' = [incident EXCEPT ![Here(e)]["soft"].status = x]
      BY <1>6 DEF SoftResolve
    <3>2. incident[Here(e)]["soft"] \in Incidents(Len(override))
      BY <1>1, BudgetsRows DEF Here, Thresholds
    <3>3. x \in {"none", "open", "resolved"}  BY <3>1, <3>2 DEF Incidents
    <3>4. QED  BY <1>1, <3>1, <3>3, SoftStatus DEF Here
  <2> HIDE DEF h
  <2>4. QED  BY <1>1, <1>6, <2>1, <2>2, <2>3, BudgetsRows, EvalStepInv DEF SoftResolve, EvalAt
<1>7. CASE HardLook(e)
  <2>1. PICK pc \in {"approval", "pause"} : eval' = [eval EXCEPT ![e] = [eval[e] EXCEPT !.pc = pc]]
    BY <1>7 DEF HardLook, EvalGo
  <2> DEFINE h == [eval[e] EXCEPT !.pc = pc]
  <2>2. h \in Evals /\ Takes(e, h) /\ h.pc = pc
    BY <1>0, <1>1, <2>1 DEF Evals, EvalPCs, Takes
  <2>3. eval' = [eval EXCEPT ![e] = h]  BY <2>1
  <2> HIDE DEF h
  <2>4. QED  BY <1>7, <2>1, <2>2, <2>3, EvalMoves DEF HardLook, EvalAt
<1>8. QED  BY <1>4, <1>5, <1>6, <1>7

\* The number of the new approval is nobody's yet.
LEMMA InsertApprovalInv ==
  ASSUME BudgetsAssumption, BudgetsIInv, NEW e \in Evaluators, InsertApproval(e)
  PROVE  BudgetsIInv'
<1> DEFINE n == Len(override) + 1
           h == [eval[e] EXCEPT !.pc = "hardInsert", !.approval = n]
<1>1. BudgetsTypeOK /\ eval[e] \in Evals /\ override \in Seq(Decisions) /\ Len(override) \in Nat
  BY BudgetsRows DEF BudgetsIInv, BudgetsTypeOK
<1>2. h \in Evals
  <2>1. n \in Nat  BY <1>1
  <2> HIDE DEF n
  <2>2. QED  BY <1>1, <2>1 DEF Evals, EvalPCs
<1>3. eval' = [eval EXCEPT ![e] = h]  BY DEF InsertApproval
<1>4. /\ override' \in Seq(Decisions) /\ Len(override') = n /\ override'[n] = "pending"
      /\ \A i \in 1..Len(override) : override'[i] = override[i]
  BY <1>1 DEF InsertApproval, Decisions
<1>5. eval' \in [Evaluators -> Evals] /\ eval'[e] = h /\ \A f \in Evaluators \ {e} : eval'[f] = eval[f]
  BY <1>1, <1>2, <1>3, BudgetsRows
<1>6. \A s \in Scopes : Hard(s)' = Hard(s) /\ Hard(s).approval \in 0..Len(override)
  BY <1>1, BudgetsRows DEF InsertApproval, Hard, Thresholds, Incidents
<1>7. BudgetsTypeOK'
  <2>1. incident' \in [Scopes -> [Thresholds -> Incidents(Len(override'))]]
    <3>1. Incidents(Len(override)) \subseteq Incidents(n)  BY <1>1 DEF Incidents
    <3>2. incident \in [Scopes -> [Thresholds -> Incidents(n)]]  BY <1>1, <3>1, BudgetsRows
    <3>3. QED  BY <1>4, <3>2 DEF InsertApproval
  <2>2. QED  BY <1>1, <1>4, <1>5, <2>1 DEF BudgetsTypeOK, Incidents, Decisions, InsertApproval
<1>8. OwnApprovals'  BY <1>6 DEF BudgetsIInv, OwnApprovals
<1>a. \A i \in 1..Len(override) : Awaited(i) => Awaited(i)'  BY <1>4 DEF Awaited, InsertApproval
<1>9. OpenIncidentsAreDecidable'
  <2>1. SUFFICES ASSUME NEW s \in Scopes, Hard(s).status = "open"
                 PROVE  Hard(s).approval # 0 /\ Awaited(Hard(s).approval)'
    BY <1>6 DEF OpenIncidentsAreDecidable, Hard, Awaited
  <2>2. Hard(s).approval # 0 /\ Awaited(Hard(s).approval)
    BY <2>1 DEF BudgetsIInv, OpenIncidentsAreDecidable, Hard
  <2>3. Hard(s).approval \in 1..Len(override)  BY <1>1, <1>6, <2>2
  <2>4. Hard(s)' = Hard(s)  BY <1>6
  <2>5. QED  BY <1>a, <2>2, <2>3, <2>4
<1>10. \A f \in Evaluators \ {e} : InHand(f) \in 0..Len(override)
  BY <1>1, BudgetsRows DEF BudgetsIInv, EvalsOK, EvalOK, InHand, Evals
<1>11. EvalOK(e)'
  <2>1. NewApproval(e)'  BY <1>1, <1>4, <1>5, <1>6, <1>10 DEF NewApproval, InHand, Awaited
  <2>2. QED  BY <1>1, <1>4, <1>5, <1>6, <2>1 DEF EvalOK, NewApproval, InHand, EvalAt, Here, HasApproval
<1>12. ASSUME NEW f \in Evaluators, f # e PROVE EvalOK(f)'
  <2>1. EvalOK(f) /\ eval'[f] = eval[f]  BY <1>5, <1>12 DEF BudgetsIInv, EvalsOK
  <2>2. ASSUME EvalAt(f, "hardInsert") PROVE NewApproval(f)'
    <3>1. NewApproval(f) /\ InHand(f) \in 1..Len(override)
      BY <1>10, <1>12, <2>1, <2>2 DEF EvalOK, NewApproval
    <3>2. InHand(f)' = InHand(f) /\ InHand(e)' = n /\ n # InHand(f)
      BY <1>1, <1>5, <2>1, <3>1 DEF InHand
    <3>3. Awaited(InHand(f))' /\ InHand(f)' # 0  BY <1>a, <3>1, <3>2 DEF NewApproval, Awaited
    <3>4. \A g \in Evaluators \ {f} : InHand(g)' # InHand(f)
      BY <1>5, <3>1, <3>2 DEF NewApproval, InHand
    <3>5. QED  BY <1>6, <3>1, <3>2, <3>3, <3>4 DEF NewApproval
  <2>3. eval[f].at \in Scopes  BY <1>1, <1>12, BudgetsRows DEF Evals
  <2>4. InHand(f) <= Len(override)'  BY <1>1, <1>4, <1>10, <1>12
  <2>5. QED  BY <1>6, <2>1, <2>2, <2>3, <2>4 DEF EvalOK, InHand, EvalAt, Here, HasApproval
<1>13. QED  BY <1>7, <1>8, <1>9, <1>11, <1>12 DEF BudgetsIInv, EvalsOK

\* A statement about the hard incident of a scope.
LEMMA HardRow ==
  ASSUME BudgetsTypeOK, NEW s \in Scopes, NEW i \in Incidents(Len(override)),
         incident' = [incident EXCEPT ![s]["hard"] = i]
  PROVE  /\ incident' \in [Scopes -> [Thresholds -> Incidents(Len(override))]]
         /\ Hard(s)' = i /\ \A t \in Scopes \ {s} : Hard(t)' = Hard(t)
<1>1. incident \in [Scopes -> [Thresholds -> Incidents(Len(override))]]  BY BudgetsRows
<1> DEFINE both == [incident[s] EXCEPT !["hard"] = i]
<1>2. incident' = [incident EXCEPT ![s] = both]  OBVIOUS
<1>3. incident[s] \in [Thresholds -> Incidents(Len(override))]  BY <1>1
<1>4. both \in [Thresholds -> Incidents(Len(override))] /\ both["hard"] = i
  BY <1>3 DEF Thresholds
<1> HIDE DEF both
<1>5. QED  BY <1>1, <1>2, <1>4 DEF Hard

\* The incident gets the approval that only its request has had.
LEMMA HardInsertInv ==
  ASSUME BudgetsAssumption, BudgetsIInv, NEW e \in Evaluators, HardInsert(e)
  PROVE  BudgetsIInv'
<1>0. BudgetsTypeOK /\ eval[e] \in Evals  BY DEF BudgetsIInv, BudgetsTypeOK
<1>a. PICK s \in Scopes : s = Here(e)  BY <1>0 DEF Evals, Here
<1>b. PICK n \in Nat : n = InHand(e)  BY <1>0 DEF Evals, InHand
<1>1. BudgetsTypeOK /\ eval[e] \in Evals /\ s \in Scopes /\ n \in Nat  BY <1>0, <1>a, <1>b
<1>2. NoEval \in Evals /\ NoEval.approval = 0 /\ NoEval.pc = "idle"  BY <1>1, FinishedEval
<1>3. EvalAt(e, "hardInsert") /\ NewApproval(e) /\ n \in 1..Len(override)
  <2>1. EvalAt(e, "hardInsert")  BY DEF HardInsert
  <2>2. NewApproval(e) /\ InHand(e) <= Len(override)  BY <2>1 DEF BudgetsIInv, EvalsOK, EvalOK
  <2>3. Len(override) \in Nat  BY <1>1, BudgetsRows
  <2>4. n # 0 /\ n <= Len(override)  BY <1>b, <2>2 DEF NewApproval
  <2>5. QED  BY <2>1, <2>2, <2>3, <2>4
<1>4. CASE Hard(s).status # "none"
  <2>1. eval' = [eval EXCEPT ![e] = NoEval] /\ aborted' = TRUE /\ UNCHANGED incident
    BY <1>4, <1>a DEF HardInsert, Hard
  <2>2. \A t \in Scopes : Hard(t)' = Hard(t)  BY <2>1 DEF Hard
  <2>3. QED  BY <1>1, <1>2, <2>1, <2>2, BudgetsRows, EvalStepInv DEF HardInsert, Takes
<1>5. CASE Hard(s).status = "none"
  <2> DEFINE i == [status |-> "open", approval |-> n]
             h == [eval[e] EXCEPT !.pc = "pause", !.approval = 0]
  <2>1. /\ incident' = [incident EXCEPT ![s]["hard"] = i]
        /\ eval' = [eval EXCEPT ![e] = h] /\ override' = override
    BY <1>5, <1>a, <1>b DEF HardInsert, Hard, InHand
  <2>2. h \in Evals /\ h.approval = 0 /\ h.pc = "pause"  BY <1>1 DEF Evals, EvalPCs
  <2>3. i \in Incidents(Len(override)) /\ i.status = "open" /\ i.approval = n
    BY <1>3 DEF Incidents
  <2> HIDE DEF i, h
  <2>4. /\ incident' \in [Scopes -> [Thresholds -> Incidents(Len(override))]]
        /\ Hard(s)' = i /\ \A t \in Scopes \ {s} : Hard(t)' = Hard(t)
    BY <1>1, <2>1, <2>3, HardRow
  <2>5. eval' \in [Evaluators -> Evals] /\ eval'[e] = h /\ \A f \in Evaluators \ {e} : eval'[f] = eval[f]
    BY <1>1, <2>1, <2>2, BudgetsRows
  <2>6. BudgetsTypeOK'  BY <1>1, <2>1, <2>4, <2>5, BudgetsRows DEF BudgetsTypeOK, Incidents, Decisions, HardInsert
  <2>7. OwnApprovals'
    BY <1>1, <1>b, <1>3, <2>3, <2>4 DEF BudgetsIInv, OwnApprovals, NewApproval
  <2>8. OpenIncidentsAreDecidable'
    <3>1. \A m : Awaited(m)' <=> Awaited(m)  BY <2>1 DEF Awaited, HardInsert
    <3>2. n # 0 /\ Awaited(n)  BY <1>b, <1>3 DEF NewApproval
    <3>3. \A t \in Scopes : Hard(t).status = "open" => Hard(t).approval # 0 /\ Awaited(Hard(t).approval)
      BY DEF BudgetsIInv, OpenIncidentsAreDecidable, Hard
    <3>4. \A t \in Scopes : Hard(t)'.status = "open" => Hard(t)'.approval # 0 /\ Awaited(Hard(t)'.approval)
      BY <1>1, <2>3, <2>4, <3>2, <3>3
    <3>5. QED  BY <3>1, <3>4 DEF OpenIncidentsAreDecidable, Hard, Awaited
  <2>9. EvalOK(e)'
    BY <1>1, <2>1, <2>2, <2>5, BudgetsRows DEF EvalOK, InHand, EvalAt
  <2>10. ASSUME NEW f \in Evaluators, f # e PROVE EvalOK(f)'
    <3>1. EvalOK(f) /\ eval'[f] = eval[f]  BY <2>5, <2>10 DEF BudgetsIInv, EvalsOK
    <3>2. InHand(f) # n  BY <1>3, <1>b, <2>10 DEF NewApproval
    <3>3. \A t \in Scopes : Hard(t)' = Hard(t) \/ Hard(t)'.approval = n  BY <2>3, <2>4
    <3>4. EvalAt(f, "hardInsert") => NewApproval(f)'
      BY <2>1, <2>2, <2>5, <3>1, <3>2, <3>3 DEF EvalOK, NewApproval, InHand, Awaited, HardInsert
    <3>5. eval[f].at \in Scopes  BY <1>1, <2>10, BudgetsRows DEF Evals
    <3>6. QED  BY <2>1, <3>1, <3>2, <3>3, <3>4, <3>5 DEF EvalOK, InHand, EvalAt, Here, HasApproval
  <2>11. QED  BY <2>6, <2>7, <2>8, <2>9, <2>10 DEF BudgetsIInv, EvalsOK
<1>6. QED  BY <1>4, <1>5

\* The pause and the work of the scope.
LEMMA PauseInv ==
  ASSUME BudgetsAssumption, BudgetsIInv, NEW e \in Evaluators,
         PauseScope(e) \/ SelectWork(e) \/ CancelWork(e)
  PROVE  BudgetsIInv'
<1>1. BudgetsTypeOK /\ eval[e] \in Evals /\ eval[e].at \in Scopes  BY DEF BudgetsIInv, BudgetsTypeOK, Evals
<1>0. eval[e].approval = 0
  BY DEF PauseScope, SelectWork, CancelWork, EvalAt, BudgetsIInv, EvalsOK, EvalOK, InHand, HasApproval
<1>2. Finished(e) \in Evals /\ Finished(e).pc \in {"next", "idle"} /\ Takes(e, Finished(e))
  BY <1>0, <1>1, FinishedEval DEF Takes
<1>3. CASE PauseScope(e)
  <2> DEFINE h == [eval[e] EXCEPT !.pc = "select"]
  <2>1. h \in Evals /\ Takes(e, h) /\ h.pc = "select"  BY <1>0, <1>1 DEF Evals, EvalPCs, Takes
  <2>2. eval' = [eval EXCEPT ![e] = h]  BY <1>3 DEF PauseScope, EvalGo
  <2>3. state' \in [Scopes -> ScopeStates]
    <3>1. Scope("paused", "budget") \in ScopeStates  BY DEF Scope, ScopeStates
    <3>2. QED  BY <1>1, <1>3, <3>1, BudgetsRows DEF PauseScope
  <2>4. \A s \in Scopes : Hard(s)' = Hard(s)  BY <1>3 DEF PauseScope, Hard
  <2> HIDE DEF h
  <2>5. QED  BY <1>1, <1>3, <2>1, <2>2, <2>3, <2>4, BudgetsRows, EvalStepInv DEF PauseScope, EvalAt
<1>4. CASE SelectWork(e)
  <2>1. WorkOf(Here(e)) \subseteq RunIds  BY DEF WorkOf
  <2>2. PICK h : /\ h = Finished(e) \/ h = [eval[e] EXCEPT !.work = WorkOf(Here(e)), !.pc = "cancel"]
                 /\ eval' = [eval EXCEPT ![e] = h]
    BY <1>4 DEF SelectWork
  <2>3. h \in Evals /\ Takes(e, h) /\ h.pc \notin {"hardInsert", "mark"}
    BY <1>0, <1>1, <1>2, <2>1, <2>2 DEF Evals, EvalPCs, Takes
  <2>4. QED  BY <1>4, <2>2, <2>3, EvalMoves DEF SelectWork, EvalAt
<1>5. CASE CancelWork(e)
  <2>0. PICK r \in eval[e].work :
          /\ budgetRun' = IF Here(e) \in Staff \/ r \in WorkOf(Company)
                          THEN [budgetRun EXCEPT ![r].status = "cancelled"] ELSE budgetRun
          /\ eval' = [eval EXCEPT ![e] =
                IF eval[e].work = {r} THEN Finished(e) ELSE [@ EXCEPT !.work = eval[e].work \ {r}]]
    BY <1>5 DEF CancelWork
  <2>1. budgetRun' = budgetRun \/ budgetRun' = [budgetRun EXCEPT ![r].status = "cancelled"]
    <3>1. CASE Here(e) \in Staff \/ r \in WorkOf(Company)  BY <2>0, <3>1
    <3>2. CASE ~(Here(e) \in Staff \/ r \in WorkOf(Company))  BY <2>0, <3>2
    <3>3. QED  BY <3>1, <3>2
  <2>2. PICK h : /\ h = Finished(e) \/ h = [eval[e] EXCEPT !.work = eval[e].work \ {r}]
                 /\ eval' = [eval EXCEPT ![e] = h]
    <3>1. CASE eval[e].work = {r}  BY <2>0, <3>1
    <3>2. CASE eval[e].work # {r}
      <4>1. eval' = [eval EXCEPT ![e] = [eval[e] EXCEPT !.work = eval[e].work \ {r}]]
        BY <2>0, <3>2
      <4>2. QED  BY <4>1
    <3>3. QED  BY <3>1, <3>2
  <2>3. h \in Evals /\ Takes(e, h) /\ h.pc \notin {"hardInsert", "mark"}
    BY <1>0, <1>1, <1>2, <1>5, <2>2 DEF Evals, EvalPCs, Takes, CancelWork, EvalAt
  <2>4. budgetRun' \in [RunIds -> [status : RunStatuses, agent : Scopes]]
    BY <1>1, <2>1, BudgetsRows DEF RunStatuses
  <2>5. \A s \in Scopes : Hard(s)' = Hard(s)  BY <1>5 DEF CancelWork, Hard
  <2>6. QED  BY <1>1, <1>5, <2>2, <2>3, <2>4, <2>5, BudgetsRows, EvalStepInv DEF CancelWork, EvalAt
<1>6. QED  BY <1>3, <1>4, <1>5

-----------------------------------------------------------------------------
(* Cost events, policies and decisions *)

LEMMA CostInv ==
  ASSUME BudgetsAssumption, BudgetsIInv, NEW e \in Evaluators, NEW a \in Staff,
         CostEvent(e, a)
  PROVE  BudgetsIInv'
<1> DEFINE h == [NoEval EXCEPT !.pc = "policies", !.op = "cost", !.at = a]
<1>1. BudgetsTypeOK /\ NoEval \in Evals /\ NoEval.approval = 0  BY FinishedEval DEF BudgetsIInv
<1>2. h \in Evals /\ h.approval = 0 /\ h.pc = "policies"
  BY <1>1 DEF Evals, EvalPCs, Scopes, NoEval
<1>3. eval' = [eval EXCEPT ![e] = h]  BY DEF CostEvent
<1>4. spend' \in [Scopes -> Nat]
  <2>1. spend \in [Scopes -> Nat] /\ a \in Scopes /\ Company \in Scopes
    BY <1>1, BudgetsRows DEF Scopes
  <2>2. spend' = [spend EXCEPT ![a] = spend[a] + 1, ![Company] = @ + 1]  BY DEF CostEvent
  <2>3. QED  BY <2>1, <2>2
<1>5. \A s \in Scopes : Hard(s)' = Hard(s)  BY DEF CostEvent, Hard
<1> HIDE DEF h
<1>6. QED  BY <1>1, <1>2, <1>3, <1>4, <1>5, BudgetsRows, EvalStepInv DEF CostEvent, EvalAt, Takes

LEMMA PoliciesInv ==
  ASSUME BudgetsAssumption, BudgetsIInv, NEW e \in Evaluators,
         SelectPolicies(e) \/ ObserveNext(e)
  PROVE  BudgetsIInv'
<1>1. /\ BudgetsTypeOK /\ eval[e] \in Evals /\ eval[e].at \in Scopes /\ Company \in Scopes
      /\ limit \in [Scopes -> Nat] /\ spend \in [Scopes -> Nat]
  BY BudgetsRows DEF BudgetsIInv, BudgetsTypeOK, Evals, Scopes
<1>2. NoEval \in Evals /\ NoEval.approval = 0 /\ NoEval.pc = "idle"  BY <1>1, FinishedEval
<1>3. CASE SelectPolicies(e)
  <2> DEFINE relevant == {s \in {Here(e), Company} : limit[s] > 0}
             amounts == [s \in Scopes |-> IF s \in relevant THEN limit[s] ELSE 0]
             more == [eval[e] EXCEPT !.pc = "next", !.scopes = relevant, !.at = Company, !.read = amounts]
  <2>1. relevant \subseteq Scopes  BY <1>1 DEF Here
  <2>2. amounts \in [Scopes -> Nat]  BY <1>1
  <2> HIDE DEF relevant, amounts
  <2>3. more \in Evals /\ more.pc = "next"  BY <1>1, <2>1, <2>2 DEF Evals, EvalPCs
  <2>4. PICK h : /\ h = NoEval \/ h = more
                 /\ eval' = [eval EXCEPT ![e] = h]
    BY <1>3 DEF SelectPolicies, relevant, amounts
  <2>5. eval[e].approval = 0
    BY <1>3 DEF SelectPolicies, EvalAt, BudgetsIInv, EvalsOK, EvalOK, InHand, HasApproval
  <2>6. more.approval = 0  BY <1>1, <2>5 DEF Evals
  <2> HIDE DEF more
  <2>7. h \in Evals /\ h.approval = 0 /\ h.pc \notin {"hardInsert", "mark"}
    BY <1>2, <2>3, <2>4, <2>6
  <2>8. QED  BY <1>3, <2>4, <2>7, EvalMoves DEF SelectPolicies, EvalAt, Takes
<1>4. CASE ObserveNext(e)
  <2>0. eval[e].approval = 0 /\ eval[e].pc = "next"
    BY <1>4 DEF ObserveNext, EvalAt, BudgetsIInv, EvalsOK, EvalOK, InHand, HasApproval
  <2>1. PICK s \in eval[e].scopes :
          LET h == [eval[e] EXCEPT !.scopes = @ \ {s}, !.at = s] IN
            eval' = [eval EXCEPT ![e] =
                IF spend[s] >= SoftThreshold(h.read[s])
                THEN [h EXCEPT !.pc = "softLook", !.seen = spend[s]]
                ELSE IF h.scopes = {} THEN NoEval ELSE h]
    BY <1>4 DEF ObserveNext
  <2> DEFINE g == [eval[e] EXCEPT !.scopes = @ \ {s}, !.at = s]
             over == [g EXCEPT !.pc = "softLook", !.seen = spend[s]]
  <2>2. s \in Scopes /\ spend[s] \in Nat  BY <1>1, <2>1 DEF Evals
  <2>3. g \in Evals /\ g.pc = "next" /\ g.approval = 0
    BY <1>1, <2>0, <2>2 DEF Evals, EvalPCs
  <2>4. PICK h : (h = over \/ h = NoEval \/ h = g) /\ eval' = [eval EXCEPT ![e] = h]
    BY <2>1
  <2> HIDE DEF g
  <2>5. over \in Evals /\ over.pc = "softLook" /\ over.approval = 0
    BY <2>2, <2>3 DEF Evals, EvalPCs
  <2> HIDE DEF over
  <2>6. h \in Evals /\ h.approval = 0 /\ h.pc \notin {"hardInsert", "mark"}
    BY <1>2, <2>3, <2>4, <2>5
  <2>7. QED  BY <1>4, <2>4, <2>6, EvalMoves DEF ObserveNext, EvalAt, Takes
<1>5. QED  BY <1>3, <1>4

\* A decision of the board is one more, of a request that did nothing else.
LEMMA DecideTypes ==
  ASSUME BudgetsAssumption, BudgetsTypeOK, NEW e \in Evaluators, NEW h, Decide(e, h)
  PROVE  /\ eval' = [eval EXCEPT ![e] = h] /\ EvalAt(e, "idle")
         /\ events' \in EventCounts /\ events'.handled = events.handled
<1>1. events \in EventCounts /\ MaxDecisions \in Nat
  BY BudgetsRows DEF BudgetsAssumption
<1>2. events.decisions < MaxDecisions /\ events' = [events EXCEPT !.decisions = @ + 1]
  BY DEF Decide
<1>3. events' \in EventCounts /\ events'.handled = events.handled  BY <1>1, <1>2 DEF EventCounts
<1>4. QED  BY <1>3 DEF Decide

\* upsertPolicy up to its write.
LEMMA UpsertInv ==
  ASSUME BudgetsAssumption, BudgetsIInv, NEW e \in Evaluators, NEW s \in Policed, NEW amount \in Amounts,
         UpsertPolicy(e, s, amount)
  PROVE  BudgetsIInv'
<1>1. /\ BudgetsTypeOK /\ NoEval \in Evals /\ NoEval.approval = 0 /\ NoEval.read \in [Scopes -> Nat]
      /\ s \in Scopes /\ amount \in Nat
  BY FinishedEval DEF BudgetsIInv, BudgetsAssumption, Evals
<1> DEFINE amounts == [NoEval.read EXCEPT ![s] = amount]
           h == [NoEval EXCEPT !.op = "upsert", !.at = s, !.amount = amount, !.read = amounts,
                   !.pc = IF amount > 0 THEN "observe" ELSE "resume"]
<1>2. Decide(e, h)  BY DEF UpsertPolicy
<1>3. amounts \in [Scopes -> Nat]  BY <1>1
<1> HIDE DEF amounts
<1>4. h \in Evals /\ h.approval = 0 /\ h.pc \in {"observe", "resume"}
  BY <1>1, <1>3 DEF Evals, EvalPCs
<1>5. limit' \in [Scopes -> Nat]  BY <1>1, BudgetsRows DEF UpsertPolicy
<1>6. \A t \in Scopes : Hard(t)' = Hard(t)  BY DEF UpsertPolicy, Hard
<1> HIDE DEF h
<1>7. QED
  BY <1>1, DecideTypes, <1>2, <1>4, <1>5, <1>6, BudgetsRows, EvalStepInv DEF UpsertPolicy, EvalAt, Takes

\* resolveIncident up to its first write.
LEMMA BudgetsResolveInv ==
  ASSUME BudgetsAssumption, BudgetsIInv, NEW e \in Evaluators, NEW s \in Policed,
         NEW action \in {"raise", "dismiss"}, NEW n \in Nat, ResolveIncident(e, s, action, n)
  PROVE  BudgetsIInv'
<1>1. /\ BudgetsTypeOK /\ NoEval \in Evals /\ NoEval.approval = 0 /\ s \in Scopes
  BY FinishedEval DEF BudgetsIInv, BudgetsAssumption
<1> DEFINE h == [NoEval EXCEPT !.op = action, !.at = s, !.amount = n,
                   !.approval = Hard(s).approval,
                   !.pc = IF action = "raise" THEN "observe" ELSE "dismiss"]
<1>2. Decide(e, h)  BY DEF ResolveIncident, Hard
<1>3. Hard(s).approval \in Nat
  <2>1. Hard(s) \in Incidents(Len(override)) /\ Len(override) \in Nat
    BY <1>1, BudgetsRows DEF Hard, Thresholds
  <2>2. QED  BY <2>1 DEF Incidents
<1>4. /\ h \in Evals /\ h.approval = Hard(s).approval /\ h.at = s
      /\ h.pc \in {"observe", "dismiss"} /\ HasApproval(h)
  BY <1>1, <1>3 DEF Evals, EvalPCs, HasApproval
<1>5. Takes(e, h)  BY <1>4 DEF Takes
<1>6. \A t \in Scopes : Hard(t)' = Hard(t)  BY DEF ResolveIncident, Hard
<1> HIDE DEF h
<1>7. QED
  BY <1>1, DecideTypes, <1>2, <1>4, <1>5, <1>6, BudgetsRows, EvalStepInv DEF ResolveIncident, EvalAt

\* The amount against the spend, the policy and the scope.
LEMMA ApplyInv ==
  ASSUME BudgetsAssumption, BudgetsIInv, NEW e \in Evaluators,
         \/ ObserveUpsert(e) \/ ObserveRaise(e) \/ RaiseLimit(e)
         \/ ResumeScope(e) \/ SelectOpen(e)
  PROVE  BudgetsIInv'
<1>1. BudgetsTypeOK /\ eval[e] \in Evals /\ eval[e].at \in Scopes  BY DEF BudgetsIInv, BudgetsTypeOK, Evals
<1>2. NoEval \in Evals /\ NoEval.approval = 0 /\ NoEval.pc = "idle"  BY <1>1, FinishedEval
<1>3. ASSUME NEW pc \in {"raise", "resume", "openRows", "resolve"}
      PROVE  LET h == [eval[e] EXCEPT !.pc = pc] IN h \in Evals /\ h.pc = pc /\ Takes(e, h)
  BY <1>1 DEF Evals, EvalPCs, Takes, HasApproval
<1>4. CASE ObserveUpsert(e)
  <2>1. spend[Here(e)] \in Nat  BY <1>1, BudgetsRows DEF Here
  <2>2. eval[e].approval = 0
    BY <1>4 DEF ObserveUpsert, EvalAt, BudgetsIInv, EvalsOK, EvalOK, InHand, HasApproval
  <2>3. PICK pc \in {"resume", "softLook"} :
          eval' = [eval EXCEPT ![e] = [eval[e] EXCEPT !.seen = spend[Here(e)], !.pc = pc]]
    BY <1>4 DEF ObserveUpsert
  <2> DEFINE h == [eval[e] EXCEPT !.seen = spend[Here(e)], !.pc = pc]
  <2>4. h \in Evals /\ h.approval = 0 /\ h.pc = pc /\ eval' = [eval EXCEPT ![e] = h]
    BY <1>1, <2>1, <2>2, <2>3 DEF Evals, EvalPCs
  <2> HIDE DEF h
  <2>5. QED  BY <1>4, <2>4, EvalMoves DEF ObserveUpsert, EvalAt, Takes
<1>5. CASE ObserveRaise(e)
  <2>1. PICK h : /\ h = [eval[e] EXCEPT !.pc = "raise"] \/ h = NoEval
                 /\ eval' = [eval EXCEPT ![e] = h]
    BY <1>5 DEF ObserveRaise
  <2>2. h \in Evals /\ Takes(e, h) /\ h.pc \notin {"hardInsert", "mark"}
    BY <1>2, <1>3, <2>1 DEF Takes
  <2>3. QED  BY <1>5, <2>1, <2>2, EvalMoves DEF ObserveRaise, EvalAt
<1>6. CASE RaiseLimit(e)
  <2> DEFINE h == [eval[e] EXCEPT !.pc = "resume"]
  <2>1. h \in Evals /\ h.pc = "resume" /\ Takes(e, h)  BY <1>3
  <2>2. eval' = [eval EXCEPT ![e] = h]  BY <1>6 DEF RaiseLimit, EvalGo
  <2>3. limit' \in [Scopes -> Nat]
    <3>1. eval[e].amount \in Nat  BY <1>1 DEF Evals
    <3>2. QED  BY <1>1, <1>6, <3>1, BudgetsRows DEF RaiseLimit
  <2>4. \A t \in Scopes : Hard(t)' = Hard(t)  BY <1>6 DEF RaiseLimit, Hard
  <2> HIDE DEF h
  <2>5. QED  BY <1>1, <1>6, <2>1, <2>2, <2>3, <2>4, BudgetsRows, EvalStepInv DEF RaiseLimit, EvalAt
<1>7. CASE ResumeScope(e)
  <2>1. PICK pc \in {"resolve", "openRows"} : eval' = [eval EXCEPT ![e] = [eval[e] EXCEPT !.pc = pc]]
    BY <1>7 DEF ResumeScope, EvalGo
  <2> DEFINE h == [eval[e] EXCEPT !.pc = pc]
  <2>2. h \in Evals /\ h.pc = pc /\ Takes(e, h)  BY <1>3
  <2>3. eval' = [eval EXCEPT ![e] = h]  BY <2>1
  <2>4. state' \in [Scopes -> ScopeStates]
    <3>1. Active \in ScopeStates  BY DEF Active, Scope, ScopeStates
    <3>2. QED  BY <1>1, <1>7, <3>1, BudgetsRows DEF ResumeScope
  <2>5. \A t \in Scopes : Hard(t)' = Hard(t)  BY <1>7 DEF ResumeScope, Hard
  <2> HIDE DEF h
  <2>6. QED  BY <1>1, <1>7, <2>2, <2>3, <2>4, <2>5, BudgetsRows, EvalStepInv DEF ResumeScope, EvalAt
<1>8. CASE SelectOpen(e)
  <2>1. PICK n \in {0, Hard(Here(e)).approval} :
          eval' = [eval EXCEPT ![e] = [eval[e] EXCEPT !.pc = "resolve", !.approval = n]]
    BY <1>8 DEF SelectOpen, Hard
  <2>2. n \in Nat
    <3>1. Hard(Here(e)) \in Incidents(Len(override)) /\ Len(override) \in Nat
      BY <1>1, BudgetsRows DEF Hard, Thresholds, Here
    <3>2. QED  BY <2>1, <3>1 DEF Incidents
  <2> DEFINE h == [eval[e] EXCEPT !.pc = "resolve", !.approval = n]
  <2>3. /\ h \in Evals /\ h.pc = "resolve" /\ h.approval = n /\ h.at = Here(e)
        /\ eval' = [eval EXCEPT ![e] = h]
    BY <1>1, <2>1, <2>2 DEF Evals, EvalPCs, Here
  <2> HIDE DEF h
  <2>4. Takes(e, h)  BY <2>1, <2>3 DEF Takes, HasApproval
  <2>5. QED  BY <1>8, <2>3, <2>4, EvalMoves DEF SelectOpen, EvalAt
<1>9. QED  BY <1>4, <1>5, <1>6, <1>7, <1>8

\* The request closes what its approval belongs to.
LEMMA CloseInv ==
  ASSUME BudgetsAssumption, BudgetsIInv, NEW e \in Evaluators, ResolveOpen(e) \/ Dismiss(e)
  PROVE  BudgetsIInv'
<1>0. BudgetsTypeOK /\ eval[e] \in Evals  BY DEF BudgetsIInv, BudgetsTypeOK
<1>1. PICK s \in Scopes : s = Here(e)  BY <1>0 DEF Evals, Here
<1>2. /\ \A t \in Scopes : incident[t] \in [Thresholds -> Incidents(Len(override))]
      /\ Thresholds = {"soft", "hard"}
  BY <1>0, BudgetsRows DEF Thresholds
<1> DEFINE h == [eval[e] EXCEPT !.pc = "mark"]
<1>3. h \in Evals /\ h.pc = "mark" /\ h.at = s /\ h.approval = InHand(e)
  BY <1>0, <1>1 DEF Evals, EvalPCs, Here, InHand
<1>4. eval' = [eval EXCEPT ![e] = h] /\ override' = override
  BY DEF ResolveOpen, Dismiss, EvalGo
<1> HIDE DEF h
<1>5. /\ incident' \in [Scopes -> [Thresholds -> Incidents(Len(override))]]
      /\ \A t \in Scopes \ {s} : Hard(t)' = Hard(t)
      /\ Hard(s)'.approval \in {0, Hard(s).approval}
      /\ Hard(s)'.status = "open" =>
            Hard(s)' = Hard(s) /\ Hard(s).approval # InHand(e)
  <2>1. CASE ResolveOpen(e)
    <3> DEFINE row(i) == IF i.status = "open" THEN [i EXCEPT !.status = "resolved"] ELSE i
               both == [t \in Thresholds |-> row(incident[s][t])]
    <3>1. incident' = [incident EXCEPT ![s] = both]  BY <1>1, <2>1 DEF ResolveOpen
    <3>2. \A i \in Incidents(Len(override)) :
            row(i) \in Incidents(Len(override)) /\ row(i).approval = i.approval /\ row(i).status # "open"
      BY DEF Incidents
    <3> HIDE DEF row
    <3>3. both \in [Thresholds -> Incidents(Len(override))] /\ both["hard"] = row(incident[s]["hard"])
      BY <1>2, <3>2
    <3>4. incident[s]["hard"] \in Incidents(Len(override))  BY <1>2
    <3> HIDE DEF both
    <3>5. incident' \in [Scopes -> [Thresholds -> Incidents(Len(override))]]
      BY <1>0, <3>1, <3>3, BudgetsRows
    <3>6. Hard(s)' = row(incident[s]["hard"]) /\ \A t \in Scopes \ {s} : Hard(t)' = Hard(t)
      BY <1>0, <3>1, <3>3, BudgetsRows DEF Hard
    <3>7. QED  BY <3>2, <3>4, <3>5, <3>6 DEF Hard
  <2>2. CASE Dismiss(e)
    <3>1. NoIncident \in Incidents(Len(override)) /\ NoIncident.approval = 0 /\ NoIncident.status = "none"
      <4>1. Len(override) \in Nat  BY <1>0, BudgetsRows
      <4>2. QED  BY <4>1 DEF NoIncident, Incidents
    <3>2. PICK i : /\ i = IF Hard(s).approval = InHand(e) THEN NoIncident ELSE Hard(s)
                   /\ incident' = [incident EXCEPT ![s]["hard"] = i]
      BY <1>1, <2>2 DEF Dismiss, Hard, InHand
    <3>3. i \in Incidents(Len(override))  BY <1>2, <3>1, <3>2 DEF Hard
    <3>4. /\ incident' \in [Scopes -> [Thresholds -> Incidents(Len(override))]]
          /\ Hard(s)' = i /\ \A t \in Scopes \ {s} : Hard(t)' = Hard(t)
      BY <1>0, <3>2, <3>3, HardRow
    <3>5. QED  BY <3>1, <3>2, <3>4
  <2>3. QED  BY <2>1, <2>2
<1>6. eval' \in [Evaluators -> Evals] /\ eval'[e] = h /\ \A f \in Evaluators \ {e} : eval'[f] = eval[f]
  BY <1>0, <1>3, <1>4, BudgetsRows
<1>7. BudgetsTypeOK'
  <2>1. UNCHANGED <<limit, spend, state, budgetRun, start, aborted, events>>  BY DEF ResolveOpen, Dismiss
  <2>2. QED  BY <1>0, <1>4, <1>5, <1>6, <2>1 DEF BudgetsTypeOK, Incidents
<1>8. OwnApprovals'  BY <1>5 DEF BudgetsIInv, OwnApprovals
<1>a. \A n : Awaited(n) => Awaited(n)'  BY <1>4 DEF Awaited, ResolveOpen, Dismiss
<1>9. OpenIncidentsAreDecidable'
  BY <1>5, <1>a DEF BudgetsIInv, OpenIncidentsAreDecidable, Hard
<1>10. EvalOK(e) /\ ~EvalAt(e, "hardInsert")
  BY DEF BudgetsIInv, EvalsOK, ResolveOpen, Dismiss, EvalAt
<1>11. EvalOK(e)'
  BY <1>1, <1>3, <1>4, <1>5, <1>6, <1>10 DEF EvalOK, InHand, EvalAt, Here, HasApproval
<1>12. ASSUME NEW f \in Evaluators, f # e PROVE EvalOK(f)'
  <2>1. EvalOK(f) /\ eval'[f] = eval[f] /\ eval[f].at \in Scopes
    BY <1>0, <1>6, <1>12, BudgetsRows DEF BudgetsIInv, EvalsOK, Evals
  <2>2. EvalAt(f, "hardInsert") => NewApproval(f)'
    BY <1>3, <1>5, <1>6, <1>a, <2>1 DEF EvalOK, NewApproval, InHand
  <2>3. QED  BY <1>4, <1>5, <2>1, <2>2 DEF EvalOK, InHand, EvalAt, Here, HasApproval
<1>13. QED  BY <1>7, <1>8, <1>9, <1>11, <1>12 DEF BudgetsIInv, EvalsOK

\* The approval it marks belongs to no open incident.
LEMMA MarkInv ==
  ASSUME BudgetsAssumption, BudgetsIInv, NEW e \in Evaluators, MarkApproval(e)
  PROVE  BudgetsIInv'
<1>1. BudgetsTypeOK /\ eval[e] \in Evals /\ eval[e].at \in Scopes /\ EvalAt(e, "mark") /\ EvalOK(e)
  BY DEF BudgetsIInv, BudgetsTypeOK, Evals, EvalsOK, MarkApproval
<1>2. NoEval \in Evals /\ NoEval.approval = 0 /\ NoEval.pc = "idle"  BY <1>1, FinishedEval
<1>3. eval' = [eval EXCEPT ![e] = NoEval] /\ UNCHANGED <<limit, spend, state, incident, budgetRun, start, aborted, events>>
  BY DEF MarkApproval
<1>4. eval' \in [Evaluators -> Evals] /\ eval'[e] = NoEval /\ \A f \in Evaluators \ {e} : eval'[f] = eval[f]
  BY <1>1, <1>2, <1>3, BudgetsRows
<1>5. /\ override' \in Seq(Decisions) /\ Len(override') = Len(override)
      /\ \A i \in 1..Len(override) : i # InHand(e) => override'[i] = override[i]
  <2>1. override \in Seq(Decisions)  BY <1>1, BudgetsRows
  <2>2. PICK x \in Decisions :
          override' = override \/ override' = [override EXCEPT ![InHand(e)] = x]
    BY DEF MarkApproval, Decisions, InHand
  <2>3. QED  BY <2>1, <2>2
<1>6. \A s \in Scopes : /\ Hard(s)' = Hard(s) /\ Hard(s).approval \in 0..Len(override)
                        /\ Hard(s).status = "open" => Hard(s).approval # 0 /\ Hard(s).approval # InHand(e)
  <2>1. \A s \in Scopes : Hard(s) \in Incidents(Len(override)) /\ Hard(s)' = Hard(s)
    BY <1>1, <1>3, BudgetsRows DEF Hard, Thresholds
  <2>2. \A s \in Scopes : Hard(s).status = "open" => Hard(s).approval # 0
    BY DEF BudgetsIInv, OpenIncidentsAreDecidable, Hard
  <2>3. QED  BY <1>1, <2>1, <2>2 DEF EvalOK, Here, Incidents
<1>7. BudgetsTypeOK'  BY <1>1, <1>3, <1>4, <1>5 DEF BudgetsTypeOK, Decisions
<1>8. OwnApprovals'  BY <1>6 DEF BudgetsIInv, OwnApprovals
<1>a. \A i \in 1..Len(override) : i # InHand(e) /\ Awaited(i) => Awaited(i)'
  BY <1>3, <1>5 DEF Awaited
<1>9. OpenIncidentsAreDecidable'
  <2>1. SUFFICES ASSUME NEW s \in Scopes, Hard(s).status = "open"
                 PROVE  Hard(s).approval # 0 /\ Awaited(Hard(s).approval)'
    BY <1>6 DEF OpenIncidentsAreDecidable, Hard, Awaited
  <2>2. Awaited(Hard(s).approval)
    BY <2>1 DEF BudgetsIInv, OpenIncidentsAreDecidable, Hard
  <2>3. Hard(s).approval \in 1..Len(override)
    <3>1. Len(override) \in Nat  BY <1>1, BudgetsRows
    <3>2. QED  BY <1>6, <2>1, <3>1
  <2>4. QED  BY <1>6, <1>a, <2>1, <2>2, <2>3
<1>10. EvalOK(e)'
  <2>1. 0 <= Len(override')  BY <1>1, <1>5, BudgetsRows
  <2>2. QED  BY <1>2, <1>4, <2>1 DEF EvalOK, InHand, EvalAt
<1>11. ASSUME NEW f \in Evaluators, f # e PROVE EvalOK(f)'
  <2>1. EvalOK(f) /\ eval'[f] = eval[f] /\ eval[f].at \in Scopes /\ InHand(f) \in Nat
    BY <1>1, <1>4, <1>11, BudgetsRows DEF BudgetsIInv, EvalsOK, Evals, InHand
  <2>2. ASSUME EvalAt(f, "hardInsert") PROVE NewApproval(f)'
    <3>1. NewApproval(f) /\ InHand(f) \in 1..Len(override)
      <4>1. NewApproval(f) /\ InHand(f) <= Len(override) /\ InHand(f) # 0 /\ Len(override) \in Nat
        BY <1>1, <2>1, <2>2, BudgetsRows DEF EvalOK, NewApproval
      <4>2. QED  BY <2>1, <4>1
    <3>2. InHand(f) # InHand(e)  BY <1>11, <3>1 DEF NewApproval
    <3>3. InHand(f)' = InHand(f) /\ InHand(f) # 0  BY <2>1, <3>1 DEF InHand, NewApproval
    <3>4. Awaited(InHand(f))'  BY <1>a, <3>1, <3>2, <3>3 DEF NewApproval, Awaited
    <3>5. \A g \in Evaluators \ {f} : InHand(g)' # InHand(f)
      BY <1>2, <1>4, <3>1, <3>3 DEF NewApproval, InHand
    <3>6. QED  BY <1>6, <3>1, <3>3, <3>4, <3>5 DEF NewApproval
  <2>3. QED  BY <1>5, <1>6, <2>1, <2>2 DEF EvalOK, InHand, EvalAt, Here, HasApproval
<1>12. QED  BY <1>7, <1>8, <1>9, <1>10, <1>11 DEF BudgetsIInv, EvalsOK

\* A route changes an approval, and from then on it is one a route has changed.
LEMMA RouteInv ==
  ASSUME BudgetsAssumption, BudgetsIInv, NEW n \in DOMAIN override, NEW x \in Decisions, Route(n, x)
  PROVE  BudgetsIInv'
<1>1. BudgetsTypeOK /\ override \in Seq(Decisions) /\ n \in 1..Len(override) /\ n \in Nat
  BY BudgetsRows DEF BudgetsIInv
<1>2. override' = [override EXCEPT ![n] = x] /\ UNCHANGED <<limit, spend, state, incident, budgetRun, eval, start, aborted>>
  BY DEF Route
<1>3. override' \in Seq(Decisions) /\ Len(override') = Len(override)
  BY <1>1, <1>2
<1>4. events \in EventCounts /\ events' = [events EXCEPT !.handled = @ \cup {n}]
  BY <1>1, BudgetsRows DEF Route
<1>5. events' \in EventCounts /\ events'.handled = events.handled \cup {n}
  BY <1>1, <1>4 DEF EventCounts
<1>6. \A m : Awaited(m) => Awaited(m)'
  <2>1. ASSUME NEW m, m # n, Awaited(m) PROVE Awaited(m)'
    <3>1. override'[m] = override[m]  BY <1>1, <1>2, <2>1
    <3>2. QED  BY <1>5, <2>1, <3>1 DEF Awaited
  <2>2. Awaited(n)'  BY <1>5 DEF Awaited
  <2>3. QED  BY <2>1, <2>2
<1>7. BudgetsTypeOK'
  BY <1>1, <1>2, <1>3, <1>5 DEF BudgetsTypeOK, Decisions, EventCounts
<1>8. OwnApprovals'  BY <1>2 DEF BudgetsIInv, OwnApprovals, Hard
<1>9. OpenIncidentsAreDecidable'  BY <1>2, <1>6 DEF BudgetsIInv, OpenIncidentsAreDecidable
<1>10. ASSUME NEW e \in Evaluators PROVE EvalOK(e)'
  <2>1. EvalOK(e)  BY DEF BudgetsIInv, EvalsOK
  <2>2. EvalAt(e, "hardInsert") => NewApproval(e)'
    BY <1>2, <1>6, <2>1 DEF EvalOK, NewApproval, InHand, Hard
  <2>3. QED  BY <1>2, <1>3, <2>1, <2>2 DEF EvalOK, InHand, EvalAt, Here, HasApproval, Hard
<1>11. QED  BY <1>7, <1>8, <1>9, <1>10 DEF BudgetsIInv, EvalsOK

-----------------------------------------------------------------------------
(* The starts of runs and the board, which no evaluation takes *)

LEMMA BudgetsOtherInv ==
  ASSUME BudgetsAssumption, BudgetsIInv, UNCHANGED <<limit, spend, eval, incident, override, aborted>>,
         state' \in [Scopes -> ScopeStates],
         budgetRun' \in [RunIds -> [status : RunStatuses, agent : Scopes]],
         start' \in [Starters -> Starts],
         events' \in EventCounts, events.handled \subseteq events'.handled
  PROVE  BudgetsIInv'
<1>1. BudgetsTypeOK'  BY DEF BudgetsIInv, BudgetsTypeOK, EventCounts
<1>2. QED  BY <1>1, StaysPut DEF BudgetsIInv

\* A write of the status alone leaves the reason.
LEMMA OverwrittenTypes ==
  ASSUME BudgetsTypeOK, NEW s \in Scopes, NEW x \in {"active", "paused"}, Overwritten(s, x)
  PROVE  /\ state' \in [Scopes -> ScopeStates] /\ state'[s].status = x
         /\ \A t \in Scopes : state'[t].reason = state[t].reason /\ (t # s => state'[t] = state[t])
<1> DEFINE row == [state[s] EXCEPT !.status = x]
<1>1. state \in [Scopes -> ScopeStates] /\ state' = [state EXCEPT ![s] = row]
  BY BudgetsRows DEF Overwritten
<1>2. row \in ScopeStates /\ row.status = x /\ row.reason = state[s].reason
  BY <1>1 DEF ScopeStates
<1> HIDE DEF row
<1>3. QED  BY <1>1, <1>2

LEMMA BudgetsStartInv ==
  ASSUME BudgetsAssumption, BudgetsIInv, NEW c \in Starters,
         \/ \E a \in Staff, r \in RunIds \cup {0} : CheckAgent(c, r, a)
         \/ StartStep(c)
  PROVE  BudgetsIInv'
<1>1. /\ BudgetsTypeOK /\ start \in [Starters -> Starts] /\ start[c] \in Starts /\ NoStart \in Starts
      /\ budgetRun \in [RunIds -> [status : RunStatuses, agent : Scopes]]
  BY BudgetsRows DEF BudgetsIInv, Starts, NoStart, Scopes
<1>2. start' \in [Starters -> Starts]
  <2>1. CASE \E a \in Staff, r \in RunIds \cup {0} : CheckAgent(c, r, a)
    <3>1. PICK a \in Staff, r \in RunIds \cup {0}, pc \in {"row", "blocked"} :
            start' = [start EXCEPT ![c] = [pc |-> pc, run |-> r, agent |-> a, read |-> 0]]
      BY <2>1 DEF CheckAgent
    <3>2. [pc |-> pc, run |-> r, agent |-> a, read |-> 0] \in Starts  BY DEF Starts, Scopes
    <3>3. QED  BY <1>1, <3>1, <3>2
  <2>2. CASE CheckCompany(c) \/ CheckSpend(c)
    <3>1. PICK pc \in {"company", "agent", "go", "blocked"} :
            start' = [start EXCEPT ![c] = [start[c] EXCEPT !.pc = pc]]
      BY <2>2 DEF CheckCompany, CheckSpend, StartGo
    <3>2. [start[c] EXCEPT !.pc = pc] \in Starts  BY <1>1 DEF Starts
    <3>3. QED  BY <1>1, <3>1, <3>2
  <2>3. CASE ReadPolicy(c)
    <3>1. PICK s \in Scopes, pc \in {"companySpend", "agentSpend"} :
            start' = [start EXCEPT ![c] = [start[c] EXCEPT !.read = limit[s], !.pc = pc]]
      <4>1. Company \in Scopes /\ start[c].agent \in Scopes  BY <1>1 DEF Starts, Scopes
      <4>2. QED  BY <2>3, <4>1 DEF ReadPolicy
    <3>2. limit[s] \in Nat  BY <1>1, BudgetsRows
    <3>3. [start[c] EXCEPT !.read = limit[s], !.pc = pc] \in Starts  BY <1>1, <3>2 DEF Starts
    <3>4. QED  BY <1>1, <3>1, <3>3
  <2>4. CASE Refuse(c) \/ QueueRun(c) \/ ExecuteRun(c) \/ FinalizeAgent(c)
    BY <1>1, <2>4 DEF Refuse, QueueRun, ExecuteRun, FinalizeAgent
  <2>5. CASE ClaimRun(c)
    <3>1. [start[c] EXCEPT !.pc = "execute"] \in Starts  BY <1>1 DEF Starts
    <3>2. \/ start' = [start EXCEPT ![c] = [start[c] EXCEPT !.pc = "execute"]]
          \/ start' = [start EXCEPT ![c] = NoStart]
      BY <2>5 DEF ClaimRun, StartGo
    <3>3. QED  BY <1>1, <3>1, <3>2
  <2>6. ASSUME NEW r \in RunIds, ReadAgent(c, r) PROVE start' \in [Starters -> Starts]
    <3>1. budgetRun[r].agent \in Scopes  BY <1>1
    <3>2. [pc |-> "finalize", run |-> r, agent |-> budgetRun[r].agent, read |-> 0] \in Starts
      BY <3>1 DEF Starts
    <3>3. QED  BY <1>1, <2>6, <3>2 DEF ReadAgent
  <2>7. QED  BY <2>1, <2>2, <2>3, <2>4, <2>5, <2>6 DEF StartStep
<1>3. budgetRun' \in [RunIds -> [status : RunStatuses, agent : Scopes]]
  <2>1. start[c].agent \in Scopes  BY <1>1 DEF Starts
  <2>2. CASE QueueRun(c)  BY <1>1, <2>1, <2>2 DEF QueueRun, RunStatuses
  <2>3. CASE Refuse(c)  BY <1>1, <2>3 DEF Refuse, RunStatuses
  <2>4. CASE ClaimRun(c)  BY <1>1, <2>4 DEF ClaimRun, RunStatuses
  <2>5. QED
    BY <1>1, <2>2, <2>3, <2>4 DEF StartStep, CheckAgent, CheckCompany, ReadPolicy, CheckSpend,
      ExecuteRun, ReadAgent, FinalizeAgent
<1>4. UNCHANGED <<limit, spend, eval, incident, override, aborted, events>>
  BY DEF StartStep, CheckAgent, CheckCompany, ReadPolicy, CheckSpend, Refuse, QueueRun, ClaimRun,
    ExecuteRun, ReadAgent, FinalizeAgent
<1>5. state' \in [Scopes -> ScopeStates]
  <2>1. state \in [Scopes -> ScopeStates] /\ start[c].agent \in Scopes  BY <1>1, BudgetsRows DEF Starts
  <2>2. CASE ExecuteRun(c) \/ FinalizeAgent(c)
    BY <1>1, <2>1, <2>2, OverwrittenTypes DEF ExecuteRun, FinalizeAgent
  <2>3. QED
    BY <2>1, <2>2 DEF StartStep, CheckAgent, CheckCompany, ReadPolicy, CheckSpend, Refuse, QueueRun,
      ClaimRun, ReadAgent
<1>6. QED  BY <1>1, <1>2, <1>3, <1>4, <1>5, BudgetsRows, BudgetsOtherInv

\* The board's pauses, resumes and writes of the status alone.
BoardStep ==
    \/ \E a \in Staff \cap Policed : BoardPause(a) \/ BoardResume(a)
    \/ \E s \in Policed, status \in {"active", "paused"} : BoardPatch(s, status)

LEMMA BoardCounts ==
  ASSUME BudgetsAssumption, BudgetsTypeOK, ByTheBoard
  PROVE  /\ events' \in EventCounts /\ events'.handled = events.handled
         /\ events'.pauses > events.pauses
         /\ UNCHANGED <<limit, spend, incident, override, budgetRun, eval, start, aborted>>
<1>1. events \in EventCounts /\ MaxPauses \in Nat  BY BudgetsRows DEF BudgetsAssumption
<1>2. events.pauses < MaxPauses /\ events' = [events EXCEPT !.pauses = @ + 1]  BY DEF ByTheBoard
<1>3. /\ events' \in EventCounts /\ events'.handled = events.handled
      /\ events'.pauses > events.pauses
  BY <1>1, <1>2 DEF EventCounts
<1>4. QED  BY <1>3 DEF ByTheBoard

LEMMA BoardInv ==
  ASSUME BudgetsAssumption, BudgetsIInv, BoardStep \/ \E r \in RunIds : FinishRun(r)
  PROVE  BudgetsIInv'
<1>1. BudgetsTypeOK  BY DEF BudgetsIInv
<1>2. ASSUME BoardStep PROVE BudgetsIInv'
  <2>1. ByTheBoard  BY <1>2 DEF BoardStep, BoardPause, BoardResume, BoardPatch
  <2>2. Scope("paused", "manual") \in ScopeStates /\ Active \in ScopeStates
    BY DEF Active, Scope, ScopeStates
  <2>3. state \in [Scopes -> ScopeStates] /\ Policed \subseteq Scopes
    BY <1>1, BudgetsRows DEF BudgetsAssumption
  <2>4. state' \in [Scopes -> ScopeStates]
    <3>1. ASSUME NEW s \in Policed, NEW x \in {"active", "paused"}, BoardPatch(s, x)
          PROVE  state' \in [Scopes -> ScopeStates]
      BY <1>1, <2>3, <3>1, OverwrittenTypes DEF BoardPatch
    <3>2. QED  BY <1>2, <2>2, <2>3, <3>1 DEF BoardStep, BoardPause, BoardResume
  <2>5. QED  BY <1>1, <2>1, <2>4, BoardCounts, BudgetsRows, BudgetsOtherInv
<1>3. ASSUME NEW r \in RunIds, FinishRun(r) PROVE BudgetsIInv'
  <2>0. budgetRun \in [RunIds -> [status : RunStatuses, agent : Scopes]]  BY <1>1, BudgetsRows
  <2>1. budgetRun' \in [RunIds -> [status : RunStatuses, agent : Scopes]]
    <3>1. [budgetRun[r] EXCEPT !.status = "ended"] \in [status : RunStatuses, agent : Scopes]
      BY <2>0 DEF RunStatuses
    <3>2. budgetRun' = [budgetRun EXCEPT ![r] = [budgetRun[r] EXCEPT !.status = "ended"]]  BY <1>3 DEF FinishRun
    <3>3. QED  BY <2>0, <3>1, <3>2
  <2>2. QED  BY <1>1, <1>3, <2>1, BudgetsRows, BudgetsOtherInv DEF FinishRun
<1>4. QED  BY <1>2, <1>3

RouteStep(n) ==
    \/ RequestRevision(n) \/ ResubmitApproval(n)
    \/ DecideApproval(n, "approved") \/ DecideApproval(n, "rejected")

LEMMA BudgetsStepInv == ASSUME BudgetsAssumption PROVE BudgetsIInv /\ [BudgetsNext]_budgetVars => BudgetsIInv'
<1> SUFFICES ASSUME BudgetsIInv, [BudgetsNext]_budgetVars PROVE BudgetsIInv'  OBVIOUS
<1>1. ASSUME NEW e \in Evaluators, EvalStep(e) PROVE BudgetsIInv'
  BY <1>1, SoftInv, InsertApprovalInv, HardInsertInv, PauseInv, PoliciesInv, ApplyInv, CloseInv, MarkInv
  DEF EvalStep, EvaluatePolicy
<1>2. ASSUME NEW e \in Evaluators, NEW a \in Staff, CostEvent(e, a) PROVE BudgetsIInv'
  BY <1>2, CostInv
<1>3. ASSUME NEW e \in Evaluators, NEW s \in Policed, NEW amount \in Amounts,
             UpsertPolicy(e, s, amount) \/ ResolveIncident(e, s, "raise", amount)
      PROVE  BudgetsIInv'
  BY <1>3, UpsertInv, BudgetsResolveInv DEF BudgetsAssumption
<1>4. ASSUME NEW e \in Evaluators, NEW s \in Policed, ResolveIncident(e, s, "dismiss", 0)
      PROVE  BudgetsIInv'
  BY <1>4, BudgetsResolveInv
<1>5. ASSUME NEW c \in Starters,
             StartStep(c) \/ \E a \in Staff, r \in RunIds \cup {0} : CheckAgent(c, r, a)
      PROVE  BudgetsIInv'
  BY <1>5, BudgetsStartInv
<1>6. CASE UNCHANGED budgetVars
  <2>1. BudgetsTypeOK'  BY <1>6 DEF BudgetsIInv, BudgetsTypeOK, budgetVars
  <2>2. QED  BY <1>6, <2>1, StaysPut DEF BudgetsIInv, budgetVars
<1>7. ASSUME NEW n \in DOMAIN override, RouteStep(n) PROVE BudgetsIInv'
  BY <1>7, RouteInv DEF RouteStep, RequestRevision, ResubmitApproval, DecideApproval, Decisions
<1>8. QED  BY <1>1, <1>2, <1>3, <1>4, <1>5, <1>6, <1>7, BoardInv DEF BudgetsNext, BoardStep, RouteStep

-----------------------------------------------------------------------------
\* The variables of Budgets keep their types, whatever requests are in flight.
THEOREM BudgetsTypeCorrect == ASSUME BudgetsAssumption PROVE BudgetsSpec => []BudgetsTypeOK
<1>1. BudgetsIInv => BudgetsTypeOK  BY DEF BudgetsIInv
<1>2. QED  BY BudgetsInitInv, BudgetsStepInv, <1>1, PTL DEF BudgetsSpec

\* An open incident still waits for its own decision, unless an approval route was
\* called on its approval: no request of the budgets closes the approval of an incident
\* before it closes the incident (resolveOpenIncidentsForPolicy, markApprovalStatus
\* of budgets.ts), for any number of cost events, policies and decisions at once.
THEOREM IncidentsStayDecidable == ASSUME BudgetsAssumption PROVE BudgetsSpec => []OpenIncidentsAreDecidable
<1>1. BudgetsIInv => OpenIncidentsAreDecidable  BY DEF BudgetsIInv
<1>2. QED  BY BudgetsInitInv, BudgetsStepInv, <1>1, PTL DEF BudgetsSpec

\* An agent the board paused stays so until the board changes its status, but for a
\* status that one of its runs writes: no hard stop takes the pause over, no raise or
\* policy ends it (pauseScopeForBudget and resumeScopeFromBudget of budgets.ts beside
\* executeRun and finalizeAgentStatus of heartbeat.ts).
THEOREM BudgetsKeepPauses == ASSUME BudgetsAssumption PROVE BudgetsSpec => BoardPauseIsKept
<1>1. ASSUME BudgetsIInv, [BudgetsNext]_budgetVars PROVE [KeepsBoardPause]_budgetVars
  <2>1. SUFFICES ASSUME NEW a \in Staff, PausedByBoard(a), ~PausedByBoard(a)'
                 PROVE  \/ events'.pauses > events.pauses
                        \/ ~Paused(a)' /\ \E c \in Starters : /\ start[c].agent = a
                                                              /\ start[c].pc \in {"execute", "finalize"}
                                                              /\ start'[c].pc = "idle"
    BY DEF KeepsBoardPause
  <2>2. /\ BudgetsTypeOK /\ state \in [Scopes -> ScopeStates] /\ a \in Scopes /\ a # Company
        /\ start \in [Starters -> Starts]
    BY <1>1, BudgetsRows DEF BudgetsIInv, Scopes, BudgetsAssumption
  <2>3. state[a].status = "paused" /\ state[a].reason # "budget" /\ state'[a] # state[a]
    BY <2>1 DEF PausedByBoard, Paused
  <2>4. CASE BoardStep
    <3>1. ByTheBoard  BY <2>4 DEF BoardStep, BoardPause, BoardResume, BoardPatch
    <3>2. QED  BY <2>2, <3>1, BoardCounts
  <2>5. ASSUME NEW e \in Evaluators, PauseScope(e) PROVE FALSE
    BY <2>2, <2>3, <2>5 DEF PauseScope, Paused
  <2>6. ASSUME NEW e \in Evaluators, ResumeScope(e) PROVE FALSE
    BY <2>2, <2>3, <2>6 DEF ResumeScope
  <2>7. ASSUME NEW e \in Evaluators, EvalStep(e) PROVE FALSE
    BY <2>3, <2>5, <2>6, <2>7 DEF EvalStep, EvaluatePolicy, SoftLook, SoftInsert, SoftResolve,
      HardLook, InsertApproval, HardInsert, SelectWork, CancelWork, SelectPolicies, ObserveNext,
      ObserveUpsert, ObserveRaise, RaiseLimit, SelectOpen, ResolveOpen, Dismiss, MarkApproval
  <2>8. ASSUME NEW c \in Starters, StartStep(c)
        PROVE  /\ ~Paused(a)' /\ start[c].agent = a
               /\ start[c].pc \in {"execute", "finalize"} /\ start'[c].pc = "idle"
    <3>1. ExecuteRun(c) \/ FinalizeAgent(c)
      BY <2>3, <2>8 DEF StartStep, CheckCompany, ReadPolicy, CheckSpend, Refuse, QueueRun, ClaimRun, ReadAgent
    <3>2. Overwritten(start[c].agent, "active")
      BY <2>3, <3>1 DEF ExecuteRun, FinalizeAgent
    <3>3. start[c].agent \in Scopes  BY <2>2 DEF Starts
    <3>4. start[c].agent = a /\ state'[a].status = "active"
      BY <2>2, <2>3, <3>2, <3>3, OverwrittenTypes
    <3>5. start'[c].pc = "idle"  BY <2>2, <3>1 DEF ExecuteRun, FinalizeAgent, NoStart
    <3>6. QED  BY <3>1, <3>4, <3>5 DEF Paused, ExecuteRun, FinalizeAgent, StartAt
  <2>9. CASE \E c \in Starters, b \in Staff, r \in RunIds \cup {0} : CheckAgent(c, r, b)
    BY <2>3, <2>9 DEF CheckAgent
  <2>10. CASE \E n \in DOMAIN override : RouteStep(n)
    BY <2>3, <2>10 DEF RouteStep, RequestRevision, ResubmitApproval, DecideApproval, Route
  <2>11. QED
    BY <1>1, <2>3, <2>4, <2>7, <2>8, <2>9, <2>10 DEF BudgetsNext, BoardStep, RouteStep, budgetVars,
      CostEvent, UpsertPolicy, ResolveIncident, FinishRun
<1>2. QED  BY BudgetsInitInv, BudgetsStepInv, <1>1, PTL DEF BudgetsSpec, BoardPauseIsKept

-----------------------------------------------------------------------------
(* A hard stop reaches all the work of its scope                             *)

\* An evaluation on its way from the first look at a policy to its work.
Enforcing ==
    {"softLook", "softInsert", "softResolve", "hardLook", "approval", "hardInsert", "pause", "select"}

\* A start no look at the budget of the scope can refuse any more.
Spared(c, s) ==
    LET h == start[c] IN
        IF s = Company
        THEN \/ h.pc \in {"agent", "agentSpend", "go"}
             \/ h.pc = "companySpend" /\ ~Exhausted(s, h.read, spend[s])
        ELSE /\ h.agent = s
             /\ h.pc = "go" \/ (h.pc = "agentSpend" /\ ~Exhausted(s, h.read, spend[s]))

\* A run that runs in the scope, or that such a start is about to claim.
AtStake(r, s) ==
    /\ r \in WorkOf(s)
    /\ \/ budgetRun[r].status = "running"
       \/ \E c \in Starters : start[c].run = r /\ Spared(c, s)

\* An evaluation that will cancel the run: it has yet to read the policies, to
\* come to this one with an amount that is used up, or to select the work; or it
\* has the run among what it selected.
Reaches(e, s, r) ==
    LET h == eval[e] IN
        \/ h.pc = "policies" /\ h.op = "cost" /\ s \in {h.at, Company}
        \/ /\ h.pc \in Enforcing \cup {"next", "cancel"} /\ h.op = "cost"
           /\ s \in h.scopes /\ Exhausted(s, h.read[s], spend[s])
        \/ h.pc = "observe" /\ h.op = "upsert" /\ h.at = s /\ h.amount <= spend[s]
        \/ h.pc \in Enforcing /\ h.at = s /\ h.seen >= h.read[s]
        \/ h.pc = "cancel" /\ h.at = s /\ r \in h.work

\* What is at stake in a scope that has used up its budget, some evaluation reaches;
WorkReached ==
    ~aborted => \A s \in Scopes, r \in RunIds :
        Over(s) /\ AtStake(r, s) => \E e \in Evaluators : Reaches(e, s, r)

\* a start is about a run of its agent;
StartsKnown ==
    \A c \in Starters : start[c].run # 0 =>
        /\ budgetRun[start[c].run].status # "none"
        /\ budgetRun[start[c].run].agent = start[c].agent

\* a change of a policy enforces the amount it has written.
UpsertsKnown ==
    \A e \in Evaluators : EvalAt(e, "observe") /\ eval[e].op = "upsert"
        => eval[e].read[Here(e)] = eval[e].amount

WorkInv == StartsKnown /\ UpsertsKnown /\ WorkReached

\* A raise replaces a limit in force by one that is no smaller.
RaisesRaise ==
    \A e \in Evaluators : RaiseLimit(e) => 0 < limit[Here(e)] /\ limit[Here(e)] <= eval[e].amount

LEMMA SoftIsSooner ==
  ASSUME BudgetsAssumption, NEW n \in Nat
  PROVE  SoftThreshold(n) \in Int /\ SoftThreshold(n) <= n
<1> DEFINE k == n * WarnPercent
<1>1. WarnPercent \in 1..100  BY DEF BudgetsAssumption
<1>2. k \in Nat /\ k <= n * 100
  <2>1. n * (100 - WarnPercent) >= 0  BY <1>1
  <2>2. n * (100 - WarnPercent) = n * 100 - n * WarnPercent  BY <1>1
  <2>3. k \in Nat  BY <1>1
  <2>4. QED  BY <2>1, <2>2, <2>3
<1> HIDE DEF k
<1>3. (k + 99) \div 100 \in Int /\ (k + 99) \div 100 <= n  BY <1>2
<1>4. QED  BY <1>3 DEF SoftThreshold, k

LEMMA WorkInitInv == ASSUME BudgetsAssumption PROVE BudgetsInit => WorkInv
<1> SUFFICES ASSUME BudgetsInit PROVE WorkInv  OBVIOUS
<1>1. \A c \in Starters : start[c].run = 0  BY DEF BudgetsInit, NoStart
<1>2. \A e \in Evaluators : eval[e].pc = "idle"  BY DEF BudgetsInit, NoEval
<1>3. \A r \in RunIds, s \in Scopes : r \notin WorkOf(s)  BY DEF BudgetsInit, NoBudgetRun, WorkOf
<1>4. QED  BY <1>1, <1>2, <1>3 DEF WorkInv, StartsKnown, UpsertsKnown, WorkReached, AtStake, EvalAt

\* A step of one evaluation that spares no run it was to reach, but may cancel some.
LEMMA EvalReaches ==
  ASSUME BudgetsTypeOK, WorkInv, NEW e \in Evaluators, NEW h,
         eval' = [eval EXCEPT ![e] = h], UNCHANGED <<start, spend>>, aborted => aborted',
         \A s \in Scopes : Over(s)' => Over(s),
         \A r \in RunIds : \/ budgetRun'[r] = budgetRun[r]
                           \/ /\ budgetRun'[r].status = "cancelled"
                              /\ budgetRun'[r].agent = budgetRun[r].agent,
         h.pc = "observe" /\ h.op = "upsert" => h.read[h.at] = h.amount,
         ~aborted' => \A s \in Scopes, r \in RunIds :
            Over(s) /\ r \in WorkOf(s) /\ budgetRun'[r] = budgetRun[r] /\ Reaches(e, s, r)
                => Reaches(e, s, r)'
  PROVE  WorkInv'
<1>1. eval'[e] = h /\ \A f \in Evaluators \ {e} : eval'[f] = eval[f]  BY DEF BudgetsTypeOK
<1>2. StartsKnown'
  <2> SUFFICES ASSUME NEW c \in Starters, start[c].run # 0
               PROVE  /\ budgetRun'[start[c].run].status # "none"
                      /\ budgetRun'[start[c].run].agent = start[c].agent
    BY DEF StartsKnown
  <2>1. start[c].run \in RunIds  BY DEF BudgetsTypeOK, Starts
  <2>2. QED  BY <2>1 DEF WorkInv, StartsKnown
<1>3. UpsertsKnown'  BY <1>1 DEF WorkInv, UpsertsKnown, EvalAt, Here
<1>4. WorkReached'
  <2> SUFFICES ASSUME ~aborted', NEW s \in Scopes, NEW r \in RunIds, Over(s)', AtStake(r, s)'
               PROVE  \E f \in Evaluators : Reaches(f, s, r)'
    BY DEF WorkReached
  <2>1. budgetRun'[r] = budgetRun[r] /\ r \in WorkOf(s)  BY DEF AtStake, WorkOf
  <2>2. AtStake(r, s)  BY <2>1 DEF AtStake, Spared
  <2>3. PICK f \in Evaluators : Reaches(f, s, r)  BY <2>2 DEF WorkInv, WorkReached
  <2>4. CASE f = e  BY <2>1, <2>3, <2>4
  <2>5. CASE f # e  BY <1>1, <2>3, <2>5 DEF Reaches
  <2>6. QED  BY <2>4, <2>5
<1>5. QED  BY <1>2, <1>3, <1>4 DEF WorkInv

\* A step that puts nothing at stake where a budget is used up.
LEMMA NothingAtStake ==
  ASSUME WorkInv, UNCHANGED <<limit, spend, eval, aborted>>, StartsKnown',
         \A s \in Scopes, r \in RunIds : Over(s) /\ AtStake(r, s)' => AtStake(r, s)
  PROVE  WorkInv'
<1>1. UpsertsKnown'  BY DEF WorkInv, UpsertsKnown, EvalAt, Here
<1>2. WorkReached'  BY DEF WorkInv, WorkReached, Over, Reaches
<1>3. QED  BY <1>1, <1>2 DEF WorkInv

-----------------------------------------------------------------------------
(* One lemma for each statement of an evaluation                             *)

\* Going on to the next policy leaves those that are still to come.
LEMMA FinishedReaches ==
  ASSUME BudgetsTypeOK, NEW e \in Evaluators, NEW s \in Scopes, NEW r \in RunIds,
         eval' = [eval EXCEPT ![e] = Finished(e)], spend' = spend, Reaches(e, s, r),
         eval[e].pc \in Enforcing \cup {"cancel"},
         ~(eval[e].at = s /\ (EvalAt(e, "cancel") => r \in eval[e].work))
         \/ (s \in eval[e].scopes /\ eval[e].op = "cost" /\ Exhausted(s, eval[e].read[s], spend[s]))
  PROVE  Reaches(e, s, r)'
<1>1. eval[e] \in Evals /\ eval'[e] = Finished(e)  BY BudgetsRows
<1>2. /\ eval[e].op = "cost" /\ s \in eval[e].scopes /\ Exhausted(s, eval[e].read[s], spend[s])
  BY DEF Reaches, EvalAt, Enforcing
<1>3. /\ eval'[e].pc = "next" /\ eval'[e].op = "cost" /\ eval'[e].scopes = eval[e].scopes
      /\ eval'[e].read = eval[e].read
  <2>1. eval[e].scopes # {}  BY <1>2
  <2>2. Finished(e) = [eval[e] EXCEPT !.pc = "next", !.seen = 0, !.work = {}]
    BY <1>2, <2>1 DEF Finished
  <2>3. QED  BY <1>1, <1>2, <2>2 DEF Evals
<1>4. QED  BY <1>2, <1>3 DEF Reaches, Exhausted

LEMMA EnforcementReaches ==
  ASSUME BudgetsAssumption, BudgetsTypeOK, WorkInv, NEW e \in Evaluators, EvaluatePolicy(e)
  PROVE  WorkInv'
<1>1. /\ eval[e] \in Evals /\ eval[e].at \in Scopes
      /\ \A s \in Scopes : spend[s] \in Nat /\ limit[s] \in Nat /\ eval[e].read[s] \in Nat
      /\ eval[e].seen \in Nat
  BY BudgetsRows DEF Evals
<1>2. UNCHANGED <<start, spend, limit>> /\ (\A s \in Scopes : Over(s)' => Over(s))
  BY DEF EvaluatePolicy, SoftLook, SoftInsert, SoftResolve, HardLook, InsertApproval, HardInsert,
    PauseScope, SelectWork, CancelWork, Over
\* The evaluation moves on to the next step of the same policy,
<1> DEFINE On(p) == [eval[e] EXCEPT !.pc = p]
<1>3. ASSUME NEW p \in Enforcing, NEW h, eval' = [eval EXCEPT ![e] = h], h.pc = p,
             h.at = eval[e].at, h.op = eval[e].op, h.scopes = eval[e].scopes,
             h.read = eval[e].read, h.seen = eval[e].seen,
             eval[e].pc \in Enforcing, UNCHANGED <<aborted, budgetRun>>
      PROVE  WorkInv'
  <2>1. eval'[e] = h  BY <1>3 DEF BudgetsTypeOK
  <2>2. ASSUME NEW s \in Scopes, NEW r \in RunIds, Reaches(e, s, r) PROVE Reaches(e, s, r)'
    BY <1>2, <1>3, <2>1, <2>2 DEF Reaches, Enforcing
  <2>3. h.pc # "observe"  BY <1>3 DEF Enforcing
  <2>4. QED  BY <1>2, <1>3, <2>2, <2>3, EvalReaches
\* on to the next policy, below the hard threshold of this one,
<1>4. ASSUME eval' = [eval EXCEPT ![e] = Finished(e)], eval[e].pc \in Enforcing,
             eval[e].seen < eval[e].read[eval[e].at], UNCHANGED <<aborted, budgetRun>>
      PROVE  WorkInv'
  <2>1. Finished(e).pc # "observe"  BY FinishedEval
  <2>2. ASSUME NEW s \in Scopes, NEW r \in RunIds, Reaches(e, s, r) PROVE Reaches(e, s, r)'
    <3>1. s \in eval[e].scopes /\ eval[e].op = "cost" /\ Exhausted(s, eval[e].read[s], spend[s])
      BY <1>1, <1>4, <2>2 DEF Reaches, Enforcing
    <3>2. QED  BY <1>2, <1>4, <2>2, <3>1, FinishedReaches
  <2>3. QED  BY <1>2, <1>4, <2>1, <2>2, EvalReaches
\* or it dies.
<1>5. ASSUME eval' = [eval EXCEPT ![e] = NoEval], aborted', budgetRun' = budgetRun PROVE WorkInv'
  BY <1>2, <1>5, EvalReaches DEF NoEval
<1>6. ASSUME eval[e].pc \in Enforcing, eval' = [eval EXCEPT ![e] = AfterSoft(e)],
             UNCHANGED <<aborted, budgetRun>>
      PROVE  WorkInv'
  <2>1. CASE eval[e].seen >= eval[e].read[eval[e].at]
    <3>1. AfterSoft(e) = On("softResolve")  BY <2>1 DEF AfterSoft
    <3>2. QED  BY <1>1, <1>3, <1>6, <3>1 DEF Enforcing, Evals
  <2>2. CASE ~(eval[e].seen >= eval[e].read[eval[e].at])
    <3>1. AfterSoft(e) = Finished(e)  BY <2>2 DEF AfterSoft
    <3>2. eval[e].seen < eval[e].read[eval[e].at]  BY <1>1, <2>2
    <3>3. QED  BY <1>4, <1>6, <3>1, <3>2
  <2>3. QED  BY <2>1, <2>2
<1>7. CASE SoftLook(e)
  <2>1. eval[e].pc \in Enforcing /\ UNCHANGED <<aborted, budgetRun>>
    BY <1>7 DEF SoftLook, EvalAt, Enforcing
  <2>2. CASE eval' = [eval EXCEPT ![e] = AfterSoft(e)]  BY <1>6, <2>1, <2>2
  <2>3. CASE eval' = [eval EXCEPT ![e] = On("softInsert")]
    BY <1>1, <1>3, <2>1, <2>3 DEF Enforcing, Evals
  <2>4. QED  BY <1>7, <2>2, <2>3 DEF SoftLook
<1>8. CASE SoftInsert(e)
  <2>1. eval[e].pc \in Enforcing /\ budgetRun' = budgetRun  BY <1>8 DEF SoftInsert, EvalAt, Enforcing
  <2>2. QED  BY <1>5, <1>6, <1>8, <2>1 DEF SoftInsert
<1>9. CASE SoftResolve(e) \/ HardLook(e) \/ PauseScope(e)
  <2>1. eval[e].pc \in Enforcing /\ UNCHANGED <<aborted, budgetRun>>
    BY <1>9 DEF SoftResolve, HardLook, PauseScope, EvalAt, Enforcing
  <2>2. PICK p \in Enforcing : eval' = [eval EXCEPT ![e] = On(p)]
    BY <1>9 DEF SoftResolve, HardLook, PauseScope, EvalGo, Enforcing
  <2>3. QED  BY <1>1, <1>3, <2>1, <2>2 DEF Enforcing, Evals
<1>10. CASE InsertApproval(e)
  <2>1. eval[e].pc \in Enforcing /\ UNCHANGED <<aborted, budgetRun>>
    BY <1>10 DEF InsertApproval, EvalAt, Enforcing
  <2> DEFINE h == [eval[e] EXCEPT !.pc = "hardInsert", !.approval = Len(override) + 1]
  <2>2. eval' = [eval EXCEPT ![e] = h]  BY <1>10 DEF InsertApproval
  <2>3. QED  BY <1>1, <1>3, <2>1, <2>2 DEF Enforcing, Evals
<1>11. CASE HardInsert(e)
  <2>1. eval[e].pc \in Enforcing /\ budgetRun' = budgetRun  BY <1>11 DEF HardInsert, EvalAt, Enforcing
  <2> DEFINE h == [eval[e] EXCEPT !.pc = "pause", !.approval = 0]
  <2>2. CASE eval' = [eval EXCEPT ![e] = h] /\ aborted' = aborted
    BY <1>1, <1>3, <2>1, <2>2 DEF Enforcing, Evals
  <2>3. QED  BY <1>5, <1>11, <2>1, <2>2 DEF HardInsert
<1>12. CASE SelectWork(e)
  <2>1. EvalAt(e, "select") /\ UNCHANGED <<aborted, budgetRun>>  BY <1>12 DEF SelectWork
  <2> DEFINE h == [eval[e] EXCEPT !.work = WorkOf(Here(e)), !.pc = "cancel"]
  <2>2. ASSUME NEW s \in Scopes, NEW r \in RunIds, r \in WorkOf(s), Reaches(e, s, r)
        PROVE  Reaches(e, s, r)'
    <3>1. CASE WorkOf(Here(e)) = {}
      <4>1. eval' = [eval EXCEPT ![e] = Finished(e)]  BY <1>12, <3>1 DEF SelectWork
      <4>2. eval[e].at # s  BY <2>2, <3>1 DEF Here
      <4>3. QED  BY <1>2, <2>1, <2>2, <4>1, <4>2, FinishedReaches DEF EvalAt, Enforcing
    <3>2. CASE WorkOf(Here(e)) # {}
      <4>1. eval'[e] = h  BY <1>1, <1>12, <3>2 DEF SelectWork, BudgetsTypeOK
      <4>2. /\ h.pc = "cancel" /\ h.work = WorkOf(Here(e)) /\ h.at = eval[e].at
            /\ h.op = eval[e].op /\ h.scopes = eval[e].scopes /\ h.read = eval[e].read
        BY <1>1 DEF Evals
      <4> HIDE DEF h
      <4>3. QED  BY <1>2, <2>1, <2>2, <4>1, <4>2 DEF Reaches, EvalAt, Enforcing, Here
    <3>3. QED  BY <3>1, <3>2
  <2>3. PICK k : eval' = [eval EXCEPT ![e] = k] /\ k.pc # "observe"
    <3>1. h.pc # "observe" /\ Finished(e).pc # "observe"  BY <1>1, FinishedEval DEF Evals
    <3>2. QED  BY <1>12, <3>1 DEF SelectWork
  <2>4. QED  BY <1>2, <2>1, <2>2, <2>3, EvalReaches
<1>13. CASE CancelWork(e)
  <2>1. EvalAt(e, "cancel") /\ aborted' = aborted  BY <1>13 DEF CancelWork
  <2>2. PICK r \in eval[e].work :
          /\ budgetRun' = IF Here(e) \in Staff \/ r \in WorkOf(Company)
                          THEN [budgetRun EXCEPT ![r].status = "cancelled"] ELSE budgetRun
          /\ eval' = [eval EXCEPT ![e] = IF eval[e].work = {r} THEN Finished(e)
                                         ELSE [@ EXCEPT !.work = eval[e].work \ {r}]]
    BY <1>13 DEF CancelWork
  <2>3. r \in RunIds /\ budgetRun \in [RunIds -> [status : RunStatuses, agent : Scopes]]
    BY <1>1, BudgetsRows DEF Evals
  <2>4. \A q \in RunIds : \/ budgetRun'[q] = budgetRun[q]
                          \/ budgetRun'[q].status = "cancelled" /\ budgetRun'[q].agent = budgetRun[q].agent
    BY <2>2, <2>3
  <2> DEFINE h == [eval[e] EXCEPT !.work = eval[e].work \ {r}]
  <2>5. ASSUME NEW s \in Scopes, NEW q \in RunIds, q \in WorkOf(s), budgetRun'[q] = budgetRun[q],
               Reaches(e, s, q)
        PROVE  Reaches(e, s, q)'
    <3>1. eval[e].at = s => q # r
      <4>1. SUFFICES ASSUME eval[e].at = s, q = r PROVE FALSE  OBVIOUS
      <4>2. Here(e) \in Staff \/ r \in WorkOf(Company)  BY <2>5, <4>1 DEF Here, Scopes, WorkOf
      <4>3. budgetRun'[q].status = "cancelled"  BY <2>2, <2>3, <4>1, <4>2
      <4>4. QED  BY <2>5, <4>3 DEF WorkOf
    <3>2. CASE eval[e].work = {r}
      <4>1. eval' = [eval EXCEPT ![e] = Finished(e)]  BY <2>2, <3>2
      <4>2. QED  BY <1>2, <2>1, <2>5, <3>1, <3>2, <4>1, FinishedReaches DEF EvalAt
    <3>3. CASE eval[e].work # {r}
      <4>1. eval'[e] = h  BY <2>2, <3>3 DEF BudgetsTypeOK
      <4>2. /\ h.pc = "cancel" /\ h.work = eval[e].work \ {r} /\ h.at = eval[e].at
            /\ h.op = eval[e].op /\ h.scopes = eval[e].scopes /\ h.read = eval[e].read
        BY <1>1, <2>1 DEF Evals, EvalAt
      <4> HIDE DEF h
      <4>3. QED  BY <1>2, <2>1, <2>5, <3>1, <4>1, <4>2 DEF Reaches, EvalAt, Enforcing
    <3>4. QED  BY <3>2, <3>3
  <2>6. PICK k : eval' = [eval EXCEPT ![e] = k] /\ k.pc # "observe"
    <3>1. h.pc # "observe" /\ Finished(e).pc # "observe"  BY <1>1, <2>1, FinishedEval DEF Evals, EvalAt
    <3>2. QED  BY <2>2, <3>1
  <2>7. QED  BY <1>2, <2>1, <2>4, <2>5, <2>6, EvalReaches
<1>14. QED  BY <1>7, <1>8, <1>9, <1>10, <1>11, <1>12, <1>13 DEF EvaluatePolicy

LEMMA CostReaches ==
  ASSUME BudgetsAssumption, BudgetsTypeOK, WorkInv, NEW e \in Evaluators,
         SelectPolicies(e) \/ ObserveNext(e)
  PROVE  WorkInv'
<1>1. /\ eval[e] \in Evals /\ eval[e].at \in Scopes
      /\ \A s \in Scopes : spend[s] \in Nat /\ limit[s] \in Nat /\ eval[e].read[s] \in Nat
  BY BudgetsRows DEF Evals
<1>2. /\ UNCHANGED <<start, spend, limit, aborted, budgetRun>>
      /\ \A s \in Scopes : Over(s)' => Over(s)
  BY DEF SelectPolicies, ObserveNext, Over
<1>3. CASE SelectPolicies(e)
  <2> DEFINE relevant == {s \in {Here(e), Company} : limit[s] > 0}
             h == [eval[e] EXCEPT !.pc = "next", !.scopes = relevant, !.at = Company,
                      !.read = [s \in Scopes |-> IF s \in relevant THEN limit[s] ELSE 0]]
  <2>1. /\ h.pc = "next" /\ h.op = eval[e].op /\ h.scopes = relevant
        /\ h.read = [s \in Scopes |-> IF s \in relevant THEN limit[s] ELSE 0]
    BY <1>1 DEF Evals
  <2> HIDE DEF h
  <2>2. eval' = [eval EXCEPT ![e] = IF relevant = {} THEN NoEval ELSE h]
    BY <1>3 DEF SelectPolicies, h
  <2>3. ASSUME NEW s \in Scopes, NEW r \in RunIds, Over(s), Reaches(e, s, r) PROVE Reaches(e, s, r)'
    <3>1. eval[e].op = "cost" /\ s \in {Here(e), Company}
      BY <1>3, <2>3 DEF SelectPolicies, EvalAt, Reaches, Enforcing, Here
    <3>2. s \in relevant /\ Exhausted(s, limit[s], spend[s])
      BY <1>1, <2>3, <3>1 DEF Over, Exhausted
    <3>3. eval'[e] = h  BY <2>2, <3>2 DEF BudgetsTypeOK
    <3>4. QED  BY <1>2, <2>1, <3>1, <3>2, <3>3 DEF Reaches
  <2>4. PICK k : eval' = [eval EXCEPT ![e] = k] /\ k.pc # "observe"
    <3>1. NoEval.pc # "observe"  BY DEF NoEval
    <3>2. QED  BY <2>1, <2>2, <3>1
  <2>5. QED  BY <1>2, <2>3, <2>4, EvalReaches
<1>4. CASE ObserveNext(e)
  <2>1. PICK t \in eval[e].scopes :
          LET h == [eval[e] EXCEPT !.scopes = @ \ {t}, !.at = t] IN
              eval' = [eval EXCEPT ![e] =
                  IF spend[t] >= SoftThreshold(h.read[t])
                  THEN [h EXCEPT !.pc = "softLook", !.seen = spend[t]]
                  ELSE IF h.scopes = {} THEN NoEval ELSE h]
    BY <1>4 DEF ObserveNext
  <2> DEFINE h == [eval[e] EXCEPT !.scopes = @ \ {t}, !.at = t]
             k == [h EXCEPT !.pc = "softLook", !.seen = spend[t]]
  <2>2. t \in Scopes /\ EvalAt(e, "next")  BY <1>1, <1>4 DEF Evals, ObserveNext
  <2>3. /\ h.pc = "next" /\ h.op = eval[e].op /\ h.scopes = eval[e].scopes \ {t}
        /\ h.read = eval[e].read /\ h.at = t
        /\ k.pc = "softLook" /\ k.op = eval[e].op /\ k.scopes = eval[e].scopes \ {t}
        /\ k.read = eval[e].read /\ k.at = t /\ k.seen = spend[t]
    BY <1>1, <2>2 DEF Evals, EvalAt
  <2>4. eval' = [eval EXCEPT ![e] = IF spend[t] >= SoftThreshold(h.read[t]) THEN k
                                    ELSE IF h.scopes = {} THEN NoEval ELSE h]
    BY <2>1
  <2> HIDE DEF h, k
  <2>5. ASSUME NEW s \in Scopes, NEW r \in RunIds, Reaches(e, s, r) PROVE Reaches(e, s, r)'
    <3>1. s \in eval[e].scopes /\ eval[e].op = "cost" /\ Exhausted(s, eval[e].read[s], spend[s])
      BY <2>2, <2>5 DEF EvalAt, Reaches, Enforcing
    <3>2. CASE spend[t] >= SoftThreshold(h.read[t])
      <4>1. eval'[e] = k  BY <2>4, <3>2 DEF BudgetsTypeOK
      <4>2. QED  BY <1>1, <1>2, <2>3, <3>1, <4>1 DEF Reaches, Enforcing, Exhausted
    <3>3. CASE ~(spend[t] >= SoftThreshold(h.read[t]))
      <4>1. s # t
        <5>1. SUFFICES ASSUME s = t PROVE FALSE  OBVIOUS
        <5>2. SoftThreshold(h.read[t]) \in Int /\ SoftThreshold(h.read[t]) <= h.read[t]
          BY <1>1, <2>2, <2>3, SoftIsSooner
        <5>3. QED  BY <1>1, <2>2, <2>3, <3>1, <3>3, <5>1, <5>2 DEF Exhausted
      <4>2. eval'[e] = h  BY <2>3, <2>4, <3>1, <3>3, <4>1 DEF BudgetsTypeOK
      <4>3. QED  BY <1>2, <2>3, <3>1, <4>1, <4>2 DEF Reaches, Enforcing
    <3>4. QED  BY <3>2, <3>3
  <2>6. PICK j : eval' = [eval EXCEPT ![e] = j] /\ j.pc # "observe"
    <3>1. NoEval.pc # "observe"  BY DEF NoEval
    <3>2. QED  BY <2>3, <2>4, <3>1
  <2>7. QED  BY <1>2, <2>5, <2>6, EvalReaches
<1>5. QED  BY <1>3, <1>4

LEMMA BoardReaches ==
  ASSUME BudgetsAssumption, BudgetsTypeOK, WorkInv, NEW e \in Evaluators,
         \/ ObserveUpsert(e) \/ ObserveRaise(e) \/ ResumeScope(e) \/ SelectOpen(e)
         \/ ResolveOpen(e) \/ Dismiss(e) \/ MarkApproval(e)
         \/ RaiseLimit(e) /\ 0 < limit[Here(e)] /\ limit[Here(e)] <= eval[e].amount
  PROVE  WorkInv'
<1>1. /\ eval[e] \in Evals /\ Here(e) \in Scopes /\ eval[e].amount \in Nat
      /\ \A s \in Scopes : spend[s] \in Nat /\ limit[s] \in Nat /\ eval[e].read[s] \in Nat
  BY BudgetsRows DEF Evals, Here
<1>2. UNCHANGED <<start, spend, aborted, budgetRun>>
  BY DEF ObserveUpsert, ObserveRaise, RaiseLimit, ResumeScope, SelectOpen, ResolveOpen, Dismiss,
    MarkApproval
<1>3. \A s \in Scopes : Over(s)' => Over(s)
  <2>1. CASE UNCHANGED limit  BY <1>2, <2>1 DEF Over
  <2>2. CASE RaiseLimit(e) /\ 0 < limit[Here(e)] /\ limit[Here(e)] <= eval[e].amount
    <3> SUFFICES ASSUME NEW s \in Scopes, Over(s)' PROVE Over(s)  OBVIOUS
    <3>1. limit' = [limit EXCEPT ![Here(e)] = eval[e].amount]  BY <2>2 DEF RaiseLimit
    <3>2. limit'[s] > 0 /\ spend[s] >= limit'[s]  BY <1>2 DEF Over, Exhausted
    <3>3. limit \in [Scopes -> Nat]  BY BudgetsRows
    <3>4. limit[s] > 0 /\ spend[s] >= limit[s]  BY <1>1, <2>2, <3>1, <3>2, <3>3
    <3>5. QED  BY <3>4 DEF Over, Exhausted
  <2>3. QED
    BY <2>1, <2>2 DEF ObserveUpsert, ObserveRaise, ResumeScope, SelectOpen, ResolveOpen, Dismiss,
      MarkApproval
<1>4. CASE ObserveUpsert(e)
  <2> DEFINE h == [eval[e] EXCEPT !.seen = spend[Here(e)],
                      !.pc = IF spend[Here(e)] < eval[e].amount THEN "resume" ELSE "softLook"]
  <2>1. /\ h.pc = (IF spend[Here(e)] < eval[e].amount THEN "resume" ELSE "softLook")
        /\ h.seen = spend[Here(e)] /\ h.at = eval[e].at /\ h.read = eval[e].read
    BY <1>1 DEF Evals
  <2>2. eval' = [eval EXCEPT ![e] = h]  BY <1>4 DEF ObserveUpsert
  <2> HIDE DEF h
  <2>3. eval'[e] = h  BY <2>2 DEF BudgetsTypeOK
  <2>4. eval[e].read[Here(e)] = eval[e].amount /\ EvalAt(e, "observe")
    BY <1>4 DEF ObserveUpsert, WorkInv, UpsertsKnown
  <2>5. ASSUME NEW s \in Scopes, NEW r \in RunIds, Reaches(e, s, r) PROVE Reaches(e, s, r)'
    <3>1. s = Here(e) /\ eval[e].amount <= spend[s]
      BY <2>4, <2>5 DEF Reaches, Enforcing, EvalAt, Here
    <3>2. h.pc = "softLook" /\ h.seen >= h.read[s] /\ h.at = s  BY <1>1, <2>1, <2>4, <3>1 DEF Here
    <3>3. QED  BY <2>3, <3>2 DEF Reaches, Enforcing
  <2>6. h.pc # "observe"  BY <2>1
  <2>7. QED  BY <1>2, <1>3, <2>2, <2>5, <2>6, EvalReaches
<1>5. CASE ~ObserveUpsert(e)
  <2>1. ASSUME NEW s \in Scopes, NEW r \in RunIds PROVE ~Reaches(e, s, r)
    BY <1>5 DEF Reaches, Enforcing, EvalAt, ObserveRaise, RaiseLimit, ResumeScope, SelectOpen,
      ResolveOpen, Dismiss, MarkApproval
  <2>2. PICK k : eval' = [eval EXCEPT ![e] = k] /\ k.pc # "observe"
    <3>1. NoEval.pc # "observe"  BY DEF NoEval
    <3>2. \A p \in EvalPCs \ {"observe"} : [eval[e] EXCEPT !.pc = p].pc # "observe"  BY <1>1 DEF Evals
    <3>3. CASE ObserveRaise(e) \/ MarkApproval(e)
      BY <3>1, <3>2, <3>3 DEF ObserveRaise, MarkApproval, EvalPCs
    <3>4. CASE RaiseLimit(e) \/ ResumeScope(e) \/ ResolveOpen(e) \/ Dismiss(e)
      BY <3>2, <3>4 DEF RaiseLimit, ResumeScope, ResolveOpen, Dismiss, EvalGo, EvalPCs
    <3>5. CASE SelectOpen(e)
      <4> DEFINE h(a) == [eval[e] EXCEPT !.pc = "resolve", !.approval = a]
      <4>1. \A a : h(a).pc = "resolve"  BY <1>1 DEF Evals
      <4>2. PICK a : eval' = [eval EXCEPT ![e] = h(a)]  BY <3>5 DEF SelectOpen
      <4>3. QED  BY <4>1, <4>2
    <3>6. QED  BY <1>5, <3>3, <3>4, <3>5
  <2>3. QED  BY <1>2, <1>3, <2>1, <2>2, EvalReaches
<1>6. QED  BY <1>4, <1>5

-----------------------------------------------------------------------------
(* What begins an evaluation, and the starts                                 *)

LEMMA BeginsReaches ==
  ASSUME BudgetsAssumption, BudgetsTypeOK, WorkInv, NEW e \in Evaluators,
         \/ \E a \in Staff : CostEvent(e, a)
         \/ \E s \in Policed, amount \in Amounts : UpsertPolicy(e, s, amount)
         \/ \E s \in Policed, amount \in Amounts : ResolveIncident(e, s, "raise", amount)
         \/ \E s \in Policed : ResolveIncident(e, s, "dismiss", 0)
  PROVE  WorkInv'
<1>1. /\ eval \in [Evaluators -> Evals] /\ EvalAt(e, "idle")
      /\ spend \in [Scopes -> Nat] /\ limit \in [Scopes -> Nat]
      /\ Staff \subseteq Scopes /\ Company \in Scopes /\ Policed \subseteq Scopes
      /\ Amounts \subseteq Nat
  BY BudgetsRows DEF CostEvent, UpsertPolicy, ResolveIncident, Decide, BudgetsAssumption, Scopes
<1>2. UNCHANGED <<start, budgetRun, aborted>>  BY DEF CostEvent, UpsertPolicy, ResolveIncident
<1>3. PICK h :
        /\ eval' = [eval EXCEPT ![e] = h]
        /\ h.pc = "observe" /\ h.op = "upsert" => h.read[h.at] = h.amount
        /\ \A s \in Scopes : spend'[s] \in Nat /\ spend'[s] >= spend[s]
        /\ \A s \in Scopes, r \in RunIds : Over(s)' => Over(s) \/ Reaches(e, s, r)'
  <2>1. ASSUME NEW a \in Staff, CostEvent(e, a),
               NEW h, h = [NoEval EXCEPT !.pc = "policies", !.op = "cost", !.at = a]
        PROVE  /\ eval' = [eval EXCEPT ![e] = h] /\ h.pc = "policies"
               /\ \A s \in Scopes : spend'[s] \in Nat /\ spend'[s] >= spend[s]
               /\ \A s \in Scopes, r \in RunIds : Over(s)' => Over(s) \/ Reaches(e, s, r)'
    <3>1. h.pc = "policies" /\ h.op = "cost" /\ h.at = a  BY <2>1 DEF NoEval
    <3>2. eval' = [eval EXCEPT ![e] = h] /\ limit' = limit
          /\ spend' = [spend EXCEPT ![a] = @ + 1, ![Company] = @ + 1]
      BY <2>1 DEF CostEvent
    <3>3. a \in Scopes /\ a # Company  BY <1>1 DEF BudgetsAssumption
    <3>4. \A s \in Scopes : spend'[s] = IF s \in {a, Company} THEN spend[s] + 1 ELSE spend[s]
      BY <1>1, <3>2, <3>3
    <3>5. \A s \in Scopes : spend'[s] \in Nat /\ spend'[s] >= spend[s]  BY <1>1, <3>4
    <3>6. eval'[e] = h  BY <1>1, <3>2
    <3>7. ASSUME NEW s \in Scopes, NEW r \in RunIds, Over(s)', ~Over(s) PROVE Reaches(e, s, r)'
      <4>1. s \in {a, Company}  BY <3>2, <3>4, <3>7 DEF Over
      <4>2. QED  BY <3>1, <3>6, <4>1 DEF Reaches
    <3>8. QED  BY <3>1, <3>2, <3>5, <3>7
  <2>2. ASSUME NEW t \in Policed, NEW amount \in Amounts, UpsertPolicy(e, t, amount),
               NEW h, h = [NoEval EXCEPT !.op = "upsert", !.at = t, !.amount = amount,
                              !.read = [NoEval.read EXCEPT ![t] = amount],
                              !.pc = IF amount > 0 THEN "observe" ELSE "resume"]
        PROVE  /\ eval' = [eval EXCEPT ![e] = h] /\ h.read[h.at] = h.amount
               /\ \A s \in Scopes : spend'[s] \in Nat /\ spend'[s] >= spend[s]
               /\ \A s \in Scopes, r \in RunIds : Over(s)' => Over(s) \/ Reaches(e, s, r)'
    <3>1. /\ h.pc = (IF amount > 0 THEN "observe" ELSE "resume") /\ h.op = "upsert" /\ h.at = t
          /\ h.amount = amount /\ h.read = [NoEval.read EXCEPT ![t] = amount]
      BY <2>2 DEF NoEval
    <3>2. eval' = [eval EXCEPT ![e] = h] /\ limit' = [limit EXCEPT ![t] = amount] /\ spend' = spend
      BY <2>2 DEF UpsertPolicy, Decide
    <3>3. t \in Scopes /\ amount \in Nat  BY <1>1
    <3>4. h.read[h.at] = h.amount  BY <3>1, <3>3 DEF NoEval
    <3>5. eval'[e] = h  BY <1>1, <3>2
    <3>6. ASSUME NEW s \in Scopes, NEW r \in RunIds, Over(s)', ~Over(s) PROVE Reaches(e, s, r)'
      <4>1. s = t  BY <1>1, <3>2, <3>6 DEF Over
      <4>2. amount > 0 /\ spend[s] >= amount
        BY <1>1, <3>2, <3>3, <3>6, <4>1 DEF Over, Exhausted
      <4>3. QED  BY <1>1, <3>1, <3>2, <3>3, <3>5, <4>1, <4>2 DEF Reaches
    <3>7. QED  BY <1>1, <3>2, <3>4, <3>6
  <2>3. CASE \E a \in Staff : CostEvent(e, a)  BY <2>1, <2>3
  <2>4. CASE \E s \in Policed, amount \in Amounts : UpsertPolicy(e, s, amount)  BY <2>2, <2>4
  <2>5. CASE \/ \E s \in Policed, amount \in Amounts : ResolveIncident(e, s, "raise", amount)
             \/ \E s \in Policed : ResolveIncident(e, s, "dismiss", 0)
    <3>1. PICK s \in Policed, action \in {"raise", "dismiss"}, amount \in Amounts \cup {0} :
              ResolveIncident(e, s, action, amount)
      BY <2>5
    <3>2. PICK h : /\ h = [NoEval EXCEPT !.op = action, !.at = s, !.amount = amount,
                              !.approval = incident[s]["hard"].approval,
                              !.pc = IF action = "raise" THEN "observe" ELSE "dismiss"]
                   /\ eval' = [eval EXCEPT ![e] = h]
      BY <3>1 DEF ResolveIncident, Decide
    <3>3. h.op # "upsert"  BY <3>2 DEF NoEval
    <3>4. UNCHANGED <<limit, spend>>  BY <3>1 DEF ResolveIncident
    <3>5. /\ \A t \in Scopes : spend'[t] \in Nat /\ spend'[t] >= spend[t]
          /\ \A t \in Scopes : Over(t)' => Over(t)
      BY <1>1, <3>4 DEF Over
    <3>6. QED  BY <3>2, <3>3, <3>5
  <2>6. QED  BY <2>3, <2>4, <2>5
<1>4. eval'[e] = h /\ \A f \in Evaluators \ {e} : eval'[f] = eval[f]  BY <1>1, <1>3
<1>5. StartsKnown'  BY <1>2 DEF WorkInv, StartsKnown
<1>6. UpsertsKnown'  BY <1>3, <1>4 DEF WorkInv, UpsertsKnown, EvalAt, Here
<1>7. WorkReached'
  <2> SUFFICES ASSUME ~aborted, NEW s \in Scopes, NEW r \in RunIds, Over(s)', AtStake(r, s)'
               PROVE  \E f \in Evaluators : Reaches(f, s, r)'
    BY <1>2 DEF WorkReached
  <2>1. CASE Reaches(e, s, r)'  BY <2>1
  <2>2. CASE ~Reaches(e, s, r)'
    <3>1. Over(s)  BY <1>3, <2>2
    <3>2. \A read \in Nat : Exhausted(s, read, spend[s]) => Exhausted(s, read, spend'[s])
      BY <1>1, <1>3 DEF Exhausted
    <3>3. ASSUME NEW c \in Starters, Spared(c, s)' PROVE Spared(c, s)
      <4>1. start[c].read \in Nat  BY DEF BudgetsTypeOK, Starts
      <4>2. Exhausted(Company, start[c].read, spend[Company])
              => Exhausted(Company, start[c].read, spend'[Company])
        BY <1>1, <1>3, <4>1 DEF Exhausted
      <4>3. QED  BY <1>2, <3>2, <3>3, <4>1, <4>2 DEF Spared
    <3>4. AtStake(r, s)  BY <1>2, <3>3 DEF AtStake, WorkOf
    <3>5. PICK f \in Evaluators : Reaches(f, s, r)  BY <3>1, <3>4 DEF WorkInv, WorkReached
    <3>6. f # e  BY <1>1, <3>5 DEF Reaches, EvalAt, Enforcing
    <3>7. eval'[f] = eval[f] /\ eval[f].amount \in Nat /\ eval[f].read[s] \in Nat
      BY <1>1, <1>4, <3>6 DEF Evals
    <3>8. spend[s] \in Nat /\ spend'[s] \in Nat /\ spend'[s] >= spend[s]  BY <1>1, <1>3
    <3>9. QED  BY <3>2, <3>5, <3>7, <3>8 DEF Reaches
  <2>3. QED  BY <2>1, <2>2
<1>8. QED  BY <1>5, <1>6, <1>7 DEF WorkInv

\* A start puts nothing at stake: it reads the limit before the spend.
LEMMA StartReaches ==
  ASSUME BudgetsAssumption, BudgetsTypeOK, WorkInv, NEW c \in Starters,
         StartStep(c) \/ \E a \in Staff, r \in RunIds \cup {0} : CheckAgent(c, r, a)
  PROVE  WorkInv'
<1>1. /\ start \in [Starters -> Starts] /\ start[c] \in Starts
      /\ budgetRun \in [RunIds -> [status : RunStatuses, agent : Scopes]]
      /\ \A s \in Scopes : spend[s] \in Nat /\ limit[s] \in Nat
  BY BudgetsRows
<1>2. UNCHANGED <<limit, spend, eval, aborted>>
  BY DEF StartStep, CheckAgent, CheckCompany, ReadPolicy, CheckSpend, Refuse, QueueRun, ClaimRun,
    ExecuteRun, ReadAgent, FinalizeAgent
<1>3. NoStart.pc = "idle" /\ NoStart.run = 0  BY DEF NoStart
\* What is shown of each: which runs start that did not, and what the start has passed.
<1>4. ASSUME NEW k, start' = [start EXCEPT ![c] = k], k.run # 0 => k.run \in RunIds,
             k.run # 0 => /\ budgetRun'[k.run].status # "none"
                          /\ budgetRun'[k.run].agent = k.agent,
             \A r \in RunIds :
                \/ budgetRun'[r] = budgetRun[r]
                \/ budgetRun[r].status # "none" /\ budgetRun'[r].status = "cancelled"
                   /\ budgetRun'[r].agent = budgetRun[r].agent
                \/ budgetRun[r].status = "none" /\ budgetRun'[r].status = "queued"
                \/ /\ budgetRun[r].status = "queued" /\ budgetRun'[r].status = "running"
                   /\ budgetRun'[r].agent = budgetRun[r].agent
                   /\ StartAt(c, "go") /\ start[c].run = r,
             \A s \in Scopes : Over(s) /\ k.run # 0 /\ Spared(c, s)'
                => Spared(c, s) /\ start[c].run = k.run
      PROVE  WorkInv'
  <2>1. start'[c] = k /\ \A d \in Starters \ {c} : start'[d] = start[d]  BY <1>1, <1>4
  <2>2. \A d \in Starters : start[d].run # 0 => start[d].run \in RunIds  BY <1>1 DEF Starts
  <2>3. StartsKnown'
    <3> SUFFICES ASSUME NEW d \in Starters, start'[d].run # 0
                 PROVE  /\ budgetRun'[start'[d].run].status # "none"
                        /\ budgetRun'[start'[d].run].agent = start'[d].agent
      BY DEF StartsKnown
    <3>1. CASE d = c  BY <1>4, <2>1, <3>1
    <3>2. CASE d # c  BY <1>4, <2>1, <2>2, <3>2 DEF WorkInv, StartsKnown
    <3>3. QED  BY <3>1, <3>2
  <2>4. ASSUME NEW s \in Scopes, NEW r \in RunIds, Over(s), AtStake(r, s)' PROVE AtStake(r, s)
    <3>1. \/ budgetRun'[r].status = "running"
          \/ \E d \in Starters : start'[d].run = r /\ Spared(d, s)'
      BY <2>4 DEF AtStake
    <3>2. ASSUME NEW d \in Starters, start'[d].run = r, Spared(d, s)'
          PROVE  start[d].run = r /\ Spared(d, s)
      <4>1. r # 0  BY DEF RunIds
      <4>2. CASE d = c  BY <1>4, <2>1, <2>4, <3>2, <4>1, <4>2
      <4>3. CASE d # c  BY <1>2, <2>1, <3>2, <4>3 DEF Spared
      <4>4. QED  BY <4>2, <4>3
    <3>3. CASE budgetRun'[r] = budgetRun[r]
      BY <2>4, <3>1, <3>2, <3>3 DEF AtStake, WorkOf
    <3>4. CASE budgetRun[r].status = "none" /\ budgetRun'[r].status = "queued"
      <4>1. PICK d \in Starters : start[d].run = r  BY <3>1, <3>2, <3>4
      <4>2. r # 0  BY DEF RunIds
      <4>3. QED  BY <3>4, <4>1, <4>2 DEF WorkInv, StartsKnown
    <3>5. CASE /\ budgetRun[r].status = "queued" /\ budgetRun'[r].agent = budgetRun[r].agent
               /\ StartAt(c, "go") /\ start[c].run = r
      <4>1. r \in WorkOf(s)  BY <2>4, <3>5 DEF AtStake, WorkOf
      <4>2. r # 0  BY DEF RunIds
      <4>3. budgetRun[r].agent = start[c].agent  BY <3>5, <4>2 DEF WorkInv, StartsKnown
      <4>4. Spared(c, s)  BY <3>5, <4>1, <4>3 DEF Spared, StartAt, WorkOf
      <4>5. QED  BY <3>5, <4>1, <4>4 DEF AtStake
    <3>6. budgetRun'[r].status # "cancelled"  BY <2>4 DEF AtStake, WorkOf
    <3>7. QED  BY <1>4, <3>3, <3>4, <3>5, <3>6
  <2>5. QED  BY <1>2, <2>3, <2>4, NothingAtStake
\* A request that is done, whatever it did to the run it was about.
<1>5. ASSUME start' = [start EXCEPT ![c] = NoStart],
             \A r \in RunIds :
                \/ budgetRun'[r] = budgetRun[r]
                \/ budgetRun[r].status # "none" /\ budgetRun'[r].status = "cancelled"
                   /\ budgetRun'[r].agent = budgetRun[r].agent
                \/ budgetRun[r].status = "none" /\ budgetRun'[r].status = "queued"
                \/ /\ budgetRun[r].status = "queued" /\ budgetRun'[r].status = "running"
                   /\ budgetRun'[r].agent = budgetRun[r].agent
                   /\ StartAt(c, "go") /\ start[c].run = r
      PROVE  WorkInv'
  BY <1>3, <1>4, <1>5
\* A request that goes on with the same run and agent.
<1>6. ASSUME NEW k, start' = [start EXCEPT ![c] = k], budgetRun' = budgetRun,
             k.run = start[c].run, k.agent = start[c].agent,
             \A s \in Scopes : Over(s) /\ Spared(c, s)' => Spared(c, s)
      PROVE  WorkInv'
  <2>1. k.run # 0 => k.run \in RunIds  BY <1>1, <1>6 DEF Starts
  <2>2. k.run # 0 => budgetRun'[k.run].status # "none" /\ budgetRun'[k.run].agent = k.agent
    BY <1>6 DEF WorkInv, StartsKnown
  <2>3. QED  BY <1>4, <1>6, <2>1, <2>2
<1>7. ASSUME NEW a \in Staff, NEW r \in RunIds \cup {0}, CheckAgent(c, r, a) PROVE WorkInv'
  <2> DEFINE k == [pc |-> IF Paused(a) THEN "blocked" ELSE "row",
                   run |-> r, agent |-> a, read |-> 0]
  <2>1. start' = [start EXCEPT ![c] = k] /\ budgetRun' = budgetRun  BY <1>7 DEF CheckAgent
  <2>2. start'[c] = k  BY <1>1, <2>1
  <2>3. \A s \in Scopes : ~Spared(c, s)'  BY <2>2 DEF Spared
  <2>4. k.run # 0 => k.run \in RunIds  OBVIOUS
  <2>5. k.run # 0 => budgetRun'[k.run].status # "none" /\ budgetRun'[k.run].agent = k.agent
    BY <1>7, <2>1 DEF CheckAgent
  <2> HIDE DEF k
  <2>6. QED  BY <1>4, <2>1, <2>3, <2>4, <2>5
<1>8. CASE CheckCompany(c)
  <2> DEFINE k == [start[c] EXCEPT !.pc = IF Paused(Company) THEN "blocked" ELSE "company"]
  <2>1. start' = [start EXCEPT ![c] = k] /\ budgetRun' = budgetRun
    BY <1>8 DEF CheckCompany, StartGo
  <2>2. /\ k.pc = (IF Paused(Company) THEN "blocked" ELSE "company")
        /\ k.run = start[c].run /\ k.agent = start[c].agent /\ start'[c] = k
    BY <1>1, <2>1 DEF Starts
  <2> HIDE DEF k
  <2>3. \A s \in Scopes : ~Spared(c, s)'  BY <2>2 DEF Spared
  <2>4. QED  BY <1>6, <2>1, <2>2, <2>3
<1>9. CASE ReadPolicy(c)
  <2> DEFINE t == IF StartAt(c, "company") THEN Company ELSE start[c].agent
             k == [start[c] EXCEPT !.read = limit[t],
                      !.pc = IF @ = "company" THEN "companySpend" ELSE "agentSpend"]
  <2>1. start' = [start EXCEPT ![c] = k] /\ budgetRun' = budgetRun
    BY <1>9 DEF ReadPolicy
  <2>2. /\ k.pc = (IF start[c].pc = "company" THEN "companySpend" ELSE "agentSpend")
        /\ k.run = start[c].run /\ k.agent = start[c].agent /\ k.read = limit[t] /\ start'[c] = k
        /\ start[c].pc \in {"company", "agent"}
    BY <1>1, <1>9, <2>1 DEF Starts, ReadPolicy
  <2> HIDE DEF k
  <2>3. ASSUME NEW s \in Scopes, Over(s), Spared(c, s)' PROVE Spared(c, s)
    <3>1. Exhausted(s, limit[s], spend[s]) /\ spend' = spend  BY <1>2, <2>3 DEF Over
    <3>2. CASE s = Company
      <4>1. start[c].pc = "agent"
        BY <2>2, <2>3, <3>1, <3>2 DEF Spared, StartAt
      <4>2. QED  BY <3>2, <4>1 DEF Spared
    <3>3. CASE s # Company
      <4>1. k.pc = "agentSpend" /\ start[c].agent = s /\ ~Exhausted(s, k.read, spend[s])
        BY <2>2, <2>3, <3>1, <3>3 DEF Spared
      <4>2. t = s  BY <2>2, <4>1 DEF StartAt
      <4>3. QED  BY <2>2, <3>1, <4>1, <4>2
    <3>4. QED  BY <3>2, <3>3
  <2>4. QED  BY <1>6, <2>1, <2>2, <2>3
<1>10. CASE CheckSpend(c)
  <2> DEFINE t == IF StartAt(c, "companySpend") THEN Company ELSE start[c].agent
             p == IF Exhausted(t, start[c].read, spend[t]) THEN "blocked"
                  ELSE IF StartAt(c, "companySpend") THEN "agent" ELSE "go"
             k == [start[c] EXCEPT !.pc = p]
  <2>1. start' = [start EXCEPT ![c] = k] /\ budgetRun' = budgetRun
    BY <1>10 DEF CheckSpend, StartGo
  <2>2. /\ k.pc = p /\ k.run = start[c].run /\ k.agent = start[c].agent /\ start'[c] = k
        /\ start[c].pc \in {"companySpend", "agentSpend"}
    BY <1>1, <1>10, <2>1 DEF Starts, CheckSpend
  <2> HIDE DEF k
  <2>3. \A s \in Scopes : Spared(c, s)' => Spared(c, s)  BY <1>2, <2>2 DEF Spared, StartAt
  <2>4. QED  BY <1>6, <2>1, <2>2, <2>3
<1>11. CASE Refuse(c)
  <2>1. start' = [start EXCEPT ![c] = NoStart]  BY <1>11 DEF Refuse
  <2>2. \A r \in RunIds : \/ budgetRun'[r] = budgetRun[r]
                          \/ /\ budgetRun[r].status # "none" /\ budgetRun'[r].status = "cancelled"
                             /\ budgetRun'[r].agent = budgetRun[r].agent
    BY <1>1, <1>11 DEF Refuse, WorkOf
  <2>3. QED  BY <1>5, <2>1, <2>2
<1>12. CASE QueueRun(c)
  <2>1. start' = [start EXCEPT ![c] = NoStart]  BY <1>12 DEF QueueRun
  <2>2. \A r \in RunIds : \/ budgetRun'[r] = budgetRun[r]
                          \/ budgetRun[r].status = "none" /\ budgetRun'[r].status = "queued"
    BY <1>1, <1>12 DEF QueueRun
  <2>3. QED  BY <1>5, <2>1, <2>2
\* A claimed run is past its looks at the budget, and so is one that has ended.
<1>13. CASE ClaimRun(c)
  <2> DEFINE k == [start[c] EXCEPT !.pc = "execute"]
             claimed == [budgetRun EXCEPT ![start[c].run].status = "running"]
  <2>1. StartAt(c, "go") /\ start[c].run # 0 /\ start[c].run \in RunIds
    BY <1>1, <1>13 DEF ClaimRun, Starts
  <2>2. CASE budgetRun[start[c].run].status = "queued"
    <3>1. start' = [start EXCEPT ![c] = k] /\ budgetRun' = claimed
      BY <1>13, <2>2 DEF ClaimRun, StartGo
    <3>2. k.pc = "execute" /\ k.run = start[c].run /\ k.agent = start[c].agent /\ start'[c] = k
      BY <1>1, <3>1 DEF Starts
    <3> HIDE DEF k
    <3>3. \A r \in RunIds :
            \/ budgetRun'[r] = budgetRun[r]
            \/ /\ budgetRun[r].status = "queued" /\ budgetRun'[r].status = "running"
               /\ budgetRun'[r].agent = budgetRun[r].agent /\ start[c].run = r
      BY <1>1, <2>2, <3>1
    <3>4. \A s \in Scopes : ~Spared(c, s)'  BY <3>2 DEF Spared
    <3>5. budgetRun'[k.run].status # "none" /\ budgetRun'[k.run].agent = k.agent
      BY <1>1, <2>1, <2>2, <3>1, <3>2 DEF WorkInv, StartsKnown
    <3>6. QED  BY <1>4, <2>1, <3>1, <3>2, <3>3, <3>4, <3>5
  <2>3. CASE budgetRun[start[c].run].status # "queued"
    <3>1. start' = [start EXCEPT ![c] = NoStart] /\ budgetRun' = budgetRun
      BY <1>13, <2>3 DEF ClaimRun
    <3>2. QED  BY <1>5, <3>1
  <2>4. QED  BY <2>2, <2>3
<1>14. CASE ExecuteRun(c) \/ FinalizeAgent(c)
  BY <1>5, <1>14 DEF ExecuteRun, FinalizeAgent
<1>15. ASSUME NEW r \in RunIds, ReadAgent(c, r) PROVE WorkInv'
  <2> DEFINE k == [pc |-> "finalize", run |-> r, agent |-> budgetRun[r].agent, read |-> 0]
  <2>1. start' = [start EXCEPT ![c] = k] /\ budgetRun' = budgetRun  BY <1>15 DEF ReadAgent
  <2>2. start'[c] = k  BY <1>1, <2>1
  <2>3. \A s \in Scopes : ~Spared(c, s)'  BY <2>2 DEF Spared
  <2>4. k.run \in RunIds /\ budgetRun'[k.run].status # "none" /\ budgetRun'[k.run].agent = k.agent
    BY <1>15, <2>1 DEF ReadAgent
  <2> HIDE DEF k
  <2>5. QED  BY <1>4, <2>1, <2>3, <2>4
<1>16. QED  BY <1>7, <1>8, <1>9, <1>10, <1>11, <1>12, <1>13, <1>14, <1>15 DEF StartStep

\* What the board and the approval routes leave alone.
LEMMA BoardOrRoute ==
  ASSUME BoardStep \/ \E n \in DOMAIN override : RouteStep(n)
  PROVE  UNCHANGED <<limit, spend, incident, eval, aborted, start, budgetRun>>
BY DEF BoardStep, BoardPause, BoardResume, BoardPatch, ByTheBoard, RouteStep, RequestRevision,
  ResubmitApproval, DecideApproval, Route

LEMMA WorkStep ==
  ASSUME BudgetsAssumption, BudgetsTypeOK, WorkInv, [BudgetsNext]_budgetVars,
         [RaisesRaise]_budgetVars
  PROVE  WorkInv'
<1>1. CASE UNCHANGED budgetVars
  BY <1>1, NothingAtStake DEF budgetVars, WorkInv, StartsKnown, AtStake, Spared, WorkOf
<1>2. CASE BudgetsNext /\ RaisesRaise
  <2>1. ASSUME NEW e \in Evaluators, EvalStep(e) PROVE WorkInv'
    BY <1>2, <2>1, EnforcementReaches, CostReaches, BoardReaches DEF EvalStep, RaisesRaise
  <2>2. CASE BoardStep \/ \E n \in DOMAIN override : RouteStep(n)
    <3>1. UNCHANGED <<limit, spend, eval, aborted, start, budgetRun>>  BY <2>2, BoardOrRoute
    <3>2. QED  BY <3>1, NothingAtStake DEF WorkInv, StartsKnown, AtStake, Spared, WorkOf
  <2>3. ASSUME NEW r \in RunIds, FinishRun(r) PROVE WorkInv'
    <3>1. /\ budgetRun \in [RunIds -> [status : RunStatuses, agent : Scopes]]
          /\ start \in [Starters -> Starts]
      BY BudgetsRows
    <3>2. UNCHANGED <<limit, spend, eval, aborted, start>>  BY <2>3 DEF FinishRun
    <3>3. \A q \in RunIds : \/ budgetRun'[q] = budgetRun[q]
                            \/ budgetRun'[q].status = "ended" /\ budgetRun'[q].agent = budgetRun[q].agent
      BY <2>3, <3>1 DEF FinishRun
    <3>4. \A c \in Starters : start[c].run # 0 => start[c].run \in RunIds  BY <3>1 DEF Starts
    <3>5. StartsKnown'  BY <3>2, <3>3, <3>4 DEF WorkInv, StartsKnown
    <3>6. QED  BY <3>2, <3>3, <3>5, NothingAtStake DEF AtStake, Spared, WorkOf
  <2>4. QED
    BY <1>2, <2>1, <2>2, <2>3, BeginsReaches, StartReaches DEF BudgetsNext, BoardStep, RouteStep
<1>3. QED  BY <1>1, <1>2 DEF budgetVars

\* What the invariant says once no evaluation is in flight.
LEMMA WorkInvReached == ASSUME WorkInv PROVE NoWorkOverLimit
<1> SUFFICES ASSUME NoEvaluations, ~aborted, NEW s \in Scopes, Over(s), NEW r \in WorkOf(s),
                    budgetRun[r].status = "running"
             PROVE  FALSE
  BY DEF NoWorkOverLimit
<1>1. r \in RunIds /\ AtStake(r, s)  BY DEF AtStake, WorkOf
<1>2. PICK e \in Evaluators : Reaches(e, s, r)  BY <1>1 DEF WorkInv, WorkReached
<1>3. QED  BY <1>2 DEF NoEvaluations, EvalAt, Reaches, Enforcing

\* A hard stop reaches all the work of its scope, for any cost events, policies,
\* decisions and starts at once, as long as a raise replaces a limit in force by one
\* that is no smaller (evaluateCostEvent and resolveIncident of budgets.ts,
\* getInvocationBlock and cancelBudgetScopeWork of heartbeat.ts).
THEOREM HardStopsReachAllWork ==
  ASSUME BudgetsAssumption PROVE BudgetsSpec /\ [][RaisesRaise]_budgetVars => []NoWorkOverLimit
<1>1. BudgetsInit => BudgetsIInv /\ WorkInv  BY BudgetsInitInv, WorkInitInv
<1>2. BudgetsIInv /\ [BudgetsNext]_budgetVars => BudgetsIInv'  BY BudgetsStepInv
<1>3. BudgetsIInv /\ WorkInv /\ [BudgetsNext]_budgetVars /\ [RaisesRaise]_budgetVars => WorkInv'
  BY WorkStep DEF BudgetsIInv
<1>4. WorkInv => NoWorkOverLimit  BY WorkInvReached
<1>5. QED  BY <1>1, <1>2, <1>3, <1>4, PTL DEF BudgetsSpec

-----------------------------------------------------------------------------
(* A hard stop pauses its scope                                              *)

\* An evaluation that will pause the scope: as it reaches the work of the scope,
\* but not yet past the pause.
WillPause(e, s) ==
    LET h == eval[e] IN
        \/ h.pc = "policies" /\ h.op = "cost" /\ s \in {h.at, Company}
        \/ /\ h.pc \in Enforcing \cup {"next", "cancel"} /\ h.op = "cost"
           /\ s \in h.scopes /\ Exhausted(s, h.read[s], spend[s])
        \/ h.pc = "observe" /\ h.op = "upsert" /\ h.at = s /\ h.amount <= spend[s]
        \/ h.pc \in Enforcing \ {"select"} /\ h.at = s /\ h.seen >= h.read[s]

\* A scope that has used up its budget is paused, or some evaluation will pause it.
PauseReached ==
    ~aborted => \A s \in Scopes :
        Over(s) /\ ~Paused(s) => \E e \in Evaluators : WillPause(e, s)

\* Nobody lifts the pause of a scope that has used up its budget: not the board, nor a
\* run that writes the status of its agent.
ResumesSpare == \A s \in Scopes : Paused(s) /\ ~Paused(s)' => ~Over(s)

\* The same of a scope nothing has paused yet, for runs that do.
TakenReached ==
    ~aborted => \A s \in Scopes :
        Over(s) /\ state[s] = Active => \E e \in Evaluators : WillPause(e, s)

NoneForgets == \A s \in Scopes : state[s] # Active => state'[s] # Active

\* An evaluation of a cost event that goes on with the policies still to come.
LEMMA ComesToScope ==
  ASSUME NEW e \in Evaluators, NEW s, NEW h, eval'[e] = h, spend' = spend,
         eval[e].op = "cost", s \in eval[e].scopes, Exhausted(s, eval[e].read[s], spend[s]),
         h.pc \in Enforcing \cup {"next", "cancel"}, h.op = "cost",
         s \in h.scopes, h.read = eval[e].read
  PROVE  WillPause(e, s)'
BY DEF WillPause

LEMMA FinishedPauses ==
  ASSUME BudgetsTypeOK, NEW e \in Evaluators, NEW s,
         eval' = [eval EXCEPT ![e] = Finished(e)], spend' = spend,
         eval[e].op = "cost", s \in eval[e].scopes, Exhausted(s, eval[e].read[s], spend[s])
  PROVE  WillPause(e, s)'
<1> DEFINE h == [eval[e] EXCEPT !.pc = "next", !.seen = 0, !.work = {}]
<1>1. Finished(e) = h /\ eval[e] \in Evals  BY BudgetsRows DEF Finished
<1>2. h.pc = "next" /\ h.op = "cost" /\ h.scopes = eval[e].scopes /\ h.read = eval[e].read
  BY <1>1 DEF Evals
<1> HIDE DEF h
<1>3. eval'[e] = h  BY <1>1 DEF BudgetsTypeOK
<1>4. QED  BY <1>2, <1>3, ComesToScope

\* Each statement of an evaluation that will pause the scope, but the pause itself.
LEMMA EnforcementPauses ==
  ASSUME BudgetsTypeOK, NEW e \in Evaluators, EvaluatePolicy(e),
         NEW s \in Scopes, WillPause(e, s), ~aborted'
  PROVE  WillPause(e, s)' \/ Paused(s)'
<1>1. /\ eval[e] \in Evals /\ eval[e].at \in Scopes /\ eval[e].seen \in Nat
      /\ eval[e].read[eval[e].at] \in Nat
  BY BudgetsRows DEF Evals
<1>2. spend' = spend /\ eval[e].pc \in Enforcing \cup {"cancel"}
  BY DEF EvaluatePolicy, SoftLook, SoftInsert, SoftResolve, HardLook, InsertApproval, HardInsert,
    PauseScope, SelectWork, CancelWork, EvalAt, Enforcing
<1> DEFINE ToCome == /\ eval[e].op = "cost" /\ s \in eval[e].scopes
                     /\ Exhausted(s, eval[e].read[s], spend[s])
           AtHand == /\ eval[e].pc \in Enforcing \ {"select"} /\ eval[e].at = s
                     /\ eval[e].seen >= eval[e].read[s]
<1>3. ToCome \/ AtHand  BY <1>2 DEF WillPause, Enforcing
\* Another step of the same policy, which leaves the rest alone;
<1>4. ASSUME NEW h, eval' = [eval EXCEPT ![e] = h], h.pc \in Enforcing \cup {"cancel"},
             h.at = eval[e].at, h.op = eval[e].op, h.scopes = eval[e].scopes,
             h.read = eval[e].read, h.seen = eval[e].seen,
             AtHand => h.pc \in Enforcing \ {"select"} \/ Paused(s)'
      PROVE  WillPause(e, s)' \/ Paused(s)'
  <2>1. eval'[e] = h  BY <1>4 DEF BudgetsTypeOK
  <2>2. CASE ToCome  BY <1>2, <1>4, <2>1, <2>2, ComesToScope
  <2>3. CASE AtHand  BY <1>4, <2>1, <2>3 DEF WillPause
  <2>4. QED  BY <1>3, <2>2, <2>3
\* the next policy;
<1>5. ASSUME eval' = [eval EXCEPT ![e] = Finished(e)], ~AtHand PROVE WillPause(e, s)'
  BY <1>2, <1>3, <1>5, FinishedPauses
<1> DEFINE On(p) == [eval[e] EXCEPT !.pc = p]
<1>6. \A p \in EvalPCs : /\ On(p).pc = p /\ On(p).at = eval[e].at /\ On(p).op = eval[e].op
                         /\ On(p).scopes = eval[e].scopes /\ On(p).read = eval[e].read
                         /\ On(p).seen = eval[e].seen
  BY <1>1 DEF Evals
<1>7. ASSUME NEW p \in Enforcing \ {"select"}, eval' = [eval EXCEPT ![e] = On(p)]
      PROVE  WillPause(e, s)' \/ Paused(s)'
  <2>1. p \in EvalPCs  BY DEF Enforcing, EvalPCs
  <2> HIDE DEF On, AtHand
  <2>2. QED  BY <1>4, <1>6, <1>7, <2>1
\* the hard threshold, which an evaluation that has it at hand is past.
<1>8. ASSUME eval' = [eval EXCEPT ![e] = AfterSoft(e)]
      PROVE  WillPause(e, s)' \/ Paused(s)'
  <2>1. CASE eval[e].seen >= eval[e].read[eval[e].at]
    <3>1. AfterSoft(e) = On("softResolve")  BY <2>1 DEF AfterSoft
    <3>2. QED  BY <1>7, <1>8, <3>1 DEF Enforcing
  <2>2. CASE ~(eval[e].seen >= eval[e].read[eval[e].at])
    <3>1. AfterSoft(e) = Finished(e) /\ ~AtHand  BY <2>2 DEF AfterSoft
    <3>2. QED  BY <1>5, <1>8, <3>1
  <2>3. QED  BY <2>1, <2>2
<1>9. CASE SoftLook(e)
  <2>1. \/ eval' = [eval EXCEPT ![e] = AfterSoft(e)]
        \/ eval' = [eval EXCEPT ![e] = On("softInsert")]
    BY <1>9 DEF SoftLook
  <2>2. QED  BY <1>7, <1>8, <2>1 DEF Enforcing
<1>10. CASE SoftInsert(e)
  <2>1. eval' = [eval EXCEPT ![e] = AfterSoft(e)]  BY <1>10 DEF SoftInsert
  <2>2. QED  BY <1>8, <2>1
<1>11. CASE SoftResolve(e) \/ HardLook(e)
  <2>1. PICK p \in {"hardLook", "approval", "pause"} : eval' = [eval EXCEPT ![e] = On(p)]
    BY <1>11 DEF SoftResolve, HardLook, EvalGo
  <2>2. QED  BY <1>7, <2>1 DEF Enforcing
<1>12. CASE InsertApproval(e) \/ HardInsert(e)
  <2>1. PICK p \in {"hardInsert", "pause"}, a \in Nat :
            eval' = [eval EXCEPT ![e] = [eval[e] EXCEPT !.pc = p, !.approval = a]]
    <3>1. Len(override) + 1 \in Nat  BY BudgetsRows
    <3>2. CASE InsertApproval(e)  BY <3>1, <3>2 DEF InsertApproval
    <3>3. CASE HardInsert(e)  BY <3>3 DEF HardInsert
    <3>4. QED  BY <1>12, <3>2, <3>3
  <2> DEFINE h == [eval[e] EXCEPT !.pc = p, !.approval = a]
  <2>2. /\ h.pc = p /\ h.at = eval[e].at /\ h.op = eval[e].op
        /\ h.scopes = eval[e].scopes /\ h.read = eval[e].read /\ h.seen = eval[e].seen
    BY <1>1 DEF Evals
  <2>3. eval' = [eval EXCEPT ![e] = h] /\ p \in Enforcing \ {"select"}  BY <2>1 DEF Enforcing
  <2> HIDE DEF h, AtHand
  <2>4. QED  BY <1>4, <2>2, <2>3
<1>13. CASE PauseScope(e)
  <2>1. eval' = [eval EXCEPT ![e] = On("select")]  BY <1>13 DEF PauseScope, EvalGo
  <2>2. AtHand => Paused(s)'
    BY <1>13, BudgetsRows DEF PauseScope, Here, Paused, Scope
  <2>3. "select" \in EvalPCs /\ "select" \in Enforcing  BY DEF EvalPCs, Enforcing
  <2> HIDE DEF On, AtHand
  <2>4. QED  BY <1>4, <1>6, <2>1, <2>2, <2>3
<1>14. CASE SelectWork(e) \/ CancelWork(e)
  <2>1. ~AtHand  BY <1>14 DEF SelectWork, CancelWork, EvalAt, Enforcing
  <2>2. PICK w \in SUBSET RunIds :
          \/ eval' = [eval EXCEPT ![e] = Finished(e)]
          \/ eval' = [eval EXCEPT ![e] = [eval[e] EXCEPT !.work = w, !.pc = "cancel"]]
    <3>1. CASE SelectWork(e)
      <4>1. WorkOf(Here(e)) \in SUBSET RunIds  BY DEF WorkOf
      <4>2. QED  BY <3>1, <4>1 DEF SelectWork
    <3>2. CASE CancelWork(e)
      <4>1. PICK r \in eval[e].work :
              eval' = [eval EXCEPT ![e] = IF eval[e].work = {r} THEN Finished(e)
                                          ELSE [@ EXCEPT !.work = eval[e].work \ {r}]]
        BY <3>2 DEF CancelWork
      <4>2. eval[e].pc = "cancel"  BY <3>2 DEF CancelWork, EvalAt
      <4>3. [eval[e] EXCEPT !.work = eval[e].work \ {r}]
              = [eval[e] EXCEPT !.work = eval[e].work \ {r}, !.pc = "cancel"]
        BY <1>1, <4>2 DEF Evals
      <4>4. eval[e].work \ {r} \in SUBSET RunIds  BY <1>1 DEF Evals
      <4>5. QED  BY <4>1, <4>3, <4>4
    <3>3. QED  BY <1>14, <3>1, <3>2
  <2> DEFINE h == [eval[e] EXCEPT !.work = w, !.pc = "cancel"]
  <2>3. /\ h.pc = "cancel" /\ h.at = eval[e].at /\ h.op = eval[e].op
        /\ h.scopes = eval[e].scopes /\ h.read = eval[e].read /\ h.seen = eval[e].seen
    BY <1>1 DEF Evals
  <2>4. \/ eval' = [eval EXCEPT ![e] = Finished(e)]
        \/ eval' = [eval EXCEPT ![e] = h]
    BY <2>2
  <2> HIDE DEF h, AtHand
  <2>5. QED  BY <1>4, <1>5, <2>1, <2>3, <2>4
<1>15. QED  BY <1>9, <1>10, <1>11, <1>12, <1>13, <1>14 DEF EvaluatePolicy

\* The policies a cost event reads, and each of them against the spend.
LEMMA CostPauses ==
  ASSUME BudgetsAssumption, BudgetsTypeOK, NEW e \in Evaluators,
         SelectPolicies(e) \/ ObserveNext(e),
         NEW s \in Scopes, Over(s), WillPause(e, s)
  PROVE  WillPause(e, s)'
<1>1. /\ eval[e] \in Evals /\ eval[e].at \in Scopes /\ Company \in Scopes
      /\ \A t \in Scopes : spend[t] \in Nat /\ limit[t] \in Nat /\ eval[e].read[t] \in Nat
  BY BudgetsRows DEF Evals, Scopes
<1>2. spend' = spend  BY DEF SelectPolicies, ObserveNext
<1>3. CASE SelectPolicies(e)
  <2> DEFINE relevant == {t \in {Here(e), Company} : limit[t] > 0}
             h == [eval[e] EXCEPT !.pc = "next", !.scopes = relevant, !.at = Company,
                      !.read = [t \in Scopes |-> IF t \in relevant THEN limit[t] ELSE 0]]
  <2>1. /\ h.pc = "next" /\ h.op = eval[e].op /\ h.scopes = relevant
        /\ h.read = [t \in Scopes |-> IF t \in relevant THEN limit[t] ELSE 0]
    BY <1>1 DEF Evals
  <2> HIDE DEF h
  <2>2. eval[e].op = "cost" /\ s \in {Here(e), Company}
    BY <1>3 DEF SelectPolicies, EvalAt, WillPause, Enforcing, Here
  <2>3. s \in relevant /\ Exhausted(s, limit[s], spend[s])
    BY <1>1, <2>2 DEF Over, Exhausted
  <2>4. eval'[e] = h  BY <1>3, <2>3 DEF SelectPolicies, h, BudgetsTypeOK
  <2>5. QED  BY <1>2, <2>1, <2>2, <2>3, <2>4 DEF WillPause
<1>4. CASE ObserveNext(e)
  <2>1. PICK t \in eval[e].scopes :
          LET h == [eval[e] EXCEPT !.scopes = @ \ {t}, !.at = t] IN
              eval' = [eval EXCEPT ![e] =
                  IF spend[t] >= SoftThreshold(h.read[t])
                  THEN [h EXCEPT !.pc = "softLook", !.seen = spend[t]]
                  ELSE IF h.scopes = {} THEN NoEval ELSE h]
    BY <1>4 DEF ObserveNext
  <2> DEFINE h == [eval[e] EXCEPT !.scopes = @ \ {t}, !.at = t]
             k == [h EXCEPT !.pc = "softLook", !.seen = spend[t]]
  <2>2. t \in Scopes /\ EvalAt(e, "next")  BY <1>1, <1>4 DEF Evals, ObserveNext
  <2>3. /\ h.pc = "next" /\ h.op = eval[e].op /\ h.scopes = eval[e].scopes \ {t}
        /\ h.read = eval[e].read /\ h.at = t
        /\ k.pc = "softLook" /\ k.op = eval[e].op /\ k.scopes = eval[e].scopes \ {t}
        /\ k.read = eval[e].read /\ k.at = t /\ k.seen = spend[t]
    BY <1>1, <2>2 DEF Evals, EvalAt
  <2>4. eval' = [eval EXCEPT ![e] = IF spend[t] >= SoftThreshold(h.read[t]) THEN k
                                    ELSE IF h.scopes = {} THEN NoEval ELSE h]
    BY <2>1
  <2> HIDE DEF h, k
  <2>5. s \in eval[e].scopes /\ eval[e].op = "cost" /\ Exhausted(s, eval[e].read[s], spend[s])
    BY <2>2 DEF EvalAt, WillPause, Enforcing
  <2>6. CASE spend[t] >= SoftThreshold(h.read[t])
    <3>1. eval'[e] = k  BY <2>4, <2>6 DEF BudgetsTypeOK
    <3>2. QED  BY <1>1, <1>2, <2>3, <2>5, <3>1 DEF WillPause, Enforcing, Exhausted
  <2>7. CASE ~(spend[t] >= SoftThreshold(h.read[t]))
    <3>1. s # t
      <4>1. SUFFICES ASSUME s = t PROVE FALSE  OBVIOUS
      <4>2. SoftThreshold(h.read[t]) \in Int /\ SoftThreshold(h.read[t]) <= h.read[t]
        BY <1>1, <2>2, <2>3, SoftIsSooner
      <4>3. QED  BY <1>1, <2>2, <2>3, <2>5, <2>7, <4>1, <4>2 DEF Exhausted
    <3>2. eval'[e] = h  BY <2>3, <2>4, <2>5, <2>7, <3>1 DEF BudgetsTypeOK
    <3>3. QED  BY <1>2, <2>3, <2>5, <3>1, <3>2 DEF WillPause, Enforcing
  <2>8. QED  BY <2>6, <2>7
<1>5. QED  BY <1>3, <1>4

\* A new amount against the spend; no other statement of the board's is to pause.
LEMMA BoardPauses ==
  ASSUME BudgetsTypeOK, UpsertsKnown, NEW e \in Evaluators,
         \/ ObserveUpsert(e) \/ ObserveRaise(e) \/ RaiseLimit(e) \/ ResumeScope(e)
         \/ SelectOpen(e) \/ ResolveOpen(e) \/ Dismiss(e) \/ MarkApproval(e),
         NEW s \in Scopes, WillPause(e, s)
  PROVE  WillPause(e, s)'
<1>1. /\ eval[e] \in Evals /\ eval[e].amount \in Nat
      /\ spend[s] \in Nat /\ eval[e].read[s] \in Nat
  BY BudgetsRows DEF Evals
<1>2. ObserveUpsert(e)
  BY DEF WillPause, Enforcing, EvalAt, ObserveRaise, RaiseLimit, ResumeScope, SelectOpen,
    ResolveOpen, Dismiss, MarkApproval
<1>3. eval[e].read[Here(e)] = eval[e].amount /\ s = Here(e) /\ eval[e].amount <= spend[s]
  BY <1>2 DEF ObserveUpsert, UpsertsKnown, WillPause, Enforcing, EvalAt, Here
<1> DEFINE h == [eval[e] EXCEPT !.seen = spend[Here(e)],
                    !.pc = IF spend[Here(e)] < eval[e].amount THEN "resume" ELSE "softLook"]
<1>4. h.pc = "softLook" /\ h.at = s /\ h.seen = spend[s] /\ h.read = eval[e].read
  BY <1>1, <1>3 DEF Evals, Here
<1>5. eval' = [eval EXCEPT ![e] = h]  BY <1>2 DEF ObserveUpsert
<1> HIDE DEF h
<1>6. eval'[e] = h  BY <1>5 DEF BudgetsTypeOK
<1>7. QED  BY <1>1, <1>3, <1>4, <1>6 DEF WillPause, Enforcing

\* A scope gets over its limit by a cost event or a new policy, each of which begins
\* an evaluation that will pause it; a raise puts none over.
LEMMA OverBegins ==
  ASSUME BudgetsAssumption, BudgetsTypeOK, BudgetsNext, RaisesRaise,
         NEW s \in Scopes, Over(s)', ~Over(s)
  PROVE  \E e \in Evaluators : EvalAt(e, "idle") /\ WillPause(e, s)'
<1>1. /\ eval \in [Evaluators -> Evals]
      /\ spend \in [Scopes -> Nat] /\ limit \in [Scopes -> Nat]
      /\ Staff \subseteq Scopes /\ Company \in Scopes /\ Policed \subseteq Scopes
      /\ Amounts \subseteq Nat
  BY BudgetsRows DEF BudgetsAssumption, Scopes
<1>2. ~UNCHANGED <<limit, spend>>  BY DEF Over
<1>3. ASSUME NEW e \in Evaluators, NEW a \in Staff, CostEvent(e, a)
      PROVE  EvalAt(e, "idle") /\ WillPause(e, s)'
  <2> DEFINE h == [NoEval EXCEPT !.pc = "policies", !.op = "cost", !.at = a]
  <2>1. h.pc = "policies" /\ h.op = "cost" /\ h.at = a  BY DEF NoEval
  <2>2. eval' = [eval EXCEPT ![e] = h] /\ limit' = limit /\ EvalAt(e, "idle")
        /\ spend' = [spend EXCEPT ![a] = @ + 1, ![Company] = @ + 1]
    BY <1>3 DEF CostEvent
  <2> HIDE DEF h
  <2>3. eval'[e] = h  BY <1>1, <2>2
  <2>4. s \in {a, Company}  BY <1>1, <2>2 DEF Over
  <2>5. QED  BY <2>1, <2>2, <2>3, <2>4 DEF WillPause
<1>4. ASSUME NEW e \in Evaluators, NEW t \in Policed, NEW amount \in Amounts,
             UpsertPolicy(e, t, amount)
      PROVE  EvalAt(e, "idle") /\ WillPause(e, s)'
  <2> DEFINE h == [NoEval EXCEPT !.op = "upsert", !.at = t, !.amount = amount,
                      !.read = [NoEval.read EXCEPT ![t] = amount],
                      !.pc = IF amount > 0 THEN "observe" ELSE "resume"]
  <2>1. /\ h.pc = (IF amount > 0 THEN "observe" ELSE "resume") /\ h.op = "upsert" /\ h.at = t
        /\ h.amount = amount
    BY DEF NoEval
  <2>2. eval' = [eval EXCEPT ![e] = h] /\ limit' = [limit EXCEPT ![t] = amount] /\ spend' = spend
        /\ EvalAt(e, "idle")
    BY <1>4 DEF UpsertPolicy, Decide
  <2> HIDE DEF h
  <2>3. eval'[e] = h /\ t \in Scopes /\ amount \in Nat  BY <1>1, <2>2
  <2>4. s = t  BY <1>1, <2>2 DEF Over
  <2>5. amount > 0 /\ spend[s] >= amount  BY <1>1, <2>2, <2>3, <2>4 DEF Over, Exhausted
  <2>6. QED  BY <1>1, <2>1, <2>2, <2>3, <2>4, <2>5 DEF WillPause
<1>5. ASSUME NEW e \in Evaluators, RaiseLimit(e) PROVE FALSE
  <2>1. 0 < limit[Here(e)] /\ limit[Here(e)] <= eval[e].amount  BY <1>5 DEF RaisesRaise
  <2>2. limit' = [limit EXCEPT ![Here(e)] = eval[e].amount] /\ spend' = spend
    BY <1>5 DEF RaiseLimit
  <2>3. eval[e].amount \in Nat /\ Here(e) \in Scopes  BY <1>1 DEF Evals, Here
  <2>4. limit'[s] > 0 /\ spend[s] >= limit'[s]  BY <2>2 DEF Over, Exhausted
  <2>5. limit[s] > 0 /\ spend[s] >= limit[s]  BY <1>1, <2>1, <2>2, <2>3, <2>4
  <2>6. QED  BY <2>5 DEF Over, Exhausted
<1>6. ASSUME NEW e \in Evaluators, EvalStep(e) PROVE FALSE
  BY <1>2, <1>5, <1>6 DEF EvalStep, EvaluatePolicy, SoftLook, SoftInsert, SoftResolve, HardLook,
    InsertApproval, HardInsert, PauseScope, SelectWork, CancelWork, SelectPolicies, ObserveNext,
    ObserveUpsert, ObserveRaise, ResumeScope, SelectOpen, ResolveOpen, Dismiss, MarkApproval
<1>7. ASSUME NEW c \in Starters,
             StartStep(c) \/ \E a \in Staff, r \in RunIds \cup {0} : CheckAgent(c, r, a)
      PROVE  FALSE
  BY <1>2, <1>7 DEF StartStep, CheckAgent, CheckCompany, ReadPolicy, CheckSpend, Refuse,
    QueueRun, ClaimRun, ExecuteRun, ReadAgent, FinalizeAgent
<1>8. ~BoardStep /\ ~\E n \in DOMAIN override : RouteStep(n)
  BY <1>2, BoardOrRoute
<1>9. QED
  BY <1>2, <1>3, <1>4, <1>6, <1>7, <1>8 DEF BudgetsNext, BoardStep, RouteStep, ResolveIncident, FinishRun

\* What another request does leaves an evaluation on its way; the spend only grows.
LEMMA StaysOnItsWay ==
  ASSUME BudgetsTypeOK, NEW e \in Evaluators, eval'[e] = eval[e], NEW s \in Scopes,
         spend'[s] \in Nat, spend'[s] >= spend[s], WillPause(e, s)
  PROVE  WillPause(e, s)'
<1>1. spend[s] \in Nat /\ eval[e].amount \in Nat /\ eval[e].read[s] \in Nat
  BY BudgetsRows DEF Evals
<1>2. Exhausted(s, eval[e].read[s], spend[s]) => Exhausted(s, eval[e].read[s], spend'[s])
  BY <1>1 DEF Exhausted
<1>3. eval[e].amount <= spend[s] => eval[e].amount <= spend'[s]  BY <1>1
<1>4. QED  BY <1>2, <1>3 DEF WillPause

\* Whose evaluation a step moves, and what it does to the spend.
LEMMA OneMoves ==
  ASSUME BudgetsAssumption, BudgetsTypeOK, BudgetsNext
  PROVE  /\ \A s \in Scopes : spend'[s] \in Nat /\ spend'[s] >= spend[s]
         /\ aborted => aborted'
         /\ \/ \E e \in Evaluators : /\ EvalStep(e) \/ EvalAt(e, "idle")
                                     /\ \A f \in Evaluators \ {e} : eval'[f] = eval[f]
            \/ eval' = eval
<1>1. /\ eval \in [Evaluators -> Evals] /\ spend \in [Scopes -> Nat]
      /\ Staff \subseteq Scopes /\ Company \in Scopes /\ Company \notin Staff
  BY BudgetsRows DEF BudgetsAssumption, Scopes
<1> DEFINE Moves(e) == \A f \in Evaluators \ {e} : eval'[f] = eval[f]
<1>2. ASSUME NEW e \in Evaluators, NEW h, eval' = [eval EXCEPT ![e] = h] PROVE Moves(e)
  BY <1>1, <1>2
<1> HIDE DEF Moves
<1>3. ASSUME NEW e \in Evaluators, EvalStep(e)
      PROVE  Moves(e) /\ spend' = spend /\ (aborted => aborted')
  <2>1. spend' = spend /\ (aborted' = aborted \/ aborted' = TRUE)
    BY <1>3 DEF EvalStep, EvaluatePolicy, SoftLook, SoftInsert, SoftResolve, HardLook,
      InsertApproval, HardInsert, PauseScope, SelectWork, CancelWork, SelectPolicies, ObserveNext,
      ObserveUpsert, ObserveRaise, RaiseLimit, ResumeScope, SelectOpen, ResolveOpen, Dismiss,
      MarkApproval
  <2>2. \E h : eval' = [eval EXCEPT ![e] = h]
    BY <1>3 DEF EvalStep, EvaluatePolicy, SoftLook, SoftInsert, SoftResolve, HardLook, EvalGo,
      InsertApproval, HardInsert, PauseScope, SelectWork, CancelWork, SelectPolicies, ObserveNext,
      ObserveUpsert, ObserveRaise, RaiseLimit, ResumeScope, SelectOpen, ResolveOpen, Dismiss,
      MarkApproval
  <2>3. aborted => aborted'  BY <2>1, Zenon
  <2>4. QED  BY <1>2, <2>1, <2>2, <2>3
<1>4. ASSUME NEW e \in Evaluators, NEW a \in Staff, CostEvent(e, a)
      PROVE  /\ Moves(e) /\ EvalAt(e, "idle") /\ aborted' = aborted
             /\ \A s \in Scopes : spend'[s] \in Nat /\ spend'[s] >= spend[s]
  <2>1. spend' = [spend EXCEPT ![a] = @ + 1, ![Company] = @ + 1] /\ EvalAt(e, "idle")
        /\ aborted' = aborted
    BY <1>4 DEF CostEvent
  <2>2. Moves(e)  BY <1>2, <1>4 DEF CostEvent
  <2>3. \A s \in Scopes : spend'[s] = IF s \in {a, Company} THEN spend[s] + 1 ELSE spend[s]
    BY <1>1, <2>1
  <2>4. QED  BY <1>1, <2>1, <2>2, <2>3
<1>5. ASSUME NEW e \in Evaluators, NEW s, NEW x, NEW amount,
             UpsertPolicy(e, s, amount) \/ ResolveIncident(e, s, x, amount)
      PROVE  Moves(e) /\ EvalAt(e, "idle") /\ spend' = spend /\ aborted' = aborted
  BY <1>2, <1>5 DEF UpsertPolicy, ResolveIncident, Decide
<1>6. ASSUME NEW c \in Starters,
             StartStep(c) \/ \E a \in Staff, r \in RunIds \cup {0} : CheckAgent(c, r, a)
      PROVE  UNCHANGED <<eval, spend, aborted>>
  BY <1>6 DEF StartStep, CheckAgent, CheckCompany, ReadPolicy, CheckSpend, Refuse, QueueRun, ClaimRun,
    ExecuteRun, ReadAgent, FinalizeAgent
<1>7. \A s \in Scopes : spend[s] \in Nat /\ spend[s] >= spend[s]  BY <1>1
<1>8. CASE \E e \in Evaluators : EvalStep(e)  BY <1>3, <1>7, <1>8 DEF Moves
<1>9. CASE \E e \in Evaluators, a \in Staff : CostEvent(e, a)  BY <1>4, <1>9 DEF Moves
<1>10. CASE \/ \E e \in Evaluators, s \in Policed, amount \in Amounts :
                  UpsertPolicy(e, s, amount) \/ ResolveIncident(e, s, "raise", amount)
            \/ \E e \in Evaluators, s \in Policed : ResolveIncident(e, s, "dismiss", 0)
  BY <1>5, <1>7, <1>10 DEF Moves
<1>11. CASE UNCHANGED <<eval, spend, aborted>>
  <2>1. aborted => aborted'  BY <1>11, Zenon
  <2>2. QED  BY <1>7, <1>11, <2>1
<1>12. CASE BoardStep \/ \E n \in DOMAIN override : RouteStep(n)  BY <1>11, <1>12, BoardOrRoute
<1>13. QED
  BY <1>6, <1>8, <1>9, <1>10, <1>11, <1>12 DEF BudgetsNext, BoardStep, RouteStep, FinishRun

LEMMA PauseStep ==
  ASSUME BudgetsAssumption, BudgetsTypeOK, UpsertsKnown, PauseReached,
         [BudgetsNext]_budgetVars, [RaisesRaise]_budgetVars, [ResumesSpare]_budgetVars
  PROVE  PauseReached'
<1>1. CASE UNCHANGED budgetVars
  BY <1>1 DEF budgetVars, PauseReached, Over, WillPause, Paused
<1>2. CASE BudgetsNext /\ RaisesRaise /\ ResumesSpare
  <2> SUFFICES ASSUME ~aborted', NEW s \in Scopes, Over(s)', ~Paused(s)'
               PROVE  \E e \in Evaluators : WillPause(e, s)'
    BY DEF PauseReached
  <2>1. CASE ~Over(s)  BY <1>2, <2>1, OverBegins
  <2>2. CASE Over(s)
    <3>1. ~Paused(s)  BY <1>2, <2>2 DEF ResumesSpare
    <3>2. PICK e \in Evaluators : WillPause(e, s)
      BY <1>2, <2>2, <3>1, OneMoves DEF PauseReached
    <3>3. ~EvalAt(e, "idle")  BY <3>2 DEF WillPause, EvalAt, Enforcing
    <3>4. CASE EvalStep(e)
      BY <2>2, <3>2, <3>4, EnforcementPauses, CostPauses, BoardPauses DEF EvalStep
    <3>5. CASE eval'[e] = eval[e]  BY <1>2, <3>2, <3>5, OneMoves, StaysOnItsWay
    <3>6. QED  BY <1>2, <3>3, <3>4, <3>5, OneMoves
  <2>3. QED  BY <2>1, <2>2
<1>3. QED  BY <1>1, <1>2 DEF budgetVars

LEMMA TakenStep ==
  ASSUME BudgetsAssumption, BudgetsTypeOK, UpsertsKnown, TakenReached,
         [BudgetsNext]_budgetVars, [RaisesRaise]_budgetVars, [NoneForgets]_budgetVars
  PROVE  TakenReached'
<1>1. CASE UNCHANGED budgetVars
  BY <1>1 DEF budgetVars, TakenReached, Over, WillPause
<1>2. CASE BudgetsNext /\ RaisesRaise /\ NoneForgets
  <2> SUFFICES ASSUME ~aborted', NEW s \in Scopes, Over(s)', state'[s] = Active
               PROVE  \E e \in Evaluators : WillPause(e, s)'
    BY DEF TakenReached, Active
  <2>1. CASE ~Over(s)  BY <1>2, <2>1, OverBegins
  <2>2. CASE Over(s)
    <3>1. state[s] = Active /\ ~Paused(s)'  BY <1>2, <2>2 DEF NoneForgets, Paused, Active, Scope
    <3>2. PICK e \in Evaluators : WillPause(e, s)
      BY <1>2, <2>2, <3>1, OneMoves DEF TakenReached
    <3>3. ~EvalAt(e, "idle")  BY <3>2 DEF WillPause, EvalAt, Enforcing
    <3>4. CASE EvalStep(e)
      BY <2>2, <3>1, <3>2, <3>4, EnforcementPauses, CostPauses, BoardPauses DEF EvalStep
    <3>5. CASE eval'[e] = eval[e]  BY <1>2, <3>2, <3>5, OneMoves, StaysOnItsWay
    <3>6. QED  BY <1>2, <3>3, <3>4, <3>5, OneMoves
  <2>3. QED  BY <2>1, <2>2
<1>3. QED  BY <1>1, <1>2 DEF budgetVars

\* What the invariants say once no evaluation is in flight.
LEMMA PauseReachedThere == ASSUME PauseReached PROVE aborted \/ HardStopPauses
BY DEF PauseReached, HardStopPauses, NoEvaluations, WillPause, EvalAt, Enforcing

LEMMA TakenReachedThere ==
  ASSUME TakenReached PROVE aborted \/ (NoEvaluations => \A s \in Scopes : Over(s) => state[s] # Active)
BY DEF TakenReached, NoEvaluations, WillPause, EvalAt, Enforcing

\* Nothing is over its limit at first.
LEMMA NoneOverYet == ASSUME BudgetsAssumption PROVE BudgetsInit => \A s \in Scopes : ~Over(s)
<1> SUFFICES ASSUME BudgetsInit, NEW s \in Scopes, Over(s) PROVE FALSE  OBVIOUS
<1>1. limit[s] \in Nat  BY BudgetsInitInv, BudgetsRows DEF BudgetsIInv
<1>2. spend[s] = 0  BY DEF BudgetsInit
<1>3. QED  BY <1>1, <1>2 DEF Over, Exhausted

\* A scope that has used up its budget is paused once no evaluation is in flight
\* (evaluateCostEvent and upsertPolicy of budgets.ts), unless one died on the unique
\* index of incidents, for any cost events, policies and decisions at once, as long as
\* a raise does not lower the limit and neither the board nor a status that a run
\* writes lifts the pause of a scope that is over it.
THEOREM HardStopsPause ==
  ASSUME BudgetsAssumption
  PROVE  BudgetsSpec /\ [][RaisesRaise]_budgetVars /\ [][ResumesSpare]_budgetVars
            => [](aborted \/ HardStopPauses)
<1>1. BudgetsInit => PauseReached  BY NoneOverYet DEF PauseReached
<1>2. BudgetsInit => BudgetsIInv /\ WorkInv  BY BudgetsInitInv, WorkInitInv
<1>3. BudgetsIInv /\ [BudgetsNext]_budgetVars => BudgetsIInv'  BY BudgetsStepInv
<1>4. BudgetsIInv /\ WorkInv /\ [BudgetsNext]_budgetVars /\ [RaisesRaise]_budgetVars => WorkInv'
  BY WorkStep DEF BudgetsIInv
<1>5. BudgetsIInv /\ WorkInv /\ PauseReached /\ [BudgetsNext]_budgetVars
        /\ [RaisesRaise]_budgetVars /\ [ResumesSpare]_budgetVars => PauseReached'
  BY PauseStep DEF BudgetsIInv, WorkInv
<1>6. PauseReached => aborted \/ HardStopPauses  BY PauseReachedThere
<1>7. QED  BY <1>1, <1>2, <1>3, <1>4, <1>5, <1>6, PTL DEF BudgetsSpec

-----------------------------------------------------------------------------
(* One decision: it is held against a limit that is in force                 *)

\* Where a request of each kind may stand.
PlacesOK(e) ==
    /\ eval[e].op = "none" => EvalAt(e, "idle")
    /\ eval[e].op = "cost" => eval[e].pc \in Enforcing \cup {"policies", "next", "cancel"}
    /\ EvalAt(e, "raise") => eval[e].op = "raise"

NoDecisionIn(e) == eval[e].op \in {"none", "cost"}

\* An evaluation holds the spend against the limits in force.
InForce(e) ==
    LET h == eval[e] IN
        /\ \A s \in h.scopes : 0 < h.read[s] /\ h.read[s] = limit[s]
        /\ h.pc \in Enforcing =>
            /\ 0 < h.read[h.at] /\ h.read[h.at] = limit[h.at] /\ h.seen <= spend[h.at]
            /\ h.pc \in {"softResolve", "hardLook", "approval", "hardInsert"} => h.read[h.at] <= h.seen

\* Before the first decision a hard stop is that of a budget which is used up.
Undecided ==
    /\ \A e \in Evaluators : NoDecisionIn(e) /\ InForce(e)
    /\ \A s \in Scopes : Hard(s).status # "none" => Over(s)

\* A raise is the only decision under way, and about such a budget.
RaiseOK(e) ==
    eval[e].op = "raise" =>
        /\ \A f \in Evaluators \ {e} : NoDecisionIn(f)
        /\ EvalAt(e, "observe") => Over(Here(e))
        /\ EvalAt(e, "raise") => 0 < limit[Here(e)] /\ limit[Here(e)] <= eval[e].amount

DecisionInv ==
    /\ \A e \in Evaluators : PlacesOK(e) /\ RaiseOK(e)
    /\ events.decisions = 0 => Undecided

LEMMA DecisionInitInv == ASSUME BudgetsAssumption PROVE BudgetsInit => DecisionInv
<1> SUFFICES ASSUME BudgetsInit PROVE DecisionInv  OBVIOUS
<1>1. \A e \in Evaluators : eval[e].op = "none" /\ eval[e].pc = "idle" /\ eval[e].scopes = {}
  BY DEF BudgetsInit, NoEval
<1>2. \A s \in Scopes : Hard(s).status = "none"
  BY DEF BudgetsInit, Hard, NoIncident, Thresholds
<1>3. QED
  BY <1>1, <1>2 DEF DecisionInv, PlacesOK, RaiseOK, Undecided, NoDecisionIn, InForce, EvalAt, Enforcing

\* A step of one request that leaves the policies alone.
LEMMA DecisionKept ==
  ASSUME BudgetsTypeOK, DecisionInv, NEW e \in Evaluators, NEW h,
         eval' = [eval EXCEPT ![e] = h], UNCHANGED <<limit, spend, events>>,
         h.op = eval[e].op \/ h.op = "none", PlacesOK(e)', h.pc # "observe",
         h.pc = "raise" => 0 < limit[h.at] /\ limit[h.at] <= h.amount,
         Undecided => /\ InForce(e)'
                      /\ \A s \in Scopes : Hard(s)'.status # "none" => Hard(s).status # "none" \/ Over(s)
  PROVE  DecisionInv'
<1>1. eval'[e] = h /\ \A f \in Evaluators \ {e} : eval'[f] = eval[f]  BY DEF BudgetsTypeOK
<1>2. ASSUME NEW f \in Evaluators PROVE PlacesOK(f)'
  <2>1. CASE f # e  BY <1>1, <2>1 DEF DecisionInv, PlacesOK, EvalAt
  <2>2. QED  BY <2>1
<1>3. \A f \in Evaluators : NoDecisionIn(f) => NoDecisionIn(f)'  BY <1>1 DEF NoDecisionIn
<1>4. ASSUME NEW f \in Evaluators PROVE RaiseOK(f)'
  <2>1. CASE f = e
    BY <1>1, <1>3, <2>1 DEF DecisionInv, RaiseOK, EvalAt, Here
  <2>2. CASE f # e
    BY <1>1, <1>3, <2>2 DEF DecisionInv, RaiseOK, EvalAt, Here, Over
  <2>3. QED  BY <2>1, <2>2
<1>5. ASSUME events.decisions = 0 PROVE Undecided'
  <2>1. Undecided  BY <1>5 DEF DecisionInv
  <2>2. \A s \in Scopes : Hard(s)'.status # "none" => Over(s)'  BY <2>1 DEF Undecided, Over
  <2>3. ASSUME NEW f \in Evaluators, f # e PROVE InForce(f)'
    BY <1>1, <2>1, <2>3 DEF Undecided, InForce
  <2>4. QED  BY <1>3, <2>1, <2>2, <2>3 DEF Undecided
<1>6. QED  BY <1>2, <1>4, <1>5 DEF DecisionInv

\* A step of nobody's request, which may add to the spend.
LEMMA DecisionUntouched ==
  ASSUME BudgetsTypeOK, DecisionInv, UNCHANGED <<eval, limit, incident>>,
         events'.decisions = events.decisions, spend' = spend
  PROVE  DecisionInv'
BY DEF DecisionInv, PlacesOK, RaiseOK, Undecided, NoDecisionIn, InForce, EvalAt, Here, Hard, Over

LEMMA NoEvalDecides ==
  ASSUME BudgetsTypeOK, DecisionInv, NEW e \in Evaluators, eval' = [eval EXCEPT ![e] = NoEval],
         UNCHANGED <<limit, spend, events>>, \A s \in Scopes : Hard(s)' = Hard(s)
  PROVE  DecisionInv'
<1>1. NoEval.op = "none" /\ NoEval.pc = "idle" /\ NoEval.scopes = {}  BY DEF NoEval
<1>2. eval'[e] = NoEval  BY DEF BudgetsTypeOK
<1>3. PlacesOK(e)' /\ InForce(e)'  BY <1>1, <1>2 DEF PlacesOK, InForce, EvalAt, Enforcing
<1>4. QED  BY <1>1, <1>3, DecisionKept

\* An evaluation that goes on to the next policy, or ends.
LEMMA FinishedDecides ==
  ASSUME BudgetsTypeOK, DecisionInv, NEW e \in Evaluators,
         eval' = [eval EXCEPT ![e] = Finished(e)], UNCHANGED <<limit, spend, events>>,
         \A s \in Scopes : Hard(s)' = Hard(s)
  PROVE  DecisionInv'
<1>1. CASE Finished(e) = NoEval  BY <1>1, NoEvalDecides
<1>2. CASE Finished(e) # NoEval
  <2> DEFINE h == [eval[e] EXCEPT !.pc = "next", !.seen = 0, !.work = {}]
  <2>1. Finished(e) = h /\ eval[e].op = "cost"  BY <1>2 DEF Finished
  <2>2. h.pc = "next" /\ h.op = "cost" /\ h.scopes = eval[e].scopes /\ h.read = eval[e].read
    BY <2>1, BudgetsRows DEF Evals
  <2> HIDE DEF h
  <2>3. eval'[e] = h  BY <2>1, BudgetsRows
  <2>4. PlacesOK(e)'  BY <2>2, <2>3 DEF PlacesOK, EvalAt
  <2>5. Undecided => InForce(e)'  BY <2>2, <2>3 DEF Undecided, InForce, Enforcing
  <2>6. QED  BY <2>1, <2>2, <2>4, <2>5, DecisionKept
<1>3. QED  BY <1>1, <1>2

LEMMA EnforcementDecides ==
  ASSUME BudgetsAssumption, BudgetsTypeOK, DecisionInv, NEW e \in Evaluators, EvaluatePolicy(e)
  PROVE  DecisionInv'
<1>1. /\ eval[e] \in Evals /\ eval[e].at \in Scopes /\ eval[e].seen \in Nat
      /\ \A s \in Scopes : spend[s] \in Nat /\ limit[s] \in Nat /\ eval[e].read[s] \in Nat
  BY BudgetsRows DEF Evals
<1>2. UNCHANGED <<limit, spend, events>>
  BY DEF EvaluatePolicy, SoftLook, SoftInsert, SoftResolve, HardLook, InsertApproval, HardInsert,
    PauseScope, SelectWork, CancelWork
\* The evaluation moves on to the next step of the same policy.
<1>3. ASSUME NEW p \in Enforcing \cup {"cancel"}, NEW h, eval' = [eval EXCEPT ![e] = h], h.pc = p,
             h.at = eval[e].at, h.op = eval[e].op, h.scopes = eval[e].scopes,
             h.read = eval[e].read, h.seen = eval[e].seen, eval[e].pc \in Enforcing \cup {"cancel"},
             p \in Enforcing => eval[e].pc \in Enforcing,
             p \in {"softResolve", "hardLook", "approval", "hardInsert"} =>
                \/ eval[e].pc \in {"softResolve", "hardLook", "approval", "hardInsert"}
                \/ h.read[h.at] <= h.seen,
             Undecided => \A s \in Scopes : Hard(s)'.status # "none" => Hard(s).status # "none" \/ Over(s)
      PROVE  DecisionInv'
  <2>1. eval'[e] = h  BY <1>3 DEF BudgetsTypeOK
  <2>2. PlacesOK(e)'
    BY <1>3, <2>1 DEF DecisionInv, PlacesOK, EvalAt, Enforcing
  <2>3. Undecided => InForce(e)'
    BY <1>2, <1>3, <2>1 DEF Undecided, InForce
  <2>4. h.pc # "observe" /\ h.pc # "raise"  BY <1>3 DEF Enforcing
  <2>5. QED  BY <1>2, <1>3, <2>2, <2>3, <2>4, DecisionKept
<1>4. ASSUME \A s \in Scopes : Hard(s)' = Hard(s), eval[e].pc \in Enforcing,
             eval' = [eval EXCEPT ![e] = AfterSoft(e)]
      PROVE  DecisionInv'
  <2> DEFINE h == [eval[e] EXCEPT !.pc = "softResolve"]
  <2>1. CASE eval[e].seen >= eval[e].read[eval[e].at]
    <3>1. AfterSoft(e) = h  BY <2>1 DEF AfterSoft
    <3>2. /\ h.pc = "softResolve" /\ h.at = eval[e].at /\ h.op = eval[e].op /\ h.seen = eval[e].seen
          /\ h.scopes = eval[e].scopes /\ h.read = eval[e].read
      BY <1>1 DEF Evals
    <3> HIDE DEF h
    <3>3. h.read[h.at] <= h.seen  BY <1>1, <2>1, <3>2
    <3>4. QED  BY <1>3, <1>4, <3>1, <3>2, <3>3 DEF Enforcing
  <2>2. CASE ~(eval[e].seen >= eval[e].read[eval[e].at])
    <3>1. AfterSoft(e) = Finished(e)  BY <2>2 DEF AfterSoft
    <3>2. QED  BY <1>2, <1>4, <3>1, FinishedDecides
  <2>3. QED  BY <2>1, <2>2
<1> DEFINE On(p) == [eval[e] EXCEPT !.pc = p]
<1>5. \A p \in EvalPCs : /\ On(p).pc = p /\ On(p).at = eval[e].at /\ On(p).op = eval[e].op
                         /\ On(p).scopes = eval[e].scopes /\ On(p).read = eval[e].read
                         /\ On(p).seen = eval[e].seen
  BY <1>1 DEF Evals
<1>6. Enforcing \subseteq EvalPCs  BY DEF Enforcing, EvalPCs
<1> HIDE DEF On
<1>7. CASE SoftLook(e)
  <2>1. eval[e].pc = "softLook" /\ \A s \in Scopes : Hard(s)' = Hard(s)
    BY <1>7 DEF SoftLook, EvalAt, Hard
  <2>2. CASE eval' = [eval EXCEPT ![e] = AfterSoft(e)]  BY <1>4, <2>1, <2>2 DEF Enforcing
  <2>3. CASE eval' = [eval EXCEPT ![e] = On("softInsert")]
    BY <1>3, <1>5, <1>6, <2>1, <2>3 DEF Enforcing
  <2>4. QED  BY <1>7, <2>2, <2>3 DEF SoftLook, On
<1>8. CASE SoftInsert(e)
  <2>1. eval[e].pc = "softInsert"  BY <1>8 DEF SoftInsert, EvalAt
  <2>2. \A s \in Scopes : Hard(s)' = Hard(s)
    <3>1. incident' = [incident EXCEPT ![Here(e)]["soft"].status = "open"] \/ incident' = incident
      BY <1>8 DEF SoftInsert
    <3>2. QED  BY <1>1, <3>1, SoftStatus DEF Hard, Here
  <2>3. CASE eval' = [eval EXCEPT ![e] = AfterSoft(e)]  BY <1>4, <2>1, <2>2, <2>3 DEF Enforcing
  <2>4. CASE eval' = [eval EXCEPT ![e] = NoEval]  BY <1>2, <2>2, <2>4, NoEvalDecides
  <2>5. QED  BY <1>8, <2>3, <2>4 DEF SoftInsert
<1>9. CASE SoftResolve(e) \/ HardLook(e) \/ InsertApproval(e) \/ PauseScope(e)
  <2>1. \A s \in Scopes : Hard(s)' = Hard(s)
    <3>1. CASE SoftResolve(e)
      <4>1. incident' = [incident EXCEPT ![Here(e)]["soft"].status = IF @ = "open" THEN "resolved" ELSE @]
        BY <3>1 DEF SoftResolve
      <4>2. QED
        BY <1>1, <4>1, BudgetsRows DEF Hard, Here, Thresholds
    <3>2. QED  BY <1>9, <3>1 DEF HardLook, InsertApproval, PauseScope, Hard
  <2> DEFINE Late == {"softResolve", "hardLook", "approval", "hardInsert"}
             Step(p, h) ==
                /\ eval' = [eval EXCEPT ![e] = h] /\ h.pc = p
                /\ h.at = eval[e].at /\ h.op = eval[e].op /\ h.scopes = eval[e].scopes
                /\ h.read = eval[e].read /\ h.seen = eval[e].seen
                /\ eval[e].pc \in Enforcing
                /\ p \in Late => eval[e].pc \in Late
  <2>2. PICK p \in Enforcing : \E h : Step(p, h)
    <3>1. ASSUME NEW p \in Enforcing, eval' = [eval EXCEPT ![e] = On(p)], eval[e].pc \in Enforcing,
                 p \in Late => eval[e].pc \in Late
          PROVE  Step(p, On(p))
      BY <1>5, <1>6, <3>1
    <3>2. CASE SoftResolve(e)
      BY <3>1, <3>2 DEF SoftResolve, EvalAt, EvalGo, On, Enforcing
    <3>3. CASE HardLook(e)
      BY <3>1, <3>3 DEF HardLook, EvalAt, EvalGo, On, Enforcing
    <3>4. CASE PauseScope(e)
      BY <3>1, <3>4 DEF PauseScope, EvalAt, EvalGo, On, Enforcing
    <3>5. CASE InsertApproval(e)
      <4> DEFINE h == [eval[e] EXCEPT !.pc = "hardInsert", !.approval = Len(override) + 1]
      <4>1. /\ h.pc = "hardInsert" /\ h.at = eval[e].at /\ h.op = eval[e].op
            /\ h.scopes = eval[e].scopes /\ h.read = eval[e].read /\ h.seen = eval[e].seen
        BY <1>1 DEF Evals
      <4>2. eval' = [eval EXCEPT ![e] = h] /\ eval[e].pc = "approval"
        BY <3>5 DEF InsertApproval, EvalAt
      <4> HIDE DEF h
      <4>3. QED  BY <4>1, <4>2 DEF Enforcing
    <3>6. QED  BY <1>9, <3>2, <3>3, <3>4, <3>5
  <2>3. PICK h : Step(p, h)  BY <2>2
  <2>4. QED  BY <1>3, <2>1, <2>3
<1>10. CASE HardInsert(e)
  <2>1. eval[e].pc = "hardInsert"  BY <1>10 DEF HardInsert, EvalAt
  <2> DEFINE h == [eval[e] EXCEPT !.pc = "pause", !.approval = 0]
  <2>2. /\ h.pc = "pause" /\ h.at = eval[e].at /\ h.op = eval[e].op
        /\ h.scopes = eval[e].scopes /\ h.read = eval[e].read /\ h.seen = eval[e].seen
    BY <1>1 DEF Evals
  <2>3. Undecided => Over(Here(e))
    BY <1>1, <2>1 DEF Undecided, InForce, Enforcing, Over, Exhausted, Here
  <2>4. CASE eval' = [eval EXCEPT ![e] = h]
    <3> HIDE DEF h
    <3>1. Undecided => \A s \in Scopes : Hard(s)'.status # "none" => Hard(s).status # "none" \/ Over(s)
      <4>1. ASSUME NEW s \in Scopes, s # Here(e) PROVE Hard(s)' = Hard(s)
        BY <1>1, <1>10, <4>1, BudgetsRows DEF HardInsert, Hard, Here
      <4>2. QED  BY <2>3, <4>1
    <3>2. QED  BY <1>3, <2>1, <2>2, <2>4, <3>1 DEF Enforcing
  <2>5. CASE eval' = [eval EXCEPT ![e] = NoEval] /\ incident' = incident
    BY <1>2, <2>5, NoEvalDecides DEF Hard
  <2>6. QED  BY <1>10, <2>4, <2>5 DEF HardInsert
<1>11. CASE SelectWork(e)
  <2>1. \A s \in Scopes : Hard(s)' = Hard(s)  BY <1>11 DEF SelectWork, Hard
  <2> DEFINE h == [eval[e] EXCEPT !.work = WorkOf(Here(e)), !.pc = "cancel"]
  <2>2. CASE eval' = [eval EXCEPT ![e] = h]
    <3>1. /\ h.pc = "cancel" /\ h.at = eval[e].at /\ h.op = eval[e].op
          /\ h.scopes = eval[e].scopes /\ h.read = eval[e].read /\ h.seen = eval[e].seen
      BY <1>1 DEF Evals
    <3>2. eval[e].pc = "select"  BY <1>11 DEF SelectWork, EvalAt
    <3> HIDE DEF h
    <3>3. QED  BY <1>3, <2>1, <2>2, <3>1, <3>2 DEF Enforcing
  <2>3. CASE eval' = [eval EXCEPT ![e] = Finished(e)]  BY <1>2, <2>1, <2>3, FinishedDecides
  <2>4. QED  BY <1>11, <2>2, <2>3 DEF SelectWork
<1>12. CASE CancelWork(e)
  <2>1. eval[e].pc = "cancel" /\ \A s \in Scopes : Hard(s)' = Hard(s)
    BY <1>12 DEF CancelWork, EvalAt, Hard
  <2>2. PICK r \in eval[e].work :
          eval' = [eval EXCEPT ![e] = IF eval[e].work = {r} THEN Finished(e)
                                      ELSE [@ EXCEPT !.work = eval[e].work \ {r}]]
    BY <1>12 DEF CancelWork
  <2> DEFINE h == [eval[e] EXCEPT !.work = eval[e].work \ {r}]
  <2>3. CASE eval' = [eval EXCEPT ![e] = h]
    <3>1. /\ h.pc = "cancel" /\ h.at = eval[e].at /\ h.op = eval[e].op
          /\ h.scopes = eval[e].scopes /\ h.read = eval[e].read /\ h.seen = eval[e].seen
      BY <1>1, <2>1 DEF Evals
    <3> HIDE DEF h
    <3>2. QED  BY <1>3, <2>1, <2>3, <3>1 DEF Enforcing
  <2>4. CASE eval' = [eval EXCEPT ![e] = Finished(e)]  BY <1>2, <2>1, <2>4, FinishedDecides
  <2>5. QED  BY <2>2, <2>3, <2>4
<1>13. QED  BY <1>7, <1>8, <1>9, <1>10, <1>11, <1>12 DEF EvaluatePolicy

LEMMA CostDecides ==
  ASSUME BudgetsAssumption, BudgetsTypeOK, DecisionInv, NEW e \in Evaluators,
         SelectPolicies(e) \/ ObserveNext(e)
  PROVE  DecisionInv'
<1>1. /\ eval[e] \in Evals /\ eval[e].at \in Scopes /\ Company \in Scopes
      /\ \A s \in Scopes : spend[s] \in Nat /\ limit[s] \in Nat /\ eval[e].read[s] \in Nat
  BY BudgetsRows DEF Evals, Scopes
<1>2. UNCHANGED <<limit, spend, events>> /\ \A s \in Scopes : Hard(s)' = Hard(s)
  BY DEF SelectPolicies, ObserveNext, Hard
<1>3. CASE eval' = [eval EXCEPT ![e] = NoEval]  BY <1>2, <1>3, NoEvalDecides
<1>4. CASE SelectPolicies(e)
  <2> DEFINE relevant == {s \in {Here(e), Company} : limit[s] > 0}
             h == [eval[e] EXCEPT !.pc = "next", !.scopes = relevant, !.at = Company,
                      !.read = [s \in Scopes |-> IF s \in relevant THEN limit[s] ELSE 0]]
  <2>1. /\ h.pc = "next" /\ h.op = eval[e].op /\ h.scopes = relevant
        /\ h.read = [s \in Scopes |-> IF s \in relevant THEN limit[s] ELSE 0]
    BY <1>1 DEF Evals
  <2>2. \A s \in relevant : s \in Scopes /\ 0 < limit[s]  BY <1>1 DEF Here
  <2>3. CASE eval' = [eval EXCEPT ![e] = h]
    <3> HIDE DEF h, relevant
    <3>1. eval'[e] = h  BY <2>3 DEF BudgetsTypeOK
    <3>2. InForce(e)'  BY <1>2, <2>1, <2>2, <3>1 DEF InForce, Enforcing
    <3>3. PlacesOK(e)'
      BY <1>4, <2>1, <3>1 DEF SelectPolicies, DecisionInv, PlacesOK, EvalAt
    <3>4. QED  BY <1>2, <2>1, <2>3, <3>2, <3>3, DecisionKept
  <2>4. QED  BY <1>3, <1>4, <2>3 DEF SelectPolicies
<1>5. CASE ObserveNext(e)
  <2>1. PICK t \in eval[e].scopes :
          LET h == [eval[e] EXCEPT !.scopes = @ \ {t}, !.at = t] IN
              eval' = [eval EXCEPT ![e] =
                  IF spend[t] >= SoftThreshold(h.read[t])
                  THEN [h EXCEPT !.pc = "softLook", !.seen = spend[t]]
                  ELSE IF h.scopes = {} THEN NoEval ELSE h]
    BY <1>5 DEF ObserveNext
  <2> DEFINE h == [eval[e] EXCEPT !.scopes = @ \ {t}, !.at = t]
             k == [h EXCEPT !.pc = "softLook", !.seen = spend[t]]
  <2>2. t \in Scopes /\ EvalAt(e, "next")  BY <1>1, <1>5 DEF Evals, ObserveNext
  <2>3. /\ h.pc = "next" /\ h.op = eval[e].op /\ h.scopes = eval[e].scopes \ {t}
        /\ h.read = eval[e].read /\ h.at = t
        /\ k.pc = "softLook" /\ k.op = eval[e].op /\ k.scopes = eval[e].scopes \ {t}
        /\ k.read = eval[e].read /\ k.at = t /\ k.seen = spend[t]
    BY <1>1, <2>2 DEF Evals, EvalAt
  <2>4. eval' = [eval EXCEPT ![e] = h] \/ eval' = [eval EXCEPT ![e] = k] \/ eval' = [eval EXCEPT ![e] = NoEval]
    BY <2>1
  <2> HIDE DEF h, k
  <2>5. ASSUME NEW j \in {h, k}, eval' = [eval EXCEPT ![e] = j] PROVE DecisionInv'
    <3>1. eval'[e] = j  BY <2>5 DEF BudgetsTypeOK
    <3>2. Undecided => InForce(e)'
      BY <1>1, <1>2, <2>2, <2>3, <3>1 DEF Undecided, InForce, Enforcing
    <3>3. PlacesOK(e)'
      BY <2>2, <2>3, <3>1 DEF DecisionInv, PlacesOK, EvalAt, Enforcing
    <3>4. QED  BY <1>2, <2>3, <2>5, <3>2, <3>3, DecisionKept
  <2>6. QED  BY <1>3, <2>4, <2>5
<1>6. QED  BY <1>4, <1>5

LEMMA BoardDecides ==
  ASSUME BudgetsAssumption, BudgetsTypeOK, DecisionInv, NEW e \in Evaluators,
         \/ ObserveUpsert(e) \/ ObserveRaise(e) \/ ResumeScope(e) \/ SelectOpen(e)
         \/ ResolveOpen(e) \/ Dismiss(e) \/ MarkApproval(e) \/ RaiseLimit(e)
  PROVE  DecisionInv'
<1>1. /\ eval[e] \in Evals /\ Here(e) \in Scopes /\ eval[e].amount \in Nat
      /\ \A s \in Scopes : spend[s] \in Nat /\ limit[s] \in Nat
  BY BudgetsRows DEF Evals, Here
<1>2. UNCHANGED <<spend, events>>
  BY DEF ObserveUpsert, ObserveRaise, RaiseLimit, ResumeScope, SelectOpen, ResolveOpen, Dismiss,
    MarkApproval
<1>3. ~NoDecisionIn(e) /\ ~Undecided
  <2>1. eval[e].pc \in {"observe", "raise", "resume", "openRows", "resolve", "dismiss", "mark"}
    BY DEF ObserveUpsert, ObserveRaise, RaiseLimit, ResumeScope, SelectOpen, ResolveOpen, Dismiss,
      MarkApproval, EvalAt
  <2>2. ~NoDecisionIn(e)
    BY <2>1 DEF DecisionInv, PlacesOK, NoDecisionIn, EvalAt, Enforcing
  <2>3. QED  BY <2>2 DEF Undecided
\* What the request becomes: it is done, or stands elsewhere.
<1>4. PICK h :
        /\ eval' = [eval EXCEPT ![e] = h] /\ h.pc # "observe"
        /\ h = NoEval \/ (h.op = eval[e].op /\ h.at = eval[e].at /\ h.amount = eval[e].amount)
        /\ h.pc = "raise" => ObserveRaise(e) /\ eval[e].amount > spend[Here(e)]
  <2> DEFINE On(p) == [eval[e] EXCEPT !.pc = p]
             Becomes(h) == h.op = eval[e].op /\ h.at = eval[e].at /\ h.amount = eval[e].amount
  <2>1. NoEval.pc # "observe" /\ NoEval.pc # "raise"  BY DEF NoEval
  <2>2. \A p \in EvalPCs : On(p).pc = p /\ Becomes(On(p))  BY <1>1 DEF Evals
  <2> HIDE DEF On
  <2>3. CASE ObserveRaise(e)
    <3>1. CASE eval[e].amount > spend[Here(e)]
      <4>1. eval' = [eval EXCEPT ![e] = On("raise")]  BY <2>3, <3>1 DEF ObserveRaise, On
      <4>2. QED  BY <2>2, <2>3, <3>1, <4>1 DEF EvalPCs
    <3>2. CASE ~(eval[e].amount > spend[Here(e)])
      BY <2>1, <2>3, <3>2 DEF ObserveRaise
    <3>3. QED  BY <3>1, <3>2
  <2>4. CASE RaiseLimit(e) \/ ResumeScope(e) \/ ResolveOpen(e) \/ Dismiss(e)
    BY <2>2, <2>4 DEF RaiseLimit, ResumeScope, ResolveOpen, Dismiss, EvalGo, EvalPCs, On
  <2>5. CASE MarkApproval(e)  BY <2>1, <2>5 DEF MarkApproval
  <2>6. CASE SelectOpen(e)
    <3> DEFINE h(a) == [eval[e] EXCEPT !.pc = "resolve", !.approval = a]
    <3>1. \A a : h(a).pc = "resolve" /\ Becomes(h(a))  BY <1>1 DEF Evals
    <3>2. PICK a : eval' = [eval EXCEPT ![e] = h(a)]  BY <2>6 DEF SelectOpen
    <3> HIDE DEF h
    <3>3. QED  BY <3>1, <3>2
  <2>7. CASE ObserveUpsert(e)
    <3> DEFINE h(p) == [eval[e] EXCEPT !.seen = spend[Here(e)], !.pc = p]
    <3>1. \A p \in {"resume", "softLook"} : h(p).pc = p /\ Becomes(h(p))  BY <1>1 DEF Evals
    <3>2. PICK p \in {"resume", "softLook"} : eval' = [eval EXCEPT ![e] = h(p)]
      BY <2>7 DEF ObserveUpsert
    <3> HIDE DEF h
    <3>3. QED  BY <3>1, <3>2
  <2>8. QED  BY <2>3, <2>4, <2>5, <2>6, <2>7
<1>5. eval'[e] = h /\ \A f \in Evaluators \ {e} : eval'[f] = eval[f]  BY <1>4 DEF BudgetsTypeOK
<1>6. NoEval.op = "none" /\ NoEval.pc = "idle"  BY DEF NoEval
<1>7. PlacesOK(e)'
  BY <1>3, <1>4, <1>5, <1>6 DEF PlacesOK, EvalAt, NoDecisionIn, ObserveRaise
<1>8. CASE UNCHANGED limit
  <2>1. h.pc = "raise" => 0 < limit[h.at] /\ limit[h.at] <= h.amount
    <3> SUFFICES ASSUME h.pc = "raise" PROVE 0 < limit[h.at] /\ limit[h.at] <= h.amount  OBVIOUS
    <3>1. EvalAt(e, "observe") /\ eval[e].op = "raise" /\ eval[e].amount > spend[Here(e)]
      BY <1>4 DEF ObserveRaise
    <3>2. Over(Here(e))  BY <3>1 DEF DecisionInv, RaiseOK
    <3>3. h.at = Here(e) /\ h.amount = eval[e].amount  BY <1>4, <1>6 DEF Here
    <3>4. QED  BY <1>1, <3>1, <3>2, <3>3 DEF Over, Exhausted
  <2>2. h.op = eval[e].op \/ h.op = "none"  BY <1>4, <1>6
  <2>3. QED  BY <1>2, <1>3, <1>4, <1>7, <1>8, <2>1, <2>2, DecisionKept
\* A raise that writes the limit is the one decision under way.
<1>9. CASE RaiseLimit(e)
  <2>1. eval[e].op = "raise" /\ \A f \in Evaluators \ {e} : NoDecisionIn(f)
    BY <1>9 DEF RaiseLimit, DecisionInv, PlacesOK, RaiseOK
  <2>2. h.pc # "raise" /\ h.pc # "observe"  BY <1>4, <1>9 DEF RaiseLimit, ObserveRaise, EvalAt
  <2>3. ASSUME NEW f \in Evaluators PROVE PlacesOK(f)' /\ RaiseOK(f)'
    <3>1. CASE f = e
      BY <1>5, <1>7, <2>1, <2>2, <3>1 DEF RaiseOK, NoDecisionIn, EvalAt
    <3>2. CASE f # e
      BY <1>5, <2>1, <3>2 DEF DecisionInv, PlacesOK, RaiseOK, NoDecisionIn, EvalAt
    <3>3. QED  BY <3>1, <3>2
  <2>4. events.decisions # 0  BY <1>3 DEF DecisionInv
  <2>5. QED  BY <1>2, <2>3, <2>4 DEF DecisionInv
<1>10. QED
  BY <1>8, <1>9 DEF ObserveUpsert, ObserveRaise, ResumeScope, SelectOpen, ResolveOpen, Dismiss,
    MarkApproval

LEMMA BeginsDecides ==
  ASSUME BudgetsAssumption, MaxDecisions <= 1, BudgetsTypeOK, DecisionInv, NEW e \in Evaluators,
         \/ \E a \in Staff : CostEvent(e, a)
         \/ \E s \in Policed, amount \in Amounts : UpsertPolicy(e, s, amount)
         \/ \E s \in Policed, amount \in Amounts : ResolveIncident(e, s, "raise", amount)
         \/ \E s \in Policed : ResolveIncident(e, s, "dismiss", 0)
  PROVE  DecisionInv'
<1>1. /\ eval \in [Evaluators -> Evals] /\ EvalAt(e, "idle")
      /\ spend \in [Scopes -> Nat] /\ limit \in [Scopes -> Nat]
      /\ events \in EventCounts /\ MaxDecisions \in Nat
      /\ Staff \subseteq Scopes /\ Company \in Scopes /\ Policed \subseteq Scopes
  BY BudgetsRows DEF CostEvent, UpsertPolicy, ResolveIncident, Decide, BudgetsAssumption, Scopes
<1>2. \A s \in Scopes : Hard(s)' = Hard(s)  BY DEF CostEvent, UpsertPolicy, ResolveIncident, Hard
<1>3. ASSUME NEW a \in Staff, CostEvent(e, a) PROVE DecisionInv'
  <2> DEFINE h == [NoEval EXCEPT !.pc = "policies", !.op = "cost", !.at = a]
  <2>1. h.pc = "policies" /\ h.op = "cost" /\ h.scopes = {}  BY DEF NoEval
  <2> HIDE DEF h
  <2>2. eval' = [eval EXCEPT ![e] = h] /\ UNCHANGED <<limit, events>>
        /\ spend' = [spend EXCEPT ![a] = @ + 1, ![Company] = @ + 1]
    BY <1>3 DEF CostEvent, h
  <2>3. eval'[e] = h /\ \A f \in Evaluators \ {e} : eval'[f] = eval[f]  BY <1>1, <2>2
  <2>4. \A s \in Scopes : spend[s] \in Nat /\ spend'[s] \in Nat /\ spend[s] <= spend'[s]
    <3>1. a \in Scopes /\ a # Company  BY <1>1 DEF BudgetsAssumption
    <3>2. \A s \in Scopes : spend'[s] = IF s \in {a, Company} THEN spend[s] + 1 ELSE spend[s]
      BY <1>1, <2>2, <3>1
    <3>3. QED  BY <1>1, <3>2
  <2>5. \A s \in Scopes : Over(s) => Over(s)'  BY <1>1, <2>2, <2>4 DEF Over, Exhausted
  <2>6. ASSUME NEW f \in Evaluators PROVE PlacesOK(f)' /\ RaiseOK(f)'
    <3>1. CASE f = e
      BY <2>1, <2>3, <3>1 DEF PlacesOK, RaiseOK, EvalAt
    <3>2. CASE f # e
      <4>1. Here(f) \in Scopes  BY <1>1 DEF Here, Evals
      <4>2. PlacesOK(f)'  BY <2>3, <3>2 DEF DecisionInv, PlacesOK, EvalAt
      <4>3. QED
        BY <2>1, <2>2, <2>3, <2>5, <3>2, <4>1, <4>2
        DEF DecisionInv, RaiseOK, NoDecisionIn, EvalAt, Here
    <3>3. QED  BY <3>1, <3>2
  <2>7. ASSUME events.decisions = 0 PROVE Undecided'
    <3>1. Undecided  BY <2>7 DEF DecisionInv
    <3>2. ASSUME NEW f \in Evaluators PROVE NoDecisionIn(f)' /\ InForce(f)'
      <4>1. CASE f = e
        BY <2>1, <2>3, <4>1 DEF NoDecisionIn, InForce, Enforcing
      <4>2. CASE f # e
        <5>1. eval[f].at \in Scopes /\ eval[f].seen \in Nat  BY <1>1 DEF Evals
        <5>2. InForce(f) /\ NoDecisionIn(f) /\ eval'[f] = eval[f]
          BY <2>3, <3>1, <4>2 DEF Undecided
        <5>3. eval[f].seen <= spend[eval[f].at] => eval[f].seen <= spend'[eval[f].at]
          BY <2>4, <5>1
        <5>4. QED  BY <2>2, <5>2, <5>3 DEF InForce, NoDecisionIn
      <4>3. QED  BY <4>1, <4>2
    <3>3. \A s \in Scopes : Hard(s)'.status # "none" => Over(s)'
      BY <1>2, <2>5, <3>1 DEF Undecided
    <3>4. QED  BY <3>2, <3>3 DEF Undecided
  <2>8. QED  BY <2>2, <2>6, <2>7 DEF DecisionInv
\* A decision is the only one, and the first.
<1>4. ASSUME NEW h, Decide(e, h), UNCHANGED spend, h.op \in {"upsert", "raise", "dismiss"},
             h.pc # "raise",
             h.op = "raise" => Over(h.at) /\ h.at \in Scopes /\ UNCHANGED limit
      PROVE  DecisionInv'
  <2>1. events.decisions < MaxDecisions /\ events' = [events EXCEPT !.decisions = @ + 1]
        /\ eval' = [eval EXCEPT ![e] = h]
    BY <1>4 DEF Decide
  <2>2. events.decisions = 0 /\ events'.decisions = 1  BY <1>1, <2>1 DEF EventCounts
  <2>3. \A f \in Evaluators : NoDecisionIn(f)  BY <2>2 DEF DecisionInv, Undecided
  <2>4. eval'[e] = h /\ \A f \in Evaluators \ {e} : eval'[f] = eval[f]  BY <1>1, <2>1
  <2>5. ASSUME NEW f \in Evaluators PROVE PlacesOK(f)' /\ RaiseOK(f)'
    <3>1. CASE f = e
      <4>1. PlacesOK(f)'  BY <1>4, <2>4, <3>1 DEF PlacesOK, EvalAt
      <4>2. RaiseOK(f)'
        BY <1>4, <2>3, <2>4, <3>1 DEF RaiseOK, NoDecisionIn, EvalAt, Here, Over
      <4>3. QED  BY <4>1, <4>2
    <3>2. CASE f # e
      BY <2>3, <2>4, <3>2 DEF DecisionInv, PlacesOK, RaiseOK, NoDecisionIn, EvalAt
    <3>3. QED  BY <3>1, <3>2
  <2>6. QED  BY <2>2, <2>5 DEF DecisionInv
<1>5. ASSUME NEW s \in Policed, NEW amount \in Amounts, UpsertPolicy(e, s, amount) PROVE DecisionInv'
  <2> DEFINE h == [NoEval EXCEPT !.op = "upsert", !.at = s, !.amount = amount,
                      !.read = [NoEval.read EXCEPT ![s] = amount],
                      !.pc = IF amount > 0 THEN "observe" ELSE "resume"]
  <2>1. h.op = "upsert" /\ h.pc # "raise"  BY DEF NoEval
  <2>2. Decide(e, h) /\ UNCHANGED spend  BY <1>5 DEF UpsertPolicy
  <2> HIDE DEF h
  <2>3. QED  BY <1>4, <2>1, <2>2
<1>6. ASSUME NEW s \in Policed, NEW action \in {"raise", "dismiss"}, NEW amount,
             ResolveIncident(e, s, action, amount)
      PROVE  DecisionInv'
  <2> DEFINE h == [NoEval EXCEPT !.op = action, !.at = s, !.amount = amount,
                      !.approval = incident[s]["hard"].approval,
                      !.pc = IF action = "raise" THEN "observe" ELSE "dismiss"]
  <2>1. h.op = action /\ h.at = s /\ h.pc # "raise"  BY DEF NoEval
  <2>2. Decide(e, h) /\ UNCHANGED <<spend, limit>> /\ Hard(s).status # "none"
    BY <1>6 DEF ResolveIncident, Hard
  <2> HIDE DEF h
  <2>3. events.decisions = 0  BY <1>1, <2>2 DEF Decide, EventCounts
  <2>4. Over(s) /\ s \in Scopes  BY <1>1, <2>2, <2>3 DEF DecisionInv, Undecided
  <2>5. QED  BY <1>4, <2>1, <2>2, <2>4
<1>7. CASE \E a \in Staff : CostEvent(e, a)  BY <1>3, <1>7
<1>8. CASE \E s \in Policed, amount \in Amounts : UpsertPolicy(e, s, amount)  BY <1>5, <1>8
<1>9. CASE \E s \in Policed, amount \in Amounts : ResolveIncident(e, s, "raise", amount)
  BY <1>6, <1>9
<1>10. CASE \E s \in Policed : ResolveIncident(e, s, "dismiss", 0)  BY <1>6, <1>10
<1>11. QED  BY <1>7, <1>8, <1>9, <1>10

LEMMA DecisionInvStep ==
  ASSUME BudgetsAssumption, MaxDecisions <= 1, BudgetsTypeOK, DecisionInv, [BudgetsNext]_budgetVars
  PROVE  DecisionInv'
<1>1. CASE UNCHANGED budgetVars  BY <1>1, DecisionUntouched DEF budgetVars
<1>2. CASE BudgetsNext
  <2>1. ASSUME NEW e \in Evaluators, EvalStep(e) PROVE DecisionInv'
    BY <2>1, EnforcementDecides, CostDecides, BoardDecides DEF EvalStep
  <2>2. CASE BoardStep \/ \E n \in DOMAIN override : RouteStep(n)
    <3>1. events \in EventCounts  BY BudgetsRows
    <3>2. events'.decisions = events.decisions
      BY <2>2, <3>1 DEF BoardStep, BoardPause, BoardResume, BoardPatch, ByTheBoard, RouteStep,
        RequestRevision, ResubmitApproval, DecideApproval, Route, EventCounts
    <3>3. QED  BY <2>2, <3>2, BoardOrRoute, DecisionUntouched
  <2>3. ASSUME NEW c \in Starters,
               StartStep(c) \/ \E a \in Staff, r \in RunIds \cup {0} : CheckAgent(c, r, a)
        PROVE  DecisionInv'
    BY <2>3, DecisionUntouched DEF StartStep, CheckAgent, CheckCompany, ReadPolicy, CheckSpend, Refuse,
      QueueRun, ClaimRun, ExecuteRun, ReadAgent, FinalizeAgent
  <2>4. ASSUME NEW r \in RunIds, FinishRun(r) PROVE DecisionInv'
    BY <2>4, DecisionUntouched DEF FinishRun
  <2>5. QED  BY <1>2, <2>1, <2>2, <2>3, <2>4, BeginsDecides DEF BudgetsNext, BoardStep, RouteStep
<1>3. QED  BY <1>1, <1>2

\* One decision of the board cannot be the raise that lowers a limit, so that with
\* one a hard stop reaches all the work of its scope whatever else is under way.
THEOREM OneDecisionIsSafe ==
  ASSUME BudgetsAssumption, MaxDecisions <= 1 PROVE BudgetsSpec => []NoWorkOverLimit
<1>1. BudgetsInit => BudgetsIInv /\ DecisionInv  BY BudgetsInitInv, DecisionInitInv
<1>2. BudgetsIInv /\ [BudgetsNext]_budgetVars => BudgetsIInv'  BY BudgetsStepInv
<1>3. BudgetsIInv /\ DecisionInv /\ [BudgetsNext]_budgetVars => DecisionInv'
  <2> SUFFICES ASSUME BudgetsIInv, DecisionInv, [BudgetsNext]_budgetVars PROVE DecisionInv'  OBVIOUS
  <2>1. BudgetsTypeOK  BY DEF BudgetsIInv
  <2>2. QED  BY <2>1, DecisionInvStep
<1>4. DecisionInv => [RaisesRaise]_budgetVars
  BY DEF DecisionInv, RaisesRaise, RaiseOK, PlacesOK, RaiseLimit
<1>5. BudgetsSpec => [][RaisesRaise]_budgetVars  BY <1>1, <1>2, <1>3, <1>4, PTL DEF BudgetsSpec
<1>6. QED  BY <1>5, HardStopsReachAllWork, PTL

\* Without the board only the budget pauses.
BudgetReasons == \A s \in Scopes : state[s] = Active \/ state[s].reason = "budget"

LEMMA BudgetReasonsStep ==
  ASSUME BudgetsIInv, DecisionInv, MaxDecisions = 0, MaxPauses = 0, BudgetReasons, BudgetsNext
  PROVE  BudgetReasons' /\ NoneForgets
<1>1. /\ events.decisions = 0 /\ events.pauses = 0 /\ state \in [Scopes -> ScopeStates]
      /\ BudgetsTypeOK /\ start \in [Starters -> Starts]
  BY BudgetsRows DEF BudgetsIInv, EventCounts
<1>2. \A e \in Evaluators : eval[e].pc \in Enforcing \cup {"idle", "policies", "next", "cancel"}
  BY <1>1 DEF DecisionInv, PlacesOK, Undecided, NoDecisionIn, EvalAt
<1>3. ASSUME NEW e \in Evaluators, ResumeScope(e) PROVE FALSE
  BY <1>2, <1>3 DEF ResumeScope, EvalAt, Enforcing
<1>4. ASSUME NEW e \in Evaluators, PauseScope(e) PROVE BudgetReasons' /\ NoneForgets
  <2>1. Scope("paused", "budget") # Active /\ Scope("paused", "budget").reason = "budget"
    BY DEF Scope, Active
  <2>2. \A s \in Scopes : state'[s] = state[s] \/ state'[s] = Scope("paused", "budget")
    BY <1>1, <1>4 DEF PauseScope
  <2>3. QED  BY <2>1, <2>2 DEF BudgetReasons, NoneForgets
<1>5. ~BoardStep
  BY <1>1 DEF BoardStep, BoardPause, BoardResume, BoardPatch, ByTheBoard
<1>6. CASE UNCHANGED state
  <2>1. \A s \in Scopes : state'[s] = state[s]  BY <1>6
  <2>2. QED  BY <2>1 DEF BudgetReasons, NoneForgets
<1>7. ASSUME NEW e \in Evaluators, EvalStep(e) PROVE PauseScope(e) \/ UNCHANGED state
  BY <1>3, <1>7 DEF EvalStep, EvaluatePolicy, SoftLook, SoftInsert, SoftResolve,
    HardLook, InsertApproval, HardInsert, SelectWork, CancelWork, SelectPolicies, ObserveNext,
    ObserveUpsert, ObserveRaise, RaiseLimit, SelectOpen, ResolveOpen, Dismiss, MarkApproval
\* A run writes over the status, and the reason stays.
<1>8. ASSUME NEW c \in Starters, StartStep(c) PROVE BudgetReasons' /\ NoneForgets
  <2>1. CASE Overwritten(start[c].agent, "active")
    <3>1. start[c].agent \in Scopes  BY <1>1 DEF Starts
    <3>2. \A s \in Scopes : /\ state'[s].reason = state[s].reason /\ state'[s] \in ScopeStates
                            /\ state'[s] = state[s] \/ state'[s].status = "active"
      BY <1>1, <2>1, <3>1, OverwrittenTypes
    <3>3. \A s \in Scopes : state[s] = Active => state'[s] = Active
      BY <3>2 DEF Active, Scope, ScopeStates
    <3>4. Active.reason = "none"  BY DEF Active, Scope
    <3>5. QED  BY <3>2, <3>3, <3>4 DEF BudgetReasons, NoneForgets
  <2>2. QED
    BY <1>6, <1>8, <2>1 DEF StartStep, CheckCompany, ReadPolicy, CheckSpend, Refuse,
      QueueRun, ClaimRun, ExecuteRun, ReadAgent, FinalizeAgent
<1>9. CASE \E n \in DOMAIN override : RouteStep(n)
  BY <1>6, <1>9 DEF RouteStep, RequestRevision, ResubmitApproval, DecideApproval, Route
<1>10. CASE \E c \in Starters, b \in Staff, r \in RunIds \cup {0} : CheckAgent(c, r, b)
  BY <1>6, <1>10 DEF CheckAgent
<1>11. QED
  BY <1>4, <1>5, <1>6, <1>7, <1>8, <1>9, <1>10 DEF BudgetsNext, BoardStep, RouteStep, CostEvent,
    UpsertPolicy, ResolveIncident, FinishRun

\* Without the board a hard stop is missed only by an evaluation that died (the run
\* missed_hard_stop shows one), and undone only by the status that a run of the agent
\* writes over the pause: what is over its limit was paused for it.
THEOREM CostEventsPause ==
  ASSUME BudgetsAssumption, MaxDecisions = 0, MaxPauses = 0
  PROVE  BudgetsSpec => [](aborted \/ HardStopTakes)
<1>1. BudgetsInit => BudgetsIInv /\ WorkInv /\ DecisionInv /\ TakenReached /\ BudgetReasons
  <2>1. BudgetsInit => BudgetReasons  BY DEF BudgetsInit, BudgetReasons
  <2>2. BudgetsInit => TakenReached  BY NoneOverYet DEF TakenReached
  <2>3. QED  BY <2>1, <2>2, BudgetsInitInv, WorkInitInv, DecisionInitInv
<1>2. BudgetsIInv /\ [BudgetsNext]_budgetVars => BudgetsIInv'  BY BudgetsStepInv
<1>3. BudgetsIInv /\ DecisionInv /\ [BudgetsNext]_budgetVars => DecisionInv'
  <2> SUFFICES ASSUME BudgetsIInv, DecisionInv, [BudgetsNext]_budgetVars PROVE DecisionInv'  OBVIOUS
  <2>1. BudgetsTypeOK  BY DEF BudgetsIInv
  <2>2. QED  BY <2>1, DecisionInvStep
<1>4. BudgetsIInv /\ DecisionInv /\ BudgetReasons /\ [BudgetsNext]_budgetVars
        => BudgetReasons' /\ [NoneForgets]_budgetVars
  <2>1. UNCHANGED budgetVars /\ BudgetReasons => BudgetReasons'  BY DEF budgetVars, BudgetReasons
  <2>2. QED  BY <2>1, BudgetReasonsStep
<1>5. BudgetsIInv /\ DecisionInv => [RaisesRaise]_budgetVars
  BY DEF DecisionInv, RaisesRaise, RaiseOK, PlacesOK, RaiseLimit
<1>6. BudgetsIInv /\ WorkInv /\ [BudgetsNext]_budgetVars /\ [RaisesRaise]_budgetVars => WorkInv'
  BY WorkStep DEF BudgetsIInv
<1>7. BudgetsIInv /\ WorkInv /\ TakenReached /\ [BudgetsNext]_budgetVars
        /\ [RaisesRaise]_budgetVars /\ [NoneForgets]_budgetVars => TakenReached'
  BY TakenStep DEF BudgetsIInv, WorkInv
<1>8. BudgetsIInv /\ BudgetReasons /\ TakenReached => aborted \/ HardStopTakes
  <2> SUFFICES ASSUME BudgetReasons, TakenReached, ~aborted, NoEvaluations, NEW s \in Scopes, Over(s)
               PROVE  state[s].reason = "budget"
    BY DEF HardStopTakes
  <2>1. state[s] # Active  BY TakenReachedThere
  <2>2. QED  BY <2>1 DEF BudgetReasons
<1>9. QED  BY <1>1, <1>2, <1>3, <1>4, <1>5, <1>6, <1>7, <1>8, PTL DEF BudgetsSpec

(***************************************************************************)
(* Approvals                                                               *)
(***************************************************************************)

\* What a request carries from its first statement to its last.
DecisionLocalOK(h) ==
    /\ h.pc # "idle" => h.about \in Approvals
    /\ h.pc = "resolve" => h.op \in Decided
    /\ h.pc = "overwrite" => h.op \in Resolvable
    /\ h.pc = "setAgent" => h.op \in {"paused", "idle"}
DecisionLocalsOK == \A q \in Deciders : DecisionLocalOK(decision[q])

\* The requests whose decision was stored and that may still hire.
HirePCs == {"create", "lookPending", "activate"}
Acting(a) == {q \in Deciders : About(q) = a /\ decision[q].pc \in HirePCs}

\* Each stored decision pays for one hire, and so does each that was overwritten.
StaysDecided(a) == IF approval[a] \in Decided THEN 1 ELSE 0
PaidFor(a) == past[a].hires + Cardinality(Acting(a)) <= past[a].reopened + StaysDecided(a)
HiresArePaidFor == \A a \in Approvals : PaidFor(a)

\* Of one hire one request files the approval, which is none until then.
FilingOK ==
    /\ \A q \in Deciders : DecisionAt(q, "file") =>
        /\ kind[About(q)] = "hire" /\ approval[About(q)] = "none"
        /\ agent[About(q)] # "none"
    /\ \A q \in Deciders : decision[q].pc \in {"resolve", "overwrite"} => approval[About(q)] # "none"
    /\ \A a \in Approvals : kind[a] = "hire" /\ agent[a] = "none" => approval[a] = "none"
    /\ \A p, q \in Deciders : DecisionAt(p, "file") /\ DecisionAt(q, "file") /\ About(p) = About(q) => p = q

ApprovalsIInv == ApprovalsTypeOK /\ DecisionLocalsOK /\ FilingOK /\ HiresArePaidFor

-----------------------------------------------------------------------------
\* The initial states satisfy the invariant.
LEMMA ApprovalsInitInv == ASSUME ApprovalsAssumption PROVE ApprovalsInit => ApprovalsIInv
<1> SUFFICES ASSUME ApprovalsInit PROVE ApprovalsIInv  OBVIOUS
<1>1. /\ NoDecision \in DeciderStates /\ DecisionLocalOK(NoDecision) /\ NoDecision.pc = "idle"
      /\ NoPast \in Pasts /\ NoPast.hires = 0 /\ NoPast.reopened = 0
  BY DEF NoDecision, DeciderStates, DecisionLocalOK, NoPast, Pasts
<1>2. /\ \A q \in Deciders : decision[q] = NoDecision
      /\ \A a \in Approvals : past[a] = NoPast
  BY DEF ApprovalsInit
<1>3. ApprovalsTypeOK
  BY <1>1 DEF ApprovalsInit, ApprovalsTypeOK, ApprovalStatuses, AgentStatuses, ApprovalsAssumption
<1>4. DecisionLocalsOK  BY <1>1, <1>2 DEF DecisionLocalsOK
<1>5. ASSUME NEW a \in Approvals PROVE PaidFor(a)
  <2>1. Acting(a) = {}  BY <1>1, <1>2 DEF Acting, HirePCs
  <2>2. Cardinality(Acting(a)) = 0  BY <2>1, FS_EmptySet
  <2>3. StaysDecided(a) \in {0, 1}  BY DEF StaysDecided
  <2>4. QED  BY <1>1, <1>2, <2>2, <2>3 DEF PaidFor
<1>6. FilingOK  BY <1>1, <1>2 DEF ApprovalsInit, FilingOK, DecisionAt
<1>7. QED  BY <1>3, <1>4, <1>5, <1>6 DEF ApprovalsIInv, HiresArePaidFor

-----------------------------------------------------------------------------
(* What a step does to the requests, and to the count *)

\* A new record of the request.
DecisionIs(q, h) == decision' = [decision EXCEPT ![q] = h]
OthersKept(q) == \A o \in Deciders : o # q => decision'[o] = decision[o]

LEMMA RequestFacts ==
  ASSUME ApprovalsIInv, NEW q \in Deciders, NEW h \in DeciderStates, DecisionLocalOK(h), DecisionIs(q, h)
  PROVE  /\ decision' \in [Deciders -> DeciderStates] /\ DecisionLocalsOK' /\ decision'[q] = h /\ OthersKept(q)
         /\ \A a \in Approvals : Acting(a)' =
                IF h.about = a /\ h.pc \in HirePCs THEN Acting(a) \cup {q}
                ELSE Acting(a) \ {q}
<1>1. decision \in [Deciders -> DeciderStates]  BY DEF ApprovalsIInv, ApprovalsTypeOK
<1>2. /\ decision' \in [Deciders -> DeciderStates] /\ decision'[q] = h
      /\ \A o \in Deciders : o # q => decision'[o] = decision[o]
  BY <1>1 DEF DecisionIs
<1>3. DecisionLocalsOK'  BY <1>2 DEF ApprovalsIInv, DecisionLocalsOK, DecisionLocalOK
<1>4. ASSUME NEW a \in Approvals
      PROVE  Acting(a)' = IF h.about = a /\ h.pc \in HirePCs THEN Acting(a) \cup {q}
                          ELSE Acting(a) \ {q}
  <2>1. ASSUME NEW o
        PROVE o \in Acting(a)' <=> IF o = q THEN h.about = a /\ h.pc \in HirePCs
                                   ELSE o \in Acting(a)
    BY <1>2 DEF Acting, About, HirePCs
  <2>2. QED  BY <2>1
<1>5. QED  BY <1>2, <1>3, <1>4 DEF OthersKept

\* The answer of a request leaves no record of it.
LEMMA AnswerFacts ==
  ASSUME ApprovalsIInv, NEW q \in Deciders, Reply(q)
  PROVE  /\ decision' \in [Deciders -> DeciderStates] /\ DecisionLocalsOK' /\ decision'[q].pc = "idle" /\ OthersKept(q)
         /\ \A a \in Approvals : Acting(a)' = Acting(a) \ {q}
<1>1. NoDecision \in DeciderStates /\ DecisionLocalOK(NoDecision) /\ NoDecision.pc \notin HirePCs /\ NoDecision.pc = "idle"
  BY DEF NoDecision, DeciderStates, DecisionLocalOK, HirePCs
<1>2. DecisionIs(q, NoDecision)  BY DEF Reply, DecisionIs
<1>3. QED  BY <1>1, <1>2, RequestFacts

\* Go changes the place of a request and nothing else.
LEMMA DecisionGoFacts ==
  ASSUME ApprovalsIInv, NEW q \in Deciders, NEW pc, DecisionGo(q, pc), About(q) \in Approvals,
         pc \in HirePCs \cup {"terminate"}
  PROVE  /\ decision' \in [Deciders -> DeciderStates] /\ DecisionLocalsOK' /\ decision'[q].pc = pc /\ OthersKept(q)
         /\ \A a \in Approvals : Acting(a)' =
                IF About(q) = a /\ pc \in HirePCs THEN Acting(a) \cup {q} ELSE Acting(a) \ {q}
<1> DEFINE h == [decision[q] EXCEPT !.pc = pc]
<1>1. decision[q] \in DeciderStates  BY DEF ApprovalsIInv, ApprovalsTypeOK
<1>2. h \in DeciderStates /\ h.pc = pc /\ h.about = About(q)  BY <1>1 DEF DeciderStates, HirePCs, About
<1>3. DecisionIs(q, h)  BY DEF DecisionGo, DecisionIs
<1> HIDE DEF h
<1>4. DecisionLocalOK(h)  BY <1>2 DEF DecisionLocalOK, HirePCs
<1>5. QED  BY <1>2, <1>3, <1>4, RequestFacts

\* What is counted is finite.
LEMMA ActingFinite ==
  ASSUME ApprovalsAssumption, NEW a \in Approvals
  PROVE  IsFiniteSet(Acting(a)) /\ Cardinality(Acting(a)) \in Nat
<1>1. Acting(a) \subseteq Deciders /\ IsFiniteSet(Deciders)
  BY DEF Acting, ApprovalsAssumption
<1>2. QED  BY <1>1, FS_Subset, FS_CardinalityType

\* A step that hires nobody, lets no request act and takes no decision back for free.
LEMMA StillPaidFor ==
  ASSUME ApprovalsAssumption, ApprovalsIInv, past' \in [Approvals -> Pasts],
         \A a \in Approvals : Acting(a)' \subseteq Acting(a),
         \A a \in Approvals : past'[a].hires = past[a].hires,
         \A a \in Approvals : past[a].reopened + StaysDecided(a) <= past'[a].reopened + StaysDecided(a)'
  PROVE  HiresArePaidFor'
<1> SUFFICES ASSUME NEW a \in Approvals PROVE PaidFor(a)'  BY DEF HiresArePaidFor
<1>1. past[a] \in Pasts /\ past'[a] \in Pasts /\ PaidFor(a)
  BY DEF ApprovalsIInv, ApprovalsTypeOK, HiresArePaidFor
<1>2. IsFiniteSet(Acting(a)) /\ Cardinality(Acting(a)) \in Nat  BY ActingFinite
<1>3. Cardinality(Acting(a)') <= Cardinality(Acting(a)) /\ Cardinality(Acting(a)') \in Nat
  BY <1>2, FS_Subset, FS_CardinalityType
<1>4. StaysDecided(a) \in {0, 1} /\ StaysDecided(a)' \in {0, 1}  BY DEF StaysDecided
<1>5. past[a].hires \in Nat /\ past[a].reopened \in Nat /\ past'[a].reopened \in Nat
  BY <1>1 DEF Pasts
<1>6. past'[a].hires = past[a].hires
      /\ past[a].reopened + StaysDecided(a) <= past'[a].reopened + StaysDecided(a)'
  OBVIOUS
<1>7. past[a].hires + Cardinality(Acting(a)) <= past[a].reopened + StaysDecided(a)
  BY <1>1 DEF PaidFor
<1>8. past'[a].hires + Cardinality(Acting(a)') <= past'[a].reopened + StaysDecided(a)'
  BY <1>2, <1>3, <1>4, <1>5, <1>6, <1>7
<1>9. QED  BY <1>8 DEF PaidFor

\* The hire of a request that was counted.
LEMMA HirePaidFor ==
  ASSUME ApprovalsAssumption, ApprovalsIInv, past' \in [Approvals -> Pasts], approval' = approval,
         NEW q \in Deciders, About(q) \in Approvals, decision[q].pc \in HirePCs,
         \A a \in Approvals : Acting(a)' = Acting(a) \ {q},
         \A a \in Approvals : past'[a].reopened = past[a].reopened,
         \A a \in Approvals : past'[a].hires =
            IF a = About(q) THEN past[a].hires + 1 ELSE past[a].hires
  PROVE  HiresArePaidFor'
<1> SUFFICES ASSUME NEW a \in Approvals PROVE PaidFor(a)'  BY DEF HiresArePaidFor
<1>1. past[a] \in Pasts /\ past'[a] \in Pasts /\ PaidFor(a)
  BY DEF ApprovalsIInv, ApprovalsTypeOK, HiresArePaidFor
<1>2. IsFiniteSet(Acting(a)) /\ Cardinality(Acting(a)) \in Nat  BY ActingFinite
<1>3. q \in Acting(a) <=> a = About(q)  BY DEF Acting
<1>4. Cardinality(Acting(a)') = IF a = About(q) THEN Cardinality(Acting(a)) - 1
                                ELSE Cardinality(Acting(a))
  BY <1>2, <1>3, FS_RemoveElement
<1>5. StaysDecided(a) \in {0, 1} /\ StaysDecided(a)' = StaysDecided(a)  BY DEF StaysDecided
<1>6. past[a].hires \in Nat /\ past[a].reopened \in Nat  BY <1>1 DEF Pasts
<1>7. past[a].hires + Cardinality(Acting(a)) <= past[a].reopened + StaysDecided(a)
  BY <1>1 DEF PaidFor
<1>8. /\ past'[a].reopened = past[a].reopened
      /\ past'[a].hires = IF a = About(q) THEN past[a].hires + 1 ELSE past[a].hires
  OBVIOUS
<1>9. past'[a].hires + Cardinality(Acting(a)') <= past'[a].reopened + StaysDecided(a)'
  BY <1>2, <1>4, <1>5, <1>6, <1>7, <1>8
<1>10. QED  BY <1>9 DEF PaidFor

\* A request goes on past its filing, or was not filing, and no other approval of a
\* hire appears.
LEMMA FilingKept ==
  ASSUME ApprovalsIInv, kind' = kind, NEW q \in Deciders, OthersKept(q),
         decision'[q].pc \notin {"file", "resolve", "overwrite"},
         \A a \in Approvals : approval[a] # "none" => approval'[a] # "none",
         \A a \in Approvals : agent[a] # "none" => agent'[a] # "none",
         \A a \in Approvals : kind[a] = "hire" /\ approval[a] = "none" =>
            approval'[a] = "none" \/ (DecisionAt(q, "file") /\ About(q) = a)
  PROVE  FilingOK'
<1>1. \A o \in Deciders : o # q => decision'[o] = decision[o]  BY DEF OthersKept
<1>2. \A o \in Deciders : decision[o].pc \in {"file", "resolve", "overwrite"} => About(o) \in Approvals
  BY DEF ApprovalsIInv, DecisionLocalsOK, DecisionLocalOK, About
<1>3. FilingOK  BY DEF ApprovalsIInv
<1>4. \A o \in Deciders : DecisionAt(o, "file")' =>
        /\ kind'[About(o)'] = "hire" /\ approval'[About(o)'] = "none"
        /\ agent'[About(o)'] # "none"
  BY <1>1, <1>2, <1>3 DEF FilingOK, DecisionAt, About
<1>5. \A o \in Deciders : decision'[o].pc \in {"resolve", "overwrite"} => approval'[About(o)'] # "none"
  BY <1>1, <1>2, <1>3 DEF FilingOK, DecisionAt, About
<1>6. \A o, p \in Deciders :
        DecisionAt(o, "file")' /\ DecisionAt(p, "file")' /\ About(o)' = About(p)' => o = p
  BY <1>1, <1>3 DEF FilingOK, DecisionAt, About
<1>7. \A a \in Approvals : kind'[a] = "hire" /\ agent'[a] = "none" => approval'[a] = "none"
  BY <1>3 DEF FilingOK, DecisionAt, About
<1>8. QED  BY <1>4, <1>5, <1>6, <1>7 DEF FilingOK

-----------------------------------------------------------------------------
(* Every step keeps the invariant *)

\* A request that is received, and acts on nothing yet.
LEMMA ReceiveInv ==
  ASSUME ApprovalsAssumption, ApprovalsIInv, NEW q \in Deciders, NEW op, NEW a \in Approvals, NEW pc,
         ReceiveDecision(q, op, a, pc), UNCHANGED <<kind, approval, past>>,
         agent' \in [Approvals -> AgentStatuses],
         \A b \in Approvals : agent[b] # "none" => agent'[b] # "none",
         \/ /\ op = "file" /\ pc = "file" /\ kind[a] = "hire" /\ approval[a] = "none"
            /\ agent[a] = "none" /\ agent'[a] # "none"
         \/ op \in Decided /\ pc = "resolve" /\ approval[a] # "none"
         \/ op \in Resolvable /\ pc = "overwrite" /\ approval[a] # "none"
         \/ op \in {"paused", "idle"} /\ pc = "setAgent"
  PROVE  ApprovalsIInv'
<1> DEFINE h == [pc |-> pc, op |-> op, about |-> a]
<1>1. h \in DeciderStates /\ DecisionLocalOK(h) /\ h.pc \notin HirePCs /\ h.pc = pc /\ h.about = a
  BY DEF DeciderStates, DecisionLocalOK, HirePCs, Decided, Resolvable
<1>2. DecisionIs(q, h) /\ happened' \in [requests : 0..MaxDeciding, crashes : 0..MaxServerCrashes]
  BY DEF ReceiveDecision, DecisionIs, ApprovalsIInv, ApprovalsTypeOK, ApprovalsAssumption
<1> HIDE DEF h
<1>3. /\ decision' \in [Deciders -> DeciderStates] /\ DecisionLocalsOK' /\ decision'[q] = h /\ OthersKept(q)
      /\ \A b \in Approvals : Acting(b)' \subseteq Acting(b)
  BY <1>1, <1>2, RequestFacts
<1>4. ApprovalsTypeOK'  BY <1>2, <1>3 DEF ApprovalsIInv, ApprovalsTypeOK
<1>5. \A b \in Approvals : past[b].reopened + StaysDecided(b) <= past'[b].reopened + StaysDecided(b)'
  <2> TAKE b \in Approvals
  <2>1. past[b].reopened \in Nat /\ past' = past  BY DEF ApprovalsIInv, ApprovalsTypeOK, Pasts
  <2>2. StaysDecided(b) \in {0, 1} /\ StaysDecided(b)' = StaysDecided(b)  BY DEF StaysDecided
  <2>3. QED  BY <2>1, <2>2
<1>6. HiresArePaidFor'  BY <1>3, <1>4, <1>5, StillPaidFor DEF ApprovalsTypeOK
<1>7. FilingOK'
  <2>1. \A o \in Deciders : o # q => decision'[o] = decision[o]  BY <1>3 DEF OthersKept
  <2>2. FilingOK /\ \A o \in Deciders : DecisionAt(o, "file") => About(o) \in Approvals
    BY DEF ApprovalsIInv, DecisionLocalsOK, DecisionLocalOK, About, DecisionAt
  <2>3. CASE pc = "file"
    BY <1>1, <1>3, <2>1, <2>2, <2>3 DEF FilingOK, DecisionAt, About
  <2>4. CASE pc # "file"
    BY <1>1, <1>3, <2>1, <2>2, <2>4 DEF FilingOK, DecisionAt, About
  <2>5. QED  BY <2>3, <2>4
<1>8. QED  BY <1>3, <1>4, <1>6, <1>7 DEF ApprovalsIInv

\* A step of one request that stores nothing which is counted.
LEMMA QuietInv ==
  ASSUME ApprovalsAssumption, ApprovalsIInv, UNCHANGED kind,
         happened' \in [requests : 0..MaxDeciding, crashes : 0..MaxServerCrashes],
         decision' \in [Deciders -> DeciderStates], DecisionLocalsOK', FilingOK',
         \A a \in Approvals : Acting(a)' \subseteq Acting(a),
         agent' \in [Approvals -> AgentStatuses], past' \in [Approvals -> Pasts],
         approval' \in [Approvals -> ApprovalStatuses],
         \A a \in Approvals : past'[a].hires = past[a].hires,
         \A a \in Approvals : past[a].reopened <= past'[a].reopened,
         \A a \in Approvals : \/ approval[a] \in Decided => approval'[a] \in Decided
                              \/ past[a].reopened + 1 <= past'[a].reopened
  PROVE  ApprovalsIInv'
<1>1. ApprovalsTypeOK'  BY DEF ApprovalsIInv, ApprovalsTypeOK
<1>2. \A a \in Approvals : past[a].reopened + StaysDecided(a) <= past'[a].reopened + StaysDecided(a)'
  <2> TAKE a \in Approvals
  <2>1. past[a].reopened \in Nat /\ past'[a].reopened \in Nat  BY DEF ApprovalsIInv, ApprovalsTypeOK, Pasts
  <2>2. /\ StaysDecided(a) \in {0, 1} /\ StaysDecided(a)' \in {0, 1}
        /\ (approval[a] \in Decided => approval'[a] \in Decided) => StaysDecided(a) <= StaysDecided(a)'
    BY DEF StaysDecided
  <2>3. QED  BY <2>1, <2>2
<1>3. HiresArePaidFor'  BY <1>2, StillPaidFor
<1>4. QED  BY <1>1, <1>3 DEF ApprovalsIInv

\* The actions by which a request is received.
LEMMA NewRequestInv ==
  ASSUME ApprovalsAssumption, ApprovalsIInv, NEW q \in Deciders, NEW a \in Approvals, NewRequest(q, a)
  PROVE  ApprovalsIInv'
<1>1. agent \in [Approvals -> AgentStatuses]  BY DEF ApprovalsIInv, ApprovalsTypeOK
<1>2. CASE RequestHire(q, a)
  <2>1. /\ ReceiveDecision(q, "file", a, "file") /\ UNCHANGED <<kind, approval, past>>
        /\ kind[a] = "hire" /\ agent[a] = "none"
    BY <1>2 DEF RequestHire
  <2>2. /\ agent' \in [Approvals -> AgentStatuses] /\ agent'[a] # "none"
        /\ \A b \in Approvals : agent[b] # "none" => agent'[b] # "none"
    BY <1>1, <1>2 DEF RequestHire, AgentStatuses
  <2>3. approval[a] = "none"  BY <2>1 DEF ApprovalsIInv, FilingOK
  <2>4. QED  BY <2>1, <2>2, <2>3, ReceiveInv
<1>3. ASSUME NEW op \in Decided, ReadForDecision(q, op, a)  PROVE ApprovalsIInv'
  <2>1. /\ ReceiveDecision(q, op, a, "resolve") /\ UNCHANGED <<kind, approval, agent, past>>
        /\ approval[a] # "none"
    BY <1>3 DEF ReadForDecision, Resolvable
  <2>2. QED  BY <1>1, <2>1, ReceiveInv
<1>4. CASE ReadForRevision(q, a)
  <2>1. /\ ReceiveDecision(q, "revision_requested", a, "overwrite")
        /\ UNCHANGED <<kind, approval, agent, past>> /\ approval[a] # "none"
    BY <1>4 DEF ReadForRevision
  <2>2. QED  BY <1>1, <2>1, ReceiveInv DEF Resolvable
<1>5. CASE ReadForResubmit(q, a)
  <2>1. /\ ReceiveDecision(q, "pending", a, "overwrite")
        /\ UNCHANGED <<kind, approval, agent, past>> /\ approval[a] # "none"
    BY <1>5 DEF ReadForResubmit
  <2>2. QED  BY <1>1, <2>1, ReceiveInv DEF Resolvable
<1>6. CASE ReadForPause(q, a)
  <2>1. ReceiveDecision(q, "paused", a, "setAgent") /\ UNCHANGED <<kind, approval, agent, past>>
    BY <1>6 DEF ReadForPause
  <2>2. QED  BY <1>1, <2>1, ReceiveInv
<1>7. CASE ReadForResume(q, a)
  <2>1. ReceiveDecision(q, "idle", a, "setAgent") /\ UNCHANGED <<kind, approval, agent, past>>
    BY <1>7 DEF ReadForResume
  <2>2. QED  BY <1>1, <2>1, ReceiveInv
<1>8. QED  BY <1>2, <1>3, <1>4, <1>5, <1>6, <1>7 DEF NewRequest

LEMMA FileHireInv ==
  ASSUME ApprovalsAssumption, ApprovalsIInv, NEW q \in Deciders, FileHire(q)
  PROVE  ApprovalsIInv'
<1>1. /\ About(q) \in Approvals /\ approval \in [Approvals -> ApprovalStatuses]
      /\ approval[About(q)] = "none" /\ DecisionAt(q, "file") /\ Reply(q)
      /\ UNCHANGED <<kind, agent, past, happened>>
      /\ approval' = [approval EXCEPT ![About(q)] = "pending"]
  BY DEF ApprovalsIInv, ApprovalsTypeOK, DecisionLocalsOK, DecisionLocalOK, FilingOK, About, DecisionAt, FileHire
<1>2. /\ decision' \in [Deciders -> DeciderStates] /\ DecisionLocalsOK' /\ decision'[q].pc = "idle" /\ OthersKept(q)
      /\ \A a \in Approvals : Acting(a)' \subseteq Acting(a)
  BY <1>1, AnswerFacts
<1>3. /\ approval' \in [Approvals -> ApprovalStatuses]
      /\ \A a \in Approvals : /\ approval[a] # "none" => approval'[a] = approval[a]
                              /\ approval'[a] # approval[a] => About(q) = a
  BY <1>1 DEF ApprovalStatuses, Resolvable
<1>4. FilingOK'  BY <1>1, <1>2, <1>3, FilingKept
<1>5. \A a \in Approvals : approval[a] \in Decided => approval'[a] \in Decided
  BY <1>3 DEF Decided
<1>6. past' \in [Approvals -> Pasts] /\ \A a \in Approvals : past[a].reopened <= past'[a].reopened
  BY <1>1 DEF ApprovalsIInv, ApprovalsTypeOK, Pasts
<1>7. QED  BY <1>1, <1>2, <1>3, <1>4, <1>5, <1>6, QuietInv DEF ApprovalsIInv, ApprovalsTypeOK

\* The decision that is stored lets its request act, and pays for its hire.
LEMMA ApprovalsResolveInv ==
  ASSUME ApprovalsAssumption, ApprovalsIInv, NEW q \in Deciders, Resolve(q)
  PROVE  ApprovalsIInv'
<1> DEFINE a == About(q)
           next == Effect(decision[q].op, kind[a])
<1>1. /\ a \in Approvals /\ approval \in [Approvals -> ApprovalStatuses]
      /\ decision[q].op \in Decided /\ decision[q].pc = "resolve" /\ past \in [Approvals -> Pasts]
      /\ UNCHANGED <<kind, agent, past, happened>> /\ approval[a] # "none"
  BY DEF ApprovalsIInv, ApprovalsTypeOK, DecisionLocalsOK, DecisionLocalOK, FilingOK, About, DecisionAt, Resolve
<1>2. \A b \in Approvals : past'[b].hires = past[b].hires /\ past[b].reopened <= past'[b].reopened
  BY <1>1 DEF Pasts
<1>3. CASE approval[a] \notin Resolvable
  <2>1. Reply(q) /\ UNCHANGED approval  BY <1>3 DEF Resolve
  <2>2. /\ decision' \in [Deciders -> DeciderStates] /\ DecisionLocalsOK' /\ decision'[q].pc = "idle" /\ OthersKept(q)
        /\ \A b \in Approvals : Acting(b)' \subseteq Acting(b)
    BY <2>1, AnswerFacts
  <2>3. FilingOK'  BY <1>1, <2>1, <2>2, FilingKept
  <2>4. QED  BY <1>1, <1>2, <2>1, <2>2, <2>3, QuietInv DEF ApprovalsIInv, ApprovalsTypeOK
<1>4. CASE approval[a] \in Resolvable
  <2>1. /\ approval' = [approval EXCEPT ![a] = decision[q].op]
        /\ Reply(q) \/ (DecisionGo(q, next) /\ next \in {"lookPending", "terminate", "create"})
    BY <1>4 DEF Resolve, Effect
  <2> HIDE DEF next
  <2>2. /\ decision' \in [Deciders -> DeciderStates] /\ DecisionLocalsOK' /\ OthersKept(q)
        /\ decision'[q].pc \notin {"file", "resolve", "overwrite"}
        /\ \A b \in Approvals : Acting(b)' \in {Acting(b) \ {q}, Acting(b) \cup {q}}
        /\ \A b \in Approvals : b # a => Acting(b)' \subseteq Acting(b)
    <3>1. CASE Reply(q)  BY <3>1, AnswerFacts
    <3>2. CASE DecisionGo(q, next) /\ next \in {"lookPending", "terminate", "create"}
      <4>1. /\ decision' \in [Deciders -> DeciderStates] /\ DecisionLocalsOK' /\ decision'[q].pc = next /\ OthersKept(q)
            /\ \A b \in Approvals : Acting(b)' =
                IF a = b /\ next \in HirePCs THEN Acting(b) \cup {q} ELSE Acting(b) \ {q}
        BY <1>1, <3>2, DecisionGoFacts DEF HirePCs
      <4>2. QED  BY <3>2, <4>1
    <3>3. QED  BY <2>1, <3>1, <3>2
  <2>3. /\ approval' \in [Approvals -> ApprovalStatuses] /\ approval'[a] \in Decided
        /\ approval[a] \notin Decided
        /\ \A b \in Approvals : b # a => approval'[b] = approval[b]
    BY <1>1, <1>4, <2>1 DEF ApprovalStatuses, Decided, Resolvable
  <2>4. FilingOK'
    <3>1. \A b \in Approvals : approval[b] # "none" => approval'[b] # "none"
      BY <2>3 DEF Decided
    <3>2. \A b \in Approvals : kind[b] = "hire" /\ approval[b] = "none" => approval'[b] = "none"
      BY <1>1, <2>3
    <3>3. QED  BY <1>1, <2>2, <3>1, <3>2, FilingKept
  <2>5. ApprovalsTypeOK'  BY <1>1, <2>2, <2>3 DEF ApprovalsIInv, ApprovalsTypeOK
  <2>6. ASSUME NEW b \in Approvals PROVE PaidFor(b)'
    <3>1. past[b] \in Pasts /\ past' = past /\ PaidFor(b)
      BY <1>1 DEF ApprovalsIInv, ApprovalsTypeOK, HiresArePaidFor
    <3>2. IsFiniteSet(Acting(b)) /\ Cardinality(Acting(b)) \in Nat  BY ActingFinite
    <3>3. /\ Cardinality(Acting(b)') <= Cardinality(Acting(b)) + 1
          /\ b # a => Cardinality(Acting(b)') <= Cardinality(Acting(b))
          /\ Cardinality(Acting(b)') \in Nat
      <4>1. CASE Acting(b)' \subseteq Acting(b)
        <5>1. Cardinality(Acting(b)') <= Cardinality(Acting(b)) /\ IsFiniteSet(Acting(b)')
          BY <3>2, <4>1, FS_Subset
        <5>2. Cardinality(Acting(b)') \in Nat  BY <5>1, FS_CardinalityType
        <5>3. QED  BY <3>2, <5>1, <5>2
      <4>2. CASE b = a /\ Acting(b)' = Acting(b) \cup {q}
        <5>1. /\ IsFiniteSet(Acting(b) \cup {q})
              /\ Cardinality(Acting(b) \cup {q}) =
                    IF q \in Acting(b) THEN Cardinality(Acting(b)) ELSE Cardinality(Acting(b)) + 1
          BY <3>2, FS_AddElement
        <5>2. QED  BY <3>2, <4>2, <5>1
      <4>3. QED  BY <2>2, <4>1, <4>2
    <3>4. /\ b = a => StaysDecided(b) = 0 /\ StaysDecided(b)' = 1
          /\ b # a => StaysDecided(b)' = StaysDecided(b)
          /\ StaysDecided(b) \in {0, 1}
      BY <2>3 DEF StaysDecided
    <3>5. past[b].hires \in Nat /\ past[b].reopened \in Nat  BY <3>1 DEF Pasts
    <3>6. past[b].hires + Cardinality(Acting(b)) <= past[b].reopened + StaysDecided(b)
      BY <3>1 DEF PaidFor
    <3>7. past[b].hires + Cardinality(Acting(b)') <= past[b].reopened + StaysDecided(b)'
      BY <3>2, <3>3, <3>4, <3>5, <3>6
    <3>8. QED  BY <3>1, <3>7 DEF PaidFor
  <2>7. QED  BY <2>2, <2>4, <2>5, <2>6 DEF ApprovalsIInv, HiresArePaidFor
<1>5. QED  BY <1>3, <1>4

LEMMA CreateAgentInv ==
  ASSUME ApprovalsAssumption, ApprovalsIInv, NEW q \in Deciders, CreateAgent(q)
  PROVE  ApprovalsIInv'
<1>1. /\ About(q) \in Approvals /\ past \in [Approvals -> Pasts]
      /\ decision[q].pc = "create" /\ Reply(q) /\ UNCHANGED <<kind, approval, agent, happened>>
      /\ past' = [past EXCEPT ![About(q)].hires = @ + 1]
  BY DEF ApprovalsIInv, ApprovalsTypeOK, DecisionLocalsOK, DecisionLocalOK, About, DecisionAt, CreateAgent
<1>2. /\ decision' \in [Deciders -> DeciderStates] /\ DecisionLocalsOK' /\ decision'[q].pc = "idle" /\ OthersKept(q)
      /\ \A a \in Approvals : Acting(a)' = Acting(a) \ {q}
  BY <1>1, AnswerFacts
<1>3. /\ past' \in [Approvals -> Pasts]
      /\ \A a \in Approvals : past'[a].reopened = past[a].reopened
      /\ \A a \in Approvals : past'[a].hires =
            IF a = About(q) THEN past[a].hires + 1 ELSE past[a].hires
  BY <1>1 DEF Pasts
<1>4. HiresArePaidFor'  BY <1>1, <1>2, <1>3, HirePaidFor DEF HirePCs
<1>5. FilingOK'  BY <1>1, <1>2, FilingKept
<1>6. ApprovalsTypeOK'  BY <1>1, <1>2, <1>3 DEF ApprovalsIInv, ApprovalsTypeOK
<1>7. QED  BY <1>2, <1>4, <1>5, <1>6 DEF ApprovalsIInv

LEMMA ActivateInv ==
  ASSUME ApprovalsAssumption, ApprovalsIInv, NEW q \in Deciders, Activate(q)
  PROVE  ApprovalsIInv'
<1>1. /\ About(q) \in Approvals /\ past \in [Approvals -> Pasts]
      /\ agent \in [Approvals -> AgentStatuses]
      /\ decision[q].pc = "activate" /\ Reply(q) /\ UNCHANGED <<kind, approval, happened>>
      /\ agent' = [agent EXCEPT ![About(q)] = "idle"]
  BY DEF ApprovalsIInv, ApprovalsTypeOK, DecisionLocalsOK, DecisionLocalOK, About, DecisionAt, Activate
<1>2. PICK over \in BOOLEAN :
        past' = [past EXCEPT ![About(q)].hires = @ + 1, ![About(q)].revived = over]
  <2> DEFINE over == past[About(q)].revived \/ agent[About(q)] = "terminated"
  <2>1. over \in BOOLEAN  OBVIOUS
  <2>2. past' = [past EXCEPT ![About(q)].hires = @ + 1, ![About(q)].revived = over]
    BY DEF Activate
  <2> HIDE DEF over
  <2>3. QED  BY <2>1, <2>2
<1>3. /\ decision' \in [Deciders -> DeciderStates] /\ DecisionLocalsOK' /\ decision'[q].pc = "idle" /\ OthersKept(q)
      /\ \A a \in Approvals : Acting(a)' = Acting(a) \ {q}
  BY <1>1, AnswerFacts
<1>4. /\ past' \in [Approvals -> Pasts]
      /\ \A a \in Approvals : past'[a].reopened = past[a].reopened
      /\ \A a \in Approvals : past'[a].hires =
            IF a = About(q) THEN past[a].hires + 1 ELSE past[a].hires
  <2>1. \A a \in Approvals : past[a].hires + 1 \in Nat  BY <1>1 DEF Pasts
  <2>3. past[About(q)] \in Pasts  BY <1>1
  <2> DEFINE n == past[About(q)].hires + 1
             g == [past[About(q)] EXCEPT !.hires = n]
             h == [g EXCEPT !.revived = over]
  <2>2. n \in Nat  BY <1>1, <2>1
  <2>4. h \in Pasts /\ h.hires = n /\ h.reopened = past[About(q)].reopened
    <3> HIDE DEF n, g
    <3>1. g \in Pasts /\ g.hires = n /\ g.reopened = past[About(q)].reopened
      BY <2>2, <2>3 DEF Pasts, g
    <3>2. QED  BY <3>1 DEF Pasts
  <2>5. past' = [past EXCEPT ![About(q)] = h]  BY <1>1, <1>2
  <2> HIDE DEF h
  <2>6. QED  BY <1>1, <2>4, <2>5
<1>5. /\ agent' \in [Approvals -> AgentStatuses]
      /\ \A a \in Approvals : agent[a] # "none" => agent'[a] # "none"
  BY <1>1 DEF AgentStatuses
<1>6. HiresArePaidFor'  BY <1>1, <1>3, <1>4, HirePaidFor DEF HirePCs
<1>7. FilingOK'  BY <1>1, <1>3, <1>5, FilingKept
<1>8. ApprovalsTypeOK'  BY <1>1, <1>3, <1>4, <1>5 DEF ApprovalsIInv, ApprovalsTypeOK
<1>9. QED  BY <1>3, <1>6, <1>7, <1>8 DEF ApprovalsIInv

LEMMA LookPendingInv ==
  ASSUME ApprovalsAssumption, ApprovalsIInv, NEW q \in Deciders, LookPending(q)
  PROVE  ApprovalsIInv'
<1>1. /\ About(q) \in Approvals /\ decision[q].pc = "lookPending"
      /\ UNCHANGED <<kind, approval, agent, past, happened>>
      /\ DecisionGo(q, "activate") \/ Reply(q)
  BY DEF ApprovalsIInv, DecisionLocalsOK, DecisionLocalOK, About, DecisionAt, LookPending
<1>2. /\ decision' \in [Deciders -> DeciderStates] /\ DecisionLocalsOK' /\ OthersKept(q)
      /\ decision'[q].pc \notin {"file", "resolve", "overwrite"}
      /\ \A a \in Approvals : Acting(a)' \subseteq Acting(a)
  <2>1. CASE Reply(q)  BY <2>1, AnswerFacts
  <2>2. CASE DecisionGo(q, "activate")
    <3>1. /\ decision' \in [Deciders -> DeciderStates] /\ DecisionLocalsOK' /\ OthersKept(q)
          /\ decision'[q].pc = "activate"
          /\ \A a \in Approvals : Acting(a)' =
                IF About(q) = a THEN Acting(a) \cup {q} ELSE Acting(a) \ {q}
      BY <1>1, <2>2, DecisionGoFacts DEF HirePCs
    <3>2. q \in Acting(About(q))  BY <1>1 DEF Acting, HirePCs
    <3>3. QED  BY <3>1, <3>2
  <2>3. QED  BY <1>1, <2>1, <2>2
<1>3. FilingOK'  BY <1>1, <1>2, FilingKept
<1>4. \A a \in Approvals : past[a].reopened \in Nat  BY DEF ApprovalsIInv, ApprovalsTypeOK, Pasts
<1>5. QED  BY <1>1, <1>2, <1>3, <1>4, QuietInv DEF ApprovalsIInv, ApprovalsTypeOK

LEMMA TerminateRejectedInv ==
  ASSUME ApprovalsAssumption, ApprovalsIInv, NEW q \in Deciders, TerminateRejected(q)
  PROVE  ApprovalsIInv'
<1>1. /\ About(q) \in Approvals /\ agent \in [Approvals -> AgentStatuses]
      /\ agent' = [agent EXCEPT ![About(q)] = "terminated"]
      /\ UNCHANGED <<kind, approval, past, happened>> /\ Reply(q)
  BY DEF ApprovalsIInv, ApprovalsTypeOK, DecisionLocalsOK, DecisionLocalOK, About, DecisionAt, TerminateRejected
<1>2. /\ agent' \in [Approvals -> AgentStatuses]
      /\ \A a \in Approvals : agent[a] # "none" => agent'[a] # "none"
  BY <1>1 DEF AgentStatuses
<1>3. /\ decision' \in [Deciders -> DeciderStates] /\ DecisionLocalsOK' /\ decision'[q].pc = "idle" /\ OthersKept(q)
      /\ \A a \in Approvals : Acting(a)' \subseteq Acting(a)
  BY <1>1, AnswerFacts
<1>4. FilingOK'  BY <1>1, <1>2, <1>3, FilingKept
<1>5. \A a \in Approvals : past[a].reopened \in Nat  BY DEF ApprovalsIInv, ApprovalsTypeOK, Pasts
<1>6. QED  BY <1>1, <1>2, <1>3, <1>4, <1>5, QuietInv DEF ApprovalsIInv, ApprovalsTypeOK

\* A decision that is overwritten is noted as reopened.
LEMMA OverwriteInv ==
  ASSUME ApprovalsAssumption, ApprovalsIInv, NEW q \in Deciders, Overwrite(q)
  PROVE  ApprovalsIInv'
<1>1. /\ About(q) \in Approvals /\ approval \in [Approvals -> ApprovalStatuses]
      /\ past \in [Approvals -> Pasts] /\ approval[About(q)] # "none"
      /\ decision[q].op \in Resolvable /\ Reply(q) /\ UNCHANGED <<kind, agent, happened>>
      /\ approval' = [approval EXCEPT ![About(q)] = decision[q].op]
      /\ past' = [past EXCEPT ![About(q)].reopened =
                    IF approval[About(q)] \in Decided THEN @ + 1 ELSE @]
  BY DEF ApprovalsIInv, ApprovalsTypeOK, DecisionLocalsOK, DecisionLocalOK, FilingOK, About, DecisionAt, Overwrite
<1>2. /\ decision' \in [Deciders -> DeciderStates] /\ DecisionLocalsOK' /\ decision'[q].pc = "idle" /\ OthersKept(q)
      /\ \A a \in Approvals : Acting(a)' \subseteq Acting(a)
  BY <1>1, AnswerFacts
<1>3. /\ approval' \in [Approvals -> ApprovalStatuses]
      /\ approval'[About(q)] # "none"
      /\ \A a \in Approvals : a # About(q) => approval'[a] = approval[a]
  BY <1>1 DEF ApprovalStatuses, Resolvable
<1>4. /\ past' \in [Approvals -> Pasts]
      /\ \A a \in Approvals : /\ past'[a].hires = past[a].hires
                              /\ past[a].reopened <= past'[a].reopened
      /\ approval[About(q)] \in Decided =>
            past[About(q)].reopened + 1 <= past'[About(q)].reopened
  BY <1>1 DEF Pasts
<1>5. FilingOK'  BY <1>1, <1>2, <1>3, FilingKept
<1>6. \A a \in Approvals : \/ approval[a] \in Decided => approval'[a] \in Decided
                           \/ past[a].reopened + 1 <= past'[a].reopened
  BY <1>3, <1>4
<1>7. QED  BY <1>1, <1>2, <1>3, <1>4, <1>5, <1>6, QuietInv DEF ApprovalsIInv, ApprovalsTypeOK

LEMMA SetAgentInv ==
  ASSUME ApprovalsAssumption, ApprovalsIInv, NEW q \in Deciders, SetAgent(q)
  PROVE  ApprovalsIInv'
<1>1. /\ About(q) \in Approvals /\ agent \in [Approvals -> AgentStatuses]
      /\ past \in [Approvals -> Pasts] /\ decision[q].op \in {"paused", "idle"}
      /\ agent' = [agent EXCEPT ![About(q)] = decision[q].op]
      /\ UNCHANGED <<kind, approval, happened>> /\ Reply(q)
  BY DEF ApprovalsIInv, ApprovalsTypeOK, DecisionLocalsOK, DecisionLocalOK, About, DecisionAt, SetAgent
<1>2. PICK over \in BOOLEAN : past' = [past EXCEPT ![About(q)].revived = @ \/ over]
  <2>1. past' = [past EXCEPT ![About(q)].revived = @ \/ (agent[About(q)] = "terminated")]
    BY DEF SetAgent
  <2>2. (agent[About(q)] = "terminated") \in BOOLEAN  OBVIOUS
  <2>3. QED  BY <2>1, <2>2
<1>3. /\ past' \in [Approvals -> Pasts]
      /\ \A a \in Approvals : /\ past'[a].hires = past[a].hires
                              /\ past[a].reopened <= past'[a].reopened
  BY <1>1, <1>2 DEF Pasts
<1>4. /\ agent' \in [Approvals -> AgentStatuses]
      /\ \A a \in Approvals : agent[a] # "none" => agent'[a] # "none"
  BY <1>1 DEF AgentStatuses
<1>5. /\ decision' \in [Deciders -> DeciderStates] /\ DecisionLocalsOK' /\ decision'[q].pc = "idle" /\ OthersKept(q)
      /\ \A a \in Approvals : Acting(a)' \subseteq Acting(a)
  BY <1>1, AnswerFacts
<1>6. FilingOK'  BY <1>1, <1>4, <1>5, FilingKept
<1>7. QED  BY <1>1, <1>3, <1>4, <1>5, <1>6, QuietInv DEF ApprovalsIInv, ApprovalsTypeOK

\* What the requests do not take part in.
LEMMA NoRequestInv ==
  ASSUME ApprovalsAssumption, ApprovalsIInv, NEW a \in Approvals,
         \/ File(a) \/ TerminateAgent(a) \/ \E status \in Decided : MarkOverride(a, status)
  PROVE  ApprovalsIInv'
<1>1. /\ kind' = kind /\ decision' = decision /\ happened' = happened
      /\ approval \in [Approvals -> ApprovalStatuses] /\ agent \in [Approvals -> AgentStatuses]
      /\ past \in [Approvals -> Pasts] /\ decision \in [Deciders -> DeciderStates]
  BY DEF ApprovalsIInv, ApprovalsTypeOK, File, TerminateAgent, MarkOverride
<1>2. /\ approval' \in [Approvals -> ApprovalStatuses]
      /\ \A b \in Approvals : /\ approval[b] # "none" => approval'[b] # "none"
                              /\ approval[b] \in Decided => approval'[b] \in Decided
                              /\ kind[b] = "hire" => approval'[b] = approval[b]
  <2>1. CASE File(a)  BY <1>1, <2>1 DEF File, ApprovalStatuses, Resolvable, Decided
  <2>2. CASE TerminateAgent(a)  BY <1>1, <2>2 DEF TerminateAgent
  <2>3. ASSUME NEW status \in Decided, MarkOverride(a, status)
        PROVE  /\ approval' \in [Approvals -> ApprovalStatuses]
               /\ \A b \in Approvals : /\ approval[b] # "none" => approval'[b] # "none"
                                       /\ approval[b] \in Decided => approval'[b] \in Decided
                                       /\ kind[b] = "hire" => approval'[b] = approval[b]
    BY <1>1, <2>3 DEF MarkOverride, ApprovalStatuses, Decided
  <2>4. QED  BY <2>1, <2>2, <2>3
<1>3. /\ agent' \in [Approvals -> AgentStatuses]
      /\ \A b \in Approvals : agent[b] # "none" => agent'[b] # "none"
  BY <1>1 DEF File, TerminateAgent, MarkOverride, AgentStatuses
<1>4. /\ past' \in [Approvals -> Pasts]
      /\ \A b \in Approvals : /\ past'[b].hires = past[b].hires
                              /\ past[b].reopened <= past'[b].reopened
  <2>1. past' = past \/ past' = [past EXCEPT ![a].fired = TRUE]
    BY DEF File, TerminateAgent, MarkOverride, Note
  <2>2. CASE past' = past  BY <1>1, <2>2 DEF Pasts
  <2>3. CASE past' = [past EXCEPT ![a].fired = TRUE]
    <3> DEFINE h == [past[a] EXCEPT !.fired = TRUE]
    <3>1. past[a] \in Pasts  BY <1>1
    <3>2. h \in Pasts /\ h.hires = past[a].hires /\ h.reopened = past[a].reopened
      BY <3>1 DEF Pasts
    <3>3. past' = [past EXCEPT ![a] = h]  BY <2>3
    <3> HIDE DEF h
    <3>4. /\ past' \in [Approvals -> Pasts]
          /\ \A b \in Approvals : past'[b].hires = past[b].hires
                                  /\ past'[b].reopened = past[b].reopened
      BY <1>1, <3>2, <3>3
    <3>5. \A b \in Approvals : past[b].reopened \in Nat  BY <1>1 DEF Pasts
    <3>6. QED  BY <3>4, <3>5
  <2>4. QED  BY <2>1, <2>2, <2>3
<1>5. DecisionLocalsOK' /\ \A b \in Approvals : Acting(b)' \subseteq Acting(b)
  BY <1>1 DEF ApprovalsIInv, DecisionLocalsOK, Acting, About
<1>6. FilingOK'
  <2>1. FilingOK /\ \A q \in Deciders : decision[q].pc # "idle" => About(q) \in Approvals
    BY DEF ApprovalsIInv, DecisionLocalsOK, DecisionLocalOK, About
  <2>2. QED  BY <1>1, <1>2, <1>3, <2>1 DEF FilingOK, DecisionAt, About
<1>7. QED  BY <1>1, <1>2, <1>3, <1>4, <1>5, <1>6, QuietInv DEF ApprovalsIInv, ApprovalsTypeOK

\* A crash: what the requests still had to do is not done.
LEMMA DecisionsCrashInv ==
  ASSUME ApprovalsAssumption, ApprovalsIInv, ServerCrash
  PROVE  ApprovalsIInv'
<1>1. /\ past \in [Approvals -> Pasts] /\ UNCHANGED <<kind, approval, agent>>
      /\ happened' \in [requests : 0..MaxDeciding, crashes : 0..MaxServerCrashes]
      /\ decision' = [q \in Deciders |-> NoDecision]
  BY DEF ServerCrash, ApprovalsIInv, ApprovalsTypeOK, ApprovalsAssumption
<1>2. NoDecision \in DeciderStates /\ DecisionLocalOK(NoDecision) /\ NoDecision.pc = "idle"  BY DEF NoDecision, DeciderStates, DecisionLocalOK
<1>3. /\ decision' \in [Deciders -> DeciderStates] /\ DecisionLocalsOK'
      /\ \A a \in Approvals : Acting(a)' \subseteq Acting(a)
  BY <1>1, <1>2 DEF DecisionLocalsOK, Acting, HirePCs, DecisionLocalOK
<1>4. FilingOK'  BY <1>1, <1>2 DEF ApprovalsIInv, FilingOK, DecisionAt
<1>5. PICK hit \in [Approvals -> BOOLEAN] :
        past' = [a \in Approvals |-> [past[a] EXCEPT !.lost = @ \/ hit[a]]]
  <2> DEFINE hit == [a \in Approvals |-> \E q \in Deciders : About(q) = a
                        /\ decision[q].pc \in {"create", "lookPending", "activate", "terminate"}]
  <2>1. hit \in [Approvals -> BOOLEAN]  OBVIOUS
  <2>2. past' = [a \in Approvals |-> [past[a] EXCEPT !.lost = @ \/ hit[a]]]
    BY DEF ServerCrash
  <2> HIDE DEF hit
  <2>3. QED  BY <2>1, <2>2
<1>6. /\ past' \in [Approvals -> Pasts]
      /\ \A a \in Approvals : /\ past'[a].hires = past[a].hires
                              /\ past[a].reopened <= past'[a].reopened
  BY <1>1, <1>5 DEF Pasts
<1>7. QED  BY <1>1, <1>3, <1>4, <1>6, QuietInv DEF ApprovalsIInv, ApprovalsTypeOK

-----------------------------------------------------------------------------
\* Every step keeps the invariant.
LEMMA ApprovalsStepInv == ASSUME ApprovalsAssumption, ApprovalsIInv, [ApprovalsNext]_approvalVars PROVE ApprovalsIInv'
<1>1. CASE UNCHANGED approvalVars
  <2>1. UNCHANGED <<kind, approval, agent, decision, past, happened>>  BY <1>1 DEF approvalVars
  <2>2. ApprovalsTypeOK' /\ DecisionLocalsOK' /\ FilingOK'
    BY <2>1 DEF ApprovalsIInv, ApprovalsTypeOK, DecisionLocalsOK, DecisionLocalOK, FilingOK, DecisionAt, About
  <2>3. \A a \in Approvals : Acting(a)' = Acting(a) /\ StaysDecided(a)' = StaysDecided(a)
    BY <2>1 DEF Acting, About, StaysDecided
  <2>4. HiresArePaidFor'  BY <2>1, <2>3 DEF ApprovalsIInv, HiresArePaidFor, PaidFor
  <2>5. QED  BY <2>2, <2>4 DEF ApprovalsIInv
<1>2. ASSUME NEW q \in Deciders, DecisionStep(q) PROVE ApprovalsIInv'
  BY <1>2, FileHireInv, ApprovalsResolveInv, CreateAgentInv, LookPendingInv, ActivateInv,
    TerminateRejectedInv, OverwriteInv, SetAgentInv DEF DecisionStep
<1>3. ASSUME NEW q \in Deciders, NEW a \in Approvals, NewRequest(q, a) PROVE ApprovalsIInv'
  BY <1>3, NewRequestInv
<1>4. ASSUME NEW a \in Approvals,
             \/ File(a) \/ TerminateAgent(a) \/ \E status \in Decided : MarkOverride(a, status)
      PROVE  ApprovalsIInv'
  BY <1>4, NoRequestInv
<1>5. CASE ServerCrash  BY <1>5, DecisionsCrashInv
<1>6. QED  BY <1>1, <1>2, <1>3, <1>4, <1>5 DEF ApprovalsNext

\* The invariant holds in every reachable state.
LEMMA ApprovalsInvariance == ASSUME ApprovalsAssumption PROVE ApprovalsSpec => []ApprovalsIInv
<1>1. ApprovalsInit => ApprovalsIInv  BY ApprovalsInitInv
<1>2. ApprovalsIInv /\ [ApprovalsNext]_approvalVars => ApprovalsIInv'  BY ApprovalsStepInv
<1>3. QED  BY <1>1, <1>2, PTL DEF ApprovalsSpec

\* Approvals, agents and requests keep their types through stale writes and crashes.
THEOREM ApprovalsTypeCorrect == ASSUME ApprovalsAssumption PROVE ApprovalsSpec => []ApprovalsTypeOK
<1>1. ApprovalsIInv => ApprovalsTypeOK  BY DEF ApprovalsIInv
<1>2. QED  BY <1>1, ApprovalsInvariance, PTL

\* For any approvals and any requests in flight, an approval puts one agent to work,
\* and one more only for each decision that a stale revision or resubmission overwrote.
THEOREM NobodyIsHiredTwice == ASSUME ApprovalsAssumption PROVE ApprovalsSpec => []HiredOnce
<1>1. ApprovalsIInv => HiredOnce
  <2> SUFFICES ASSUME ApprovalsIInv, NEW a \in Approvals
               PROVE  past[a].hires <= 1 + past[a].reopened
    BY DEF HiredOnce
  <2>1. past[a].hires + Cardinality(Acting(a)) <= past[a].reopened + StaysDecided(a)
    BY DEF ApprovalsIInv, HiresArePaidFor, PaidFor
  <2>2. Cardinality(Acting(a)) \in Nat  BY ActingFinite
  <2>3. past[a].hires \in Nat /\ past[a].reopened \in Nat  BY DEF ApprovalsIInv, ApprovalsTypeOK, Pasts
  <2>4. StaysDecided(a) \in {0, 1}  BY DEF StaysDecided
  <2>5. QED  BY <2>1, <2>2, <2>3, <2>4
<1>2. QED  BY <1>1, ApprovalsInvariance, PTL
-----------------------------------------------------------------------------
(* Decisions take effect                                                     *)

\* Some request about the approval is at one of the places.
SomeAt(a, places) == \E q \in Deciders : About(q) = a /\ decision[q].pc \in places

\* As long as no decision on the hire was overwritten, whoever carries one out
\* carries out the one that is stored,
CarriedOut(a) ==
    \A q \in Deciders : About(q) = a =>
        /\ decision[q].pc \in {"lookPending", "activate"} => approval[a] = "approved"
        /\ decision[q].pc = "terminate" => approval[a] = "rejected"

\* and until the agent is what the decision asks for somebody does; only the
\* board's own call terminates an agent that was not rejected.
TakesEffect(a) ==
    /\ approval[a] = "approved" =>
        \/ agent[a] \in {"idle", "paused"}
        \/ past[a].fired /\ agent[a] = "terminated"
        \/ SomeAt(a, {"lookPending", "activate"})
    /\ approval[a] = "rejected" => agent[a] = "terminated" \/ SomeAt(a, {"terminate"})
    /\ agent[a] = "terminated" => past[a].fired \/ approval[a] = "rejected"

EffectOf(a) ==
    kind[a] = "hire" /\ past[a].reopened = 0 =>
        /\ CarriedOut(a)
        /\ ~past[a].lost /\ ~past[a].revived => TakesEffect(a)

EffectInv == \A a \in Approvals : EffectOf(a)

\* A step of a request leaves the approvals alone that it is not about.
LEMMA EffectElsewhere ==
  ASSUME ApprovalsIInv, NEW a \in Approvals, EffectOf(a), NEW q \in Deciders, OthersKept(q),
         About(q) = a => decision[q].pc \notin {"lookPending", "activate", "terminate"},
         decision'[q].about = a => decision'[q].pc \notin {"lookPending", "activate", "terminate"},
         kind'[a] = kind[a], approval'[a] = approval[a], agent'[a] = agent[a], past'[a] = past[a]
  PROVE  EffectOf(a)'
<1>1. \A o \in Deciders : o # q => decision'[o] = decision[o] /\ About(o)' = About(o)
  BY DEF OthersKept, About
<1>2. CarriedOut(a) => CarriedOut(a)'
  BY <1>1 DEF CarriedOut, About
<1>3. \A places \in SUBSET {"lookPending", "activate", "terminate"} :
         SomeAt(a, places) => SomeAt(a, places)'
  BY <1>1 DEF SomeAt, About
<1>4. TakesEffect(a) => TakesEffect(a)'
  BY <1>3 DEF TakesEffect
<1> QED
  BY <1>2, <1>4 DEF EffectOf

\* What the steps of a request see of it.
LEMMA StepFacts ==
  ASSUME ApprovalsIInv, NEW q \in Deciders, DecisionStep(q)
  PROVE  /\ About(q) \in Approvals /\ OthersKept(q) /\ UNCHANGED kind
         /\ decision'[q].pc # "idle" => About(q)' = About(q)
         /\ \A a \in Approvals \ {About(q)} :
                approval'[a] = approval[a] /\ agent'[a] = agent[a] /\ past'[a] = past[a]
<1>1. /\ approval \in [Approvals -> ApprovalStatuses] /\ agent \in [Approvals -> AgentStatuses]
      /\ past \in [Approvals -> Pasts] /\ decision \in [Deciders -> DeciderStates]
  BY DEF ApprovalsIInv, ApprovalsTypeOK
<1>2. decision[q].pc # "idle"
  BY DEF DecisionStep, DecisionAt, FileHire, Resolve, CreateAgent, LookPending, Activate,
         TerminateRejected, Overwrite, SetAgent
<1>3. About(q) \in Approvals
  BY <1>2 DEF ApprovalsIInv, DecisionLocalsOK, DecisionLocalOK, About
<1>4. Reply(q) \/ \E pc : DecisionGo(q, pc)
  BY DEF DecisionStep, FileHire, Resolve, CreateAgent, LookPending, Activate,
         TerminateRejected, Overwrite, SetAgent
<1>5. OthersKept(q) /\ (decision'[q].pc # "idle" => About(q)' = About(q))
  <2>1. CASE Reply(q)
    BY <1>1, <2>1 DEF Reply, NoDecision, OthersKept
  <2>2. ASSUME NEW pc, DecisionGo(q, pc)
        PROVE  OthersKept(q) /\ About(q)' = About(q)
    <3>1. decision' = [decision EXCEPT ![q] = [decision[q] EXCEPT !.pc = pc]]
      BY <2>2 DEF DecisionGo
    <3> QED
      BY <1>1, <3>1 DEF OthersKept, About, DeciderStates
  <2> QED
    BY <1>4, <2>1, <2>2
<1>6. UNCHANGED kind /\ \A a \in Approvals \ {About(q)} :
        approval'[a] = approval[a] /\ agent'[a] = agent[a] /\ past'[a] = past[a]
  BY <1>1, <1>3 DEF DecisionStep, FileHire, Resolve, CreateAgent, LookPending, Activate,
         TerminateRejected, Overwrite, SetAgent
<1> QED
  BY <1>3, <1>5, <1>6

\* The flags of a history are only ever set, and its overwritten decisions counted.
LEMMA EffectOfRequest ==
  ASSUME ApprovalsAssumption, ApprovalsIInv, EffectInv, NEW q \in Deciders, DecisionStep(q)
  PROVE  EffectInv'
<1>0. PICK a \in Approvals : a = About(q)
  BY StepFacts
<1> DEFINE o == decision[q]
<1>1. /\ OthersKept(q) /\ UNCHANGED kind
      /\ decision'[q].pc # "idle" => About(q)' = a
      /\ About(q) = a
      /\ \A b \in Approvals \ {a} :
            approval'[b] = approval[b] /\ agent'[b] = agent[b] /\ past'[b] = past[b]
  BY <1>0, StepFacts
<1>2. ASSUME NEW b \in Approvals, b # a PROVE EffectOf(b)'
  <2>1. EffectOf(b)
    BY DEF EffectInv
  <2> QED
    BY <1>1, <1>2, <2>1, EffectElsewhere DEF About
<1> SUFFICES EffectOf(a)'
  BY <1>2 DEF EffectInv
<1>3. /\ approval \in [Approvals -> ApprovalStatuses] /\ agent \in [Approvals -> AgentStatuses]
      /\ past \in [Approvals -> Pasts] /\ decision \in [Deciders -> DeciderStates]
      /\ EffectOf(a) /\ FilingOK
      /\ \A p \in Deciders \ {q} : decision'[p] = decision[p] /\ About(p)' = About(p)
  BY <1>1 DEF ApprovalsIInv, ApprovalsTypeOK, EffectInv, OthersKept, About
<1> DEFINE Idle == decision'[q] = NoDecision /\ decision'[q].pc = "idle"
<1>4. Reply(q) => Idle
  BY <1>3 DEF Reply, NoDecision
<1>5. CASE FileHire(q)
  <2>1. approval[a] = "none" /\ approval'[a] = "pending" /\ agent' = agent /\ past' = past /\ Idle
    BY <1>1, <1>3, <1>4, <1>5 DEF FileHire, FilingOK, DecisionAt
  <2>2. CarriedOut(a) => CarriedOut(a)'
    BY <1>3, <2>1 DEF CarriedOut, About
  <2>3. TakesEffect(a) => TakesEffect(a)'
    BY <2>1 DEF TakesEffect
  <2> QED
    BY <1>1, <1>3, <2>1, <2>2, <2>3 DEF EffectOf
<1>6. CASE Resolve(q)
  <2>1. o.op \in Decided /\ o.pc = "resolve" /\ agent' = agent /\ past' = past
    BY <1>6 DEF Resolve, DecisionAt, ApprovalsIInv, DecisionLocalsOK, DecisionLocalOK
  <2>2. CASE approval[a] \notin Resolvable
    <3>1. Idle /\ approval' = approval
      BY <1>1, <1>4, <1>6, <2>2 DEF Resolve
    <3> QED
      BY <1>1, <1>3, <2>1, <3>1, EffectElsewhere
  <2>3. CASE approval[a] \in Resolvable /\ kind[a] = "hire"
    <3>1. approval'[a] = o.op /\ o.op \in {"approved", "rejected"}
      BY <1>1, <1>3, <1>6, <2>1, <2>3 DEF Resolve, Decided
    <3>2. decision'[q].pc = (IF o.op = "approved" THEN "lookPending" ELSE "terminate")
      <4>1. DecisionGo(q, Effect(o.op, kind[a]))
            /\ Effect(o.op, kind[a]) = IF o.op = "approved" THEN "lookPending" ELSE "terminate"
        BY <1>1, <1>6, <2>3, <3>1 DEF Resolve, Effect
      <4> QED
        BY <1>3, <4>1 DEF DecisionGo, DeciderStates
    <3>3. About(q)' = a
      BY <1>1, <3>2
    <3>4. CarriedOut(a) => CarriedOut(a)'
      BY <1>3, <2>3, <3>1, <3>2 DEF CarriedOut, About, Resolvable
    <3>5. TakesEffect(a) => TakesEffect(a)'
      BY <2>1, <2>3, <3>1, <3>2, <3>3 DEF TakesEffect, SomeAt, Resolvable
    <3> QED
      BY <1>1, <2>1, <3>4, <3>5, <1>3 DEF EffectOf
  <2>4. CASE kind[a] # "hire"
    BY <1>1, <2>4 DEF EffectOf
  <2> QED
    BY <2>2, <2>3, <2>4
<1>7. CASE CreateAgent(q)
  <2>1. /\ Idle /\ o.pc = "create" /\ approval' = approval /\ agent' = agent
        /\ past'[a].reopened = past[a].reopened /\ past'[a].lost = past[a].lost
        /\ past'[a].revived = past[a].revived /\ past'[a].fired = past[a].fired
    BY <1>1, <1>3, <1>4, <1>7 DEF CreateAgent, DecisionAt, Pasts
  <2>2. CarriedOut(a) => CarriedOut(a)'
    BY <1>3, <2>1 DEF CarriedOut, About
  <2>3. TakesEffect(a) => TakesEffect(a)'
    <3>1. \A places \in SUBSET {"lookPending", "activate", "terminate"} :
              SomeAt(a, places) => SomeAt(a, places)'
      BY <1>3, <2>1 DEF SomeAt
    <3> QED
      BY <2>1, <3>1 DEF TakesEffect
  <2> QED
    BY <1>1, <1>3, <2>1, <2>2, <2>3 DEF EffectOf
<1>8. CASE LookPending(q)
  <2>1. /\ o.pc = "lookPending" /\ UNCHANGED <<approval, agent, past>>
        /\ IF agent[a] = "pending_approval" THEN DecisionGo(q, "activate") ELSE Idle
    BY <1>1, <1>4, <1>8 DEF LookPending, DecisionAt
  <2>2. DecisionGo(q, "activate") => decision'[q].pc = "activate"
    BY <1>3 DEF DecisionGo, DeciderStates
  <2>3. CarriedOut(a) => CarriedOut(a)'
    BY <1>1, <1>3, <2>1, <2>2 DEF CarriedOut, About
  <2>4. kind[a] = "hire" /\ CarriedOut(a) /\ TakesEffect(a) => TakesEffect(a)'
    <3>1. SomeAt(a, {"terminate"}) => SomeAt(a, {"terminate"})'
      BY <1>3, <2>1 DEF SomeAt
    <3>2. kind[a] = "hire" /\ CarriedOut(a) => approval[a] = "approved" /\ agent[a] # "none"
      BY <1>1, <1>3, <2>1 DEF CarriedOut, FilingOK
    <3>3. CASE agent[a] = "pending_approval"
      <4>1. SomeAt(a, {"lookPending", "activate"})'
        BY <1>1, <2>1, <2>2, <3>3 DEF SomeAt
      <4> QED
        BY <2>1, <3>1, <4>1 DEF TakesEffect
    <3>4. CASE agent[a] # "pending_approval"
      <4>1. kind[a] = "hire" /\ CarriedOut(a) => agent[a] \in {"idle", "paused", "terminated"}
        BY <1>1, <1>3, <3>2, <3>4 DEF AgentStatuses
      <4> QED
        BY <2>1, <3>1, <3>2, <4>1 DEF TakesEffect
    <3> QED
      BY <3>3, <3>4
  <2> QED
    BY <1>1, <1>3, <2>1, <2>3, <2>4 DEF EffectOf
<1>9. CASE Activate(q)
  <2>1. /\ o.pc = "activate" /\ approval' = approval /\ agent'[a] = "idle" /\ Idle
        /\ past'[a].reopened = past[a].reopened
    BY <1>1, <1>3, <1>4, <1>9 DEF Activate, DecisionAt, Pasts
  <2>2. CarriedOut(a) => CarriedOut(a)'
    BY <1>3, <2>1 DEF CarriedOut, About
  <2>3. CarriedOut(a) => approval[a] = "approved"
    BY <1>1, <2>1 DEF CarriedOut
  <2>4. approval[a] = "approved" => TakesEffect(a)'
    BY <2>1 DEF TakesEffect
  <2> QED
    BY <1>1, <1>3, <2>1, <2>2, <2>3, <2>4 DEF EffectOf
<1>10. CASE TerminateRejected(q)
  <2>1. /\ o.pc = "terminate" /\ approval' = approval /\ agent'[a] = "terminated" /\ Idle
        /\ past' = past
    BY <1>1, <1>3, <1>4, <1>10 DEF TerminateRejected, DecisionAt
  <2>2. CarriedOut(a) => CarriedOut(a)'
    BY <1>3, <2>1 DEF CarriedOut, About
  <2>3. CarriedOut(a) => approval[a] = "rejected"
    BY <1>1, <2>1 DEF CarriedOut
  <2>4. approval[a] = "rejected" => TakesEffect(a)'
    BY <2>1 DEF TakesEffect
  <2> QED
    BY <1>1, <1>3, <2>1, <2>2, <2>3, <2>4 DEF EffectOf
<1>11. CASE Overwrite(q)
  <2>1. /\ o.pc = "overwrite" /\ o.op \in Resolvable /\ approval'[a] = o.op /\ agent' = agent /\ Idle
        /\ past'[a].reopened = IF approval[a] \in Decided THEN past[a].reopened + 1
                               ELSE past[a].reopened
        /\ past'[a].lost = past[a].lost /\ past'[a].revived = past[a].revived
        /\ past'[a].fired = past[a].fired /\ past[a].reopened \in Nat
    BY <1>1, <1>3, <1>4, <1>11 DEF Overwrite, DecisionAt, Pasts, ApprovalsIInv, DecisionLocalsOK, DecisionLocalOK
  <2>2. past'[a].reopened = 0 => past[a].reopened = 0 /\ approval[a] \notin Decided
    BY <2>1
  <2>3. approval[a] \notin Decided /\ CarriedOut(a) => CarriedOut(a)'
    BY <1>3, <2>1 DEF CarriedOut, About, Decided
  <2>4. approval[a] \notin Decided /\ TakesEffect(a) => TakesEffect(a)'
    BY <2>1 DEF TakesEffect, Decided, Resolvable
  <2> QED
    BY <1>1, <1>3, <2>1, <2>2, <2>3, <2>4 DEF EffectOf
<1>12. CASE SetAgent(q)
  <2>1. /\ o.pc = "setAgent" /\ o.op \in {"paused", "idle"} /\ approval' = approval
        /\ agent'[a] = o.op /\ Idle /\ past'[a].reopened = past[a].reopened
        /\ past'[a].lost = past[a].lost /\ past'[a].fired = past[a].fired
    BY <1>1, <1>3, <1>4, <1>12 DEF SetAgent, DecisionAt, Pasts, ApprovalsIInv, DecisionLocalsOK, DecisionLocalOK
  <2>2. past'[a].revived = (past[a].revived \/ agent[a] = "terminated")
    BY <1>1, <1>3, <1>12 DEF SetAgent, Pasts
  <2>3. CarriedOut(a) => CarriedOut(a)'
    BY <1>3, <2>1 DEF CarriedOut, About
  <2>4. agent[a] # "terminated" /\ TakesEffect(a) => TakesEffect(a)'
    <3>1. SomeAt(a, {"terminate"}) => SomeAt(a, {"terminate"})'
      BY <1>3, <2>1 DEF SomeAt
    <3> QED
      BY <2>1, <3>1 DEF TakesEffect
  <2> QED
    BY <1>1, <1>3, <2>1, <2>2, <2>3, <2>4 DEF EffectOf
<1> QED
  BY <1>5, <1>6, <1>7, <1>8, <1>9, <1>10, <1>11, <1>12 DEF DecisionStep

\* A request that is received carries nothing out yet.
LEMMA EffectOfReceiving ==
  ASSUME ApprovalsAssumption, ApprovalsIInv, EffectInv, NEW q \in Deciders, NEW a \in Approvals, NewRequest(q, a)
  PROVE  EffectInv'
<1>1. /\ UNCHANGED <<kind, approval, past>> /\ decision[q].pc = "idle"
      /\ \E pc \in {"file", "resolve", "overwrite", "setAgent"} : \E op : ReceiveDecision(q, op, a, pc)
  BY DEF NewRequest, RequestHire, ReadForDecision, ReadForRevision, ReadForResubmit,
         ReadForPause, ReadForResume, ReceiveDecision, DecisionAt
<1>2. decision \in [Deciders -> DeciderStates] /\ agent \in [Approvals -> AgentStatuses]
  BY DEF ApprovalsIInv, ApprovalsTypeOK
<1>3. OthersKept(q) /\ decision'[q].pc \in {"file", "resolve", "overwrite", "setAgent"}
  BY <1>1, <1>2 DEF ReceiveDecision, OthersKept
<1> SUFFICES ASSUME NEW b \in Approvals PROVE EffectOf(b)'
  BY DEF EffectInv
<1>4. EffectOf(b)
  BY DEF EffectInv
<1>5. CASE agent'[b] = agent[b]
  BY <1>1, <1>3, <1>4, <1>5, EffectElsewhere
<1>6. CASE agent'[b] # agent[b]
  <2>1. RequestHire(q, a) /\ b = a
    BY <1>2, <1>6 DEF NewRequest, RequestHire, ReadForDecision, ReadForRevision,
       ReadForResubmit, ReadForPause, ReadForResume
  <2>2. approval'[b] = "none" /\ approval[b] = "none" /\ agent'[b] = "pending_approval"
    BY <1>1, <1>2, <2>1 DEF RequestHire, ApprovalsIInv, FilingOK
  <2>3. CarriedOut(b) => CarriedOut(b)'
    BY <1>1, <1>3 DEF CarriedOut, About, OthersKept
  <2>4. TakesEffect(b)'
    BY <2>2 DEF TakesEffect
  <2> QED
    BY <1>1, <1>4, <2>3, <2>4 DEF EffectOf
<1> QED
  BY <1>5, <1>6

\* The board's termination is noted, and the other filings are of no hire.
LEMMA EffectOfBoard ==
  ASSUME ApprovalsAssumption, ApprovalsIInv, EffectInv, NEW a \in Approvals,
         \/ File(a) \/ TerminateAgent(a) \/ \E status \in Decided : MarkOverride(a, status)
  PROVE  EffectInv'
<1>1. /\ kind' = kind /\ decision' = decision
      /\ approval \in [Approvals -> ApprovalStatuses] /\ agent \in [Approvals -> AgentStatuses]
      /\ past \in [Approvals -> Pasts]
  BY DEF ApprovalsIInv, ApprovalsTypeOK, File, TerminateAgent, MarkOverride
<1> SUFFICES ASSUME NEW b \in Approvals, kind[b] = "hire" PROVE EffectOf(b)'
  BY <1>1 DEF EffectInv, EffectOf
<1>2. EffectOf(b)
  BY DEF EffectInv
<1>3. approval'[b] = approval[b]
  BY <1>1 DEF File, TerminateAgent, MarkOverride
<1>4. CarriedOut(b) => CarriedOut(b)'
  BY <1>1, <1>3 DEF CarriedOut, About
<1>5. \A places \in SUBSET {"lookPending", "activate", "terminate"} :
          SomeAt(b, places) => SomeAt(b, places)'
  BY <1>1 DEF SomeAt, About
<1>6. CASE TerminateAgent(a) /\ b = a
  <2>1. /\ agent'[b] = "terminated" /\ past'[b].fired = TRUE
        /\ past'[b].reopened = past[b].reopened /\ past'[b].lost = past[b].lost
        /\ past'[b].revived = past[b].revived
    BY <1>1, <1>6 DEF TerminateAgent, Note, Pasts
  <2>2. TakesEffect(b)'
    BY <2>1 DEF TakesEffect
  <2> QED
    BY <1>1, <1>2, <1>4, <2>1, <2>2 DEF EffectOf
<1>7. CASE ~(TerminateAgent(a) /\ b = a)
  <2>1. agent'[b] = agent[b] /\ past'[b] = past[b]
    BY <1>1, <1>7 DEF File, TerminateAgent, MarkOverride, Note
  <2>2. TakesEffect(b) => TakesEffect(b)'
    BY <1>3, <1>5, <2>1 DEF TakesEffect
  <2> QED
    BY <1>1, <1>2, <1>4, <2>1, <2>2 DEF EffectOf
<1> QED
  BY <1>6, <1>7

\* A crash loses what was being carried out, and that is noted.
LEMMA EffectOfCrash ==
  ASSUME ApprovalsAssumption, ApprovalsIInv, EffectInv, ServerCrash
  PROVE  EffectInv'
<1>1. /\ UNCHANGED <<kind, approval, agent>> /\ past \in [Approvals -> Pasts]
      /\ \A q \in Deciders : decision'[q].pc = "idle"
  BY DEF ServerCrash, NoDecision, ApprovalsIInv, ApprovalsTypeOK
<1> SUFFICES ASSUME NEW a \in Approvals PROVE EffectOf(a)'
  BY DEF EffectInv
<1>2. EffectOf(a)
  BY DEF EffectInv
<1>3. CarriedOut(a)'
  BY <1>1 DEF CarriedOut
<1> DEFINE hit == \E q \in Deciders : About(q) = a
                     /\ decision[q].pc \in {"create", "lookPending", "activate", "terminate"}
<1>4. /\ past'[a].reopened = past[a].reopened /\ past'[a].revived = past[a].revived
      /\ past'[a].fired = past[a].fired
      /\ past'[a].lost = (past[a].lost \/ hit)
  <2>1. past' = [b \in Approvals |-> [past[b] EXCEPT !.lost = @ \/
            \E q \in Deciders : About(q) = b
                /\ decision[q].pc \in {"create", "lookPending", "activate", "terminate"}]]
    BY DEF ServerCrash
  <2>2. past'[a] = [past[a] EXCEPT !.lost = @ \/ hit]
    BY <2>1
  <2>3. past[a] \in Pasts
    BY <1>1
  <2> HIDE DEF hit
  <2> QED
    BY <2>2, <2>3 DEF Pasts
<1>5. ~hit => ~SomeAt(a, {"lookPending", "activate"}) /\ ~SomeAt(a, {"terminate"})
  BY DEF SomeAt
<1> HIDE DEF hit
<1>6. ~hit /\ TakesEffect(a) => TakesEffect(a)'
  BY <1>1, <1>4, <1>5 DEF TakesEffect
<1> QED
  BY <1>1, <1>2, <1>3, <1>4, <1>6 DEF EffectOf

LEMMA EffectStep == ASSUME ApprovalsAssumption, ApprovalsIInv, EffectInv, [ApprovalsNext]_approvalVars PROVE EffectInv'
<1>1. CASE UNCHANGED approvalVars
  <2>1. UNCHANGED <<kind, approval, agent, decision, past>>
    BY <1>1 DEF approvalVars
  <2> QED
    BY <2>1 DEF EffectInv, EffectOf, CarriedOut, TakesEffect, SomeAt, About
<1> QED
  BY <1>1, EffectOfRequest, EffectOfReceiving, EffectOfBoard, EffectOfCrash DEF ApprovalsNext

\* For any approvals and requests, once no request about a hire is in flight its
\* agent is what the stored decision says: nobody who carried out a decision had
\* lost to another, however late it was.
THEOREM DecisionsAreCarriedOut ==
  ASSUME ApprovalsAssumption PROVE ApprovalsSpec => []DecisionsTakeEffect
<1>1. ApprovalsInit => EffectInv
  <2> SUFFICES ASSUME ApprovalsInit, NEW a \in Approvals PROVE EffectOf(a)
    BY DEF EffectInv
  <2>1. approval[a] = "none" /\ agent[a] = "none" /\ \A q \in Deciders : decision[q].pc = "idle"
    BY DEF ApprovalsInit, NoDecision
  <2> QED
    BY <2>1 DEF EffectOf, CarriedOut, TakesEffect
<1>2. ApprovalsIInv /\ EffectInv /\ [ApprovalsNext]_approvalVars => EffectInv'
  BY EffectStep
<1>3. EffectInv => DecisionsTakeEffect
  <2> SUFFICES ASSUME EffectInv, NEW a \in Approvals,
                      kind[a] = "hire", past[a].reopened = 0, ~past[a].lost, ~past[a].revived,
                      \A q \in Deciders : About(q) # a
               PROVE  /\ approval[a] = "approved" =>
                            agent[a] \in {"idle", "paused"} \/ (past[a].fired /\ agent[a] = "terminated")
                      /\ approval[a] = "rejected" => agent[a] = "terminated"
    BY DEF DecisionsTakeEffect
  <2>1. TakesEffect(a)
    BY DEF EffectInv, EffectOf
  <2> QED
    BY <2>1 DEF TakesEffect, SomeAt
<1> QED
  BY <1>1, <1>2, <1>3, ApprovalsInvariance, PTL DEF ApprovalsSpec
=============================================================================
