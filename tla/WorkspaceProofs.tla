--------------------------- MODULE WorkspaceProofs ---------------------------
(***************************************************************************)
(* Theorems of IssueCheckout.  That the live owner of the checkout also    *)
(* has the execution lock is not inductive: a run that has the checkout    *)
(* must have been started (else it could come to life without the lock),   *)
(* and a request that is about to adopt a checkout must have seen its      *)
(* owner end.                                                              *)
(*                                                                         *)
(* Theorems of Documents.  RevisionsFollow is not inductive: the revision  *)
(* that CommitRevision adds follows the last one only because the locks    *)
(* have kept the document as its writer found it.                          *)
(*                                                                         *)
(* Theorems of RuntimeServices.  A service is stopped by the last run that *)
(* releases it, by its timer, as its workspace is closed, or as it does    *)
(* not get ready; that none of these stops a leased service takes that a   *)
(* timer never runs beside a lease, and that a service that is starting is *)
(* one run's own.                                                          *)
(***************************************************************************)
EXTENDS IssueCheckout, Documents, RuntimeServices, TLAPS

(***************************************************************************)
(* IssueCheckout                                                           *)
(***************************************************************************)

\* A run whose end was seen stays ended, and whoever acts was started.
RequestOK(h) ==
    /\ h.actor \in Runs => run[h.actor] # "none"
    /\ h.pc \in {"adoptFree", "stale", "adoptStale", "own"} => h.actor \in Runs
    /\ h.pc \in {"stale", "adoptStale"} => h.stale \in Runs /\ run[h.stale] # "none"
    /\ h.pc = "adoptStale" => run[h.stale] = "ended"

RequestsOK == \A q \in Requests : RequestOK(req[q])

StartedOK == issue.checkout \in Runs => run[issue.checkout] # "none"

CheckoutIInv == CheckoutTypeOK /\ RequestsOK /\ StartedOK /\ CheckoutHoldsExecution

Issues == [status : Statuses, assignee : Agents \cup {NoOne},
           checkout : Runs \cup {NoOne}, execution : Runs \cup {NoOne}]
RunStates == {"none", "live", "ended"}

-----------------------------------------------------------------------------
\* The initial states satisfy the invariant.
LEMMA CheckoutInitInv == ASSUME CheckoutAssumption PROVE CheckoutInit => CheckoutIInv
<1> SUFFICES ASSUME CheckoutInit PROVE CheckoutIInv  OBVIOUS
<1>1. NoReq \in Reqs /\ NoReq.pc = "idle" /\ NoReq.actor = NoOne
  BY DEF NoReq, Request, NoPatch, Reqs, Patches
<1>2. req \in [Requests -> Reqs] /\ \A q \in Requests : req[q] = NoReq
  BY <1>1 DEF CheckoutInit
<1>3. RequestsOK  BY <1>1, <1>2 DEF RequestsOK, RequestOK, CheckoutAssumption
<1>4. /\ issue \in Issues /\ run \in [Runs -> RunStates] /\ about \in SUBSET Runs
      /\ StartedOK /\ CheckoutHoldsExecution
  BY DEF CheckoutInit, Issues, RunStates, Statuses, StartedOK, CheckoutHoldsExecution, Live,
    CheckoutAssumption
<1>5. CheckoutTypeOK  BY <1>2, <1>4 DEF CheckoutTypeOK, Issues, RunStates, CheckoutInit, CheckoutAssumption
<1>6. QED  BY <1>3, <1>4, <1>5 DEF CheckoutIInv

-----------------------------------------------------------------------------
(* The steps of heartbeat.ts: they leave the requests alone *)

\* What was started stays so, and what has ended too.
RunsGoOn ==
    /\ run' \in [Runs -> RunStates]
    /\ \A r \in Runs : /\ run[r] # "none" => run'[r] # "none"
                       /\ run[r] = "ended" => run'[r] = "ended"

\* What is left to show of such a step: the two locks and the types of the rows.
LEMMA RunStepInv ==
  ASSUME CheckoutAssumption, CheckoutIInv, RunsGoOn, issue' \in Issues, about' \in SUBSET Runs,
         UNCHANGED <<req, made>>, StartedOK', CheckoutHoldsExecution'
  PROVE  CheckoutIInv'
<1>1. CheckoutTypeOK'  BY DEF CheckoutIInv, CheckoutTypeOK, RunsGoOn, Issues, RunStates
<1>2. RequestsOK'
  <2> SUFFICES ASSUME NEW q \in Requests PROVE RequestOK(req[q])'  BY DEF RequestsOK
  <2>1. RequestOK(req[q]) /\ req'[q] = req[q]  BY DEF CheckoutIInv, RequestsOK
  <2>2. QED  BY <2>1 DEF RequestOK, RunsGoOn
<1>3. QED  BY <1>1, <1>2 DEF CheckoutIInv

\* While no live run has the execution lock, none has the checkout.
LEMMA FreeLock ==
  ASSUME CheckoutIInv, ~Live(issue.execution)
  PROVE  ~Live(issue.checkout)
  BY DEF CheckoutIInv, CheckoutHoldsExecution

LEMMA AdoptLegacyRunInv ==
  ASSUME CheckoutAssumption, CheckoutIInv, NEW r \in Runs,
         AdoptLegacyRun(r)
  PROVE  CheckoutIInv' /\ KeepsLiveCheckout
<1>1. ~Live(issue.checkout)  BY FreeLock DEF AdoptLegacyRun
<1>2. /\ run' = run /\ about' = about /\ UNCHANGED <<req, made>>
      /\ issue' = [issue EXCEPT !.execution = r]
  BY DEF AdoptLegacyRun
<1>3. issue \in Issues /\ run \in [Runs -> RunStates] /\ about \in SUBSET Runs
  BY DEF CheckoutIInv, CheckoutTypeOK, Issues, RunStates
<1>4. issue' \in Issues /\ issue'.checkout = issue.checkout  BY <1>2, <1>3 DEF Issues
<1>5. RunsGoOn  BY <1>2, <1>3 DEF RunsGoOn
<1>6. StartedOK' /\ CheckoutHoldsExecution' /\ KeepsLiveCheckout
  BY <1>1, <1>2, <1>4 DEF CheckoutIInv, StartedOK, CheckoutHoldsExecution, KeepsLiveCheckout, Live
<1>7. QED  BY <1>2, <1>3, <1>4, <1>5, <1>6, RunStepInv

LEMMA QueueForIssueInv ==
  ASSUME CheckoutAssumption, CheckoutIInv, NEW r \in Runs,
         QueueForIssue(r)
  PROVE  CheckoutIInv' /\ KeepsLiveCheckout
<1>1. ~Live(issue.checkout)  BY FreeLock DEF QueueForIssue
<1>2. /\ run[r] = "none" /\ run' = [run EXCEPT ![r] = "live"] /\ about' = about \cup {r}
      /\ UNCHANGED <<req, made>> /\ issue' = [issue EXCEPT !.execution = r]
  BY DEF QueueForIssue
<1>3. issue \in Issues /\ run \in [Runs -> RunStates] /\ about \in SUBSET Runs
  BY DEF CheckoutIInv, CheckoutTypeOK, Issues, RunStates
<1>4. issue' \in Issues /\ issue'.checkout = issue.checkout  BY <1>2, <1>3 DEF Issues
<1>5. RunsGoOn  BY <1>2, <1>3 DEF RunsGoOn, RunStates
<1>6. issue.checkout # r  BY <1>2 DEF CheckoutIInv, StartedOK
<1>7. StartedOK' /\ CheckoutHoldsExecution' /\ KeepsLiveCheckout
  BY <1>1, <1>2, <1>3, <1>4, <1>6
  DEF CheckoutIInv, StartedOK, CheckoutHoldsExecution, KeepsLiveCheckout, Live
<1>8. QED  BY <1>2, <1>3, <1>4, <1>5, <1>7, RunStepInv

LEMMA QueueBesideInv ==
  ASSUME CheckoutAssumption, CheckoutIInv, NEW r \in Runs,
         QueueBeside(r)
  PROVE  CheckoutIInv' /\ KeepsLiveCheckout
<1>1. /\ run[r] = "none" /\ run' = [run EXCEPT ![r] = "live"]
      /\ about' \in {about, about \cup {r}} /\ issue' = issue /\ UNCHANGED <<req, made>>
  BY DEF QueueBeside
<1>2. issue \in Issues /\ run \in [Runs -> RunStates] /\ about \in SUBSET Runs
  BY DEF CheckoutIInv, CheckoutTypeOK, Issues, RunStates
<1>3. RunsGoOn  BY <1>1, <1>2 DEF RunsGoOn, RunStates
<1>4. issue.checkout # r  BY <1>1 DEF CheckoutIInv, StartedOK
<1>5. StartedOK' /\ CheckoutHoldsExecution' /\ KeepsLiveCheckout
  BY <1>1, <1>2, <1>4 DEF CheckoutIInv, StartedOK, CheckoutHoldsExecution, KeepsLiveCheckout, Live
<1>6. QED  BY <1>1, <1>2, <1>3, <1>5, RunStepInv

LEMMA EndRunInv ==
  ASSUME CheckoutAssumption, CheckoutIInv, NEW r \in Runs,
         EndRun(r)
  PROVE  CheckoutIInv' /\ KeepsLiveCheckout
<1>1. /\ run' = [run EXCEPT ![r] = "ended"] /\ UNCHANGED <<issue, about, req, made>>
  BY DEF EndRun
<1>2. issue \in Issues /\ run \in [Runs -> RunStates] /\ about \in SUBSET Runs
  BY DEF CheckoutIInv, CheckoutTypeOK, Issues, RunStates
<1>3. RunsGoOn  BY <1>1, <1>2 DEF RunsGoOn, RunStates
<1>4. StartedOK' /\ CheckoutHoldsExecution' /\ KeepsLiveCheckout
  BY <1>1, <1>2 DEF CheckoutIInv, StartedOK, CheckoutHoldsExecution, KeepsLiveCheckout, Live
<1>5. QED  BY <1>1, <1>2, <1>3, <1>4, RunStepInv

LEMMA ReleaseExecutionInv ==
  ASSUME CheckoutAssumption, CheckoutIInv, NEW r \in Runs,
         ReleaseExecution(r)
  PROVE  CheckoutIInv' /\ KeepsLiveCheckout
<1>1. ~Live(issue.execution)  BY DEF ReleaseExecution, Live
<1>2. ~Live(issue.checkout)  BY <1>1, FreeLock
<1>3. issue \in Issues /\ run \in [Runs -> RunStates] /\ about \in SUBSET Runs
  BY DEF CheckoutIInv, CheckoutTypeOK, Issues, RunStates
<1>4. UNCHANGED <<req, made>>  BY DEF ReleaseExecution
<1>5. CASE issue' = [issue EXCEPT !.execution = NoOne] /\ UNCHANGED <<run, about>>
  <2>1. issue' \in Issues /\ issue'.checkout = issue.checkout  BY <1>3, <1>5 DEF Issues
  <2>2. RunsGoOn  BY <1>3, <1>5 DEF RunsGoOn
  <2>3. StartedOK' /\ CheckoutHoldsExecution' /\ KeepsLiveCheckout
    BY <1>2, <1>5, <2>1
    DEF CheckoutIInv, StartedOK, CheckoutHoldsExecution, KeepsLiveCheckout, Live
  <2>4. QED  BY <1>3, <1>4, <1>5, <2>1, <2>2, <2>3, RunStepInv
<1>6. ASSUME NEW next \in Runs, run[next] = "none", run' = [run EXCEPT ![next] = "live"],
             about' = about \cup {next}, issue' = [issue EXCEPT !.execution = next]
      PROVE  CheckoutIInv' /\ KeepsLiveCheckout
  <2>1. issue' \in Issues /\ issue'.checkout = issue.checkout  BY <1>3, <1>6 DEF Issues
  <2>2. RunsGoOn  BY <1>3, <1>6 DEF RunsGoOn, RunStates
  <2>3. issue.checkout # next  BY <1>6 DEF CheckoutIInv, StartedOK
  <2>4. StartedOK' /\ CheckoutHoldsExecution' /\ KeepsLiveCheckout
    BY <1>2, <1>3, <1>6, <2>1, <2>3
    DEF CheckoutIInv, StartedOK, CheckoutHoldsExecution, KeepsLiveCheckout, Live
  <2>5. QED  BY <1>3, <1>4, <1>6, <2>1, <2>2, <2>4, RunStepInv
<1>7. QED  BY <1>5, <1>6 DEF ReleaseExecution

LEMMA RetryLostRunInv ==
  ASSUME CheckoutAssumption, CheckoutIInv, NEW r \in Runs, NEW retry \in Runs,
         RetryLostRun(r, retry)
  PROVE  CheckoutIInv' /\ KeepsLiveCheckout
<1>1. /\ run[r] = "ended" /\ run[retry] = "none" /\ run' = [run EXCEPT ![retry] = "live"]
      /\ about' \in {about, about \cup {retry}} /\ UNCHANGED <<req, made>>
  BY DEF RetryLostRun
<1>2. issue \in Issues /\ run \in [Runs -> RunStates] /\ about \in SUBSET Runs
  BY DEF CheckoutIInv, CheckoutTypeOK, Issues, RunStates
<1>3. RunsGoOn  BY <1>1, <1>2 DEF RunsGoOn, RunStates
<1>4. issue.checkout # retry  BY <1>1 DEF CheckoutIInv, StartedOK
<1>5. CASE issue' = issue
  <2>1. StartedOK' /\ CheckoutHoldsExecution' /\ KeepsLiveCheckout
    BY <1>1, <1>2, <1>4, <1>5
    DEF CheckoutIInv, StartedOK, CheckoutHoldsExecution, KeepsLiveCheckout, Live
  <2>2. QED  BY <1>1, <1>2, <1>3, <1>5, <2>1, RunStepInv
<1>6. CASE issue.execution = r /\ issue' = [issue EXCEPT !.execution = retry]
  <2>1. ~Live(issue.checkout)  BY <1>1, <1>6, FreeLock DEF Live
  <2>2. issue' \in Issues /\ issue'.checkout = issue.checkout  BY <1>2, <1>6 DEF Issues
  <2>3. StartedOK' /\ CheckoutHoldsExecution' /\ KeepsLiveCheckout
    BY <1>1, <1>2, <1>4, <2>1, <2>2
    DEF CheckoutIInv, StartedOK, CheckoutHoldsExecution, KeepsLiveCheckout, Live
  <2>4. QED  BY <1>1, <1>2, <1>3, <2>2, <2>3, RunStepInv
<1>7. QED  BY <1>5, <1>6 DEF RetryLostRun

-----------------------------------------------------------------------------
(* The steps of a request: they leave the runs alone *)

\* A new record of the request.
RequestIs(q, h) == req' = [req EXCEPT ![q] = h]

LEMMA RequestStepInv ==
  ASSUME CheckoutAssumption, CheckoutIInv, NEW q \in Requests, NEW h \in Reqs, RequestIs(q, h),
         RequestOK(h), issue' \in Issues, UNCHANGED <<run, about>>,
         made' \in 0..MaxRequests, StartedOK', CheckoutHoldsExecution'
  PROVE  CheckoutIInv'
<1>1. req \in [Requests -> Reqs]  BY DEF CheckoutIInv, CheckoutTypeOK
<1>2. /\ req' \in [Requests -> Reqs] /\ req'[q] = h
      /\ \A o \in Requests : o # q => req'[o] = req[o]
  BY <1>1 DEF RequestIs
<1>3. CheckoutTypeOK'  BY <1>2 DEF CheckoutIInv, CheckoutTypeOK, Issues
<1>4. RequestsOK'
  <2> SUFFICES ASSUME NEW o \in Requests PROVE RequestOK(req[o])'  BY DEF RequestsOK
  <2>1. CASE o = q  BY <1>2, <2>1 DEF RequestOK
  <2>2. CASE o # q
    <3>1. req'[o] = req[o] /\ RequestOK(req[o])  BY <1>2, <2>2 DEF CheckoutIInv, RequestsOK
    <3>2. QED  BY <3>1 DEF RequestOK
  <2>3. QED  BY <2>1, <2>2
<1>5. QED  BY <1>3, <1>4 DEF CheckoutIInv

\* A step that changes the record of the request alone, to h.
LEMMA RequestOnly ==
  ASSUME CheckoutAssumption, CheckoutIInv, NEW q \in Requests, NEW h \in Reqs, RequestIs(q, h),
         RequestOK(h), UNCHANGED <<issue, run, about>>, made' \in 0..MaxRequests
  PROVE  CheckoutIInv' /\ KeepsLiveCheckout
<1>1. issue' \in Issues  BY DEF CheckoutIInv, CheckoutTypeOK, Issues
<1>2. StartedOK' /\ CheckoutHoldsExecution' /\ KeepsLiveCheckout
  BY DEF CheckoutIInv, StartedOK, CheckoutHoldsExecution, KeepsLiveCheckout, Live
<1>3. QED  BY <1>1, <1>2, RequestStepInv

\* A step that answers the request, and may have changed the row of the issue.
LEMMA AnswerInv ==
  ASSUME CheckoutAssumption, CheckoutIInv, NEW q \in Requests, Answer(q), issue' \in Issues,
         UNCHANGED <<run, about, made>>, StartedOK', CheckoutHoldsExecution'
  PROVE  CheckoutIInv'
<1>1. NoReq \in Reqs /\ RequestOK(NoReq)
  BY DEF NoReq, Request, NoPatch, Reqs, Patches, RequestOK, CheckoutAssumption
<1>2. RequestIs(q, NoReq) /\ made' \in 0..MaxRequests
  BY DEF Answer, RequestIs, CheckoutIInv, CheckoutTypeOK
<1>3. QED  BY <1>1, <1>2, RequestStepInv

LEMMA ReceiveCheckoutInv ==
  ASSUME CheckoutAssumption, CheckoutIInv, NEW q \in Requests, NEW a \in Agents, NEW actor \in Runs \cup {Board},
         NEW expect \in Expected,
         ReceiveCheckout(q, actor, a, expect)
  PROVE  CheckoutIInv' /\ KeepsLiveCheckout
<1> DEFINE h == Request("checkout", "take", actor, a, expect, NoPatch)
<1>1. h \in Reqs /\ h.actor = actor /\ h.pc = "take"
  BY DEF Request, NoPatch, Reqs, Patches
<1>2. /\ RequestIs(q, h) /\ UNCHANGED <<issue, run, about>>
      /\ made < MaxRequests /\ made' = made + 1
      /\ actor \in Runs => run[actor] # "none"
  BY DEF ReceiveCheckout, Receive, RequestIs
<1>3. RequestOK(h)  BY <1>1, <1>2 DEF RequestOK
<1>4. made' \in 0..MaxRequests  BY <1>2 DEF CheckoutIInv, CheckoutTypeOK, CheckoutAssumption
<1> HIDE DEF h
<1>5. QED  BY <1>1, <1>2, <1>3, <1>4, RequestOnly

LEMMA ReceiveChangeInv ==
  ASSUME CheckoutAssumption, CheckoutIInv, NEW q \in Requests, NEW op \in {"patch", "release"},
         NEW actor \in Runs \cup {Board}, NEW patch \in Patches,
         ReceiveChange(q, op, actor, patch)
  PROVE  CheckoutIInv' /\ KeepsLiveCheckout
<1> DEFINE agent == IF actor = Board THEN NoOne ELSE AgentOf[actor]
           owns == issue.status = "in_progress" /\ issue.assignee = agent /\ actor # Board
           h == Request(op, IF owns THEN "own" ELSE "read", actor, agent, {}, patch)
<1>1. agent \in Agents \cup {NoOne}  BY DEF CheckoutAssumption
<1>2. /\ h \in Reqs /\ h.actor = actor /\ h.pc \in {"own", "read"}
      /\ h.pc = "own" => actor # Board
  <2> HIDE DEF agent
  <2>1. QED  BY <1>1 DEF Request, Reqs
<1>3. /\ RequestIs(q, h) /\ UNCHANGED <<issue, run, about>>
      /\ made < MaxRequests /\ made' = made + 1
      /\ actor \in Runs => run[actor] # "none"
  BY DEF ReceiveChange, Receive, RequestIs
<1> HIDE DEF h
<1>4. RequestOK(h)  BY <1>2, <1>3 DEF RequestOK
<1>5. made' \in 0..MaxRequests  BY <1>3 DEF CheckoutIInv, CheckoutTypeOK, CheckoutAssumption
<1>6. QED  BY <1>2, <1>3, <1>4, <1>5, RequestOnly

LEMMA TakeInv ==
  ASSUME CheckoutAssumption, CheckoutIInv, NEW q \in Requests,
         Take(q)
  PROVE  CheckoutIInv' /\ KeepsLiveCheckout
<1> DEFINE me == ActorRun(q)
<1>1. /\ req[q] \in Reqs /\ issue \in Issues /\ UNCHANGED <<run, about, made>>
      /\ made \in 0..MaxRequests /\ RequestOK(req[q])
  BY DEF CheckoutIInv, CheckoutTypeOK, Issues, RequestsOK, Take
<1>2. me \in Runs \cup {NoOne} /\ (me \in Runs => run[me] # "none")
  BY <1>1 DEF ActorRun, RequestOK, Reqs, CheckoutAssumption
<1>3. CASE MayTake(q)
  <2>1. /\ issue' = [status |-> "in_progress", assignee |-> req[q].agent,
                     checkout |-> me, execution |-> me]
        /\ Answer(q) /\ issue.execution \in {NoOne, me}
    BY <1>3 DEF Take, MayTake
  <2>2. issue' \in Issues /\ issue'.checkout = me /\ issue'.execution = me
    <3> HIDE DEF me
    <3>1. QED  BY <1>1, <1>2, <2>1 DEF Issues, Statuses, Reqs
  <2> HIDE DEF me
  <2>3. StartedOK' /\ CheckoutHoldsExecution' /\ KeepsLiveCheckout
    BY <1>1, <1>2, <2>1, <2>2
    DEF CheckoutIInv, StartedOK, CheckoutHoldsExecution, KeepsLiveCheckout, Live,
      CheckoutAssumption
  <2>4. QED  BY <1>1, <2>1, <2>2, <2>3, AnswerInv
<1>4. CASE ~MayTake(q)
  <2> DEFINE h == [req[q] EXCEPT !.pc = "reread"]
  <2>1. h \in Reqs /\ h.actor = req[q].actor /\ h.pc = "reread"  BY <1>1 DEF Reqs
  <2>2. RequestIs(q, h) /\ UNCHANGED issue  BY <1>4 DEF Take, RequestGo, RequestIs
  <2> HIDE DEF h
  <2>3. RequestOK(h)  BY <1>1, <2>1 DEF RequestOK
  <2>4. QED  BY <1>1, <2>1, <2>2, <2>3, RequestOnly
<1>5. QED  BY <1>3, <1>4

LEMMA RereadInv ==
  ASSUME CheckoutAssumption, CheckoutIInv, NEW q \in Requests,
         Reread(q)
  PROVE  CheckoutIInv' /\ KeepsLiveCheckout
<1>1. /\ req[q] \in Reqs /\ issue \in Issues /\ UNCHANGED <<issue, run, about, made>>
      /\ made \in 0..MaxRequests /\ RequestOK(req[q]) /\ StartedOK
  BY DEF CheckoutIInv, CheckoutTypeOK, Issues, RequestsOK, Reread
<1> DEFINE me == ActorRun(q)
           ours == issue.assignee = req[q].agent /\ issue.status = "in_progress" /\ me # NoOne
           free == ours /\ issue.checkout = NoOne /\ issue.execution \in {NoOne, me}
           other == ours /\ issue.checkout \notin {NoOne, me}
           adopt == [req[q] EXCEPT !.pc = "adoptFree"]
           check == [req[q] EXCEPT !.pc = "stale", !.stale = issue.checkout]
           h == IF free THEN adopt ELSE IF other THEN check ELSE NoReq
<1>2. RequestIs(q, h)  BY DEF Reread, RequestIs
<1>3. me # NoOne => req[q].actor \in Runs  BY <1>1 DEF ActorRun, Reqs
<1>4. NoReq \in Reqs /\ RequestOK(NoReq)
  BY DEF NoReq, Request, NoPatch, Reqs, Patches, RequestOK, CheckoutAssumption
<1>5. /\ adopt \in Reqs /\ adopt.pc = "adoptFree" /\ adopt.actor = req[q].actor
      /\ check \in Reqs /\ check.pc = "stale" /\ check.actor = req[q].actor
      /\ check.stale = issue.checkout
  BY <1>1 DEF Reqs, Issues
<1>6. (free => RequestOK(adopt)) /\ (other => RequestOK(check))
  <2> HIDE DEF adopt, check, me
  <2>1. QED  BY <1>1, <1>3, <1>5 DEF RequestOK, StartedOK, Issues
<1>7. h \in Reqs /\ RequestOK(h)
  <2> HIDE DEF adopt, check, free, other
  <2>1. CASE free  BY <1>5, <1>6, <2>1
  <2>2. CASE ~free /\ other  BY <1>5, <1>6, <2>2
  <2>3. CASE ~free /\ ~other  BY <1>4, <2>3
  <2>4. QED  BY <2>1, <2>2, <2>3
<1> HIDE DEF h
<1>8. QED  BY <1>1, <1>2, <1>7, RequestOnly

LEMMA AdoptFreeInv ==
  ASSUME CheckoutAssumption, CheckoutIInv, NEW q \in Requests,
         AdoptFree(q)
  PROVE  CheckoutIInv' /\ KeepsLiveCheckout
<1>1. /\ req[q] \in Reqs /\ issue \in Issues /\ UNCHANGED <<run, about, made>> /\ Answer(q)
      /\ RequestOK(req[q]) /\ req[q].pc = "adoptFree"
  BY DEF CheckoutIInv, CheckoutTypeOK, Issues, RequestsOK, AdoptFree, RequestAt
<1>2. req[q].actor \in Runs /\ run[req[q].actor] # "none"  BY <1>1 DEF RequestOK
<1>3. \/ issue' = issue
      \/ /\ issue.checkout = NoOne
         /\ issue' = [issue EXCEPT !.checkout = req[q].actor, !.execution = req[q].actor]
  BY DEF AdoptFree
<1>4. /\ issue' \in Issues
      /\ \/ issue' = issue
         \/ /\ issue.checkout = NoOne
            /\ issue'.checkout = req[q].actor /\ issue'.execution = req[q].actor
  BY <1>1, <1>2, <1>3 DEF Issues
<1>5. StartedOK' /\ CheckoutHoldsExecution' /\ KeepsLiveCheckout
  BY <1>1, <1>2, <1>4
  DEF CheckoutIInv, StartedOK, CheckoutHoldsExecution, KeepsLiveCheckout, Live, CheckoutAssumption
<1>6. QED  BY <1>1, <1>4, <1>5, AnswerInv

LEMMA CheckStaleInv ==
  ASSUME CheckoutAssumption, CheckoutIInv, NEW q \in Requests,
         CheckStale(q)
  PROVE  CheckoutIInv' /\ KeepsLiveCheckout
<1>1. /\ req[q] \in Reqs /\ UNCHANGED <<issue, run, about, made>> /\ made \in 0..MaxRequests
      /\ RequestOK(req[q]) /\ req[q].pc = "stale" /\ issue \in Issues
      /\ run \in [Runs -> RunStates]
  BY DEF CheckoutIInv, CheckoutTypeOK, Issues, RunStates, RequestsOK, CheckStale, RequestAt
<1>2. CASE Live(req[q].stale)
  <2>1. Answer(q)  BY <1>2 DEF CheckStale
  <2>2. StartedOK' /\ CheckoutHoldsExecution' /\ KeepsLiveCheckout
    BY <1>1 DEF CheckoutIInv, StartedOK, CheckoutHoldsExecution, KeepsLiveCheckout, Live
  <2>3. QED  BY <1>1, <2>1, <2>2, AnswerInv
<1>3. CASE ~Live(req[q].stale)
  <2> DEFINE h == [req[q] EXCEPT !.pc = "adoptStale"]
  <2>1. h \in Reqs /\ h.pc = "adoptStale" /\ h.actor = req[q].actor /\ h.stale = req[q].stale
    BY <1>1 DEF Reqs
  <2>2. RequestIs(q, h)  BY <1>3 DEF CheckStale, RequestGo, RequestIs
  <2>3. run[req[q].stale] = "ended"  BY <1>1, <1>3 DEF RequestOK, Live, RunStates
  <2> HIDE DEF h
  <2>4. RequestOK(h)  BY <1>1, <2>1, <2>3 DEF RequestOK
  <2>5. QED  BY <1>1, <2>1, <2>2, <2>4, RequestOnly
<1>4. QED  BY <1>2, <1>3

LEMMA AdoptStaleInv ==
  ASSUME CheckoutAssumption, CheckoutIInv, NEW q \in Requests,
         AdoptStale(q)
  PROVE  CheckoutIInv' /\ KeepsLiveCheckout
<1>1. /\ req[q] \in Reqs /\ issue \in Issues /\ UNCHANGED <<run, about, made>>
      /\ made \in 0..MaxRequests /\ RequestOK(req[q]) /\ req[q].pc = "adoptStale"
  BY DEF CheckoutIInv, CheckoutTypeOK, Issues, RequestsOK, AdoptStale, RequestAt
<1>2. /\ req[q].actor \in Runs /\ run[req[q].actor] # "none" /\ run[req[q].stale] = "ended"
  BY <1>1 DEF RequestOK
<1>3. \/ issue' = issue
      \/ /\ issue.checkout = req[q].stale
         /\ issue' = [issue EXCEPT !.checkout = req[q].actor, !.execution = req[q].actor]
  BY DEF AdoptStale
<1>4. /\ issue' \in Issues
      /\ \/ issue' = issue
         \/ /\ issue.checkout = req[q].stale
            /\ issue'.checkout = req[q].actor /\ issue'.execution = req[q].actor
  BY <1>1, <1>2, <1>3 DEF Issues
<1>5. StartedOK' /\ CheckoutHoldsExecution' /\ KeepsLiveCheckout
  BY <1>1, <1>2, <1>4
  DEF CheckoutIInv, StartedOK, CheckoutHoldsExecution, KeepsLiveCheckout, Live
<1>6. CASE Answer(q)  BY <1>1, <1>4, <1>5, <1>6, AnswerInv
<1>7. CASE RequestGo(q, "read")
  <2> DEFINE h == [req[q] EXCEPT !.pc = "read"]
  <2>1. h \in Reqs /\ h.pc = "read" /\ h.actor = req[q].actor  BY <1>1 DEF Reqs
  <2>2. RequestIs(q, h)  BY <1>7 DEF RequestGo, RequestIs
  <2> HIDE DEF h
  <2>3. RequestOK(h)  BY <1>1, <2>1 DEF RequestOK
  <2>4. QED  BY <1>1, <1>4, <1>5, <2>1, <2>2, <2>3, RequestStepInv
<1>8. QED  BY <1>6, <1>7 DEF AdoptStale

LEMMA AssertOwnerInv ==
  ASSUME CheckoutAssumption, CheckoutIInv, NEW q \in Requests,
         AssertOwner(q)
  PROVE  CheckoutIInv' /\ KeepsLiveCheckout
<1>1. /\ req[q] \in Reqs /\ issue \in Issues /\ UNCHANGED <<issue, run, about, made>>
      /\ made \in 0..MaxRequests /\ RequestOK(req[q]) /\ StartedOK /\ req[q].pc = "own"
  BY DEF CheckoutIInv, CheckoutTypeOK, Issues, RequestsOK, AssertOwner, RequestAt
<1> DEFINE ours == issue.status = "in_progress" /\ issue.assignee = req[q].agent
           mine == ours /\ issue.checkout = req[q].actor
           other == ours /\ issue.checkout # NoOne
           read == [req[q] EXCEPT !.pc = "read"]
           check == [req[q] EXCEPT !.pc = "stale", !.stale = issue.checkout]
           h == IF mine THEN read ELSE IF other THEN check ELSE NoReq
<1>2. RequestIs(q, h)  BY DEF AssertOwner, RequestIs
<1>3. NoReq \in Reqs /\ RequestOK(NoReq)
  BY DEF NoReq, Request, NoPatch, Reqs, Patches, RequestOK, CheckoutAssumption
<1>4. /\ read \in Reqs /\ read.pc = "read" /\ read.actor = req[q].actor
      /\ check \in Reqs /\ check.pc = "stale" /\ check.actor = req[q].actor
      /\ check.stale = issue.checkout
  BY <1>1 DEF Reqs, Issues
<1>5. RequestOK(read) /\ (other => RequestOK(check))
  <2> HIDE DEF read, check
  <2>1. QED  BY <1>1, <1>4 DEF RequestOK, StartedOK, Issues
<1>6. h \in Reqs /\ RequestOK(h)
  <2> HIDE DEF read, check, mine, other
  <2>1. CASE mine  BY <1>4, <1>5, <2>1
  <2>2. CASE ~mine /\ other  BY <1>4, <1>5, <2>2
  <2>3. CASE ~mine /\ ~other  BY <1>3, <2>3
  <2>4. QED  BY <2>1, <2>2, <2>3
<1> HIDE DEF h
<1>7. QED  BY <1>1, <1>2, <1>6, RequestOnly

LEMMA ReadIssueInv ==
  ASSUME CheckoutAssumption, CheckoutIInv, NEW q \in Requests,
         ReadIssue(q)
  PROVE  CheckoutIInv' /\ KeepsLiveCheckout
<1>1. /\ req[q] \in Reqs /\ issue \in Issues /\ UNCHANGED <<issue, run, about, made>>
      /\ made \in 0..MaxRequests /\ RequestOK(req[q])
  BY DEF CheckoutIInv, CheckoutTypeOK, Issues, RequestsOK, ReadIssue
<1> DEFINE write == [req[q] EXCEPT !.pc = "write", !.seen = issue.assignee]
<1>2. RequestIs(q, NoReq) \/ RequestIs(q, write)  BY DEF ReadIssue, RequestIs
<1>3. NoReq \in Reqs /\ RequestOK(NoReq)
  BY DEF NoReq, Request, NoPatch, Reqs, Patches, RequestOK, CheckoutAssumption
<1>4. write \in Reqs /\ write.pc = "write" /\ write.actor = req[q].actor
  BY <1>1 DEF Reqs, Issues
<1> HIDE DEF write
<1>5. RequestOK(write)  BY <1>1, <1>4 DEF RequestOK
<1>6. CASE RequestIs(q, NoReq)  BY <1>1, <1>3, <1>6, RequestOnly
<1>7. CASE RequestIs(q, write)  BY <1>1, <1>4, <1>5, <1>7, RequestOnly
<1>8. QED  BY <1>2, <1>6, <1>7

LEMMA WritePatchInv ==
  ASSUME CheckoutAssumption, CheckoutIInv, NEW q \in Requests,
         WritePatch(q)
  PROVE  CheckoutIInv' /\ KeepsLiveCheckout
<1>1. /\ req[q] \in Reqs /\ issue \in Issues /\ UNCHANGED <<run, about, made>> /\ Answer(q)
  BY DEF CheckoutIInv, CheckoutTypeOK, Issues, WritePatch
<1> DEFINE p == req[q].patch
<1>2. p \in Patches  BY <1>1 DEF Reqs
<1>3. PICK unlocked \in BOOLEAN :
        issue' = [issue EXCEPT !.status = IF p.status = "keep" THEN @ ELSE p.status,
                               !.assignee = IF p.assignee = "keep" THEN @ ELSE p.assignee,
                               !.checkout = IF unlocked THEN NoOne ELSE @]
  BY DEF WritePatch
<1> HIDE DEF p
<1>4. /\ issue' \in Issues /\ issue'.execution = issue.execution
      /\ issue'.checkout \in {issue.checkout, NoOne}
  BY <1>1, <1>2, <1>3 DEF Issues, Patches
<1>5. StartedOK' /\ CheckoutHoldsExecution' /\ KeepsLiveCheckout
  BY <1>1, <1>4
  DEF CheckoutIInv, StartedOK, CheckoutHoldsExecution, KeepsLiveCheckout, Live, CheckoutAssumption
<1>6. QED  BY <1>1, <1>4, <1>5, AnswerInv

LEMMA WriteReleaseInv ==
  ASSUME CheckoutAssumption, CheckoutIInv, NEW q \in Requests,
         WriteRelease(q)
  PROVE  CheckoutIInv' /\ KeepsLiveCheckout
<1>1. /\ issue \in Issues /\ UNCHANGED <<run, about, made>> /\ Answer(q)
      /\ issue' = [issue EXCEPT !.status = "todo", !.assignee = NoOne, !.checkout = NoOne]
  BY DEF CheckoutIInv, CheckoutTypeOK, Issues, WriteRelease
<1>2. issue' \in Issues /\ issue'.checkout = NoOne  BY <1>1 DEF Issues, Statuses
<1>3. StartedOK' /\ CheckoutHoldsExecution' /\ KeepsLiveCheckout
  BY <1>1, <1>2
  DEF CheckoutIInv, StartedOK, CheckoutHoldsExecution, KeepsLiveCheckout, Live, CheckoutAssumption
<1>4. QED  BY <1>1, <1>2, <1>3, AnswerInv

-----------------------------------------------------------------------------
\* Every step keeps the invariant, and takes no live run's checkout for another.
LEMMA CheckoutStepInv ==
  ASSUME CheckoutAssumption, CheckoutIInv, [CheckoutNext]_checkoutVars
  PROVE  CheckoutIInv' /\ KeepsLiveCheckout
<1>1. CASE UNCHANGED checkoutVars
  <2>1. UNCHANGED <<issue, run, about, req, made>>  BY <1>1 DEF checkoutVars
  <2>2. CheckoutTypeOK' /\ StartedOK' /\ CheckoutHoldsExecution' /\ KeepsLiveCheckout
    BY <2>1 DEF CheckoutIInv, CheckoutTypeOK, StartedOK, CheckoutHoldsExecution, KeepsLiveCheckout, Live
  <2>3. RequestsOK'  BY <2>1 DEF CheckoutIInv, RequestsOK, RequestOK
  <2>4. QED  BY <2>2, <2>3 DEF CheckoutIInv
<1>2. ASSUME NEW r \in Runs,
             \/ AdoptLegacyRun(r) \/ QueueForIssue(r) \/ QueueBeside(r)
             \/ EndRun(r) \/ ReleaseExecution(r)
      PROVE  CheckoutIInv' /\ KeepsLiveCheckout
  BY <1>2, AdoptLegacyRunInv, QueueForIssueInv, QueueBesideInv, EndRunInv,
    ReleaseExecutionInv
<1>3. ASSUME NEW r \in Runs, NEW retry \in Runs, RetryLostRun(r, retry)
      PROVE  CheckoutIInv' /\ KeepsLiveCheckout
  BY <1>3, RetryLostRunInv
<1>4. ASSUME NEW q \in Requests, NEW a \in Agents, NEW actor \in Runs \cup {Board},
             NEW expect \in Expected, ReceiveCheckout(q, actor, a, expect)
      PROVE  CheckoutIInv' /\ KeepsLiveCheckout
  BY <1>4, ReceiveCheckoutInv
<1>5. ASSUME NEW q \in Requests, NEW actor \in Runs \cup {Board}, NEW patch \in Changes,
             ReceiveChange(q, "patch", actor, patch)
      PROVE  CheckoutIInv' /\ KeepsLiveCheckout
  <2>1. patch \in Patches  BY DEF CheckoutAssumption, Patches, Statuses
  <2>2. QED  BY <1>5, <2>1, ReceiveChangeInv
<1>6. ASSUME NEW q \in Requests, NEW actor \in Runs \cup {Board},
             ReceiveChange(q, "release", actor, NoPatch)
      PROVE  CheckoutIInv' /\ KeepsLiveCheckout
  <2>1. NoPatch \in Patches  BY DEF NoPatch, Patches
  <2>2. QED  BY <1>6, <2>1, ReceiveChangeInv
<1>7. ASSUME NEW q \in Requests, RequestStep(q)
      PROVE  CheckoutIInv' /\ KeepsLiveCheckout
  BY <1>7, TakeInv, RereadInv, AdoptFreeInv, CheckStaleInv, AdoptStaleInv, AssertOwnerInv,
    ReadIssueInv, WritePatchInv, WriteReleaseInv DEF RequestStep
<1>8. QED  BY <1>1, <1>2, <1>3, <1>4, <1>5, <1>6, <1>7 DEF CheckoutNext

\* The invariant holds in every reachable state.
LEMMA CheckoutInvariance == ASSUME CheckoutAssumption PROVE CheckoutSpec => []CheckoutIInv
<1>1. CheckoutInit => CheckoutIInv  BY CheckoutInitInv
<1>2. CheckoutIInv /\ [CheckoutNext]_checkoutVars => CheckoutIInv'  BY CheckoutStepInv
<1>3. QED  BY <1>1, <1>2, PTL DEF CheckoutSpec

\* Every column and every local of a request has a value of its type: no patch writes
\* what it leaves out, and no adoption writes an actor that is no run.
THEOREM CheckoutTypeCorrect == ASSUME CheckoutAssumption PROVE CheckoutSpec => []CheckoutTypeOK
<1>1. CheckoutIInv => CheckoutTypeOK  BY DEF CheckoutIInv
<1>2. QED  BY <1>1, CheckoutInvariance, PTL

\* For any agents, runs and requests, the live run that has the issue checked out has
\* its execution lock too: checkout, adoption, patch and release of issues.ts and the
\* wakes, promotions and retries of heartbeat.ts never part the two.
THEOREM OwnersAgree == ASSUME CheckoutAssumption PROVE CheckoutSpec => []CheckoutHoldsExecution
<1>1. CheckoutIInv => CheckoutHoldsExecution  BY DEF CheckoutIInv
<1>2. QED  BY <1>1, CheckoutInvariance, PTL

\* For any agents, runs and requests, no step hands the checkout of a live run to
\* another: the checkout is kept or given up first.
THEOREM NoCheckoutIsStolen == ASSUME CheckoutAssumption PROVE CheckoutSpec => LiveCheckoutIsKept
<1>1. CheckoutIInv /\ [CheckoutNext]_checkoutVars => [KeepsLiveCheckout]_checkoutVars  BY CheckoutStepInv
<1>2. QED  BY <1>1, CheckoutInvariance, PTL DEF CheckoutSpec, LiveCheckoutIsKept

(***************************************************************************)
(* Documents                                                               *)
(***************************************************************************)

\* What the locals mean: a writer that found the document has its last revision as
\* the one it read, and its document and number are those of a real one.
LocalsOK ==
    \A w \in Writers :
        /\ tx[w].pc \in {"insert", "update", "touch", "commit"} =>
            /\ tx[w].doc \in Docs /\ tx[w].number \in Numbers
            /\ tx[w].read = [doc |-> tx[w].doc, number |-> tx[w].number]
        /\ tx[w].pc \in {"unlink", "drop", "forget", "publish"} => tx[w].doc \in Docs

\* What the locks keep: the document of a writer that has inserted its revision stays
\* as it was found, and no other writer and no deletion has got as far.
LocksOK ==
    /\ \A w \in Writers : Writing(w) =>
        latest[tx[w].doc] = tx[w].number /\ tx[w].number < MaxRevisions
    /\ \A v, w \in Writers : v # w /\ tx[v].doc = tx[w].doc /\ Writing(w) =>
        ~Writing(v) /\ ~Dropping(v)

\* Of the documents not yet linked: at most one is created at a time, while the key
\* names none, and an id is used once.
CreationOK ==
    /\ \A d \in Docs : latest[d] > 0 => d \in taken
    /\ \A w \in Writers : Creating(w) => link = NoDoc /\ tx[w].doc \in taken
    /\ \A v, w \in Writers : Creating(v) /\ Creating(w) => v = w

DocumentsIInv == DocumentsTypeOK /\ LocalsOK /\ LocksOK /\ CreationOK /\ DocumentsAreWhole

-----------------------------------------------------------------------------
\* The initial states satisfy the invariant.
LEMMA DocumentsInitInv == ASSUME DocumentsAssumption PROVE DocumentsInit => DocumentsIInv
  BY DEF DocumentsAssumption, DocumentsInit, DocumentsIInv, DocumentsTypeOK, LocalsOK, LocksOK, CreationOK,
    DocumentsAreWhole, RevisionsFollow, OneDocumentPerKey, Writing, Dropping, Creating,
    NoTx, Tx, Transactions, PCs, NoRevision, Revisions, Numbers

-----------------------------------------------------------------------------
(* What a statement does to the locals *)

\* A new record of locals for one transaction.
TxIs(w, t) == tx' = [tx EXCEPT ![w] = t]

\* The other transactions keep theirs, and the type is kept.
LEMMA TxFacts ==
  ASSUME tx \in [Writers -> Transactions], NEW w \in Writers, NEW t \in Transactions, TxIs(w, t)
  PROVE  /\ tx' \in [Writers -> Transactions]
         /\ tx'[w] = t
         /\ \A v \in Writers \ {w} : tx'[v] = tx[v]
  BY DEF TxIs

\* Go changes the place of a transaction and nothing else.
LEMMA GoFacts ==
  ASSUME tx \in [Writers -> Transactions], NEW w \in Writers, NEW pc \in PCs, TxGo(w, pc)
  PROVE  /\ tx' \in [Writers -> Transactions]
         /\ tx'[w] = [tx[w] EXCEPT !.pc = pc]
         /\ tx'[w].pc = pc /\ tx'[w].read = tx[w].read
         /\ tx'[w].doc = tx[w].doc /\ tx'[w].number = tx[w].number
         /\ \A v \in Writers \ {w} : tx'[v] = tx[v]
<1> DEFINE t == [tx[w] EXCEPT !.pc = pc]
<1>1. tx[w] \in Transactions  OBVIOUS
<1>2. t \in Transactions /\ t.pc = pc /\ t.read = tx[w].read /\ t.doc = tx[w].doc
        /\ t.number = tx[w].number
  BY <1>1 DEF Transactions
<1>3. TxIs(w, t)  BY DEF TxGo, TxIs
<1> HIDE DEF t
<1>4. QED  BY <1>2, <1>3, TxFacts DEF t

\* End leaves a transaction that is none.
LEMMA EndFacts ==
  ASSUME DocumentsAssumption, tx \in [Writers -> Transactions], NEW w \in Writers, EndTx(w)
  PROVE  /\ tx' \in [Writers -> Transactions]
         /\ tx'[w] = NoTx /\ tx'[w].pc = "idle"
         /\ \A v \in Writers \ {w} : tx'[v] = tx[v]
<1>1. NoTx \in Transactions /\ NoTx.pc = "idle"
  BY DEF NoTx, Tx, NoRevision, Transactions, PCs, Revisions, DocumentsAssumption
<1>2. TxIs(w, NoTx)  BY DEF EndTx, TxIs
<1>3. QED  BY <1>1, <1>2, TxFacts

-----------------------------------------------------------------------------
(* Every step keeps the invariant *)

\* The rows a transaction leaves alone.
Rows == <<link, latest, base, taken>>

\* A transaction that ends without a commit.
LEMMA EndInv ==
  ASSUME DocumentsAssumption, DocumentsIInv, NEW w \in Writers, EndTx(w), UNCHANGED Rows
  PROVE  DocumentsIInv'
<1>1. tx \in [Writers -> Transactions]  BY DEF DocumentsIInv, DocumentsTypeOK
<1>2. /\ tx' \in [Writers -> Transactions]
      /\ tx'[w].pc = "idle"
      /\ \A v \in Writers \ {w} : tx'[v] = tx[v]
  BY <1>1, EndFacts
<1>3. DocumentsTypeOK'  BY <1>2 DEF DocumentsIInv, DocumentsTypeOK, Rows
<1>4. LocalsOK'  BY <1>2 DEF DocumentsIInv, LocalsOK
<1>5. LocksOK'  BY <1>2 DEF DocumentsIInv, LocksOK, Writing, Dropping, Rows
<1>6. CreationOK'  BY <1>2 DEF DocumentsIInv, CreationOK, Creating, Rows
<1>7. DocumentsAreWhole'
  BY DEF DocumentsIInv, DocumentsAreWhole, RevisionsFollow, OneDocumentPerKey, Rows
<1>8. QED  BY <1>3, <1>4, <1>5, <1>6, <1>7 DEF DocumentsIInv

LEMMA UpdateDocumentInv ==
  ASSUME DocumentsAssumption, DocumentsIInv, NEW w \in Writers, UpdateDocument(w)
  PROVE  DocumentsIInv'
<1>1. tx \in [Writers -> Transactions] /\ "touch" \in PCs  BY DEF DocumentsIInv, DocumentsTypeOK, PCs
<1>2. /\ tx' \in [Writers -> Transactions]
      /\ tx'[w].pc = "touch" /\ tx'[w].read = tx[w].read
      /\ tx'[w].doc = tx[w].doc /\ tx'[w].number = tx[w].number
      /\ \A v \in Writers \ {w} : tx'[v] = tx[v]
  BY <1>1, GoFacts DEF UpdateDocument
<1>3. UNCHANGED Rows  BY DEF UpdateDocument, Rows
<1>4. DocumentsTypeOK'  BY <1>2, <1>3 DEF DocumentsIInv, DocumentsTypeOK, Rows
<1>5. LocalsOK'  BY <1>2 DEF DocumentsIInv, LocalsOK, UpdateDocument, TxAt
<1>6. LocksOK'
  BY <1>2, <1>3 DEF DocumentsIInv, LocksOK, Writing, Dropping, Others, Rows, UpdateDocument, TxAt
<1>7. CreationOK'  BY <1>2, <1>3 DEF DocumentsIInv, CreationOK, Creating, Rows
<1>8. DocumentsAreWhole'
  BY <1>3 DEF DocumentsIInv, DocumentsAreWhole, RevisionsFollow, OneDocumentPerKey, Rows
<1>9. QED  BY <1>4, <1>5, <1>6, <1>7, <1>8 DEF DocumentsIInv

LEMMA TouchLinkInv ==
  ASSUME DocumentsAssumption, DocumentsIInv, NEW w \in Writers, TouchLink(w)
  PROVE  DocumentsIInv'
<1>1. tx \in [Writers -> Transactions] /\ "commit" \in PCs  BY DEF DocumentsIInv, DocumentsTypeOK, PCs
<1>2. /\ tx' \in [Writers -> Transactions]
      /\ tx'[w].pc = "commit" /\ tx'[w].read = tx[w].read
      /\ tx'[w].doc = tx[w].doc /\ tx'[w].number = tx[w].number
      /\ \A v \in Writers \ {w} : tx'[v] = tx[v]
  BY <1>1, GoFacts DEF TouchLink
<1>3. UNCHANGED Rows  BY DEF TouchLink, Rows
<1>4. DocumentsTypeOK'  BY <1>2, <1>3 DEF DocumentsIInv, DocumentsTypeOK, Rows
<1>5. LocalsOK'  BY <1>2 DEF DocumentsIInv, LocalsOK, TouchLink, TxAt
<1>6. LocksOK'
  BY <1>2, <1>3 DEF DocumentsIInv, LocksOK, Writing, Dropping, Others, Rows, TouchLink, TxAt
<1>7. CreationOK'  BY <1>2, <1>3 DEF DocumentsIInv, CreationOK, Creating, Rows
<1>8. DocumentsAreWhole'
  BY <1>3 DEF DocumentsIInv, DocumentsAreWhole, RevisionsFollow, OneDocumentPerKey, Rows
<1>9. QED  BY <1>4, <1>5, <1>6, <1>7, <1>8 DEF DocumentsIInv

LEMMA DeleteLinkInv ==
  ASSUME DocumentsAssumption, DocumentsIInv, NEW w \in Writers, DeleteLink(w)
  PROVE  DocumentsIInv'
<1>1. tx \in [Writers -> Transactions] /\ "drop" \in PCs  BY DEF DocumentsIInv, DocumentsTypeOK, PCs
<1>2. /\ tx' \in [Writers -> Transactions]
      /\ tx'[w].pc = "drop" /\ tx'[w].read = tx[w].read
      /\ tx'[w].doc = tx[w].doc /\ tx'[w].number = tx[w].number
      /\ \A v \in Writers \ {w} : tx'[v] = tx[v]
  BY <1>1, GoFacts DEF DeleteLink
<1>3. UNCHANGED Rows  BY DEF DeleteLink, Rows
<1>4. DocumentsTypeOK'  BY <1>2, <1>3 DEF DocumentsIInv, DocumentsTypeOK, Rows
<1>5. LocalsOK'  BY <1>2 DEF DocumentsIInv, LocalsOK, DeleteLink, TxAt
<1>6. LocksOK'
  BY <1>2, <1>3 DEF DocumentsIInv, LocksOK, Writing, Dropping, Others, Rows, DeleteLink, TxAt
<1>7. CreationOK'  BY <1>2, <1>3 DEF DocumentsIInv, CreationOK, Creating, Rows
<1>8. DocumentsAreWhole'
  BY <1>3 DEF DocumentsIInv, DocumentsAreWhole, RevisionsFollow, OneDocumentPerKey, Rows
<1>9. QED  BY <1>4, <1>5, <1>6, <1>7, <1>8 DEF DocumentsIInv

LEMMA DeleteDocumentInv ==
  ASSUME DocumentsAssumption, DocumentsIInv, NEW w \in Writers, DeleteDocument(w)
  PROVE  DocumentsIInv'
<1>1. tx \in [Writers -> Transactions] /\ "forget" \in PCs  BY DEF DocumentsIInv, DocumentsTypeOK, PCs
<1>2. /\ tx' \in [Writers -> Transactions]
      /\ tx'[w].pc = "forget" /\ tx'[w].read = tx[w].read
      /\ tx'[w].doc = tx[w].doc /\ tx'[w].number = tx[w].number
      /\ \A v \in Writers \ {w} : tx'[v] = tx[v]
  BY <1>1, GoFacts DEF DeleteDocument
<1>3. UNCHANGED Rows  BY DEF DeleteDocument, Rows
<1>4. DocumentsTypeOK'  BY <1>2, <1>3 DEF DocumentsIInv, DocumentsTypeOK, Rows
<1>5. LocalsOK'  BY <1>2 DEF DocumentsIInv, LocalsOK, DeleteDocument, TxAt
<1>6. LocksOK'
  BY <1>2, <1>3 DEF DocumentsIInv, LocksOK, Writing, Dropping, Others, Rows, DeleteDocument, TxAt
<1>7. CreationOK'  BY <1>2, <1>3 DEF DocumentsIInv, CreationOK, Creating, Rows
<1>8. DocumentsAreWhole'
  BY <1>3 DEF DocumentsIInv, DocumentsAreWhole, RevisionsFollow, OneDocumentPerKey, Rows
<1>9. QED  BY <1>4, <1>5, <1>6, <1>7, <1>8 DEF DocumentsIInv

LEMMA AbortInv ==
  ASSUME DocumentsAssumption, DocumentsIInv, NEW w \in Writers, Abort(w)
  PROVE  DocumentsIInv'
BY EndInv DEF Abort, Rows

LEMMA InsertRevisionInv ==
  ASSUME DocumentsAssumption, DocumentsIInv, NEW w \in Writers, InsertRevision(w)
  PROVE  DocumentsIInv'
<1>1. UNCHANGED Rows  BY DEF InsertRevision, Rows
<1>2. CASE latest[tx[w].doc] # tx[w].number
  BY <1>1, <1>2, EndInv DEF InsertRevision
<1>3. CASE latest[tx[w].doc] = tx[w].number
  <2>1. tx \in [Writers -> Transactions] /\ "update" \in PCs  BY DEF DocumentsIInv, DocumentsTypeOK, PCs
  <2>2. /\ tx' \in [Writers -> Transactions]
        /\ tx'[w].pc = "update" /\ tx'[w].read = tx[w].read
        /\ tx'[w].doc = tx[w].doc /\ tx'[w].number = tx[w].number
        /\ \A v \in Writers \ {w} : tx'[v] = tx[v]
    BY <1>3, <2>1, GoFacts DEF InsertRevision
  <2>3. DocumentsTypeOK'  BY <1>1, <2>2 DEF DocumentsIInv, DocumentsTypeOK, Rows
  <2>4. LocalsOK'  BY <2>2 DEF DocumentsIInv, LocalsOK, InsertRevision, TxAt
  <2>5. \A v \in Writers \ {w} : tx[v].doc = tx[w].doc => ~Writing(v) /\ ~Dropping(v)
    BY <1>3 DEF DocumentsIInv, LocksOK, Writing, InsertRevision, Others
  <2>6. LocksOK'
    BY <1>1, <1>3, <2>2, <2>5 DEF DocumentsIInv, LocksOK, Writing, Dropping, Rows, InsertRevision
  <2>7. CreationOK'  BY <1>1, <2>2 DEF DocumentsIInv, CreationOK, Creating, Rows
  <2>8. DocumentsAreWhole'
    BY <1>1 DEF DocumentsIInv, DocumentsAreWhole, RevisionsFollow, OneDocumentPerKey, Rows
  <2>9. QED  BY <2>3, <2>4, <2>6, <2>7, <2>8 DEF DocumentsIInv
<1>4. QED  BY <1>2, <1>3

\* A request that begins holds nothing.
LEMMA BeginInv ==
  ASSUME DocumentsAssumption, DocumentsIInv, NEW w \in Writers, NEW t \in Transactions, TxIs(w, t),
         UNCHANGED Rows, t.pc \in {"select", "unlink"}, t.pc = "unlink" => t.doc \in Docs
  PROVE  DocumentsIInv'
<1>1. /\ tx' \in [Writers -> Transactions]
      /\ tx'[w] = t
      /\ \A v \in Writers \ {w} : tx'[v] = tx[v]
  BY TxFacts DEF DocumentsIInv, DocumentsTypeOK
<1>2. DocumentsTypeOK'  BY <1>1 DEF DocumentsIInv, DocumentsTypeOK, Rows
<1>3. LocalsOK'  BY <1>1 DEF DocumentsIInv, LocalsOK
<1>4. LocksOK'  BY <1>1 DEF DocumentsIInv, LocksOK, Writing, Dropping, Rows
<1>5. CreationOK'  BY <1>1 DEF DocumentsIInv, CreationOK, Creating, Rows
<1>6. DocumentsAreWhole'
  BY DEF DocumentsIInv, DocumentsAreWhole, RevisionsFollow, OneDocumentPerKey, Rows
<1>7. QED  BY <1>2, <1>3, <1>4, <1>5, <1>6 DEF DocumentsIInv

LEMMA BeginUpsertInv ==
  ASSUME DocumentsAssumption, DocumentsIInv, NEW w \in Writers, NEW read \in Revisions, BeginUpsert(w, read)
  PROVE  DocumentsIInv'
<1> DEFINE t == Tx("select", "upsert", read, NoDoc)
<1>1. t \in Transactions /\ t.pc = "select"
  BY DEF DocumentsAssumption, Tx, Transactions, PCs
<1>2. TxIs(w, t) /\ UNCHANGED Rows  BY DEF BeginUpsert, TxIs, Rows
<1> HIDE DEF t
<1>3. QED  BY <1>1, <1>2, BeginInv

LEMMA BeginDeleteInv ==
  ASSUME DocumentsAssumption, DocumentsIInv, NEW w \in Writers, BeginDelete(w)
  PROVE  DocumentsIInv'
<1> DEFINE t == Tx("unlink", "delete", NoRevision, link)
<1>1. link \in Docs  BY DEF BeginDelete, DocumentsIInv, DocumentsTypeOK
<1>2. t \in Transactions /\ t.pc = "unlink" /\ t.doc \in Docs
  BY <1>1 DEF DocumentsAssumption, Tx, Transactions, Revisions, PCs
<1>3. TxIs(w, t) /\ UNCHANGED Rows  BY DEF BeginDelete, TxIs, Rows
<1> HIDE DEF t
<1>4. QED  BY <1>2, <1>3, BeginInv

LEMMA SelectInv ==
  ASSUME DocumentsAssumption, DocumentsIInv, NEW w \in Writers, Select(w)
  PROVE  DocumentsIInv'
<1> DEFINE current == IF link = NoDoc THEN NoRevision ELSE [doc |-> link, number |-> latest[link]]
           t == [tx[w] EXCEPT !.pc = IF link = NoDoc THEN "create" ELSE "insert",
                              !.doc = link, !.number = current.number]
<1>1. UNCHANGED Rows  BY DEF Select, Rows
<1>2. CASE tx[w].read # current
  BY <1>1, <1>2, EndInv DEF Select
<1>3. CASE tx[w].read = current
  <2>1. tx[w] \in Transactions  BY DEF DocumentsIInv, DocumentsTypeOK
  <2>2. current.number \in 0..MaxRevisions /\ (link # NoDoc => current.number \in Numbers)
    BY DEF DocumentsAssumption, DocumentsIInv, DocumentsTypeOK, DocumentsAreWhole, OneDocumentPerKey, Numbers, NoRevision
  <2>3. /\ t \in Transactions /\ t.read = current
        /\ t.pc = IF link = NoDoc THEN "create" ELSE "insert"
        /\ t.doc = link /\ t.number = current.number
    BY <1>3, <2>1, <2>2 DEF Transactions, PCs, DocumentsIInv, DocumentsTypeOK
  <2>4. TxIs(w, t)  BY <1>3 DEF Select, TxIs
  <2>5. /\ tx' \in [Writers -> Transactions]
        /\ tx'[w] = t
        /\ \A v \in Writers \ {w} : tx'[v] = tx[v]
    BY <2>3, <2>4, TxFacts DEF DocumentsIInv, DocumentsTypeOK
  <2>6. DocumentsTypeOK'  BY <1>1, <2>5 DEF DocumentsIInv, DocumentsTypeOK, Rows
  <2>7. LocalsOK'
    <3>1. tx'[w].pc = "insert" => /\ tx'[w].doc \in Docs /\ tx'[w].number \in Numbers
                                  /\ tx'[w].read = [doc |-> tx'[w].doc, number |-> tx'[w].number]
      BY <2>2, <2>3, <2>5 DEF DocumentsIInv, DocumentsTypeOK
    <3>2. tx'[w].pc \in {"create", "insert"}  BY <2>3, <2>5
    <3> HIDE DEF t, current
    <3>3. QED  BY <2>5, <3>1, <3>2 DEF DocumentsIInv, LocalsOK
  <2>8. tx'[w].pc \in {"create", "insert"}  BY <2>3, <2>5
  <2> HIDE DEF t, current
  <2>9. LocksOK'  BY <1>1, <2>5, <2>8 DEF DocumentsIInv, LocksOK, Writing, Dropping, Rows
  <2>10. CreationOK'  BY <1>1, <2>5, <2>8 DEF DocumentsIInv, CreationOK, Creating, Rows
  <2>11. DocumentsAreWhole'
    BY <1>1 DEF DocumentsIInv, DocumentsAreWhole, RevisionsFollow, OneDocumentPerKey, Rows
  <2>12. QED  BY <2>6, <2>7, <2>9, <2>10, <2>11 DEF DocumentsIInv
<1>4. QED  BY <1>2, <1>3

\* The revision follows the one its writer had read, which the locks have kept.
LEMMA CommitRevisionInv ==
  ASSUME DocumentsAssumption, DocumentsIInv, NEW w \in Writers, CommitRevision(w)
  PROVE  DocumentsIInv'
<1> DEFINE d == tx[w].doc
           n == tx[w].number + 1
<1>1. /\ tx' \in [Writers -> Transactions]
      /\ tx'[w].pc = "idle"
      /\ \A v \in Writers \ {w} : tx'[v] = tx[v]
  BY EndFacts DEF CommitRevision, DocumentsIInv, DocumentsTypeOK
<1>2. d \in Docs /\ tx[w].number \in Numbers /\ tx[w].read = [doc |-> d, number |-> tx[w].number]
  BY DEF CommitRevision, TxAt, DocumentsIInv, LocalsOK
<1>3. Writing(w) /\ latest[d] = tx[w].number /\ tx[w].number < MaxRevisions
  BY DEF CommitRevision, TxAt, Writing, DocumentsIInv, LocksOK
<1>4. n \in Numbers /\ n > 1  BY <1>2, <1>3 DEF Numbers, DocumentsAssumption
<1>5. tx[w].read \in Revisions  BY <1>2 DEF Revisions
<1>6. /\ latest' = [latest EXCEPT ![d] = n]
      /\ base' = [base EXCEPT ![d] = [base[d] EXCEPT ![n] = tx[w].read]]
      /\ link' = link /\ taken' = taken
  BY DEF CommitRevision
<1>7. /\ latest \in [Docs -> 0..MaxRevisions] /\ base \in [Docs -> [Numbers -> Revisions]]
  BY DEF DocumentsIInv, DocumentsTypeOK
<1>8. /\ latest'[d] = n /\ base'[d] = [base[d] EXCEPT ![n] = tx[w].read]
      /\ \A e \in Docs \ {d} : latest'[e] = latest[e] /\ base'[e] = base[e]
  BY <1>2, <1>6, <1>7
<1>9. DocumentsTypeOK'
  <2>1. latest' \in [Docs -> 0..MaxRevisions]
    BY <1>2, <1>4, <1>6, <1>7 DEF Numbers, DocumentsAssumption
  <2>2. [base[d] EXCEPT ![n] = tx[w].read] \in [Numbers -> Revisions]
    BY <1>2, <1>4, <1>5, <1>7
  <2>3. base' \in [Docs -> [Numbers -> Revisions]]
    BY <1>2, <1>6, <1>7, <2>2
  <2>4. QED  BY <1>1, <1>6, <2>1, <2>3 DEF DocumentsIInv, DocumentsTypeOK
<1>10. LocalsOK'  BY <1>1 DEF DocumentsIInv, LocalsOK
<1>11. \A v \in Writers \ {w} : Writing(v) => tx[v].doc # d
  BY <1>3 DEF DocumentsIInv, LocksOK
<1>12. \A v \in Writers : Writing(v)' => v # w /\ Writing(v) /\ tx'[v] = tx[v]
  BY <1>1 DEF Writing
<1>13. \A v \in Writers : Dropping(v)' => v # w /\ Dropping(v) /\ tx'[v] = tx[v]
  BY <1>1 DEF Dropping
<1>14. \A v \in Writers : Writing(v) => tx[v].doc \in Docs
  BY DEF Writing, DocumentsIInv, LocalsOK
<1>15. LocksOK'
  <2>1. \A v \in Writers : Writing(v)' =>
            latest'[tx'[v].doc] = tx'[v].number /\ tx'[v].number < MaxRevisions
    BY <1>8, <1>11, <1>12, <1>14 DEF DocumentsIInv, LocksOK
  <2>2. \A u, v \in Writers : u # v /\ tx'[u].doc = tx'[v].doc /\ Writing(v)' =>
            ~Writing(u)' /\ ~Dropping(u)'
    BY <1>12, <1>13 DEF DocumentsIInv, LocksOK
  <2>3. QED  BY <2>1, <2>2 DEF LocksOK
<1>16. CreationOK'
  <2>1. d \in taken  BY <1>2, <1>3 DEF DocumentsIInv, CreationOK, Numbers
  <2>2. \A v \in Writers : Creating(v)' => v # w /\ Creating(v) /\ tx'[v] = tx[v]
    BY <1>1 DEF Creating
  <2>3. QED  BY <1>6, <1>8, <2>1, <2>2 DEF DocumentsIInv, CreationOK
<1>17. RevisionsFollow'
  <2> SUFFICES ASSUME NEW e \in Docs, NEW m \in 2..latest'[e]
               PROVE  base'[e][m] = [doc |-> e, number |-> m - 1]
    BY DEF RevisionsFollow
  <2>1. CASE e # d  BY <1>8, <2>1 DEF DocumentsIInv, DocumentsAreWhole, RevisionsFollow
  <2>2. CASE e = d /\ m = n
    BY <1>2, <1>4, <1>7, <1>8, <2>2 DEF Numbers, DocumentsAssumption
  <2>3. CASE e = d /\ m # n
    <3>1. m \in 2..latest[d] /\ m \in Numbers
      BY <1>2, <1>3, <1>4, <1>8, <2>3 DEF Numbers, DocumentsAssumption
    <3>2. base'[d][m] = base[d][m]  BY <1>2, <1>7, <1>8, <2>3, <3>1
    <3>3. QED  BY <1>2, <2>3, <3>1, <3>2 DEF DocumentsIInv, DocumentsAreWhole, RevisionsFollow
  <2>4. QED  BY <2>1, <2>2, <2>3
<1>18. OneDocumentPerKey'
  BY <1>2, <1>3, <1>4, <1>6, <1>8 DEF DocumentsIInv, DocumentsAreWhole, OneDocumentPerKey, Numbers
<1>19. QED  BY <1>9, <1>10, <1>15, <1>16, <1>17, <1>18 DEF DocumentsIInv, DocumentsAreWhole

LEMMA CreateDocumentInv ==
  ASSUME DocumentsAssumption, DocumentsIInv, NEW w \in Writers, CreateDocument(w)
  PROVE  DocumentsIInv'
<1>1. link' = link /\ latest' = latest /\ base' = base  BY DEF CreateDocument
<1>2. CASE link # NoDoc
  BY <1>1, <1>2, EndInv DEF CreateDocument, Rows
<1>3. CASE link = NoDoc
  <2>1. PICK d \in Docs \ taken :
            taken' = taken \cup {d} /\ tx' = [tx EXCEPT ![w].pc = "publish", ![w].doc = d]
    BY <1>3 DEF CreateDocument
  <2> DEFINE t == [tx[w] EXCEPT !.pc = "publish", !.doc = d]
  <2>2. tx[w] \in Transactions  BY DEF DocumentsIInv, DocumentsTypeOK
  <2>3. t \in Transactions /\ t.pc = "publish" /\ t.doc = d
    BY <2>1, <2>2 DEF Transactions, PCs
  <2>4. TxIs(w, t)  BY <2>1 DEF TxIs
  <2>5. /\ tx' \in [Writers -> Transactions]
        /\ tx'[w].pc = "publish" /\ tx'[w].doc = d
        /\ \A v \in Writers \ {w} : tx'[v] = tx[v]
    BY <2>3, <2>4, TxFacts DEF DocumentsIInv, DocumentsTypeOK
  <2> HIDE DEF t
  <2>6. DocumentsTypeOK'  BY <1>1, <2>1, <2>5 DEF DocumentsIInv, DocumentsTypeOK
  <2>7. LocalsOK'  BY <2>1, <2>5 DEF DocumentsIInv, LocalsOK
  <2>8. LocksOK'  BY <1>1, <2>5 DEF DocumentsIInv, LocksOK, Writing, Dropping
  <2>9. \A v \in Writers \ {w} : ~Creating(v)  BY DEF CreateDocument
  <2>10. CreationOK'
    BY <1>1, <1>3, <2>1, <2>5, <2>9 DEF DocumentsIInv, CreationOK, Creating
  <2>11. DocumentsAreWhole'
    BY <1>1 DEF DocumentsIInv, DocumentsAreWhole, RevisionsFollow, OneDocumentPerKey
  <2>12. QED  BY <2>6, <2>7, <2>8, <2>10, <2>11 DEF DocumentsIInv
<1>4. QED  BY <1>2, <1>3

\* The key named no document, so the new one is the only one.
LEMMA CommitDocumentInv ==
  ASSUME DocumentsAssumption, DocumentsIInv, NEW w \in Writers, CommitDocument(w)
  PROVE  DocumentsIInv'
<1> DEFINE d == tx[w].doc
<1>1. /\ tx' \in [Writers -> Transactions]
      /\ tx'[w].pc = "idle"
      /\ \A v \in Writers \ {w} : tx'[v] = tx[v]
  BY EndFacts DEF CommitDocument, DocumentsIInv, DocumentsTypeOK
<1>2. Creating(w) /\ d \in Docs /\ d \in taken /\ link = NoDoc
  BY DEF CommitDocument, TxAt, Creating, DocumentsIInv, LocalsOK, CreationOK
<1>3. \A e \in Docs : latest[e] = 0
  BY <1>2 DEF DocumentsIInv, DocumentsTypeOK, DocumentsAreWhole, OneDocumentPerKey, DocumentsAssumption
<1>4. /\ latest' = [latest EXCEPT ![d] = 1] /\ link' = d
      /\ base' = base /\ taken' = taken
  BY DEF CommitDocument
<1>5. latest'[d] = 1 /\ \A e \in Docs \ {d} : latest'[e] = 0
  BY <1>2, <1>3, <1>4 DEF DocumentsIInv, DocumentsTypeOK
<1>6. DocumentsTypeOK'  BY <1>1, <1>2, <1>4 DEF DocumentsIInv, DocumentsTypeOK, DocumentsAssumption
<1>7. LocalsOK'  BY <1>1 DEF DocumentsIInv, LocalsOK
<1>8. \A v \in Writers : ~Writing(v)
  <2> SUFFICES ASSUME NEW v \in Writers, Writing(v) PROVE FALSE
    OBVIOUS
  <2>1. tx[v].doc \in Docs /\ tx[v].number \in Numbers  BY DEF Writing, DocumentsIInv, LocalsOK
  <2>2. latest[tx[v].doc] = tx[v].number  BY DEF DocumentsIInv, LocksOK
  <2>3. QED  BY <1>3, <2>1, <2>2 DEF Numbers
<1>9. LocksOK'
  <2>1. \A v \in Writers : ~Writing(v)'  BY <1>1, <1>8 DEF Writing
  <2>2. QED  BY <2>1 DEF LocksOK
<1>10. CreationOK'
  <2>1. \A v \in Writers : ~Creating(v)'  BY <1>1, <1>2 DEF Creating, DocumentsIInv, CreationOK
  <2>2. QED  BY <1>2, <1>4, <1>5, <2>1 DEF CreationOK
<1>11. RevisionsFollow'  BY <1>5 DEF RevisionsFollow
<1>12. OneDocumentPerKey'  BY <1>2, <1>4, <1>5 DEF OneDocumentPerKey
<1>13. QED  BY <1>6, <1>7, <1>9, <1>10, <1>11, <1>12 DEF DocumentsIInv, DocumentsAreWhole

\* No writer refers to the document that goes.
LEMMA CommitDeleteInv ==
  ASSUME DocumentsAssumption, DocumentsIInv, NEW w \in Writers, CommitDelete(w)
  PROVE  DocumentsIInv'
<1> DEFINE d == tx[w].doc
           none == [n \in Numbers |-> NoRevision]
<1>1. /\ tx' \in [Writers -> Transactions]
      /\ tx'[w].pc = "idle"
      /\ \A v \in Writers \ {w} : tx'[v] = tx[v]
  BY EndFacts DEF CommitDelete, DocumentsIInv, DocumentsTypeOK
<1>2. Dropping(w) /\ d \in Docs  BY DEF CommitDelete, TxAt, Dropping, DocumentsIInv, LocalsOK
<1>3. /\ latest' = [latest EXCEPT ![d] = 0] /\ base' = [base EXCEPT ![d] = none]
      /\ link' = (IF link = d THEN NoDoc ELSE link) /\ taken' = taken
  BY DEF CommitDelete
<1>4. none \in [Numbers -> Revisions]  BY DEF Revisions
<1>5. /\ latest'[d] = 0
      /\ \A e \in Docs \ {d} : latest'[e] = latest[e] /\ base'[e] = base[e]
  BY <1>2, <1>3 DEF DocumentsIInv, DocumentsTypeOK
<1> HIDE DEF none
<1>6. DocumentsTypeOK'  BY <1>1, <1>2, <1>3, <1>4 DEF DocumentsIInv, DocumentsTypeOK, DocumentsAssumption
<1>7. LocalsOK'  BY <1>1 DEF DocumentsIInv, LocalsOK
<1>8. \A v \in Writers : Writing(v)' => v # w /\ Writing(v) /\ tx'[v] = tx[v]
  BY <1>1 DEF Writing
<1>9. \A v \in Writers : Dropping(v)' => v # w /\ Dropping(v) /\ tx'[v] = tx[v]
  BY <1>1 DEF Dropping
<1>10. \A v \in Writers \ {w} : Writing(v) => tx[v].doc \in Docs \ {d}
  BY <1>2 DEF DocumentsIInv, LocalsOK, LocksOK, Writing
<1>11. LocksOK'
  <2>1. \A v \in Writers : Writing(v)' =>
            latest'[tx'[v].doc] = tx'[v].number /\ tx'[v].number < MaxRevisions
    BY <1>5, <1>8, <1>10 DEF DocumentsIInv, LocksOK
  <2>2. \A u, v \in Writers : u # v /\ tx'[u].doc = tx'[v].doc /\ Writing(v)' =>
            ~Writing(u)' /\ ~Dropping(u)'
    BY <1>8, <1>9 DEF DocumentsIInv, LocksOK
  <2>3. QED  BY <2>1, <2>2 DEF LocksOK
<1>12. CreationOK'  BY <1>1, <1>3, <1>5 DEF DocumentsIInv, CreationOK, Creating
<1>13. RevisionsFollow'
  <2> SUFFICES ASSUME NEW e \in Docs, NEW m \in 2..latest'[e]
               PROVE  base'[e][m] = [doc |-> e, number |-> m - 1]
    BY DEF RevisionsFollow
  <2>1. e # d  BY <1>5
  <2>2. QED  BY <1>5, <2>1 DEF DocumentsIInv, DocumentsAreWhole, RevisionsFollow
<1>14. OneDocumentPerKey'
  BY <1>2, <1>3, <1>5 DEF DocumentsIInv, DocumentsAreWhole, OneDocumentPerKey, DocumentsAssumption
<1>15. QED  BY <1>6, <1>7, <1>11, <1>12, <1>13, <1>14 DEF DocumentsIInv, DocumentsAreWhole

-----------------------------------------------------------------------------
\* Every step keeps the invariant.
LEMMA DocumentsStepInv == ASSUME DocumentsAssumption PROVE DocumentsIInv /\ [DocumentsNext]_documentVars => DocumentsIInv'
<1> SUFFICES ASSUME DocumentsIInv, [DocumentsNext]_documentVars PROVE DocumentsIInv'
  OBVIOUS
<1>1. CASE DocumentsNext
  <2>1. PICK w \in Writers : TxStep(w) \/ \E read \in Revisions : BeginUpsert(w, read)
    BY <1>1 DEF DocumentsNext
  <2>2. CASE \E read \in Revisions : BeginUpsert(w, read)
    BY <2>2, BeginUpsertInv
  <2>3. CASE TxStep(w)
    BY <2>3, SelectInv, InsertRevisionInv, UpdateDocumentInv, TouchLinkInv, CommitRevisionInv,
       CreateDocumentInv, CommitDocumentInv, BeginDeleteInv, DeleteLinkInv, DeleteDocumentInv,
       CommitDeleteInv, AbortInv DEF TxStep
  <2>4. QED  BY <2>1, <2>2, <2>3
<1>2. CASE UNCHANGED documentVars
  BY <1>2 DEF documentVars, DocumentsIInv, DocumentsTypeOK, LocalsOK, LocksOK, CreationOK, DocumentsAreWhole,
    RevisionsFollow, OneDocumentPerKey, Writing, Dropping, Creating
<1>3. QED  BY <1>1, <1>2

LEMMA DocumentsInvariance == ASSUME DocumentsAssumption PROVE DocumentsSpec => []DocumentsIInv
<1>1. DocumentsInit => DocumentsIInv  BY DocumentsInitInv
<1>2. DocumentsIInv /\ [DocumentsNext]_documentVars => DocumentsIInv'  BY DocumentsStepInv
<1>3. QED  BY <1>1, <1>2, PTL DEF DocumentsSpec

\* The rows and the locals of the transactions keep their types.
THEOREM DocumentsTypeCorrect == ASSUME DocumentsAssumption PROVE DocumentsSpec => []DocumentsTypeOK
<1>1. DocumentsIInv => DocumentsTypeOK  BY DEF DocumentsIInv
<1>2. QED  BY <1>1, DocumentsInvariance, PTL

\* No update of a document is lost and its key names the only document there is, for
\* any number of writers, documents and revisions: what upsertIssueDocument and
\* deleteIssueDocument check and lock is enough.
THEOREM NoRevisionIsLost == ASSUME DocumentsAssumption PROVE DocumentsSpec => []DocumentsAreWhole
<1>1. DocumentsIInv => DocumentsAreWhole  BY DEF DocumentsIInv
<1>2. QED  BY <1>1, DocumentsInvariance, PTL

(***************************************************************************)
(* RuntimeServices                                                         *)
(***************************************************************************)

\* What the locals of a run mean at each of its awaits.
LeaseLocalOK(r, h) ==
    /\ h.step <= Len(Wants[r]) + 1
    /\ h.pc \in {"next", "starting", "saving"} => h.step >= 1
    /\ h.pc \in {"starting", "saving"} => h.step <= Len(Wants[r])
    /\ h.pc \in {"starting", "saving", "releasing", "stopping"} => h.at \in Services
LeaseLocalsOK == \A r \in LeaseRuns : LeaseLocalOK(r, lease[r])

\* The idle timer is one of a service that runs for nobody.
TimersOK == \A s \in Services : service[s].timer => Running(s) /\ service[s].leases = {}

\* A process that is not ready yet is known to the one run that started it.
StartsOK ==
    /\ \A r \in LeaseRuns : LeaseAt(r, "starting") => service[lease[r].at].state = "starting"
    /\ \A r, o \in LeaseRuns : LeaseAt(r, "starting") /\ LeaseAt(o, "starting") /\ lease[r].at = lease[o].at => r = o
    /\ \A s \in Services : s > counts.starts => service[s].state = "none"

LeaseIInv == LocalTypeOK /\ LeaseLocalsOK /\ TimersOK /\ StartsOK

ServiceStates == {"none", "starting", "running", "stopped"}
ChildStates == {"none", "up", "leaving", "gone"}
Counters == [starts : 0..MaxServices, faults : 0..MaxSaveFaults, closes : 0..MaxCloses]

-----------------------------------------------------------------------------
\* The initial states satisfy the invariant.
LEMMA LeaseInitInv == ASSUME RuntimeServicesAssumption PROVE LocalInit => LeaseIInv
<1> SUFFICES ASSUME LocalInit PROVE LeaseIInv  OBVIOUS
<1>1. /\ NoRecord \in Records /\ NoRecord.state = "none" /\ NoRecord.timer = FALSE
      /\ Local("idle") \in Locals /\ Local("idle").pc = "idle" /\ Local("idle").step = 0
  <2>1. <<>> \in Seq(Services)  OBVIOUS
  <2>2. QED  BY <2>1 DEF NoRecord, Record, Records, Local, Locals
<1>2. \A r \in LeaseRuns : Len(Wants[r]) \in Nat  BY DEF RuntimeServicesAssumption
<1>3. /\ \A s \in Services : service[s] = NoRecord
      /\ \A r \in LeaseRuns : lease[r] = Local("idle")
  BY DEF LocalInit
<1>4. LocalTypeOK
  <2>1. service \in [Services -> Records] /\ lease \in [LeaseRuns -> Locals]  BY <1>1 DEF LocalInit
  <2>2. \A r \in LeaseRuns : lease[r].step <= Len(Wants[r]) + 1  BY <1>1, <1>2, <1>3
  <2>3. /\ child \in [Services -> ChildStates] /\ byKey \in [Keys -> Services \cup {NoService}]
        /\ closing \subseteq Services /\ dropped \subseteq Services /\ counts \in Counters
    BY DEF LocalInit, ChildStates, Counters, RuntimeServicesAssumption
  <2>4. QED  BY <2>1, <2>2, <2>3 DEF LocalTypeOK, ChildStates, Counters
<1>5. LeaseLocalsOK  BY <1>1, <1>2, <1>3 DEF LeaseLocalsOK, LeaseLocalOK
<1>6. TimersOK  BY <1>1, <1>3 DEF TimersOK
<1>7. StartsOK  BY <1>1, <1>3 DEF StartsOK, LeaseAt
<1>8. QED  BY <1>4, <1>5, <1>6, <1>7 DEF LeaseIInv

-----------------------------------------------------------------------------
(* What a step does to the locals and to the services *)

\* New locals of one run.
LeaseRunIs(r, h) == lease' = [lease EXCEPT ![r] = h]

LEMMA RunFacts ==
  ASSUME LeaseIInv, NEW r \in LeaseRuns, NEW h \in Locals, LeaseLocalOK(r, h), LeaseRunIs(r, h)
  PROVE  /\ lease' \in [LeaseRuns -> Locals] /\ lease'[r] = h /\ LeaseLocalsOK'
         /\ \A o \in LeaseRuns : o # r => lease'[o] = lease[o]
         /\ \A o \in LeaseRuns : lease'[o].step <= Len(Wants[o]) + 1
<1>1. lease \in [LeaseRuns -> Locals]  BY DEF LeaseIInv, LocalTypeOK
<1>2. /\ lease' \in [LeaseRuns -> Locals] /\ lease'[r] = h
      /\ \A o \in LeaseRuns : o # r => lease'[o] = lease[o]
  BY <1>1 DEF LeaseRunIs
<1>3. LeaseLocalsOK'  BY <1>2 DEF LeaseIInv, LeaseLocalsOK, LeaseLocalOK
<1>4. QED  BY <1>2, <1>3 DEF LeaseLocalsOK, LeaseLocalOK

\* A run that starts no process leaves those of the other runs to them, if the states
\* of the services change only from "running", or where this run's own was starting.
LEMMA StartsKept ==
  ASSUME RuntimeServicesAssumption, LeaseIInv, NEW r \in LeaseRuns, counts'.starts = counts.starts,
         \A o \in LeaseRuns : o # r => lease'[o] = lease[o],
         lease'[r].pc # "starting",
         \A s \in Services : service[s].state \in {"none", "starting"} =>
            service'[s].state = service[s].state \/ (LeaseAt(r, "starting") /\ lease[r].at = s)
  PROVE  StartsOK'
<1>1. \A o \in LeaseRuns : LeaseAt(o, "starting") => lease[o].at \in Services
  BY DEF LeaseIInv, LeaseLocalsOK, LeaseLocalOK, LeaseAt
<1>2. \A o \in LeaseRuns : LeaseAt(o, "starting")' => o # r /\ LeaseAt(o, "starting") /\ lease'[o] = lease[o]
  BY DEF LeaseAt
<1>3. StartsOK  BY DEF LeaseIInv
<1>4. \A o \in LeaseRuns : LeaseAt(o, "starting")' => service'[lease'[o].at].state = "starting"
  BY <1>1, <1>2, <1>3 DEF StartsOK
<1>5. \A o, p \in LeaseRuns :
        LeaseAt(o, "starting")' /\ LeaseAt(p, "starting")' /\ lease'[o].at = lease'[p].at => o = p
  BY <1>2, <1>3 DEF StartsOK
<1>6. \A s \in Services : s > counts'.starts => service'[s].state = "none"
  BY <1>3 DEF StartsOK, LeaseAt
<1>7. QED  BY <1>4, <1>5, <1>6 DEF StartsOK

\* A step of one run that touches no service.
LEMMA RunOnly ==
  ASSUME RuntimeServicesAssumption, LeaseIInv, NEW r \in LeaseRuns, NEW h \in Locals, LeaseLocalOK(r, h),
         LeaseRunIs(r, h), h.pc # "starting", UNCHANGED <<service, child, byKey, closing>>,
         dropped' \subseteq Services, counts' \in Counters, counts'.starts = counts.starts
  PROVE  LeaseIInv' /\ KeepsLeased
<1>1. /\ lease' \in [LeaseRuns -> Locals] /\ lease'[r] = h /\ LeaseLocalsOK'
      /\ \A o \in LeaseRuns : o # r => lease'[o] = lease[o]
      /\ \A o \in LeaseRuns : lease'[o].step <= Len(Wants[o]) + 1
  BY RunFacts
<1>2. LocalTypeOK'  BY <1>1 DEF LeaseIInv, LocalTypeOK, Counters
<1>3. TimersOK'  BY DEF LeaseIInv, TimersOK, Running
<1>4. StartsOK'  BY <1>1, StartsKept
<1>5. KeepsLeased  BY DEF KeepsLeased
<1>6. QED  BY <1>1, <1>2, <1>3, <1>4, <1>5 DEF LeaseIInv

\* What Stop does to a service that runs, and leaves alone.
LEMMA StopFacts ==
  ASSUME LeaseIInv, NEW s \in Services, Running(s), Stop(s)
  PROVE  /\ service' \in [Services -> Records] /\ child' \in [Services -> ChildStates]
         /\ byKey' \in [Keys -> Services \cup {NoService}]
         /\ TimersOK'
         /\ \A t \in Services : service[t].state \in {"none", "starting"} =>
                service'[t].state = service[t].state
         /\ \A t \in Services : t # s => child'[t] = child[t]
<1>1. /\ service \in [Services -> Records] /\ child \in [Services -> ChildStates]
      /\ byKey \in [Keys -> Services \cup {NoService}]
  BY DEF LeaseIInv, LocalTypeOK, ChildStates
<1> DEFINE h == [service[s] EXCEPT !.state = "stopped", !.timer = FALSE]
<1>2. h \in Records /\ h.state = "stopped" /\ h.timer = FALSE  BY <1>1 DEF Records
<1>3. service' = [service EXCEPT ![s] = h]  BY DEF Stop
<1> HIDE DEF h
<1>4. /\ service' \in [Services -> Records] /\ service'[s] = h
      /\ \A t \in Services : t # s => service'[t] = service[t]
  BY <1>1, <1>2, <1>3
<1>5. child' \in [Services -> ChildStates] /\ \A t \in Services : t # s => child'[t] = child[t]
  BY <1>1 DEF Stop, ChildStates
<1>6. byKey' \in [Keys -> Services \cup {NoService}]  BY <1>1 DEF Stop
<1>7. TimersOK'  BY <1>2, <1>4 DEF LeaseIInv, TimersOK, Running
<1>8. QED  BY <1>2, <1>4, <1>5, <1>6, <1>7 DEF Running

\* A step that is no run's.
LEMMA NoRunInv ==
  ASSUME RuntimeServicesAssumption, LeaseIInv, lease' = lease, counts' \in Counters,
         counts'.starts = counts.starts, dropped' = dropped, closing' \subseteq Services,
         service' \in [Services -> Records], child' \in [Services -> ChildStates],
         byKey' \in [Keys -> Services \cup {NoService}], TimersOK',
         \A t \in Services : service[t].state \in {"none", "starting"} =>
            service'[t].state = service[t].state
  PROVE  LeaseIInv'
<1>1. LocalTypeOK'  BY DEF LeaseIInv, LocalTypeOK, Counters, ChildStates
<1>2. LeaseLocalsOK'  BY DEF LeaseIInv, LeaseLocalsOK, LeaseLocalOK
<1>3. StartsOK'
  <2>1. StartsOK /\ \A o \in LeaseRuns : LeaseAt(o, "starting") => lease[o].at \in Services
    BY DEF LeaseIInv, LeaseLocalsOK, LeaseLocalOK, LeaseAt
  <2>2. QED  BY <2>1 DEF StartsOK, LeaseAt
<1>4. QED  BY <1>1, <1>2, <1>3 DEF LeaseIInv

-----------------------------------------------------------------------------
(* Every step keeps the invariant, and every leased service *)

LEMMA EnsureInv ==
  ASSUME RuntimeServicesAssumption, LeaseIInv, NEW r \in LeaseRuns, Ensure(r)
  PROVE  LeaseIInv' /\ KeepsLeased
<1>1. /\ lease[r] \in Locals /\ LeaseLocalOK(r, lease[r]) /\ Len(Wants[r]) \in Nat
      /\ counts \in Counters /\ dropped \subseteq Services /\ closing \subseteq Services
  BY DEF LeaseIInv, LocalTypeOK, LeaseLocalsOK, Counters, RuntimeServicesAssumption
<1> DEFINE h == [lease[r] EXCEPT !.pc = "next", !.step = 1]
<1>2. h \in Locals /\ LeaseLocalOK(r, h) /\ h.pc # "starting"
  <2>1. 1 \in Nat  OBVIOUS
  <2>2. h \in Locals /\ h.pc = "next" /\ h.step = 1  BY <1>1, <2>1 DEF Locals
  <2> HIDE DEF h
  <2>3. QED  BY <1>1, <2>2 DEF LeaseLocalOK
<1>3. /\ LeaseRunIs(r, h) /\ UNCHANGED <<service, child, byKey, closing>>
      /\ dropped' \subseteq Services /\ counts' \in Counters /\ counts'.starts = counts.starts
  BY <1>1 DEF Ensure, LeaseRunIs
<1> HIDE DEF h
<1>4. QED  BY <1>2, <1>3, RunOnly

LEMMA SavedInv ==
  ASSUME RuntimeServicesAssumption, LeaseIInv, NEW r \in LeaseRuns, Saved(r)
  PROVE  LeaseIInv' /\ KeepsLeased
<1>1. /\ lease[r] \in Locals /\ LeaseLocalOK(r, lease[r]) /\ Len(Wants[r]) \in Nat
      /\ counts \in Counters /\ dropped \subseteq Services /\ closing \subseteq Services
  BY DEF LeaseIInv, LocalTypeOK, LeaseLocalsOK, Counters, RuntimeServicesAssumption
<1> DEFINE n == lease[r].step + 1
           acquired == Append(lease[r].acquired, lease[r].at)
           h == [lease[r] EXCEPT !.pc = "next", !.step = n, !.acquired = acquired]
<1>2. /\ lease[r].pc = "saving" /\ lease[r].step \in Nat /\ lease[r].at \in Services
      /\ lease[r].step <= Len(Wants[r]) /\ lease[r].acquired \in Seq(Services)
  BY <1>1 DEF Saved, LeaseAt, Locals, LeaseLocalOK
<1>3. acquired \in Seq(Services) /\ n \in Nat  BY <1>2
<1>4. h \in Locals /\ h.pc = "next" /\ h.step = n
  <2> HIDE DEF acquired, n
  <2>1. QED  BY <1>1, <1>2, <1>3 DEF Locals
<1>5. /\ LeaseRunIs(r, h) /\ UNCHANGED <<service, child, byKey, closing, dropped, counts>>
  BY DEF Saved, LeaseRunIs
<1> HIDE DEF h
<1>6. LeaseLocalOK(r, h)  BY <1>1, <1>2, <1>4 DEF LeaseLocalOK
<1>7. QED  BY <1>1, <1>4, <1>5, <1>6, RunOnly

LEMMA NotSavedInv ==
  ASSUME RuntimeServicesAssumption, LeaseIInv, NEW r \in LeaseRuns, NotSaved(r)
  PROVE  LeaseIInv' /\ KeepsLeased
<1>1. /\ lease[r] \in Locals /\ LeaseLocalOK(r, lease[r]) /\ Len(Wants[r]) \in Nat
      /\ counts \in Counters /\ dropped \subseteq Services /\ closing \subseteq Services
  BY DEF LeaseIInv, LocalTypeOK, LeaseLocalsOK, Counters, RuntimeServicesAssumption
<1> DEFINE h == [lease[r] EXCEPT !.pc = "release"]
<1>2. h \in Locals /\ LeaseLocalOK(r, h) /\ h.pc # "starting"
  BY <1>1 DEF Locals, LeaseLocalOK
<1>3. /\ LeaseRunIs(r, h) /\ UNCHANGED <<service, child, byKey, closing>>
      /\ counts' = [counts EXCEPT !["faults"] = @ + 1] /\ counts.faults < MaxSaveFaults
      /\ lease[r].at \in Services /\ dropped' = dropped \cup {lease[r].at}
  BY <1>1 DEF NotSaved, LeaseRunIs, Count, LeaseAt, LeaseLocalOK
<1> HIDE DEF h
<1>4. counts' \in Counters /\ counts'.starts = counts.starts
  BY <1>1, <1>3 DEF Counters, RuntimeServicesAssumption
<1>5. QED  BY <1>1, <1>2, <1>3, <1>4, RunOnly

LEMMA FinishInv ==
  ASSUME RuntimeServicesAssumption, LeaseIInv, NEW r \in LeaseRuns, Finish(r)
  PROVE  LeaseIInv' /\ KeepsLeased
<1>1. /\ lease[r] \in Locals /\ LeaseLocalOK(r, lease[r]) /\ Len(Wants[r]) \in Nat
      /\ counts \in Counters /\ dropped \subseteq Services /\ closing \subseteq Services
  BY DEF LeaseIInv, LocalTypeOK, LeaseLocalsOK, Counters, RuntimeServicesAssumption
<1> DEFINE h == [lease[r] EXCEPT !.pc = "release"]
<1>2. h \in Locals /\ LeaseLocalOK(r, h) /\ h.pc # "starting"
  BY <1>1 DEF Locals, LeaseLocalOK
<1>3. /\ LeaseRunIs(r, h) /\ UNCHANGED <<service, child, byKey, closing>>
      /\ dropped' \subseteq Services /\ counts' \in Counters /\ counts'.starts = counts.starts
  BY <1>1 DEF Finish, LeaseRunIs
<1> HIDE DEF h
<1>4. QED  BY <1>2, <1>3, RunOnly

LEMMA StoppedInv ==
  ASSUME RuntimeServicesAssumption, LeaseIInv, NEW r \in LeaseRuns, Stopped(r)
  PROVE  LeaseIInv' /\ KeepsLeased
<1>1. /\ lease[r] \in Locals /\ LeaseLocalOK(r, lease[r]) /\ Len(Wants[r]) \in Nat
      /\ counts \in Counters /\ dropped \subseteq Services /\ closing \subseteq Services
  BY DEF LeaseIInv, LocalTypeOK, LeaseLocalsOK, Counters, RuntimeServicesAssumption
<1> DEFINE h == [lease[r] EXCEPT !.pc = "release"]
<1>2. h \in Locals /\ LeaseLocalOK(r, h) /\ h.pc # "starting"
  BY <1>1 DEF Locals, LeaseLocalOK
<1>3. /\ LeaseRunIs(r, h) /\ UNCHANGED <<service, child, byKey, closing>>
      /\ dropped' \subseteq Services /\ counts' \in Counters /\ counts'.starts = counts.starts
  BY <1>1 DEF Stopped, LeaseRunIs
<1> HIDE DEF h
<1>4. QED  BY <1>2, <1>3, RunOnly

LEMMA LeaseEndInv ==
  ASSUME RuntimeServicesAssumption, LeaseIInv, NEW r \in LeaseRuns, EndLease(r)
  PROVE  LeaseIInv' /\ KeepsLeased
<1>1. /\ lease[r] \in Locals /\ LeaseLocalOK(r, lease[r]) /\ Len(Wants[r]) \in Nat
      /\ counts \in Counters /\ dropped \subseteq Services /\ closing \subseteq Services
  BY DEF LeaseIInv, LocalTypeOK, LeaseLocalsOK, Counters, RuntimeServicesAssumption
<1> DEFINE h == Local("done")
<1>2. h \in Locals /\ LeaseLocalOK(r, h) /\ h.pc # "starting"
  <2>1. <<>> \in Seq(Services)  OBVIOUS
  <2>2. QED  BY <1>1, <2>1 DEF Local, Locals, LeaseLocalOK
<1>3. LeaseRunIs(r, h) /\ UNCHANGED <<service, child, byKey, closing, dropped, counts>>
  BY DEF EndLease, LeaseRunIs
<1> HIDE DEF h
<1>4. QED  BY <1>1, <1>2, <1>3, RunOnly

LEMMA ReleaseFailsInv ==
  ASSUME RuntimeServicesAssumption, LeaseIInv, NEW r \in LeaseRuns, ReleaseFails(r)
  PROVE  LeaseIInv' /\ KeepsLeased
<1>1. /\ lease[r] \in Locals /\ LeaseLocalOK(r, lease[r]) /\ Len(Wants[r]) \in Nat
      /\ counts \in Counters /\ dropped \subseteq Services /\ closing \subseteq Services
  BY DEF LeaseIInv, LocalTypeOK, LeaseLocalsOK, Counters, RuntimeServicesAssumption
<1> DEFINE h == Local("done")
<1>2. h \in Locals /\ LeaseLocalOK(r, h) /\ h.pc # "starting"
  <2>1. <<>> \in Seq(Services)  OBVIOUS
  <2>2. QED  BY <1>1, <2>1 DEF Local, Locals, LeaseLocalOK
<1>3. /\ LeaseRunIs(r, h) /\ UNCHANGED <<service, child, byKey, closing>>
      /\ counts' = [counts EXCEPT !["faults"] = @ + 1] /\ counts.faults < MaxSaveFaults
      /\ lease[r].at \in Services
      /\ dropped' = dropped \cup {lease[r].at} \cup Range(lease[r].acquired)
  BY <1>1 DEF ReleaseFails, LeaseRunIs, Count, LeaseLocalOK
<1> HIDE DEF h
<1>4. counts' \in Counters /\ counts'.starts = counts.starts
  BY <1>1, <1>3 DEF Counters, RuntimeServicesAssumption
<1>5. Range(lease[r].acquired) \subseteq Services
  <2>1. lease[r].acquired \in Seq(Services)  BY <1>1 DEF Locals
  <2>2. QED  BY <2>1 DEF Range
<1>6. QED  BY <1>1, <1>2, <1>3, <1>4, <1>5, RunOnly

\* The lease and the end of the timer are one step.
LEMMA ReuseInv ==
  ASSUME RuntimeServicesAssumption, LeaseIInv, NEW r \in LeaseRuns, Reuse(r)
  PROVE  LeaseIInv' /\ KeepsLeased
<1>1. /\ lease[r] \in Locals /\ LeaseLocalOK(r, lease[r]) /\ Len(Wants[r]) \in Nat
      /\ counts \in Counters /\ dropped \subseteq Services /\ closing \subseteq Services
  BY DEF LeaseIInv, LocalTypeOK, LeaseLocalsOK, Counters, RuntimeServicesAssumption
<1>2. PICK s \in Services :
        /\ Running(s) /\ LeaseAt(r, "next") /\ lease[r].step <= Len(Wants[r])
        /\ service' = [service EXCEPT ![s].leases = @ \cup {r}, ![s].timer = FALSE]
        /\ lease' = [lease EXCEPT ![r].pc = "saving", ![r].at = s]
  BY DEF Reuse
<1> DEFINE h == [lease[r] EXCEPT !.pc = "saving", !.at = s]
           d == [service[s] EXCEPT !.leases = @ \cup {r}, !.timer = FALSE]
<1>3. h \in Locals /\ LeaseLocalOK(r, h) /\ h.pc = "saving" /\ LeaseRunIs(r, h)
  BY <1>1, <1>2 DEF Locals, LeaseLocalOK, LeaseRunIs, LeaseAt
<1>4. service \in [Services -> Records] /\ service[s] \in Records  BY DEF LeaseIInv, LocalTypeOK
<1>5. /\ d \in Records /\ d.state = service[s].state /\ d.timer = FALSE
      /\ service' = [service EXCEPT ![s] = d]
  BY <1>2, <1>4 DEF Records
<1>6. UNCHANGED <<child, byKey, closing, dropped, counts>>  BY DEF Reuse
<1> HIDE DEF h, d
<1>7. /\ service' \in [Services -> Records] /\ service'[s] = d
      /\ \A t \in Services : t # s => service'[t] = service[t]
  BY <1>4, <1>5
<1>8. /\ lease' \in [LeaseRuns -> Locals] /\ lease'[r] = h /\ LeaseLocalsOK'
      /\ \A o \in LeaseRuns : o # r => lease'[o] = lease[o]
      /\ \A o \in LeaseRuns : lease'[o].step <= Len(Wants[o]) + 1
  BY <1>3, RunFacts
<1>9. LocalTypeOK'  BY <1>6, <1>7, <1>8 DEF LeaseIInv, LocalTypeOK
<1>10. TimersOK'  BY <1>5, <1>7 DEF LeaseIInv, TimersOK, Running
<1>11. StartsOK'  BY <1>3, <1>5, <1>6, <1>7, <1>8, StartsKept
<1>12. KeepsLeased  BY <1>6 DEF KeepsLeased
<1>13. QED  BY <1>8, <1>9, <1>10, <1>11, <1>12 DEF LeaseIInv

\* A new process takes a place that no other run knows.
LEMMA ServiceStartInv ==
  ASSUME RuntimeServicesAssumption, LeaseIInv, NEW r \in LeaseRuns, Start(r)
  PROVE  LeaseIInv' /\ KeepsLeased
<1>1. /\ lease[r] \in Locals /\ LeaseLocalOK(r, lease[r]) /\ Len(Wants[r]) \in Nat
      /\ counts \in Counters /\ dropped \subseteq Services /\ closing \subseteq Services
  BY DEF LeaseIInv, LocalTypeOK, LeaseLocalsOK, Counters, RuntimeServicesAssumption
<1> DEFINE s == counts.starts + 1
           h == [lease[r] EXCEPT !.pc = "starting", !.at = s]
           d == Record("starting", Decl(r))
<1>2. /\ LeaseAt(r, "next") /\ lease[r].step <= Len(Wants[r]) /\ counts.starts < MaxServices
      /\ service' = [service EXCEPT ![s] = d] /\ child' = [child EXCEPT ![s] = "up"]
      /\ LeaseRunIs(r, h) /\ counts' = [counts EXCEPT !["starts"] = @ + 1]
      /\ UNCHANGED <<byKey, closing, dropped>>
  BY DEF Start, LeaseRunIs, Count
<1>3. counts.starts \in Nat /\ s \in Services
  BY <1>1, <1>2 DEF Counters, Services, RuntimeServicesAssumption
<1>4. counts' \in Counters /\ counts'.starts = s
  BY <1>1, <1>2 DEF Counters, RuntimeServicesAssumption
<1>5. Decl(r) \in Decls
  <2>1. lease[r].step \in 1..Len(Wants[r])  BY <1>1, <1>2 DEF Locals, LeaseLocalOK, LeaseAt
  <2>2. Wants[r] \in Seq(Range(Wants[r]))  BY DEF RuntimeServicesAssumption
  <2>3. Decl(r) \in Range(Wants[r])  BY <2>1, <2>2 DEF Decl
  <2>4. QED  BY <2>3 DEF Decls
<1>6. d \in Records /\ d.state = "starting" /\ d.timer = FALSE
  BY <1>5 DEF Record, Records
<1>7. h \in Locals /\ LeaseLocalOK(r, h) /\ h.pc = "starting" /\ h.at = s
  <2> HIDE DEF s
  <2>1. QED  BY <1>1, <1>2, <1>3 DEF Locals, LeaseLocalOK, LeaseAt
<1> HIDE DEF h, d
<1>8. /\ lease' \in [LeaseRuns -> Locals] /\ lease'[r] = h /\ LeaseLocalsOK'
      /\ \A o \in LeaseRuns : o # r => lease'[o] = lease[o]
      /\ \A o \in LeaseRuns : lease'[o].step <= Len(Wants[o]) + 1
  BY <1>2, <1>7, RunFacts
<1>9. service \in [Services -> Records] /\ child \in [Services -> ChildStates]
  BY DEF LeaseIInv, LocalTypeOK, ChildStates
<1>10. /\ service' \in [Services -> Records] /\ service'[s] = d
       /\ \A t \in Services : t # s => service'[t] = service[t]
       /\ child' \in [Services -> ChildStates]
       /\ \A t \in Services : t # s => child'[t] = child[t]
       /\ child'[s] = "up"
  BY <1>2, <1>3, <1>6, <1>9 DEF ChildStates
<1>11. LocalTypeOK'  BY <1>2, <1>4, <1>8, <1>10 DEF LeaseIInv, LocalTypeOK, ChildStates, Counters
<1>12. TimersOK'  BY <1>6, <1>10 DEF LeaseIInv, TimersOK, Running
<1>13. StartsOK'
  <2>1. StartsOK /\ \A o \in LeaseRuns : LeaseAt(o, "starting") => lease[o].at \in Services
    BY DEF LeaseIInv, LeaseLocalsOK, LeaseLocalOK, LeaseAt
  <2>2. service[s].state = "none"  BY <1>3, <2>1 DEF StartsOK
  <2>3. \A o \in LeaseRuns : LeaseAt(o, "starting") => lease[o].at # s  BY <2>1, <2>2 DEF StartsOK
  <2>4. \A o \in LeaseRuns : LeaseAt(o, "starting")' => service'[lease'[o].at].state = "starting"
    BY <1>6, <1>7, <1>8, <1>10, <2>1, <2>3 DEF StartsOK, LeaseAt
  <2>5. \A o, p \in LeaseRuns :
          LeaseAt(o, "starting")' /\ LeaseAt(p, "starting")' /\ lease'[o].at = lease'[p].at => o = p
    BY <1>7, <1>8, <2>1, <2>3 DEF StartsOK, LeaseAt
  <2>6. \A t \in Services : t > counts'.starts => service'[t].state = "none"
    <3> TAKE t \in Services
    <3>1. t \in Nat  BY DEF Services, RuntimeServicesAssumption
    <3>2. t > s => t > counts.starts /\ t # s  BY <1>3, <3>1
    <3>3. QED  BY <1>4, <1>10, <2>1, <3>2 DEF StartsOK
  <2>7. QED  BY <2>4, <2>5, <2>6 DEF StartsOK
<1>14. KeepsLeased  BY <1>10 DEF KeepsLeased
<1>15. QED  BY <1>8, <1>11, <1>12, <1>13, <1>14 DEF LeaseIInv

LEMMA ReadyInv ==
  ASSUME RuntimeServicesAssumption, LeaseIInv, NEW r \in LeaseRuns, Ready(r)
  PROVE  LeaseIInv' /\ KeepsLeased
<1>1. /\ lease[r] \in Locals /\ LeaseLocalOK(r, lease[r]) /\ Len(Wants[r]) \in Nat
      /\ counts \in Counters /\ dropped \subseteq Services /\ closing \subseteq Services
  BY DEF LeaseIInv, LocalTypeOK, LeaseLocalsOK, Counters, RuntimeServicesAssumption
<1> DEFINE s == lease[r].at
           h == [lease[r] EXCEPT !.pc = "saving"]
           d == [service[s] EXCEPT !.state = "running", !.leases = {r}]
<1>2. s \in Services /\ lease[r].pc = "starting" /\ service[s].state = "starting"
  BY <1>1 DEF Ready, LeaseAt, LeaseLocalOK, LeaseIInv, StartsOK
<1>3. h \in Locals /\ LeaseLocalOK(r, h) /\ h.pc = "saving"
  BY <1>1, <1>2 DEF Locals, LeaseLocalOK
<1>4. service \in [Services -> Records] /\ service[s] \in Records /\ service[s].timer = FALSE
  BY <1>2 DEF LeaseIInv, LocalTypeOK, TimersOK, Running, Records
<1>5. d \in Records /\ d.timer = FALSE  BY <1>4 DEF Records
<1>6. /\ service' = [service EXCEPT ![s] = d] /\ LeaseRunIs(r, h)
      /\ UNCHANGED <<child, closing, dropped, counts>>
      /\ byKey' \in [Keys -> Services \cup {NoService}]
  <2>1. byKey \in [Keys -> Services \cup {NoService}]  BY DEF LeaseIInv, LocalTypeOK
  <2>2. QED  BY <1>2, <2>1 DEF Ready, LeaseRunIs
<1> HIDE DEF h, d
<1>7. /\ service' \in [Services -> Records] /\ service'[s] = d
      /\ \A t \in Services : t # s => service'[t] = service[t]
  BY <1>2, <1>4, <1>5, <1>6
<1>8. /\ lease' \in [LeaseRuns -> Locals] /\ lease'[r] = h /\ LeaseLocalsOK'
      /\ \A o \in LeaseRuns : o # r => lease'[o] = lease[o]
      /\ \A o \in LeaseRuns : lease'[o].step <= Len(Wants[o]) + 1
  BY <1>3, <1>6, RunFacts
<1>9. LocalTypeOK'  BY <1>6, <1>7, <1>8 DEF LeaseIInv, LocalTypeOK
<1>10. TimersOK'  BY <1>5, <1>7 DEF LeaseIInv, TimersOK, Running
<1>11. StartsOK'  BY <1>2, <1>3, <1>6, <1>7, <1>8, StartsKept DEF LeaseAt
<1>12. KeepsLeased  BY <1>6 DEF KeepsLeased
<1>13. QED  BY <1>8, <1>9, <1>10, <1>11, <1>12 DEF LeaseIInv

\* What does not get ready was not registered, and nobody else leases it.
LEMMA NotReadyInv ==
  ASSUME RuntimeServicesAssumption, LeaseIInv, NEW r \in LeaseRuns, NotReady(r)
  PROVE  LeaseIInv' /\ KeepsLeased
<1>1. /\ lease[r] \in Locals /\ LeaseLocalOK(r, lease[r]) /\ Len(Wants[r]) \in Nat
      /\ counts \in Counters /\ dropped \subseteq Services /\ closing \subseteq Services
  BY DEF LeaseIInv, LocalTypeOK, LeaseLocalsOK, Counters, RuntimeServicesAssumption
<1> DEFINE s == lease[r].at
           h == [lease[r] EXCEPT !.pc = "release"]
           d == [service[s] EXCEPT !.state = "stopped"]
<1>2. s \in Services /\ lease[r].pc = "starting" /\ service[s].state = "starting"
  BY <1>1 DEF NotReady, LeaseAt, LeaseLocalOK, LeaseIInv, StartsOK
<1>3. h \in Locals /\ LeaseLocalOK(r, h) /\ h.pc = "release"
  BY <1>1, <1>2 DEF Locals, LeaseLocalOK
<1>4. /\ service \in [Services -> Records] /\ service[s] \in Records
      /\ service[s].timer = FALSE /\ child \in [Services -> ChildStates]
  BY <1>2 DEF LeaseIInv, LocalTypeOK, TimersOK, Running, Records, ChildStates
<1>5. d \in Records /\ d.timer = FALSE /\ d.state = "stopped"  BY <1>4 DEF Records
<1>6. /\ service' = [service EXCEPT ![s] = d] /\ LeaseRunIs(r, h)
      /\ child' = [child EXCEPT ![s] = IF @ = "up" THEN "leaving" ELSE @]
      /\ UNCHANGED <<byKey, closing, dropped, counts>>
  BY DEF NotReady, LeaseRunIs
<1> HIDE DEF h, d
<1>7. /\ service' \in [Services -> Records] /\ service'[s] = d
      /\ \A t \in Services : t # s => service'[t] = service[t]
      /\ child' \in [Services -> ChildStates]
      /\ \A t \in Services : t # s => child'[t] = child[t]
  BY <1>2, <1>4, <1>5, <1>6 DEF ChildStates
<1>8. /\ lease' \in [LeaseRuns -> Locals] /\ lease'[r] = h /\ LeaseLocalsOK'
      /\ \A o \in LeaseRuns : o # r => lease'[o] = lease[o]
      /\ \A o \in LeaseRuns : lease'[o].step <= Len(Wants[o]) + 1
  BY <1>3, <1>6, RunFacts
<1>9. LocalTypeOK'  BY <1>6, <1>7, <1>8 DEF LeaseIInv, LocalTypeOK, ChildStates
<1>10. TimersOK'  BY <1>5, <1>7 DEF LeaseIInv, TimersOK, Running
<1>11. StartsOK'  BY <1>2, <1>3, <1>6, <1>7, <1>8, StartsKept DEF LeaseAt
<1>12. KeepsLeased
  <2>1. ~Running(s)  BY <1>2 DEF Running
  <2>2. QED  BY <1>7, <2>1 DEF KeepsLeased
<1>13. QED  BY <1>8, <1>9, <1>10, <1>11, <1>12 DEF LeaseIInv

LEMMA ReleaseInv ==
  ASSUME RuntimeServicesAssumption, LeaseIInv, NEW r \in LeaseRuns, ReleaseService(r)
  PROVE  LeaseIInv' /\ KeepsLeased
<1>1. /\ lease[r] \in Locals /\ LeaseLocalOK(r, lease[r]) /\ Len(Wants[r]) \in Nat
      /\ counts \in Counters /\ dropped \subseteq Services /\ closing \subseteq Services
  BY DEF LeaseIInv, LocalTypeOK, LeaseLocalsOK, Counters, RuntimeServicesAssumption
<1> DEFINE s == Head(lease[r].acquired)
<1>2. /\ lease[r].pc = "release" /\ s \in Services /\ Tail(lease[r].acquired) \in Seq(Services)
      /\ UNCHANGED <<child, byKey, closing, dropped, counts>>
  <2>1. lease[r].acquired \in Seq(Services) /\ lease[r].acquired # <<>>
    BY <1>1 DEF ReleaseService, Locals
  <2>2. QED  BY <2>1 DEF ReleaseService, LeaseAt
<1>3. CASE Running(s)
  <2> DEFINE h == [lease[r] EXCEPT !.pc = "releasing", !.at = s, !.acquired = Tail(@)]
             d == [service[s] EXCEPT !.leases = @ \ {r}]
  <2>1. service' = [service EXCEPT ![s] = d] /\ LeaseRunIs(r, h)  BY <1>3 DEF ReleaseService, LeaseRunIs
  <2>2. service \in [Services -> Records] /\ service[s] \in Records
    BY <1>2 DEF LeaseIInv, LocalTypeOK
  <2>3. /\ d \in Records /\ d.timer = service[s].timer /\ d.state = service[s].state
        /\ d.leases = service[s].leases \ {r}
    <3> HIDE DEF s
    <3>1. QED  BY <2>2 DEF Records
  <2>4. h \in Locals /\ LeaseLocalOK(r, h) /\ h.pc = "releasing"
    <3> HIDE DEF s
    <3>1. QED  BY <1>1, <1>2 DEF Locals, LeaseLocalOK
  <2> HIDE DEF h, d, s
  <2>5. /\ service' \in [Services -> Records] /\ service'[s] = d
        /\ \A t \in Services : t # s => service'[t] = service[t]
    BY <1>2, <2>1, <2>2, <2>3
  <2>6. /\ lease' \in [LeaseRuns -> Locals] /\ lease'[r] = h /\ LeaseLocalsOK'
        /\ \A o \in LeaseRuns : o # r => lease'[o] = lease[o]
        /\ \A o \in LeaseRuns : lease'[o].step <= Len(Wants[o]) + 1
    BY <2>1, <2>4, RunFacts
  <2>7. LocalTypeOK'  BY <1>2, <2>5, <2>6 DEF LeaseIInv, LocalTypeOK
  <2>8. TimersOK'  BY <2>3, <2>5 DEF LeaseIInv, TimersOK, Running
  <2>9. StartsOK'  BY <1>2, <2>3, <2>4, <2>5, <2>6, StartsKept
  <2>10. KeepsLeased  BY <1>2 DEF KeepsLeased
  <2>11. QED  BY <2>6, <2>7, <2>8, <2>9, <2>10 DEF LeaseIInv
<1>4. CASE ~Running(s)
  <2> DEFINE h == [lease[r] EXCEPT !.acquired = Tail(@)]
  <2>1. h \in Locals /\ LeaseLocalOK(r, h) /\ h.pc = "release"
    BY <1>1, <1>2 DEF Locals, LeaseLocalOK
  <2>2. LeaseRunIs(r, h) /\ UNCHANGED service  BY <1>4 DEF ReleaseService, LeaseRunIs
  <2> HIDE DEF h
  <2>3. QED  BY <1>1, <1>2, <2>1, <2>2, RunOnly
<1>5. QED  BY <1>3, <1>4

\* Who stops a service, or sets its timer, has just seen that nobody leases it.
LEMMA ReleasedInv ==
  ASSUME RuntimeServicesAssumption, LeaseIInv, NEW r \in LeaseRuns, Released(r)
  PROVE  LeaseIInv' /\ KeepsLeased
<1>1. /\ lease[r] \in Locals /\ LeaseLocalOK(r, lease[r]) /\ Len(Wants[r]) \in Nat
      /\ counts \in Counters /\ dropped \subseteq Services /\ closing \subseteq Services
  BY DEF LeaseIInv, LocalTypeOK, LeaseLocalsOK, Counters, RuntimeServicesAssumption
<1> DEFINE s == lease[r].at
           go == [lease[r] EXCEPT !.pc = "release"]
           stop == [lease[r] EXCEPT !.pc = "stopping"]
<1>2. s \in Services /\ lease[r].pc = "releasing" /\ UNCHANGED <<closing, dropped, counts>>
  BY <1>1 DEF Released, LeaseAt, LeaseLocalOK
<1>3. /\ go \in Locals /\ LeaseLocalOK(r, go) /\ go.pc = "release"
      /\ stop \in Locals /\ LeaseLocalOK(r, stop) /\ stop.pc = "stopping"
  BY <1>1, <1>2 DEF Locals, LeaseLocalOK
<1>4. \/ LeaseRunIs(r, go) /\ UNCHANGED <<service, child, byKey>>
      \/ service[s].leases = {} /\ Running(s) /\ Stop(s) /\ LeaseRunIs(r, stop)
      \/ /\ service[s].leases = {} /\ Running(s) /\ LeaseRunIs(r, go)
         /\ service' = [service EXCEPT ![s].timer = (service[s].decl.stop = "idle")]
         /\ UNCHANGED <<child, byKey>>
  BY DEF Released, LeaseRunIs
<1> HIDE DEF go, stop
<1>5. CASE LeaseRunIs(r, go) /\ UNCHANGED <<service, child, byKey>>
  BY <1>1, <1>2, <1>3, <1>5, RunOnly
<1>6. CASE service[s].leases = {} /\ Running(s) /\ Stop(s) /\ LeaseRunIs(r, stop)
  <2>1. /\ service' \in [Services -> Records] /\ child' \in [Services -> ChildStates]
        /\ byKey' \in [Keys -> Services \cup {NoService}] /\ TimersOK'
        /\ \A t \in Services : service[t].state \in {"none", "starting"} =>
                service'[t].state = service[t].state
        /\ \A t \in Services : t # s => child'[t] = child[t]
    BY <1>2, <1>6, StopFacts
  <2>2. /\ lease' \in [LeaseRuns -> Locals] /\ lease'[r] = stop /\ LeaseLocalsOK'
        /\ \A o \in LeaseRuns : o # r => lease'[o] = lease[o]
        /\ \A o \in LeaseRuns : lease'[o].step <= Len(Wants[o]) + 1
    BY <1>3, <1>6, RunFacts
  <2>3. LocalTypeOK'  BY <1>2, <2>1, <2>2 DEF LeaseIInv, LocalTypeOK, ChildStates
  <2>4. StartsOK'  BY <1>2, <1>3, <2>1, <2>2, StartsKept
  <2>5. KeepsLeased  BY <1>6, <2>1 DEF KeepsLeased
  <2>6. QED  BY <2>1, <2>2, <2>3, <2>4, <2>5 DEF LeaseIInv
<1>7. CASE /\ service[s].leases = {} /\ Running(s) /\ LeaseRunIs(r, go)
           /\ service' = [service EXCEPT ![s].timer = (service[s].decl.stop = "idle")]
           /\ UNCHANGED <<child, byKey>>
  <2>1. PICK b \in BOOLEAN : service' = [service EXCEPT ![s].timer = b]
    <3>1. (service[s].decl.stop = "idle") \in BOOLEAN  OBVIOUS
    <3>2. QED  BY <1>7, <3>1
  <2> DEFINE d == [service[s] EXCEPT !.timer = b]
  <2>2. service \in [Services -> Records] /\ service[s] \in Records
    BY <1>2 DEF LeaseIInv, LocalTypeOK
  <2>3. d \in Records /\ d.state = service[s].state /\ d.leases = service[s].leases
    BY <2>2 DEF Records
  <2>4. service' = [service EXCEPT ![s] = d]  BY <2>1
  <2> HIDE DEF d
  <2>5. /\ service' \in [Services -> Records] /\ service'[s] = d
        /\ \A t \in Services : t # s => service'[t] = service[t]
    BY <1>2, <2>2, <2>3, <2>4
  <2>6. /\ lease' \in [LeaseRuns -> Locals] /\ lease'[r] = go /\ LeaseLocalsOK'
        /\ \A o \in LeaseRuns : o # r => lease'[o] = lease[o]
        /\ \A o \in LeaseRuns : lease'[o].step <= Len(Wants[o]) + 1
    BY <1>3, <1>7, RunFacts
  <2>7. LocalTypeOK'  BY <1>2, <1>7, <2>5, <2>6 DEF LeaseIInv, LocalTypeOK
  <2>8. TimersOK'  BY <1>7, <2>3, <2>5 DEF LeaseIInv, TimersOK, Running
  <2>9. StartsOK'  BY <1>2, <1>3, <2>3, <2>5, <2>6, StartsKept
  <2>10. KeepsLeased  BY <1>7 DEF KeepsLeased
  <2>11. QED  BY <2>6, <2>7, <2>8, <2>9, <2>10 DEF LeaseIInv
<1>8. QED  BY <1>4, <1>5, <1>6, <1>7

LEMMA ServiceExitInv ==
  ASSUME RuntimeServicesAssumption, LeaseIInv, NEW s \in Services, ServiceExit(s)
  PROVE  LeaseIInv' /\ KeepsLeased
<1>1. /\ service \in [Services -> Records] /\ child \in [Services -> ChildStates]
      /\ byKey \in [Keys -> Services \cup {NoService}] /\ counts \in Counters
      /\ closing \subseteq Services
  BY DEF LeaseIInv, LocalTypeOK, ChildStates, Counters
<1>2. child' = [child EXCEPT ![s] = "gone"] /\ UNCHANGED <<lease, closing, dropped, counts>>
  BY DEF ServiceExit
<1>3. child' \in [Services -> ChildStates] /\ KeepsLeased
  BY <1>1, <1>2 DEF ChildStates, KeepsLeased
<1>4. CASE Running(s)
  <2> DEFINE h == [service[s] EXCEPT !.state = "stopped", !.timer = FALSE]
  <2>1. h \in Records /\ h.state = "stopped" /\ h.timer = FALSE  BY <1>1 DEF Records
  <2>2. service' = [service EXCEPT ![s] = h]  BY <1>4 DEF ServiceExit
  <2> HIDE DEF h
  <2>3. /\ service' \in [Services -> Records] /\ service'[s] = h
        /\ \A t \in Services : t # s => service'[t] = service[t]
    BY <1>1, <2>1, <2>2
  <2>4. byKey' \in [Keys -> Services \cup {NoService}]  BY <1>1, <1>4 DEF ServiceExit
  <2>5. TimersOK'  BY <2>1, <2>3 DEF LeaseIInv, TimersOK, Running
  <2>6. \A t \in Services : service[t].state \in {"none", "starting"} =>
            service'[t].state = service[t].state
    BY <1>4, <2>3 DEF Running
  <2>7. QED  BY <1>1, <1>2, <1>3, <2>3, <2>4, <2>5, <2>6, NoRunInv
<1>5. CASE ~Running(s)
  <2>1. UNCHANGED <<service, byKey>>  BY <1>5 DEF ServiceExit
  <2>2. TimersOK'  BY <2>1 DEF LeaseIInv, TimersOK, Running
  <2>3. QED  BY <1>1, <1>2, <1>3, <2>1, <2>2, NoRunInv
<1>6. QED  BY <1>4, <1>5

\* The timer that fires is one of a service without leases.
LEMMA IdleStopInv ==
  ASSUME RuntimeServicesAssumption, LeaseIInv, NEW s \in Services, IdleStop(s)
  PROVE  LeaseIInv' /\ KeepsLeased
<1>1. /\ Running(s) /\ Stop(s) /\ UNCHANGED <<lease, closing, dropped, counts>>
      /\ service[s].leases = {} /\ counts \in Counters /\ closing \subseteq Services
  BY DEF IdleStop, LeaseIInv, LocalTypeOK, TimersOK, Counters
<1>2. /\ service' \in [Services -> Records] /\ child' \in [Services -> ChildStates]
      /\ byKey' \in [Keys -> Services \cup {NoService}] /\ TimersOK'
      /\ \A t \in Services : service[t].state \in {"none", "starting"} =>
            service'[t].state = service[t].state
      /\ \A t \in Services : t # s => child'[t] = child[t]
  BY <1>1, StopFacts
<1>3. KeepsLeased  BY <1>1, <1>2 DEF KeepsLeased
<1>4. QED  BY <1>1, <1>2, <1>3, NoRunInv

LEMMA CloseNextInv ==
  ASSUME RuntimeServicesAssumption, LeaseIInv, NEW s \in Services, CloseNext(s)
  PROVE  LeaseIInv' /\ KeepsLeased
<1>1. /\ s \in closing /\ closing' \subseteq Services /\ UNCHANGED <<lease, dropped>>
      /\ counts' \in Counters /\ counts'.starts = counts.starts
  <2>1. s \in closing /\ closing \subseteq Services /\ counts \in Counters /\ UNCHANGED <<lease, dropped>>
    BY DEF CloseNext, LeaseIInv, LocalTypeOK, Counters
  <2>2. CASE closing' = closing \ {s} /\ UNCHANGED counts  BY <2>1, <2>2
  <2>3. CASE counts.faults < MaxSaveFaults /\ closing' = {} /\ counts' = [counts EXCEPT !["faults"] = @ + 1]
    BY <2>1, <2>3 DEF Counters, RuntimeServicesAssumption
  <2>4. QED  BY <2>2, <2>3, <2>1 DEF CloseNext, Count
<1>2. CASE Running(s)
  <2>1. Stop(s)  BY <1>2 DEF CloseNext
  <2>2. /\ service' \in [Services -> Records] /\ child' \in [Services -> ChildStates]
        /\ byKey' \in [Keys -> Services \cup {NoService}] /\ TimersOK'
        /\ \A t \in Services : service[t].state \in {"none", "starting"} =>
              service'[t].state = service[t].state
        /\ \A t \in Services : t # s => child'[t] = child[t]
    BY <1>2, <2>1, StopFacts
  <2>3. KeepsLeased  BY <1>1, <2>2 DEF KeepsLeased
  <2>4. QED  BY <1>1, <2>2, <2>3, NoRunInv
<1>3. CASE ~Running(s)
  <2>1. UNCHANGED <<service, child, byKey>>  BY <1>3 DEF CloseNext
  <2>2. TimersOK'  BY <2>1 DEF LeaseIInv, TimersOK, Running
  <2>3. KeepsLeased  BY <2>1 DEF KeepsLeased
  <2>4. QED  BY <1>1, <2>1, <2>2, <2>3, NoRunInv DEF LeaseIInv, LocalTypeOK, ChildStates
<1>4. QED  BY <1>2, <1>3

LEMMA CloseWorkspaceInv ==
  ASSUME RuntimeServicesAssumption, LeaseIInv, CloseWorkspace
  PROVE  LeaseIInv' /\ KeepsLeased
<1>1. /\ counts \in Counters /\ counts' = [counts EXCEPT !["closes"] = @ + 1]
      /\ counts.closes < MaxCloses /\ closing' \subseteq Services
      /\ UNCHANGED <<service, child, byKey, lease, dropped>>
  BY DEF CloseWorkspace, Count, LeaseIInv, LocalTypeOK, Counters
<1>2. counts' \in Counters /\ counts'.starts = counts.starts
  BY <1>1 DEF Counters, RuntimeServicesAssumption
<1>3. TimersOK' /\ KeepsLeased  BY <1>1 DEF LeaseIInv, TimersOK, Running, KeepsLeased
<1>4. QED  BY <1>1, <1>2, <1>3, NoRunInv DEF LeaseIInv, LocalTypeOK, ChildStates

-----------------------------------------------------------------------------
\* Every step keeps the invariant, and stops no leased service.
LEMMA LeaseStepInv ==
  ASSUME RuntimeServicesAssumption, LeaseIInv, [LocalNext]_localVars
  PROVE  LeaseIInv' /\ KeepsLeased
<1>1. CASE UNCHANGED localVars
  <2>1. UNCHANGED <<service, child, byKey, lease, closing, dropped, counts>>  BY <1>1 DEF localVars
  <2>2. LocalTypeOK' /\ LeaseLocalsOK' /\ TimersOK' /\ StartsOK' /\ KeepsLeased
    BY <2>1 DEF LeaseIInv, LocalTypeOK, LeaseLocalsOK, LeaseLocalOK, TimersOK, StartsOK, Running, LeaseAt, KeepsLeased
  <2>3. QED  BY <2>2 DEF LeaseIInv
<1>2. ASSUME NEW r \in LeaseRuns, LeaseStep(r) PROVE LeaseIInv' /\ KeepsLeased
  BY <1>2, EnsureInv, ReuseInv, ServiceStartInv, ReadyInv, NotReadyInv, SavedInv, NotSavedInv,
    FinishInv, ReleaseInv, ReleasedInv, StoppedInv, ReleaseFailsInv, LeaseEndInv DEF LeaseStep
<1>3. ASSUME NEW s \in Services, ServiceExit(s) \/ IdleStop(s) \/ CloseNext(s)
      PROVE  LeaseIInv' /\ KeepsLeased
  BY <1>3, ServiceExitInv, IdleStopInv, CloseNextInv
<1>4. CASE CloseWorkspace  BY <1>4, CloseWorkspaceInv
<1>5. QED  BY <1>1, <1>2, <1>3, <1>4 DEF LocalNext

\* The invariant holds in every reachable state.
LEMMA LeaseInvariance == ASSUME RuntimeServicesAssumption PROVE LocalSpec => []LeaseIInv
<1>1. LocalInit => LeaseIInv  BY LeaseInitInv
<1>2. LeaseIInv /\ [LocalNext]_localVars => LeaseIInv'  BY LeaseStepInv
<1>3. QED  BY <1>1, <1>2, PTL DEF LocalSpec

\* The records of the host, the runs and the processes keep their types.
THEOREM LocalTypeCorrect == ASSUME RuntimeServicesAssumption PROVE LocalSpec => []LocalTypeOK
<1>1. LeaseIInv => LocalTypeOK  BY DEF LeaseIInv
<1>2. QED  BY <1>1, LeaseInvariance, PTL

\* For any runs and declarations, and whichever rows cannot be saved, no service is
\* stopped while a run leases it, unless its workspace is closed.
THEOREM LeasesHold == ASSUME RuntimeServicesAssumption PROVE LocalSpec => LeasedServicesAreKept
<1>1. LeaseIInv /\ [LocalNext]_localVars => [KeepsLeased]_localVars  BY LeaseStepInv
<1>2. QED  BY <1>1, LeaseInvariance, PTL DEF LocalSpec, LeasedServicesAreKept
-----------------------------------------------------------------------------
(* No service runs for nobody                                                *)

\* What registers a service, or starts its process, knows its declaration.
DeclsOK == \A s \in Services : service[s].state \in {"starting", "running"} => service[s].decl \in Decls

\* The run will still release the service.
WillRelease(r, s) ==
    /\ ~LeaseAt(r, "done")
    /\ s \in Range(lease[r].acquired) \/ (LeaseAt(r, "saving") /\ lease[r].at = s)

\* The run is about to ask who leases the service.
WillAsk(r, s) == LeaseAt(r, "releasing") /\ lease[r].at = s

Waits(s) == service[s].timer \/ (~EndsWithRuns(service[s].decl) /\ service[s].decl.stop = "manual")

\* UnleasedServicesStop, of one service.
Kept(s) ==
    Running(s) /\ s \notin dropped =>
        /\ \A r \in service[s].leases : WillRelease(r, s)
        /\ service[s].leases # {} \/ Waits(s) \/ \E r \in LeaseRuns : WillAsk(r, s)

KeptInv == DeclsOK /\ \A s \in Services : Kept(s)

\* The list of a run without its head, and with one service more.
LEMMA RangeFacts ==
  ASSUME NEW S, NEW q \in Seq(S)
  PROVE  /\ \A x \in S : Range(q) \cup {x} \subseteq Range(Append(q, x))
         /\ q # <<>> => \A x \in Range(q) : x = Head(q) \/ x \in Range(Tail(q))
<1>1. ASSUME NEW x \in S PROVE Range(q) \cup {x} \subseteq Range(Append(q, x))
  <2>1. /\ DOMAIN Append(q, x) = 1 .. Len(q) + 1
        /\ \A i \in 1 .. Len(q) : Append(q, x)[i] = q[i]
        /\ Append(q, x)[Len(q) + 1] = x
    OBVIOUS
  <2>2. QED  BY <2>1 DEF Range
<1>2. ASSUME q # <<>>, NEW x \in Range(q), x # Head(q) PROVE x \in Range(Tail(q))
  <2>1. PICK i \in 1 .. Len(q) : q[i] = x  BY DEF Range
  <2>2. i # 1  BY <1>2, <2>1
  <2>3. i - 1 \in 1 .. Len(Tail(q)) /\ Tail(q)[i - 1] = x  BY <1>2, <2>1, <2>2
  <2>4. DOMAIN Tail(q) = 1 .. Len(Tail(q))  BY <1>2
  <2>5. QED  BY <2>3, <2>4 DEF Range
<1>3. QED  BY <1>1, <1>2

\* A step of one run leaves a service kept that it does not change, or that does not
\* run after it, if the run goes on owing it what it owed.
LEMMA KeptByRun ==
  ASSUME LeaseIInv, NEW r \in LeaseRuns, NEW s \in Services, Kept(s),
         \A o \in LeaseRuns : o # r => lease'[o] = lease[o],
         dropped \subseteq dropped',
         service'[s] = service[s] \/ service'[s].state # "running",
         Running(s) /\ s \notin dropped' /\ WillRelease(r, s) /\ r \in service[s].leases
            => WillRelease(r, s)',
         Running(s) /\ Running(s)' /\ s \notin dropped' /\ WillAsk(r, s)
            => service[s].leases # {} \/ Waits(s)
  PROVE  Kept(s)'
<1>1. \A o \in LeaseRuns : o # r =>
        (WillRelease(o, s)' <=> WillRelease(o, s)) /\ (WillAsk(o, s)' <=> WillAsk(o, s))
  BY DEF WillRelease, WillAsk, LeaseAt
<1>2. service[s].leases \subseteq LeaseRuns  BY DEF LeaseIInv, LocalTypeOK, Records
<1>3. CASE service'[s].state # "running"  BY <1>3 DEF Kept, Running
<1>4. CASE service'[s] = service[s]
  <2>1. (Running(s)' <=> Running(s)) /\ (Waits(s)' <=> Waits(s))  BY <1>4 DEF Running, Waits
  <2>2. SUFFICES ASSUME Running(s), s \notin dropped'
                 PROVE  /\ \A o \in service[s].leases : WillRelease(o, s)'
                        /\ service[s].leases # {} \/ Waits(s) \/ \E o \in LeaseRuns : WillAsk(o, s)'
    BY <1>4, <2>1 DEF Kept
  <2>3. /\ \A o \in service[s].leases : WillRelease(o, s)
        /\ service[s].leases # {} \/ Waits(s) \/ \E o \in LeaseRuns : WillAsk(o, s)
    BY <2>2 DEF Kept
  <2>4. \A o \in service[s].leases : WillRelease(o, s)'  BY <1>1, <1>2, <2>2, <2>3
  <2>5. QED  BY <1>1, <2>1, <2>2, <2>3, <2>4
<1>5. QED  BY <1>3, <1>4

\* The steps of a run that change no service.
LEMMA KeptQuietly ==
  ASSUME RuntimeServicesAssumption, LeaseIInv, KeptInv, NEW r \in LeaseRuns,
         \/ Ensure(r) \/ Saved(r) \/ NotSaved(r) \/ Finish(r) \/ Stopped(r)
         \/ EndLease(r) \/ ReleaseFails(r)
  PROVE  KeptInv'
<1>1. /\ lease \in [LeaseRuns -> Locals] /\ lease[r] \in Locals /\ UNCHANGED service
      /\ dropped \subseteq dropped'
  BY DEF LeaseIInv, LocalTypeOK, Ensure, Saved, NotSaved, Finish, Stopped, EndLease, ReleaseFails
<1>2. \A o \in LeaseRuns : o # r => lease'[o] = lease[o]
  BY <1>1 DEF Ensure, Saved, NotSaved, Finish, Stopped, EndLease, ReleaseFails
<1>3. DeclsOK'  BY <1>1 DEF KeptInv, DeclsOK
<1> SUFFICES ASSUME NEW s \in Services PROVE Kept(s)'  BY <1>3 DEF KeptInv
<1>4. Kept(s)  BY DEF KeptInv
<1>5. s \notin dropped' /\ WillAsk(r, s) => FALSE
  BY <1>1 DEF WillAsk, LeaseAt, Ensure, Saved, NotSaved, Finish, Stopped, EndLease, ReleaseFails
<1>6. s \notin dropped' /\ WillRelease(r, s) => WillRelease(r, s)'
  <2>1. CASE Ensure(r) \/ Finish(r) \/ Stopped(r)
    <3>1. /\ lease'[r].acquired = lease[r].acquired /\ lease'[r].pc \in {"next", "release"}
          /\ lease[r].pc # "saving"
      BY <1>1, <2>1 DEF Ensure, Finish, Stopped, LeaseAt, Locals
    <3>2. QED  BY <3>1 DEF WillRelease, LeaseAt
  <2>2. CASE Saved(r)
    <3>1. /\ lease[r].pc = "saving" /\ lease'[r].pc = "next"
          /\ lease'[r].acquired = Append(lease[r].acquired, lease[r].at)
      BY <1>1, <2>2 DEF Saved, LeaseAt, Locals
    <3>2. lease[r].at \in Services /\ lease[r].acquired \in Seq(Services)
      BY <1>1, <3>1 DEF Locals, LeaseIInv, LeaseLocalsOK, LeaseLocalOK
    <3>3. Range(lease[r].acquired) \cup {lease[r].at} \subseteq Range(lease'[r].acquired)
      BY <3>1, <3>2, RangeFacts
    <3>4. QED  BY <3>1, <3>3 DEF WillRelease, LeaseAt
  <2>3. CASE NotSaved(r)
    <3>1. /\ lease'[r].acquired = lease[r].acquired /\ lease'[r].pc = "release"
          /\ lease[r].at \in dropped'
      BY <1>1, <2>3 DEF NotSaved, Locals
    <3>2. QED  BY <3>1 DEF WillRelease, LeaseAt
  <2>4. CASE EndLease(r)
    <3>1. lease[r].pc = "release" /\ lease[r].acquired = <<>>  BY <2>4 DEF EndLease, LeaseAt
    <3>2. Range(lease[r].acquired) = {}  BY <3>1 DEF Range
    <3>3. QED  BY <3>1, <3>2 DEF WillRelease, LeaseAt
  <2>5. CASE ReleaseFails(r)
    <3>1. Range(lease[r].acquired) \subseteq dropped' /\ lease[r].pc # "saving"
      BY <2>5 DEF ReleaseFails
    <3>2. QED  BY <3>1 DEF WillRelease, LeaseAt
  <2>6. QED  BY <2>1, <2>2, <2>3, <2>4, <2>5
<1>7. QED  BY <1>1, <1>2, <1>4, <1>5, <1>6, KeptByRun

\* The steps of a run that lease or start a service, or give one up.
LEMMA KeptByEnsuring ==
  ASSUME RuntimeServicesAssumption, LeaseIInv, KeptInv, NEW r \in LeaseRuns,
         Reuse(r) \/ Start(r) \/ Ready(r) \/ NotReady(r)
  PROVE  KeptInv'
<1>1. /\ lease \in [LeaseRuns -> Locals] /\ lease[r] \in Locals /\ UNCHANGED dropped
      /\ service \in [Services -> Records] /\ LeaseLocalOK(r, lease[r])
  BY DEF LeaseIInv, LocalTypeOK, LeaseLocalsOK, Reuse, Start, Ready, NotReady
<1>2. \A o \in LeaseRuns : o # r => lease'[o] = lease[o]
  BY <1>1 DEF Reuse, Start, Ready, NotReady
<1>3. PICK t \in Services :
        /\ lease[r].pc \in {"next", "starting"} /\ lease'[r].acquired = lease[r].acquired
        /\ lease'[r].pc # "done"
        /\ \A s \in Services : s # t => service'[s] = service[s]
        /\ \/ /\ service'[t].state = "running" /\ lease'[r].pc = "saving" /\ lease'[r].at = t
              /\ \/ service'[t].leases = service[t].leases \cup {r} /\ Running(t)
                 \/ service'[t].leases = {r}
           \/ service'[t].state # "running"
        /\ service'[t].state \in {"starting", "running"} => service'[t].decl \in Decls
  <2>1. CASE Reuse(r)
    <3>1. PICK t \in Services :
            /\ Running(t) /\ LeaseAt(r, "next")
            /\ service' = [service EXCEPT ![t].leases = @ \cup {r}, ![t].timer = FALSE]
            /\ lease' = [lease EXCEPT ![r].pc = "saving", ![r].at = t]
      BY <2>1 DEF Reuse
    <3>2. /\ service'[t].state = "running" /\ service'[t].decl = service[t].decl
          /\ service'[t].leases = service[t].leases \cup {r}
          /\ \A s \in Services : s # t => service'[s] = service[s]
      BY <1>1, <3>1 DEF Running, Records
    <3>3. /\ lease[r].pc = "next" /\ lease'[r].pc = "saving" /\ lease'[r].at = t
          /\ lease'[r].acquired = lease[r].acquired
      BY <1>1, <3>1 DEF LeaseAt, Locals
    <3>4. service[t].decl \in Decls  BY <3>1 DEF KeptInv, DeclsOK, Running
    <3>5. QED  BY <3>1, <3>2, <3>3, <3>4
  <2>2. CASE Start(r)
    <3> DEFINE t == counts.starts + 1
    <3>1. /\ service' = [service EXCEPT ![t] = Record("starting", Decl(r))]
          /\ lease' = [lease EXCEPT ![r].pc = "starting", ![r].at = t]
          /\ LeaseAt(r, "next") /\ lease[r].step <= Len(Wants[r]) /\ counts.starts < MaxServices
      BY <2>2 DEF Start
    <3>2. t \in Services
      BY <3>1 DEF Services, RuntimeServicesAssumption, LeaseIInv, LocalTypeOK
    <3>3. Decl(r) \in Decls
      <4>1. lease[r].step \in 1..Len(Wants[r])
        <5>1. Len(Wants[r]) \in Nat  BY DEF RuntimeServicesAssumption
        <5>2. QED  BY <1>1, <3>1, <5>1 DEF Locals, LeaseLocalOK, LeaseAt
      <4>2. Wants[r] \in Seq(Range(Wants[r]))  BY DEF RuntimeServicesAssumption
      <4>3. Decl(r) \in Range(Wants[r])  BY <4>1, <4>2 DEF Decl
      <4>4. QED  BY <4>3 DEF Decls
    <3>4. /\ service'[t].state = "starting" /\ service'[t].decl \in Decls
          /\ \A s \in Services : s # t => service'[s] = service[s]
      BY <1>1, <3>1, <3>2, <3>3 DEF Record
    <3>5. /\ lease[r].pc = "next" /\ lease'[r].pc = "starting"
          /\ lease'[r].acquired = lease[r].acquired
      BY <1>1, <3>1 DEF LeaseAt, Locals
    <3>6. QED  BY <3>2, <3>4, <3>5
  <2>3. CASE Ready(r)
    <3> DEFINE t == lease[r].at
    <3>1. /\ service' = [service EXCEPT ![t].state = "running", ![t].leases = {r}]
          /\ lease' = [lease EXCEPT ![r].pc = "saving"] /\ lease[r].pc = "starting"
      BY <2>3 DEF Ready, LeaseAt
    <3>2. t \in Services /\ service[t].state = "starting"
      BY <1>1, <3>1 DEF LeaseLocalOK, LeaseIInv, StartsOK, LeaseAt
    <3>3. /\ service'[t].state = "running" /\ service'[t].decl = service[t].decl
          /\ service'[t].leases = {r}
          /\ \A s \in Services : s # t => service'[s] = service[s]
      BY <1>1, <3>1, <3>2 DEF Records
    <3>4. lease'[r].pc = "saving" /\ lease'[r].at = t /\ lease'[r].acquired = lease[r].acquired
      BY <1>1, <3>1 DEF Locals
    <3>5. service[t].decl \in Decls  BY <3>2 DEF KeptInv, DeclsOK
    <3>6. QED  BY <3>1, <3>2, <3>3, <3>4, <3>5
  <2>4. CASE NotReady(r)
    <3> DEFINE t == lease[r].at
    <3>1. /\ service' = [service EXCEPT ![t].state = "stopped"]
          /\ lease' = [lease EXCEPT ![r].pc = "release"] /\ lease[r].pc = "starting"
      BY <2>4 DEF NotReady, LeaseAt
    <3>2. t \in Services  BY <1>1, <3>1 DEF LeaseLocalOK
    <3>3. /\ service'[t].state = "stopped"
          /\ \A s \in Services : s # t => service'[s] = service[s]
      BY <1>1, <3>1, <3>2 DEF Records
    <3>4. lease'[r].pc = "release" /\ lease'[r].acquired = lease[r].acquired
      BY <1>1, <3>1 DEF Locals
    <3>5. QED  BY <3>1, <3>2, <3>3, <3>4
  <2>5. QED  BY <2>1, <2>2, <2>3, <2>4
<1>4. DeclsOK'  BY <1>3 DEF KeptInv, DeclsOK
<1> SUFFICES ASSUME NEW s \in Services PROVE Kept(s)'  BY <1>4 DEF KeptInv
<1>5. Kept(s)  BY DEF KeptInv
<1>6. WillRelease(r, s) => WillRelease(r, s)'  BY <1>3 DEF WillRelease, LeaseAt
<1>7. ~WillAsk(r, s)  BY <1>3 DEF WillAsk, LeaseAt
<1>8. CASE s # t \/ service'[s].state # "running"
  BY <1>1, <1>2, <1>3, <1>5, <1>6, <1>7, <1>8, KeptByRun
<1>9. CASE s = t /\ service'[t].state = "running"
  <2>1. WillRelease(r, t)'  BY <1>3, <1>9 DEF WillRelease, LeaseAt
  <2>2. \A o \in LeaseRuns : o # r => (WillRelease(o, t)' <=> WillRelease(o, t))
    BY <1>2 DEF WillRelease, LeaseAt
  <2>3. service[t].leases \subseteq LeaseRuns  BY <1>1 DEF Records
  <2>4. t \notin dropped => \A o \in service'[t].leases : WillRelease(o, t)'
    BY <1>3, <1>5, <1>9, <2>1, <2>2, <2>3 DEF Kept
  <2>5. service'[t].leases # {}  BY <1>3, <1>9
  <2>6. QED  BY <1>1, <1>9, <2>4, <2>5 DEF Kept
<1>10. QED  BY <1>8, <1>9

\* The lease goes, and the run is about to ask who else leases the service.
LEMMA KeptByRelease ==
  ASSUME RuntimeServicesAssumption, LeaseIInv, KeptInv, NEW r \in LeaseRuns, ReleaseService(r)
  PROVE  KeptInv'
<1>0. PICK t : t = Head(lease[r].acquired)  OBVIOUS
<1>1. /\ lease \in [LeaseRuns -> Locals] /\ lease[r] \in Locals /\ UNCHANGED dropped
      /\ service \in [Services -> Records] /\ lease[r].pc = "release"
      /\ lease[r].acquired \in Seq(Services) /\ lease[r].acquired # <<>> /\ t \in Services
  <2>1. /\ lease[r].acquired \in Seq(Services) /\ lease[r].acquired # <<>>
        /\ lease[r].pc = "release" /\ UNCHANGED dropped
    BY DEF LeaseIInv, LocalTypeOK, Locals, ReleaseService, LeaseAt
  <2>2. Head(lease[r].acquired) \in Services  BY <2>1
  <2>3. QED  BY <1>0, <2>1, <2>2 DEF LeaseIInv, LocalTypeOK
<1>2. \A o \in LeaseRuns : o # r => lease'[o] = lease[o]
  BY <1>1 DEF ReleaseService
<1>3. lease'[r].acquired = Tail(lease[r].acquired) /\ lease'[r].pc \in {"release", "releasing"}
  BY <1>1 DEF ReleaseService, Locals
<1>4. \A s \in Services : s # t => service'[s] = service[s]
  BY <1>0, <1>1 DEF ReleaseService
<1>5. Running(t) => /\ service'[t].state = "running" /\ service'[t].decl = service[t].decl
                    /\ service'[t].leases = service[t].leases \ {r}
                    /\ lease'[r].pc = "releasing" /\ lease'[r].at = t
  BY <1>0, <1>1 DEF ReleaseService, Running, Records, Locals
<1>6. ~Running(t) => service'[t] = service[t]
  BY <1>0 DEF ReleaseService
<1>7. DeclsOK'  BY <1>4, <1>5, <1>6 DEF KeptInv, DeclsOK, Running
<1> SUFFICES ASSUME NEW s \in Services PROVE Kept(s)'  BY <1>7 DEF KeptInv
<1>8. Kept(s)  BY DEF KeptInv
<1>9. CASE s # t
  <2>1. WillRelease(r, s) => WillRelease(r, s)'
    <3>1. s \in Range(lease[r].acquired) => s \in Range(lease'[r].acquired)
      BY <1>0, <1>1, <1>3, <1>9, RangeFacts
    <3>2. QED  BY <1>1, <1>3, <3>1 DEF WillRelease, LeaseAt
  <2>2. ~WillAsk(r, s)  BY <1>1 DEF WillAsk, LeaseAt
  <2>3. QED  BY <1>1, <1>2, <1>4, <1>8, <1>9, <2>1, <2>2, KeptByRun
<1>10. CASE s = t /\ ~Running(t)
  BY <1>6, <1>10 DEF Kept, Running
<1>11. CASE s = t /\ Running(t)
  <2>1. WillAsk(r, t)'  BY <1>5, <1>11 DEF WillAsk, LeaseAt
  <2>2. service[t].leases \subseteq LeaseRuns  BY <1>1 DEF Records
  <2>3. \A o \in LeaseRuns : o # r => (WillRelease(o, t)' <=> WillRelease(o, t))
    BY <1>2 DEF WillRelease, LeaseAt
  <2>4. t \notin dropped => \A o \in service'[t].leases : WillRelease(o, t)'
    BY <1>5, <1>8, <1>11, <2>2, <2>3 DEF Kept
  <2>5. QED  BY <1>1, <1>11, <2>1, <2>4 DEF Kept
<1>12. QED  BY <1>9, <1>10, <1>11

\* Who asks sees that somebody leases the service, stops it or sets its timer.
LEMMA KeptByReleased ==
  ASSUME RuntimeServicesAssumption, LeaseIInv, KeptInv, NEW r \in LeaseRuns, Released(r)
  PROVE  KeptInv'
<1>0. PICK t : t = lease[r].at  OBVIOUS
<1>1. /\ lease \in [LeaseRuns -> Locals] /\ lease[r] \in Locals /\ UNCHANGED dropped
      /\ service \in [Services -> Records] /\ lease[r].pc = "releasing" /\ t \in Services
  BY <1>0 DEF LeaseIInv, LocalTypeOK, LeaseLocalsOK, LeaseLocalOK, Released, LeaseAt
<1>2. \A o \in LeaseRuns : o # r => lease'[o] = lease[o]
  BY <1>1 DEF Released
<1>3. lease'[r].acquired = lease[r].acquired /\ lease'[r].pc \in {"release", "stopping"}
  BY <1>1 DEF Released, Locals
<1>4. \A s \in Services : s # t => service'[s] = service[s]
  BY <1>0, <1>1 DEF Released, Stop
<1>5. \A s \in Services : WillRelease(r, s) => WillRelease(r, s)'
  BY <1>1, <1>3 DEF WillRelease, LeaseAt
<1>6. ASSUME NEW s \in Services, s # t PROVE Kept(s)'
  <2>1. ~WillAsk(r, s) /\ Kept(s)  BY <1>0, <1>6 DEF WillAsk, KeptInv
  <2>2. QED  BY <1>1, <1>2, <1>4, <1>5, <1>6, <2>1, KeptByRun
<1>7. \/ service'[t] = service[t] /\ (service[t].leases # {} \/ ~Running(t))
      \/ service'[t].state = "stopped"
      \/ /\ service[t].leases = {} /\ Running(t) /\ ~EndsWithRuns(service[t].decl)
         /\ service' = [service EXCEPT ![t].timer = service[t].decl.stop = "idle"]
  BY <1>0, <1>1 DEF Released, Stop, Records
<1>8. CASE service'[t] = service[t] /\ (service[t].leases # {} \/ ~Running(t))
  <2>1. Kept(t)'
    <3>1. Kept(t)  BY <1>1 DEF KeptInv
    <3>2. QED  BY <1>1, <1>2, <1>5, <1>8, <3>1, KeptByRun
  <2>2. DeclsOK'  BY <1>4, <1>8 DEF KeptInv, DeclsOK
  <2>3. QED  BY <1>6, <2>1, <2>2 DEF KeptInv
<1>9. CASE service'[t].state = "stopped"
  <2>1. Kept(t)'  BY <1>9 DEF Kept, Running
  <2>2. DeclsOK'  BY <1>4, <1>9 DEF KeptInv, DeclsOK
  <2>3. QED  BY <1>6, <2>1, <2>2 DEF KeptInv
<1>10. CASE /\ service[t].leases = {} /\ Running(t) /\ ~EndsWithRuns(service[t].decl)
            /\ service' = [service EXCEPT ![t].timer = service[t].decl.stop = "idle"]
  <2>1. service[t].decl \in Decls /\ service[t].decl.stop \in {"finish", "idle", "manual"}
    BY <1>1, <1>10 DEF KeptInv, DeclsOK, Running, RuntimeServicesAssumption
  <2>2. service[t].decl.stop # "finish"  BY <1>10 DEF EndsWithRuns
  <2>3. PICK b \in BOOLEAN : b = (service[t].decl.stop = "idle")  OBVIOUS
  <2>4. service' = [service EXCEPT ![t].timer = b]  BY <1>10, <2>3
  <2>5. /\ service'[t].timer = b /\ service'[t].decl = service[t].decl
        /\ service'[t].state = "running" /\ service'[t].leases = {}
    BY <1>1, <1>10, <2>4 DEF Records, Running
  <2>6. Waits(t)'  BY <1>10, <2>1, <2>2, <2>3, <2>5 DEF Waits, EndsWithRuns
  <2>7. Kept(t)'  BY <2>5, <2>6 DEF Kept
  <2>8. DeclsOK'  BY <1>4, <2>1, <2>5 DEF KeptInv, DeclsOK
  <2>9. QED  BY <1>6, <2>7, <2>8 DEF KeptInv
<1>11. QED  BY <1>7, <1>8, <1>9, <1>10

\* A service whose process ends, or which is stopped, is not registered any more.
LEMMA KeptElsewhere ==
  ASSUME RuntimeServicesAssumption, LeaseIInv, KeptInv,
         CloseWorkspace \/ \E s \in Services : ServiceExit(s) \/ IdleStop(s) \/ CloseNext(s)
  PROVE  KeptInv'
<1>1. UNCHANGED <<lease, dropped>> /\ service \in [Services -> Records]
  BY DEF LeaseIInv, LocalTypeOK, CloseWorkspace, ServiceExit, IdleStop, CloseNext
<1>2. \A t \in Services : service'[t] = service[t] \/ service'[t].state = "stopped"
  <2>1. ASSUME NEW s \in Services, NEW t \in Services,
               service' = [service EXCEPT ![s].state = "stopped", ![s].timer = FALSE]
        PROVE  service'[t] = service[t] \/ service'[t].state = "stopped"
    BY <1>1, <2>1 DEF Records
  <2>2. CASE CloseWorkspace  BY <2>2 DEF CloseWorkspace
  <2>3. ASSUME NEW s \in Services, ServiceExit(s) \/ IdleStop(s) \/ CloseNext(s)
        PROVE  \/ UNCHANGED service
               \/ service' = [service EXCEPT ![s].state = "stopped", ![s].timer = FALSE]
    BY <2>3 DEF ServiceExit, IdleStop, CloseNext, Stop
  <2>4. QED  BY <2>1, <2>2, <2>3
<1>3. DeclsOK'  BY <1>2 DEF KeptInv, DeclsOK
<1>4. ASSUME NEW t \in Services PROVE Kept(t)'
  <2>1. Kept(t)  BY DEF KeptInv
  <2>2. CASE service'[t].state = "stopped"  BY <2>2 DEF Kept, Running
  <2>3. CASE service'[t] = service[t]
    BY <1>1, <2>1, <2>3 DEF Kept, Running, Waits, WillRelease, WillAsk, LeaseAt
  <2>4. QED  BY <1>2, <2>2, <2>3
<1>5. QED  BY <1>3, <1>4 DEF KeptInv

LEMMA KeptStep ==
  ASSUME RuntimeServicesAssumption, LeaseIInv, KeptInv, [LocalNext]_localVars
  PROVE  KeptInv'
<1>1. CASE UNCHANGED localVars
  BY <1>1 DEF localVars, KeptInv, DeclsOK, Kept, Running, Waits, WillRelease, WillAsk, LeaseAt
<1>2. ASSUME NEW r \in LeaseRuns, LeaseStep(r) PROVE KeptInv'
  BY <1>2, KeptQuietly, KeptByEnsuring, KeptByRelease, KeptByReleased DEF LeaseStep
<1>3. QED  BY <1>1, <1>2, KeptElsewhere DEF LocalNext

\* For any runs, declarations and services: a service that runs is one that a run
\* will release, that its timer will stop or that is left to the board, unless a row
\* could not be saved.
THEOREM ServicesEndWithTheirRuns ==
  ASSUME RuntimeServicesAssumption PROVE LocalSpec => []UnleasedServicesStop
<1>1. LocalInit => KeptInv
  BY DEF LocalInit, NoRecord, Record, KeptInv, DeclsOK, Kept, Running
<1>2. LeaseIInv /\ KeptInv /\ [LocalNext]_localVars => KeptInv'  BY KeptStep
<1>3. KeptInv => UnleasedServicesStop
  <2> SUFFICES ASSUME KeptInv, NEW s \in Services, Running(s), s \notin dropped
               PROVE  /\ \A r \in service[s].leases :
                            /\ ~LeaseAt(r, "done")
                            /\ \/ s \in Range(lease[r].acquired)
                               \/ LeaseAt(r, "saving") /\ lease[r].at = s
                      /\ \/ service[s].leases # {} \/ service[s].timer
                         \/ ~EndsWithRuns(service[s].decl) /\ service[s].decl.stop = "manual"
                         \/ \E r \in LeaseRuns : LeaseAt(r, "releasing") /\ lease[r].at = s
    BY DEF UnleasedServicesStop
  <2>1. Kept(s)  BY DEF KeptInv
  <2>2. QED  BY <2>1 DEF Kept, WillRelease, WillAsk, Waits
<1>4. QED  BY <1>1, <1>2, <1>3, LeaseInvariance, PTL DEF LocalSpec
=============================================================================
