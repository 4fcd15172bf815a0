---------------------------- MODULE PluginProofs ----------------------------
(***************************************************************************)
(* Theorems of PluginJobs and PluginWorkers.                               *)
(*                                                                         *)
(* The active jobs are forgotten while their runs go on, so that scheduled *)
(* runs do not overlap rests on the tick alone: as long as one of its runs *)
(* is in flight, it is.                                                    *)
(*                                                                         *)
(* A worker process is the child of the registered handle, and every task  *)
(* at a step of a handle is about that child, as long as one operator at a *)
(* time calls.                                                             *)
(***************************************************************************)
EXTENDS PluginJobs, PluginWorkers, FiniteSetTheorems, WellFoundedInduction, TLAPS

(***************************************************************************)
(* PluginJobs                                                              *)
(***************************************************************************)

TypesOK ==
    /\ jobRun \in [JobRuns -> RunRecords]
    /\ due \subseteq Jobs
    /\ call \in [Callers -> [at : {"idle", "query", "create"}, job : Jobs \cup {NoJob}]]
    /\ unload.rows \subseteq JobRuns

\* A scheduled run in flight is one of the tick in progress.
Scheduled(h) == h.at \notin {"none", "done", "lost"} /\ h.trigger = "schedule"
TicksOK == \A r \in JobRuns : Scheduled(jobRun[r]) => ticking

\* The run that made a job active has not come to its release.
Holds(h) == h.at \in {"create", "mark", "call", "working", "succeeded", "failed"}
HeldOK == \A j \in active : \E r \in JobRuns : Holds(jobRun[r]) /\ jobRun[r].job = j

\* A run that was not stored yet, or is past its last statement, is not under way in
\* its row.
RowOK(h) == h.at \in {"create", "advance", "done"} => h.row \in Final \cup {"none"}
RowsOK == \A r \in JobRuns : RowOK(jobRun[r]) \/ r \in unrecorded

\* No two dispatches of the schedule are in flight for one job.
DispatchesDoNotOverlap ==
    \A q, r \in JobRuns :
        (q # r /\ InFlight(q) /\ InFlight(r)
            /\ jobRun[q].trigger = "schedule" /\ jobRun[r].trigger = "schedule")
        => jobRun[q].job # jobRun[r].job

IInv == TypesOK /\ TicksOK /\ DispatchesDoNotOverlap /\ HeldOK /\ RowsOK

-----------------------------------------------------------------------------
\* The initial states satisfy the invariant.
LEMMA InitInv == JobsInit => IInv
<1> SUFFICES ASSUME JobsInit PROVE IInv  OBVIOUS
<1>1. NoJobRun \in RunRecords /\ NoJobRun.at = "none"  BY DEF NoJobRun, Run, RunRecords, Steps
<1>2. \A r \in JobRuns : jobRun[r] = NoJobRun  BY DEF JobsInit
<1>3. TypesOK  BY <1>1 DEF JobsInit, TypesOK, NoCall, NoUnload
<1>4. TicksOK /\ DispatchesDoNotOverlap /\ RowsOK
  BY <1>1, <1>2 DEF TicksOK, Scheduled, DispatchesDoNotOverlap, InFlight, RowsOK, RowOK
<1>5. HeldOK  BY DEF JobsInit, HeldOK
<1>6. QED  BY <1>3, <1>4, <1>5 DEF IInv

-----------------------------------------------------------------------------
(* Steps of one run *)

\* A new record of a run.
RunIs(r, h) == jobRun' = [jobRun EXCEPT ![r] = h]

\* A run in flight goes on: it frees its job before it stops holding it, and the tick
\* does not end before its other runs.
LEMMA RunStep ==
  ASSUME IInv, NEW r \in JobRuns, NEW h \in RunRecords, RunIs(r, h), InFlight(r),
         h.job = jobRun[r].job, h.trigger = jobRun[r].trigger,
         active' \subseteq active, Holds(h) \/ jobRun[r].job \notin active' \/ ~Holds(jobRun[r]),
         unrecorded \subseteq unrecorded', RowOK(h) \/ r \in unrecorded',
         due' \subseteq Jobs, UNCHANGED <<call, unload>>,
         \A q \in JobRuns \ {r} : Scheduled(jobRun[q]) => ticking',
         Scheduled(h) => ticking'
  PROVE  IInv'
<1>1. jobRun \in [JobRuns -> RunRecords]  BY DEF IInv, TypesOK
<1>2. /\ jobRun' \in [JobRuns -> RunRecords] /\ jobRun'[r] = h
      /\ \A q \in JobRuns : q # r => jobRun'[q] = jobRun[q]
  BY <1>1 DEF RunIs
<1>3. TypesOK'  BY <1>2 DEF IInv, TypesOK
<1>4. TicksOK'  BY <1>2 DEF TicksOK
<1>5. DispatchesDoNotOverlap'
  <2>1. \A q \in JobRuns : /\ InFlight(q)' => InFlight(q)
                           /\ jobRun'[q].job = jobRun[q].job /\ jobRun'[q].trigger = jobRun[q].trigger
    BY <1>2 DEF InFlight
  <2>2. DispatchesDoNotOverlap  BY DEF IInv
  <2>3. QED  BY <2>1, <2>2 DEF DispatchesDoNotOverlap
<1>6. HeldOK'
  <2> SUFFICES ASSUME NEW j \in active' PROVE \E q \in JobRuns : Holds(jobRun'[q]) /\ jobRun'[q].job = j
    BY DEF HeldOK, Holds
  <2>1. PICK q \in JobRuns : Holds(jobRun[q]) /\ jobRun[q].job = j  BY DEF IInv, HeldOK
  <2>2. QED  BY <1>2, <2>1 DEF Holds
<1>7. RowsOK'  BY <1>2 DEF IInv, RowsOK, RowOK
<1>8. QED  BY <1>3, <1>4, <1>5, <1>6, <1>7 DEF IInv

\* The same, for a run whose tick and job are as before.
LEMMA RunGoes ==
  ASSUME IInv, NEW r \in JobRuns, NEW h \in RunRecords, RunIs(r, h), InFlight(r),
         h.job = jobRun[r].job, h.trigger = jobRun[r].trigger, Holds(h), RowOK(h),
         UNCHANGED <<active, unrecorded, due, call, unload, ticking>>
  PROVE  IInv'
<1>1. due' \subseteq Jobs  BY DEF IInv, TypesOK
<1>2. \A q \in JobRuns : Scheduled(jobRun[q]) => ticking'  BY DEF IInv, TicksOK
<1>3. Scheduled(h) => Scheduled(jobRun[r])  BY DEF Scheduled, InFlight
<1>4. QED  BY <1>1, <1>2, <1>3, RunStep

\* A step that leaves the runs, the tick and the active jobs alone, or forgets some.
LEMMA OtherStep ==
  ASSUME IInv, jobRun' = jobRun, TypesOK', active' \subseteq active, UNCHANGED <<unrecorded, ticking>>
  PROVE  IInv'
<1>1. TicksOK'  BY DEF IInv, TicksOK
<1>2. DispatchesDoNotOverlap'  BY DEF IInv, DispatchesDoNotOverlap, InFlight
<1>3. HeldOK'  BY DEF IInv, HeldOK
<1>4. RowsOK'  BY DEF IInv, RowsOK
<1>5. QED  BY <1>1, <1>2, <1>3, <1>4 DEF IInv

-----------------------------------------------------------------------------
(* Every step keeps the invariant *)

\* The tick finds none of its runs in flight, and gives each job it takes one run.
LEMMA TickInv ==
  ASSUME IInv, Tick
  PROVE  IInv'
<1>1. PICK chosen \in SUBSET Jobs : Dispatched(chosen) /\ DispatchAll(chosen)  BY DEF Tick
<1>2. /\ ~ticking /\ ticking' = TRUE /\ active' = active \cup chosen /\ chosen \subseteq Jobs
      /\ UNCHANGED <<due, call, unload, unrecorded>>
  BY <1>1 DEF Tick, DispatchAll
<1>3. PICK first \in [chosen -> Fresh] :
        /\ \A i, j \in chosen : i # j => first[i] # first[j]
        /\ jobRun' = [r \in JobRuns |->
                   IF \E j \in chosen : first[j] = r
                   THEN Run("none", "create", CHOOSE j \in chosen : first[j] = r, "schedule")
                   ELSE jobRun[r]]
  BY <1>1 DEF DispatchAll
<1> DEFINE new == {r \in JobRuns : \E j \in chosen : first[j] = r}
           job(r) == CHOOSE j \in chosen : first[j] = r
<1>4. \A r \in new : job(r) \in chosen /\ first[job(r)] = r  OBVIOUS
<1>5. \A r \in new : jobRun'[r] = Run("none", "create", job(r), "schedule")  BY <1>3
<1>6. \A r \in JobRuns \ new : jobRun'[r] = jobRun[r]  BY <1>3
<1>7. \A j \in chosen : first[j] \in new /\ jobRun[first[j]].at = "none"
  BY DEF Fresh, JobRunAt
<1> HIDE DEF new, job
<1>8. new \subseteq JobRuns  BY DEF new
<1>9. \A r \in new : /\ jobRun'[r] \in RunRecords /\ jobRun'[r].at = "create" /\ jobRun'[r].job = job(r)
                     /\ jobRun'[r].row = "none"
  <2> TAKE r \in new
  <2>1. job(r) \in Jobs /\ jobRun'[r] = Run("none", "create", job(r), "schedule")
    BY <1>2, <1>4, <1>5
  <2>2. QED  BY <2>1 DEF Run, RunRecords, Steps
<1>10. \A j \in chosen : job(first[j]) = j
  <2> TAKE j \in chosen
  <2>1. job(first[j]) \in chosen /\ first[job(first[j])] = first[j]  BY <1>4, <1>7
  <2>2. QED  BY <1>3, <2>1
<1>11. jobRun \in [JobRuns -> RunRecords]  BY DEF IInv, TypesOK
<1>12. \A r \in JobRuns : jobRun'[r] \in RunRecords  BY <1>6, <1>9, <1>11
<1>13. TypesOK'
  <2>1. jobRun' \in [JobRuns -> RunRecords]  BY <1>3, <1>12
  <2>2. QED  BY <1>2, <2>1 DEF IInv, TypesOK
<1>14. TicksOK'  BY <1>2 DEF TicksOK
<1>15. DispatchesDoNotOverlap'
  <2> SUFFICES ASSUME NEW q \in JobRuns, NEW r \in JobRuns, q # r, Scheduled(jobRun'[q]), Scheduled(jobRun'[r])
               PROVE  jobRun'[q].job # jobRun'[r].job
    BY DEF DispatchesDoNotOverlap, InFlight, Scheduled
  <2>1. \A o \in JobRuns : ~Scheduled(jobRun[o])  BY <1>2 DEF IInv, TicksOK
  <2>2. q \in new /\ r \in new  BY <1>6, <2>1
  <2>3. QED  BY <1>4, <1>9, <2>2
<1>16. HeldOK'
  <2> SUFFICES ASSUME NEW j \in active' PROVE \E q \in JobRuns : Holds(jobRun'[q]) /\ jobRun'[q].job = j
    BY DEF HeldOK, Holds
  <2>1. CASE j \in chosen
    <3>1. first[j] \in JobRuns /\ jobRun'[first[j]].at = "create" /\ jobRun'[first[j]].job = j
      BY <1>7, <1>8, <1>9, <1>10, <2>1
    <3>2. QED  BY <3>1 DEF Holds
  <2>2. CASE j \in active
    <3>1. PICK q \in JobRuns : Holds(jobRun[q]) /\ jobRun[q].job = j  BY <2>2 DEF IInv, HeldOK
    <3>2. q \notin new  BY <1>4, <1>7, <3>1 DEF Holds
    <3>3. QED  BY <1>6, <3>1, <3>2
  <2>3. QED  BY <1>2, <2>1, <2>2
<1>17. RowsOK'  BY <1>2, <1>6, <1>9 DEF IInv, RowsOK, RowOK
<1>18. QED  BY <1>13, <1>14, <1>15, <1>16, <1>17 DEF IInv

LEMMA CreateRunInv ==
  ASSUME IInv, NEW r \in JobRuns, CreateRun(r)
  PROVE  IInv'
<1>1. /\ jobRun[r] \in RunRecords
      /\ RowOK(jobRun[r]) \/ r \in unrecorded
      /\ due \subseteq Jobs /\ \A q \in JobRuns : Scheduled(jobRun[q]) => ticking
  BY DEF IInv, TypesOK, RowsOK, TicksOK
<1>2. jobRun[r].at = "create" /\ InFlight(r) /\ UNCHANGED <<due, ticking, call, unload, unrecorded>>
  BY DEF CreateRun, JobRunAt, InFlight
<1> DEFINE h == [jobRun[r] EXCEPT !.row = "queued", !.at = "mark"]
           g == [jobRun[r] EXCEPT !.at = "advance"]
<1>3. /\ h \in RunRecords /\ h.job = jobRun[r].job /\ h.trigger = jobRun[r].trigger /\ h.at = "mark"
      /\ g \in RunRecords /\ g.job = jobRun[r].job /\ g.trigger = jobRun[r].trigger
      /\ g.at = "advance" /\ g.row = jobRun[r].row
  BY <1>1 DEF RunRecords, Steps
<1>4. \/ RunIs(r, h) /\ active' = active
      \/ RunIs(r, g) /\ active' = active \ {jobRun[r].job}
  BY DEF CreateRun, Fault, JobRunGo, RunIs
<1> HIDE DEF h, g
<1>5. CASE RunIs(r, h) /\ active' = active
  BY <1>2, <1>3, <1>5, RunGoes DEF Holds, RowOK
<1>6. CASE RunIs(r, g) /\ active' = active \ {jobRun[r].job}
  <2>1. RowOK(g) \/ r \in unrecorded  BY <1>1, <1>2, <1>3 DEF RowOK
  <2>2. Scheduled(g) => ticking'  BY <1>1, <1>2, <1>3 DEF Scheduled
  <2>3. QED  BY <1>1, <1>2, <1>3, <1>6, <2>1, <2>2, RunStep
<1>7. QED  BY <1>4, <1>5, <1>6

LEMMA MarkRunningInv ==
  ASSUME IInv, NEW r \in JobRuns, MarkRunning(r)
  PROVE  IInv'
<1>1. /\ jobRun[r] \in RunRecords
      /\ RowOK(jobRun[r]) \/ r \in unrecorded
      /\ due \subseteq Jobs /\ \A q \in JobRuns : Scheduled(jobRun[q]) => ticking
  BY DEF IInv, TypesOK, RowsOK, TicksOK
<1>2. /\ jobRun[r].at = "mark" /\ InFlight(r)
      /\ UNCHANGED <<due, active, ticking, call, unload, unrecorded>>
  BY DEF MarkRunning, JobRunAt, InFlight
<1> DEFINE h == [jobRun[r] EXCEPT !.row = "running", !.at = "call"]
           g == [jobRun[r] EXCEPT !.at = "failed"]
<1>3. /\ h \in RunRecords /\ h.job = jobRun[r].job /\ h.trigger = jobRun[r].trigger /\ h.at = "call"
      /\ g \in RunRecords /\ g.job = jobRun[r].job /\ g.trigger = jobRun[r].trigger /\ g.at = "failed"
  BY <1>1 DEF RunRecords, Steps
<1>4. RunIs(r, h) \/ RunIs(r, g)  BY DEF MarkRunning, Fault, JobRunGo, RunIs
<1> HIDE DEF h, g
<1>5. QED  BY <1>2, <1>3, <1>4, RunGoes DEF Holds, RowOK

\* The worker is called, or answers, or is late.
LEMMA CallInv ==
  ASSUME IInv, NEW r \in JobRuns, CallWorker(r) \/ Answered(r) \/ TimesOut(r)
  PROVE  IInv'
<1>1. /\ jobRun[r] \in RunRecords
      /\ RowOK(jobRun[r]) \/ r \in unrecorded
      /\ due \subseteq Jobs /\ \A q \in JobRuns : Scheduled(jobRun[q]) => ticking
  BY DEF IInv, TypesOK, RowsOK, TicksOK
<1>2. /\ InFlight(r) /\ UNCHANGED <<due, active, ticking, call, unload, unrecorded>>
  BY DEF CallWorker, Answered, TimesOut, JobRunAt, InFlight
<1>3. PICK at \in {"working", "succeeded", "failed"} : JobRunGo(r, at)
  BY DEF CallWorker, Answered, TimesOut
<1> DEFINE h == [jobRun[r] EXCEPT !.at = at]
<1>4. /\ h \in RunRecords /\ h.job = jobRun[r].job /\ h.trigger = jobRun[r].trigger /\ h.at = at
  BY <1>1 DEF RunRecords, Steps
<1>5. RunIs(r, h)  BY <1>3 DEF JobRunGo, RunIs
<1> HIDE DEF h
<1>6. QED  BY <1>2, <1>4, <1>5, RunGoes DEF Holds, RowOK

\* The job is freed with the last statement of the run, or with its failure.
LEMMA CompleteRunInv ==
  ASSUME IInv, NEW r \in JobRuns, CompleteRun(r)
  PROVE  IInv'
<1>1. /\ jobRun[r] \in RunRecords
      /\ RowOK(jobRun[r]) \/ r \in unrecorded
      /\ due \subseteq Jobs /\ \A q \in JobRuns : Scheduled(jobRun[q]) => ticking
  BY DEF IInv, TypesOK, RowsOK, TicksOK
<1>2. /\ jobRun[r].at \in {"succeeded", "failed"} /\ InFlight(r)
      /\ UNCHANGED <<due, ticking, call, unload>>
  BY DEF CompleteRun, InFlight
<1>3. CASE JobRunAt(r, "succeeded") /\ Fault(r, "failed") /\ UNCHANGED <<active, unrecorded>>
  <2> DEFINE h == [jobRun[r] EXCEPT !.at = "failed"]
  <2>1. /\ h \in RunRecords /\ h.job = jobRun[r].job /\ h.trigger = jobRun[r].trigger
        /\ h.at = "failed"
    BY <1>1 DEF RunRecords, Steps
  <2>2. RunIs(r, h)  BY <1>3 DEF Fault, JobRunGo, RunIs
  <2> HIDE DEF h
  <2>3. QED  BY <1>2, <1>3, <2>1, <2>2, RunGoes DEF Holds, RowOK
<1>4. ASSUME NEW row \in {"none", "queued", "running"} \cup Final, ReleaseJob(r, row),
             unrecorded \subseteq unrecorded', row \in Final \/ r \in unrecorded'
      PROVE  IInv'
  <2> DEFINE at == IF jobRun[r].trigger = "schedule" THEN "advance" ELSE "done"
             h == [jobRun[r] EXCEPT !.row = row, !.at = at]
  <2>1. at \in {"advance", "done"} /\ at \in Steps  BY DEF Steps
  <2>2. RunIs(r, h) /\ active' = active \ {jobRun[r].job}  BY <1>4 DEF ReleaseJob, RunIs
  <2> HIDE DEF at
  <2>3. /\ h \in RunRecords /\ h.job = jobRun[r].job /\ h.trigger = jobRun[r].trigger
        /\ h.at = at /\ h.row = row
    BY <1>1, <2>1 DEF RunRecords
  <2> HIDE DEF h
  <2>4. RowOK(h) \/ r \in unrecorded'  BY <1>4, <2>3 DEF RowOK
  <2>5. Scheduled(h) => ticking'  BY <1>1, <1>2, <2>3 DEF Scheduled
  <2>6. QED  BY <1>1, <1>2, <1>4, <2>2, <2>3, <2>4, <2>5, RunStep
<1>5. CASE ReleaseJob(r, jobRun[r].at) /\ UNCHANGED unrecorded
  BY <1>2, <1>4, <1>5 DEF Final
<1>6. CASE ReleaseJob(r, jobRun[r].row) /\ unrecorded' = unrecorded \cup {r}
  BY <1>1, <1>4, <1>6 DEF RunRecords
<1>7. QED  BY <1>3, <1>5, <1>6 DEF CompleteRun

\* The tick ends with the last run that it waits for.
LEMMA AdvanceInv ==
  ASSUME IInv, NEW r \in JobRuns, Advance(r)
  PROVE  IInv'
<1>1. /\ jobRun[r] \in RunRecords
      /\ RowOK(jobRun[r]) \/ r \in unrecorded
      /\ due \subseteq Jobs /\ \A q \in JobRuns : Scheduled(jobRun[q]) => ticking
  BY DEF IInv, TypesOK, RowsOK, TicksOK
<1>2. /\ jobRun[r].at = "advance" /\ InFlight(r) /\ due' \subseteq Jobs
      /\ UNCHANGED <<active, call, unload, unrecorded>> /\ JobRunGo(r, "done")
      /\ ticking' = (\E q \in JobRuns \ {r} : InFlight(q) /\ jobRun[q].trigger = "schedule")
  BY <1>1 DEF Advance, JobRunAt, InFlight
<1> DEFINE h == [jobRun[r] EXCEPT !.at = "done"]
<1>3. /\ h \in RunRecords /\ h.job = jobRun[r].job /\ h.trigger = jobRun[r].trigger
      /\ h.at = "done" /\ h.row = jobRun[r].row
  BY <1>1 DEF RunRecords, Steps
<1>4. RunIs(r, h)  BY <1>2 DEF JobRunGo, RunIs
<1> HIDE DEF h
<1>5. RowOK(h) \/ r \in unrecorded  BY <1>1, <1>2, <1>3 DEF RowOK
<1>6. \A q \in JobRuns \ {r} : Scheduled(jobRun[q]) => ticking'  BY <1>2 DEF Scheduled, InFlight
<1>7. ~Scheduled(h) /\ ~Holds(jobRun[r])  BY <1>2, <1>3 DEF Scheduled, Holds
<1>8. QED  BY <1>1, <1>2, <1>3, <1>4, <1>5, <1>6, <1>7, RunStep

\* A manual run takes a place that is free, and its job is active from then on.
LEMMA CreateManualRunInv ==
  ASSUME IInv, NEW c \in Callers, CreateManualRun(c)
  PROVE  IInv'
<1>1. /\ call \in [Callers -> [at : {"idle", "query", "create"}, job : Jobs \cup {NoJob}]]
      /\ jobRun \in [JobRuns -> RunRecords]
      /\ call' = [call EXCEPT ![c] = NoCall] /\ UNCHANGED <<due, ticking, unload, unrecorded>>
  BY DEF IInv, TypesOK, CreateManualRun
<1>2. call' \in [Callers -> [at : {"idle", "query", "create"}, job : Jobs \cup {NoJob}]]
  BY <1>1 DEF NoCall
<1>3. CASE UNCHANGED <<active, jobRun>>
  <2>1. TypesOK'  BY <1>1, <1>2, <1>3 DEF IInv, TypesOK
  <2>2. QED  BY <1>1, <1>3, <2>1, OtherStep
<1>4. ASSUME NEW r \in Fresh, jobRun' = [jobRun EXCEPT ![r] = Run("queued", "mark", call[c].job, "manual")],
             active' = active \cup {call[c].job}
      PROVE  IInv'
  <2> DEFINE h == Run("queued", "mark", call[c].job, "manual")
  <2>1. r \in JobRuns /\ jobRun[r].at = "none" /\ call[c].job \in Jobs \cup {NoJob}
    BY <1>1 DEF Fresh, JobRunAt
  <2>2. h \in RunRecords /\ h.at = "mark" /\ h.job = call[c].job /\ h.trigger = "manual"
    BY <2>1 DEF Run, RunRecords, Steps
  <2> HIDE DEF h
  <2>3. /\ jobRun' \in [JobRuns -> RunRecords] /\ jobRun'[r] = h
        /\ \A q \in JobRuns : q # r => jobRun'[q] = jobRun[q]
    BY <1>1, <1>4, <2>1, <2>2 DEF h
  <2>4. TypesOK'  BY <1>1, <1>2, <2>3 DEF IInv, TypesOK
  <2>5. TicksOK'  BY <1>1, <2>2, <2>3 DEF IInv, TicksOK, Scheduled
  <2>6. DispatchesDoNotOverlap'
    BY <2>2, <2>3 DEF IInv, DispatchesDoNotOverlap, InFlight
  <2>7. HeldOK'
    <3> SUFFICES ASSUME NEW j \in active' PROVE \E q \in JobRuns : Holds(jobRun'[q]) /\ jobRun'[q].job = j
      BY DEF HeldOK, Holds
    <3>1. CASE j = call[c].job  BY <2>1, <2>2, <2>3, <3>1 DEF Holds
    <3>2. CASE j \in active
      <4>1. PICK q \in JobRuns : Holds(jobRun[q]) /\ jobRun[q].job = j  BY <3>2 DEF IInv, HeldOK
      <4>2. QED  BY <2>1, <2>3, <4>1 DEF Holds
    <3>3. QED  BY <1>4, <3>1, <3>2
  <2>8. RowsOK'  BY <1>1, <2>2, <2>3 DEF IInv, RowsOK, RowOK
  <2>9. QED  BY <2>4, <2>5, <2>6, <2>7, <2>8 DEF IInv
<1>5. QED  BY <1>3, <1>4 DEF CreateManualRun

\* unregisterPlugin writes rows of runs that go on, and makes none of them unsettled.
LEMMA CancelRunInv ==
  ASSUME IInv, CancelRun
  PROVE  IInv'
<1>1. PICK r \in unload.rows :
        /\ jobRun' = [jobRun EXCEPT ![r].row = "cancelled"]
        /\ unload' = [unload EXCEPT !.rows = @ \ {r}]
  BY DEF CancelRun
<1>2. /\ jobRun \in [JobRuns -> RunRecords] /\ r \in JobRuns /\ unload.rows \subseteq JobRuns
      /\ UNCHANGED <<due, active, ticking, call, unrecorded>>
  BY <1>1 DEF IInv, TypesOK, CancelRun
<1> DEFINE h == [jobRun[r] EXCEPT !.row = "cancelled"]
<1>3. /\ h \in RunRecords /\ h.at = jobRun[r].at /\ h.job = jobRun[r].job
      /\ h.trigger = jobRun[r].trigger /\ h.row = "cancelled"
  BY <1>2 DEF RunRecords, Final
<1>4. jobRun' = [jobRun EXCEPT ![r] = h]  BY <1>1
<1> HIDE DEF h
<1>5. /\ jobRun' \in [JobRuns -> RunRecords] /\ jobRun'[r] = h
      /\ \A q \in JobRuns : q # r => jobRun'[q] = jobRun[q]
  BY <1>2, <1>3, <1>4
<1>6. \A q \in JobRuns : /\ jobRun'[q].at = jobRun[q].at /\ jobRun'[q].job = jobRun[q].job
                         /\ jobRun'[q].trigger = jobRun[q].trigger
  BY <1>3, <1>5
<1>7. TypesOK'
  <2>1. unload'.rows \subseteq JobRuns
    <3>1. CASE unload' = unload  BY <1>2, <3>1
    <3>2. CASE unload' # unload  BY <1>1, <1>2, <3>2
    <3>3. QED  BY <3>1, <3>2
  <2>2. QED  BY <1>2, <1>5, <2>1 DEF IInv, TypesOK
<1>8. TicksOK'  BY <1>2, <1>6 DEF IInv, TicksOK, Scheduled
<1>9. DispatchesDoNotOverlap'  BY <1>6 DEF IInv, DispatchesDoNotOverlap, InFlight
<1>10. HeldOK'  BY <1>2, <1>6 DEF IInv, HeldOK, Holds
<1>11. RowsOK'  BY <1>2, <1>3, <1>5 DEF IInv, RowsOK, RowOK, Final
<1>12. QED  BY <1>7, <1>8, <1>9, <1>10, <1>11 DEF IInv

\* The worker stops: its calls are answered, and their runs go on to their failure.
LEMMA WorkerStopsInv ==
  ASSUME IInv, WorkerStops
  PROVE  IInv'
<1>1. /\ jobRun \in [JobRuns -> RunRecords] /\ UNCHANGED <<due, active, ticking, call, unload, unrecorded>>
      /\ jobRun' = [r \in JobRuns |-> IF JobRunAt(r, "working") THEN [jobRun[r] EXCEPT !.at = "failed"]
                                      ELSE jobRun[r]]
  BY DEF IInv, TypesOK, WorkerStops
<1>2. \A r \in JobRuns : /\ jobRun'[r] \in RunRecords
                         /\ jobRun'[r].job = jobRun[r].job /\ jobRun'[r].trigger = jobRun[r].trigger
                         /\ jobRun'[r].row = jobRun[r].row
                         /\ \/ jobRun'[r].at = jobRun[r].at
                            \/ jobRun[r].at = "working" /\ jobRun'[r].at = "failed"
  <2> TAKE r \in JobRuns
  <2>1. CASE JobRunAt(r, "working")
    <3>1. jobRun'[r] = [jobRun[r] EXCEPT !.at = "failed"] /\ jobRun[r] \in RunRecords  BY <1>1, <2>1
    <3>2. QED  BY <2>1, <3>1 DEF RunRecords, Steps, JobRunAt
  <2>2. CASE ~JobRunAt(r, "working")  BY <1>1, <2>2
  <2>3. QED  BY <2>1, <2>2
<1>3. TypesOK'
  <2>1. jobRun' \in [JobRuns -> RunRecords]  BY <1>1, <1>2
  <2>2. QED  BY <1>1, <2>1 DEF IInv, TypesOK
<1>4. TicksOK'  BY <1>1, <1>2 DEF IInv, TicksOK, Scheduled
<1>5. DispatchesDoNotOverlap'  BY <1>2 DEF IInv, DispatchesDoNotOverlap, InFlight
<1>6. HeldOK'
  <2> SUFFICES ASSUME NEW j \in active' PROVE \E q \in JobRuns : Holds(jobRun'[q]) /\ jobRun'[q].job = j
    BY DEF HeldOK, Holds
  <2>1. PICK q \in JobRuns : Holds(jobRun[q]) /\ jobRun[q].job = j  BY <1>1 DEF IInv, HeldOK
  <2>2. QED  BY <1>2, <2>1 DEF Holds
<1>7. RowsOK'  BY <1>1, <1>2 DEF IInv, RowsOK, RowOK
<1>8. QED  BY <1>3, <1>4, <1>5, <1>6, <1>7 DEF IInv

\* A crash: no run is in flight any more, and no job is active.
LEMMA CrashInv ==
  ASSUME IInv, HostCrash
  PROVE  IInv'
<1>1. /\ jobRun \in [JobRuns -> RunRecords] /\ active' = {} /\ UNCHANGED <<due, unrecorded>>
      /\ jobRun' = [r \in JobRuns |-> IF InFlight(r) THEN [jobRun[r] EXCEPT !.at = "lost"] ELSE jobRun[r]]
      /\ call' = [c \in Callers |-> NoCall] /\ unload' = NoUnload
  BY DEF IInv, TypesOK, HostCrash
<1>2. \A r \in JobRuns : /\ jobRun'[r] \in RunRecords
                         /\ jobRun'[r].at \in {"none", "done", "lost"}
                         /\ jobRun'[r] = jobRun[r] \/ jobRun'[r].at = "lost"
  <2> TAKE r \in JobRuns
  <2>1. CASE InFlight(r)
    <3>1. jobRun'[r] = [jobRun[r] EXCEPT !.at = "lost"] /\ jobRun[r] \in RunRecords  BY <1>1, <2>1
    <3>2. QED  BY <3>1 DEF RunRecords, Steps
  <2>2. CASE ~InFlight(r)  BY <1>1, <2>2 DEF InFlight
  <2>3. QED  BY <2>1, <2>2
<1>3. TypesOK'
  <2>1. jobRun' \in [JobRuns -> RunRecords]  BY <1>1, <1>2
  <2>2. call' \in [Callers -> [at : {"idle", "query", "create"}, job : Jobs \cup {NoJob}]]
    BY <1>1 DEF NoCall
  <2>3. unload'.rows \subseteq JobRuns  BY <1>1 DEF NoUnload
  <2>4. QED  BY <1>1, <2>1, <2>2, <2>3 DEF IInv, TypesOK
<1>4. TicksOK'  BY <1>2 DEF TicksOK, Scheduled
<1>5. DispatchesDoNotOverlap'  BY <1>2 DEF DispatchesDoNotOverlap, InFlight
<1>6. HeldOK'  BY <1>1 DEF HeldOK
<1>7. RowsOK'  BY <1>1, <1>2 DEF IInv, RowsOK, RowOK
<1>8. QED  BY <1>3, <1>4, <1>5, <1>6, <1>7 DEF IInv

\* What no run takes part in.
LEMMA OtherInv ==
  ASSUME IInv,
         \/ \E j \in Jobs : BecomeDue(j) \/ EnsureNextRun(j)
         \/ \E r \in JobRuns : LateEnd(r)
         \/ \E c \in Callers : QueryRuns(c)
         \/ \E c \in Callers, j \in Jobs : Trigger(c, j)
         \/ SelectRuns \/ ForgetActive \/ WorkerStarts
  PROVE  IInv'
<1>1. /\ jobRun' = jobRun /\ active' \subseteq active /\ UNCHANGED <<unrecorded, ticking>>
  BY DEF LateEnd, BecomeDue, EnsureNextRun, QueryRuns, Trigger, SelectRuns, ForgetActive, WorkerStarts
<1>2. due' \subseteq Jobs
  BY DEF IInv, TypesOK, LateEnd, BecomeDue, EnsureNextRun, QueryRuns, Trigger, SelectRuns,
    ForgetActive, WorkerStarts
<1>3. call' \in [Callers -> [at : {"idle", "query", "create"}, job : Jobs \cup {NoJob}]]
  <2>1. call \in [Callers -> [at : {"idle", "query", "create"}, job : Jobs \cup {NoJob}]]
    BY DEF IInv, TypesOK
  <2>2. ASSUME NEW c \in Callers, QueryRuns(c)
        PROVE call' \in [Callers -> [at : {"idle", "query", "create"}, job : Jobs \cup {NoJob}]]
    <3>1. call' = [call EXCEPT ![c] = [call[c] EXCEPT !.at = "create"]] \/ call' = [call EXCEPT ![c] = NoCall]
      BY <2>2 DEF QueryRuns
    <3>2. QED  BY <2>1, <3>1 DEF NoCall
  <2>3. ASSUME NEW c \in Callers, NEW j \in Jobs, Trigger(c, j)
        PROVE call' \in [Callers -> [at : {"idle", "query", "create"}, job : Jobs \cup {NoJob}]]
    BY <2>1, <2>3 DEF Trigger
  <2>4. QED
    BY <2>1, <2>2, <2>3 DEF LateEnd, BecomeDue, EnsureNextRun, SelectRuns, ForgetActive, WorkerStarts
<1>4. unload'.rows \subseteq JobRuns
  BY DEF IInv, TypesOK, LateEnd, BecomeDue, EnsureNextRun, QueryRuns, Trigger, SelectRuns,
    ForgetActive, WorkerStarts, NoUnload
<1>5. TypesOK'  BY <1>1, <1>2, <1>3, <1>4 DEF IInv, TypesOK
<1>6. QED  BY <1>1, <1>5, OtherStep

-----------------------------------------------------------------------------
\* Every step keeps the invariant.
LEMMA StepInv == ASSUME IInv, [JobsNext]_jobVars PROVE IInv'
<1>1. CASE UNCHANGED jobVars
  <2>1. UNCHANGED <<due, active, ticking, jobRun, call, unload, unrecorded>>  BY <1>1 DEF jobVars
  <2>2. TypesOK'  BY <2>1 DEF IInv, TypesOK
  <2>3. QED  BY <2>1, <2>2, OtherStep
<1>2. CASE JobsNext
  BY <1>2, TickInv, CreateRunInv, MarkRunningInv, CallInv, CompleteRunInv, AdvanceInv,
    CreateManualRunInv, CancelRunInv, WorkerStopsInv, CrashInv, OtherInv DEF JobsNext
<1>3. QED  BY <1>1, <1>2

\* The invariant holds in every reachable state.
LEMMA Invariance == JobsSpec => []IInv
<1>1. JobsInit => IInv  BY InitInv
<1>2. IInv /\ [JobsNext]_jobVars => IInv'  BY StepInv
<1>3. QED  BY <1>1, <1>2, PTL DEF JobsSpec

\* For any jobs, limits, callers and failures, no schedule has two dispatches of one
\* job in flight, although unregisterPlugin forgets which jobs are active, and so two
\* of its runs are in the worker together only where the call of one has timed out.
THEOREM SchedulesDoNotOverlap == JobsSpec => []ScheduledRunsDoNotOverlap
<1>1. IInv => ScheduledRunsDoNotOverlap
  <2> SUFFICES ASSUME DispatchesDoNotOverlap PROVE ScheduledRunsDoNotOverlap  BY DEF IInv
  <2>1. \A r \in JobRuns : AtWork(r) => InFlight(r) \/ r \in late  BY DEF AtWork, JobRunAt, InFlight
  <2>2. QED  BY <2>1 DEF DispatchesDoNotOverlap, ScheduledRunsDoNotOverlap
<1>2. QED  BY <1>1, Invariance, PTL

\* However its run ends, a job is freed by it, and the row of a run that is done does
\* not say that it is running, unless its failure could not be stored.
THEOREM RunsReleaseTheirJobs == JobsSpec => []JobsAreReleased
<1>1. IInv => JobsAreReleased
  BY DEF IInv, HeldOK, Holds, InFlight, RowsOK, RowOK, JobRunAt, JobsAreReleased
<1>2. QED  BY <1>1, Invariance, PTL

-----------------------------------------------------------------------------
(* Types *)

\* A call in flight names its job.
CallsOK == \A c \in Callers : call[c].at # "idle" => call[c].job \in Jobs
MishapsOK ==
    /\ mishaps \in [DOMAIN Bounds -> Nat]
    /\ \A b \in DOMAIN Bounds : mishaps[b] <= Bounds[b]
FlagsOK == ticking \in BOOLEAN /\ up \in BOOLEAN
HistoryOK == late \subseteq JobRuns /\ unrecorded \subseteq JobRuns
\* The inductive invariant of the types, with the one above.
JobsTyped ==
    IInv /\ CallsOK /\ MishapsOK /\ FlagsOK /\ active \subseteq Jobs /\ HistoryOK

\* The bounds, and what a mishap costs.
LEMMA BoundsAreNumbers ==
  ASSUME PluginJobsAssumption
  PROVE  /\ DOMAIN Bounds = {"faults", "outages", "unloads", "crashes"}
         /\ \A b \in DOMAIN Bounds : Bounds[b] \in Nat
BY DEF Bounds, PluginJobsAssumption

LEMMA SpendTyped ==
  ASSUME PluginJobsAssumption, MishapsOK, NEW b \in DOMAIN Bounds, Spend(b)
  PROVE  MishapsOK'
<1>1. \A c \in DOMAIN Bounds : mishaps[c] \in Nat /\ Bounds[c] \in Nat  BY BoundsAreNumbers DEF MishapsOK
<1>2. mishaps[b] < Bounds[b] /\ mishaps' = [mishaps EXCEPT ![b] = mishaps[b] + 1]  BY DEF Spend
<1>3. mishaps[b] + 1 \in Nat /\ mishaps[b] + 1 <= Bounds[b]  BY <1>1, <1>2
<1>4. mishaps' \in [DOMAIN Bounds -> Nat]  BY <1>2, <1>3 DEF MishapsOK
<1>5. \A c \in DOMAIN Bounds : mishaps'[c] = IF c = b THEN mishaps[b] + 1 ELSE mishaps[c]
  BY <1>2 DEF MishapsOK
<1>6. \A c \in DOMAIN Bounds : mishaps'[c] <= Bounds'[c]  BY <1>3, <1>5 DEF MishapsOK, Bounds
<1>7. QED  BY <1>4, <1>6 DEF MishapsOK, Bounds

\* No mishap happens more often than its bound.
LEMMA MishapsStep ==
  ASSUME PluginJobsAssumption, MishapsOK, [JobsNext]_jobVars
  PROVE  MishapsOK'
<1>1. \/ UNCHANGED mishaps
      \/ \E b \in {"faults", "outages", "unloads", "crashes"} : Spend(b)
  BY DEF JobsNext, jobVars, Tick, BecomeDue, EnsureNextRun, CreateRun, Fault, MarkRunning, CallWorker, Answered,
    TimesOut, LateEnd, CompleteRun, Advance, QueryRuns, CreateManualRun, Trigger, SelectRuns, CancelRun, ForgetActive,
    WorkerStops, WorkerStarts, HostCrash
<1>2. CASE UNCHANGED mishaps  BY <1>2 DEF MishapsOK, Bounds
<1>3. QED  BY <1>1, <1>2, SpendTyped, BoundsAreNumbers

\* The flags, the active jobs, the calls and what could not be stored.
LEMMA FlagsStep ==
  ASSUME JobsTyped, [JobsNext]_jobVars
  PROVE  FlagsOK' /\ active' \subseteq Jobs /\ CallsOK' /\ HistoryOK'
<1>1. /\ FlagsOK /\ active \subseteq Jobs /\ due \subseteq Jobs /\ CallsOK /\ HistoryOK
      /\ call \in [Callers -> [at : {"idle", "query", "create"}, job : Jobs \cup {NoJob}]]
  BY DEF JobsTyped, IInv, TypesOK
<1>2. CASE UNCHANGED jobVars  BY <1>1, <1>2 DEF jobVars, FlagsOK, CallsOK, HistoryOK
<1>3. CASE Tick
  <2>1. PICK chosen \in SUBSET Jobs : Dispatched(chosen) /\ DispatchAll(chosen)  BY <1>3 DEF Tick
  <2>2. active' \subseteq Jobs  BY <1>1, <2>1 DEF DispatchAll
  <2>3. QED  BY <1>1, <1>3, <2>2 DEF Tick, FlagsOK, CallsOK, HistoryOK
<1>4. CASE \E j \in Jobs : BecomeDue(j) \/ EnsureNextRun(j)
  BY <1>1, <1>4 DEF BecomeDue, EnsureNextRun, FlagsOK, CallsOK, HistoryOK
<1>5. ASSUME NEW r \in JobRuns, CreateRun(r) \/ MarkRunning(r) \/ CallWorker(r) \/ Answered(r)
                        \/ TimesOut(r) \/ LateEnd(r) \/ CompleteRun(r)
      PROVE  FlagsOK' /\ active' \subseteq Jobs /\ CallsOK' /\ HistoryOK'
  <2>1. active' \subseteq active /\ UNCHANGED <<ticking, up, call>>
    BY <1>5 DEF CreateRun, MarkRunning, CallWorker, Answered, TimesOut, LateEnd, CompleteRun, ReleaseJob
  <2>2. HistoryOK'
    BY <1>1, <1>5 DEF HistoryOK, CreateRun, MarkRunning, CallWorker, Answered, TimesOut, LateEnd, CompleteRun
  <2>3. QED  BY <1>1, <2>1, <2>2 DEF FlagsOK, CallsOK, HistoryOK
<1>6. ASSUME NEW r \in JobRuns, Advance(r)
      PROVE  FlagsOK' /\ active' \subseteq Jobs /\ CallsOK' /\ HistoryOK'
  BY <1>1, <1>6 DEF Advance, FlagsOK, CallsOK, HistoryOK
<1>7. ASSUME NEW c \in Callers, QueryRuns(c)
      PROVE  FlagsOK' /\ active' \subseteq Jobs /\ CallsOK' /\ HistoryOK'
  <2>1. call' = [call EXCEPT ![c] = [call[c] EXCEPT !.at = "create"]] \/ call' = [call EXCEPT ![c] = NoCall]
    BY <1>7 DEF QueryRuns
  <2>2. call[c].at = "query"  BY <1>7 DEF QueryRuns
  <2>3. CallsOK'  BY <1>1, <2>1, <2>2 DEF CallsOK, NoCall
  <2>4. QED  BY <1>1, <1>7, <2>3 DEF QueryRuns, FlagsOK, HistoryOK
<1>8. ASSUME NEW c \in Callers, CreateManualRun(c)
      PROVE  FlagsOK' /\ active' \subseteq Jobs /\ CallsOK' /\ HistoryOK'
  <2>1. call[c].job \in Jobs  BY <1>1, <1>8 DEF CreateManualRun, CallsOK
  <2>2. active' \subseteq Jobs  BY <1>1, <1>8, <2>1 DEF CreateManualRun
  <2>3. CallsOK'  BY <1>1, <1>8 DEF CreateManualRun, CallsOK, NoCall
  <2>4. QED  BY <1>1, <1>8, <2>2, <2>3 DEF CreateManualRun, FlagsOK, HistoryOK
<1>9. ASSUME NEW c \in Callers, NEW j \in Jobs, Trigger(c, j)
      PROVE  FlagsOK' /\ active' \subseteq Jobs /\ CallsOK' /\ HistoryOK'
  BY <1>1, <1>9 DEF Trigger, FlagsOK, CallsOK, HistoryOK
<1>10. CASE SelectRuns \/ CancelRun \/ ForgetActive \/ WorkerStops \/ WorkerStarts
  BY <1>1, <1>10 DEF SelectRuns, CancelRun, ForgetActive, WorkerStops, WorkerStarts, FlagsOK, CallsOK, HistoryOK
<1>11. CASE HostCrash  BY <1>1, <1>11 DEF HostCrash, FlagsOK, CallsOK, HistoryOK, NoCall
<1>12. QED
  BY <1>2, <1>3, <1>4, <1>5, <1>6, <1>7, <1>8, <1>9, <1>10, <1>11 DEF JobsNext

\* For any jobs, limits, callers and failures, every variable of the scheduler holds a
\* value of its kind.
THEOREM JobsTypeCorrect == ASSUME PluginJobsAssumption PROVE JobsSpec => []JobsTypeOK
<1>1. JobsInit => JobsTyped
  <2> SUFFICES ASSUME JobsInit PROVE JobsTyped  OBVIOUS
  <2>1. IInv  BY InitInv
  <2>2. CallsOK  BY DEF JobsInit, CallsOK, NoCall
  <2>3. MishapsOK  BY BoundsAreNumbers DEF JobsInit, MishapsOK
  <2>4. QED  BY <2>1, <2>2, <2>3 DEF JobsInit, JobsTyped, FlagsOK, HistoryOK
<1>2. JobsTyped /\ [JobsNext]_jobVars => JobsTyped'  BY StepInv, MishapsStep, FlagsStep DEF JobsTyped
<1>3. JobsTyped => JobsTypeOK  BY DEF JobsTyped, JobsTypeOK, IInv, TypesOK, FlagsOK, MishapsOK, HistoryOK
<1>4. QED  BY <1>1, <1>2, <1>3, PTL DEF JobsSpec

(***************************************************************************)
(* PluginWorkers: types                                                    *)
(***************************************************************************)

HandleRecords == [status : WorkerStatuses, child : 0..MaxProcs, intentional : BOOLEAN,
                  crashes : 0..MaxConsecutiveCrashes + 1, timer : BOOLEAN]
ProcRecords == [state : {"none", "up", "leaving", "killed"}, of : 0..MaxHandles]
WorkerPCs == {"idle", "start", "wait", "init", "initFailed", "killing", "drain", "term", "kill",
              "setStopped", "returned", "read", "write", "unload", "download", "mark", "load"}
WorkerOps == {"none", "boot", "install", "enable", "disable", "unload", "upgrade", "restart", "markError"}
TaskRecords == [pc : WorkerPCs, op : WorkerOps, read : PluginStatuses \cup {"none"},
                to : PluginStatuses \cup {"none"}, h : 0..MaxHandles, child : 0..MaxProcs]
Stopping == {"drain", "term", "kill"}
WithChild == {"init", "killing"} \cup Stopping
WithHandle == WithChild \cup Immediate

\* The requests that end in a write of the row, once the worker is off.
WillWrite(k) ==
    \/ k.pc \in Stopping \cup {"setStopped", "returned", "unload"} /\ k.op \notin {"upgrade", "restart"}
    \/ k.pc \in {"read", "write"}

\* A task at one of the steps of a handle names it, and one that will write the row
\* names the status.
WellFormed(k) ==
    /\ k \in TaskRecords
    /\ k.pc \in WithHandle => k.h # 0
    /\ k.pc = "unload" => k.op # "restart"
    /\ WillWrite(k) => k.to \in PluginStatuses
TimerPCs == {"idle", "init", "killing", "initFailed"}

\* A timer does not stop its handle.
TasksTyped ==
    /\ task \in [Threads -> TaskRecords]
    /\ \A t \in Threads : WellFormed(task[t])
    /\ \A h \in Handles : task[h].pc \in TimerPCs
HandlesTyped == handle \in [Handles -> HandleRecords]
\* A process has a handle,
ProcsTyped ==
    /\ proc \in [Procs -> ProcRecords]
    /\ \A p \in Alive : proc[p].of # 0
\* and the child of a handle is a process of its own.
ChildrenAlive ==
    \A h \in Handles : handle[h].child # 0 => handle[h].child \in Alive /\ proc[handle[h].child].of = h
WorkersTyped ==
    /\ plugin \in PluginStatuses /\ worker \in 0..MaxHandles /\ lock \in 0..MaxHandles
    /\ HandlesTyped /\ ProcsTyped /\ TasksTyped /\ ChildrenAlive

\* The initial states are well typed.
LEMMA WorkersTypedInit ==
  ASSUME WorkersAssumption, WorkersInit
  PROVE  WorkersTyped
<1>1. WellFormed(NoTask) /\ NoTask.pc = "idle"
  BY DEF WellFormed, WillWrite, NoTask, TaskRecords, WorkerPCs, WorkerOps, WithHandle, WithChild,
    Stopping, Immediate, WorkersAssumption
<1> DEFINE boot == [NoTask EXCEPT !.pc = "start", !.op = "boot"]
<1>0. boot \in TaskRecords /\ boot.pc = "start"
  <2>1. NoTask \in TaskRecords  BY <1>1 DEF WellFormed
  <2>2. boot.pc = "start"  BY DEF NoTask
  <2> QED  BY <2>1, <2>2 DEF TaskRecords, WorkerPCs, WorkerOps
<1>2. WellFormed(boot)
  <2> HIDE DEF boot
  <2> QED  BY <1>0 DEF WellFormed, WillWrite, WithHandle, WithChild, Stopping, Immediate
<1>3. NoHandle \in HandleRecords
  BY DEF NoHandle, HandleRecords, WorkerStatuses, WorkersAssumption
<1>4. NoProc \in ProcRecords /\ NoProc.state = "none"
  BY DEF NoProc, ProcRecords, WorkersAssumption
<1>5. plugin \in PluginStatuses  BY DEF WorkersInit, PluginStatuses, Valid
<1>6. handle \in [Handles -> HandleRecords]  BY <1>3 DEF WorkersInit
<1>7. proc \in [Procs -> ProcRecords] /\ Alive = {}  BY <1>4 DEF WorkersInit, Alive
<1>8. \A t \in Threads : task[t] \in {NoTask, boot} /\ (t \notin Operators => task[t] = NoTask)
  BY DEF WorkersInit
<1>9. task \in [Threads -> TaskRecords] /\ \A t \in Threads : WellFormed(task[t])
  <2>1. \E D : task = [t \in Threads |-> task[t]]  BY DEF WorkersInit
  <2>2. NoTask \in TaskRecords /\ boot \in TaskRecords  BY <1>1, <1>2 DEF WellFormed
  <2>3. QED  BY <2>1, <2>2, <1>8, <1>1, <1>2
<1>10. \A h \in Handles : task[h].pc \in TimerPCs
  <2> TAKE h \in Handles
  <2>1. h \in Threads /\ h \notin Operators  BY DEF Handles, Threads, WorkersAssumption
  <2>2. QED  BY <2>1, <1>8, <1>1 DEF TimerPCs
<1>11. worker \in 0..MaxHandles /\ lock \in 0..MaxHandles  BY DEF WorkersInit, WorkersAssumption
<1>12. ChildrenAlive  BY DEF WorkersInit, ChildrenAlive, NoHandle
<1> QED  BY <1>5, <1>6, <1>7, <1>9, <1>10, <1>11, <1>12 DEF WorkersTyped, TasksTyped, HandlesTyped, ProcsTyped

\* What Least chooses.
LEMMA LeastIn ==
  ASSUME NEW N \in Nat, NEW S \in SUBSET (1..N), S # {}
  PROVE  Least(S) \in S
<1> DEFINE Less == {s \in Nat \X Nat : s[1] < s[2]}
<1>1. IsWellFoundedOn(Less, Nat)  BY NatLessThanWellFounded DEF OpToRel
<1> HIDE DEF Less
<1>2. S \subseteq Nat  OBVIOUS
<1>3. PICK x \in S : \A y \in S : <<y, x>> \notin Less  BY <1>1, <1>2, WFMin
<1>4. \A y \in S : ~(y < x)  BY <1>2, <1>3 DEF Less
<1>5. \A y \in S : x <= y  BY <1>2, <1>4
<1>6. QED  BY <1>5 DEF Least

\* A thread is a request or the timer of a handle.
LEMMA OperatorsAreNoHandles ==
  ASSUME WorkersAssumption
  PROVE  /\ Operators \cap Handles = {} /\ Operators \subseteq Threads /\ Handles \subseteq Threads
         /\ Threads = Operators \cup Handles
BY DEF Handles, Threads, WorkersAssumption

\* One task changes.
LEMMA TaskTyped ==
  ASSUME TasksTyped, NEW t \in Threads, NEW k, WellFormed(k), t \in Handles => k.pc \in TimerPCs,
         task' = [task EXCEPT ![t] = k]
  PROVE  TasksTyped'
<1>1. /\ task'[t] = k /\ task' \in [Threads -> TaskRecords]
      /\ \A u \in Threads : u # t => task'[u] = task[u]
  BY DEF TasksTyped, WellFormed
<1>2. \A h \in Handles : h \in Threads  BY DEF Threads
<1> QED  BY <1>1, <1>2 DEF TasksTyped, WellFormed, WillWrite

\* A task goes on to its next step.
LEMMA MovedTyped ==
  ASSUME NEW k, WellFormed(k), NEW pc \in WorkerPCs, pc \in WithHandle => k.pc \in WithHandle,
         pc # "unload", WillWrite([k EXCEPT !.pc = pc]) => k.to \in PluginStatuses
  PROVE  WellFormed([k EXCEPT !.pc = pc]) /\ [k EXCEPT !.pc = pc].pc = pc
<1> DEFINE m == [k EXCEPT !.pc = pc]
<1>1. k \in TaskRecords  BY DEF WellFormed
<1>2. m.pc = pc /\ m.h = k.h /\ m.to = k.to /\ m \in TaskRecords  BY <1>1 DEF TaskRecords
<1> HIDE DEF m
<1>3. WellFormed(m)  BY <1>1, <1>2 DEF WellFormed, m
<1> QED  BY <1>2, <1>3 DEF m

\* The same for TaskGo and EndTask.
LEMMA GoTyped ==
  ASSUME TasksTyped, NEW t \in Threads, NEW pc \in WorkerPCs, TaskGo(t, pc),
         t \in Handles => pc \in TimerPCs, pc \in WithHandle => task[t].pc \in WithHandle,
         pc # "unload", WillWrite([task[t] EXCEPT !.pc = pc]) => task[t].to \in PluginStatuses
  PROVE  TasksTyped'
<1>1. WellFormed(task[t])  BY DEF TasksTyped
<1>2. WellFormed([task[t] EXCEPT !.pc = pc]) /\ [task[t] EXCEPT !.pc = pc].pc = pc  BY <1>1, MovedTyped
<1>3. task' = [task EXCEPT ![t] = [task[t] EXCEPT !.pc = pc]]  BY DEF TaskGo
<1> QED  BY <1>2, <1>3, TaskTyped

\* The task of an idle thread.
LEMMA NoTaskTyped ==
  ASSUME WorkersAssumption
  PROVE  WellFormed(NoTask) /\ NoTask.pc = "idle" /\ NoTask.h = 0 /\ NoTask.to = "none" /\ NoTask.op = "none"
BY DEF WellFormed, WillWrite, NoTask, TaskRecords, WorkerPCs, WorkerOps, WithHandle, WithChild,
    Stopping, Immediate, WorkersAssumption

LEMMA EndTyped ==
  ASSUME WorkersAssumption, TasksTyped, NEW t \in Threads, EndTask(t)
  PROVE  TasksTyped'
BY NoTaskTyped, TaskTyped DEF EndTask, TimerPCs

\* What follows once the worker is off.
LEMMA OfflineTyped ==
  ASSUME WorkersAssumption, NEW k \in TaskRecords, k.op # "upgrade" => k.to \in PluginStatuses
  PROVE  WellFormed(Offline(k)) /\ Offline(k).pc \in {"download", "write", "idle"}
<1> DEFINE d == [k EXCEPT !.pc = "download", !.h = 0, !.child = 0]
           w == [k EXCEPT !.pc = "write", !.h = 0, !.child = 0]
<1>0. 0 \in 0..MaxHandles /\ 0 \in 0..MaxProcs  BY DEF WorkersAssumption
<1>1. d \in TaskRecords /\ d.pc = "download" /\ w \in TaskRecords /\ w.pc = "write" /\ w.to = k.to
  <2>1. "download" \in WorkerPCs /\ "write" \in WorkerPCs  BY DEF WorkerPCs
  <2>2. d \in TaskRecords /\ w \in TaskRecords  BY <1>0, <2>1 DEF TaskRecords
  <2>3. d.pc = "download" /\ w.pc = "write" /\ w.to = k.to  BY DEF TaskRecords
  <2> QED  BY <2>2, <2>3
<1>2. Offline(k) = IF k.op = "upgrade" THEN d ELSE IF k.to \in Valid[k.read] THEN w ELSE NoTask
  BY DEF Offline
<1> HIDE DEF d, w
<1>3. WellFormed(d)
  BY <1>1 DEF WellFormed, WillWrite, WithHandle, WithChild, Stopping, Immediate
<1>4. k.op # "upgrade" => WellFormed(w)
  BY <1>1 DEF WellFormed, WillWrite, WithHandle, WithChild, Stopping, Immediate
<1> QED  BY <1>1, <1>2, <1>3, <1>4, NoTaskTyped

\* startInternal: a process that was free is the child of the handle.
LEMMA SpawnTyped ==
  ASSUME WorkersAssumption, WorkersTyped, NEW t \in Threads, NEW h \in Handles, NEW at \in TaskRecords,
         Spawn(t, h, at), UNCHANGED <<plugin, worker, lock>>
  PROVE  WorkersTyped'
<1> DEFINE p == Least(FreeProcs)
           k == [at EXCEPT !.pc = "init", !.h = h, !.child = p]
<1>1. p \in FreeProcs /\ p \in Procs /\ h # 0 /\ h \in 0..MaxHandles /\ p \in 0..MaxProcs
  <2>1. FreeProcs \in SUBSET (1..MaxProcs) /\ FreeProcs # {} /\ MaxProcs \in Nat
    BY DEF Spawn, FreeProcs, Procs, WorkersAssumption
  <2>2. p \in FreeProcs  BY <2>1, LeastIn
  <2> QED  BY <2>2 DEF FreeProcs, Procs, Handles, WorkersAssumption
<1>2. /\ proc' = [proc EXCEPT ![p] = [state |-> "up", of |-> h]]
      /\ handle' = [handle EXCEPT ![h].status = "starting", ![h].child = p,
                                    ![h].intentional = FALSE, ![h].timer = FALSE]
      /\ task' = [task EXCEPT ![t] = k]
  BY DEF Spawn
<1> HIDE DEF p
<1>3. ProcsTyped'
  BY <1>1, <1>2 DEF WorkersTyped, ProcsTyped, Alive, ProcRecords
<1>4. HandlesTyped'
  <2>1. handle[h] \in HandleRecords  BY DEF WorkersTyped, HandlesTyped
  <2>2. handle'[h] \in HandleRecords
    BY <1>1, <1>2, <2>1 DEF WorkersTyped, HandlesTyped, HandleRecords, WorkerStatuses
  <2>3. \A g \in Handles : g # h => handle'[g] = handle[g]  BY <1>2 DEF WorkersTyped, HandlesTyped
  <2>4. handle' = [g \in Handles |-> handle'[g]]  BY <1>2 DEF WorkersTyped, HandlesTyped
  <2> QED  BY <2>2, <2>3, <2>4 DEF WorkersTyped, HandlesTyped
<1>5. WellFormed(k) /\ k.pc = "init"
  <2>1. k \in TaskRecords /\ k.pc = "init" /\ k.h = h  BY <1>1 DEF TaskRecords, WorkerPCs
  <2> HIDE DEF k
  <2> QED  BY <1>1, <2>1 DEF WellFormed, WillWrite, Stopping
<1> HIDE DEF k
<1>6. TasksTyped'  BY <1>2, <1>5, TaskTyped DEF WorkersTyped, TimerPCs
<1>7. ChildrenAlive'
  <2>1. p \notin Alive  BY <1>1 DEF FreeProcs
  <2>2. \A q \in Procs : q # p => proc'[q] = proc[q]  BY <1>2 DEF WorkersTyped, ProcsTyped
  <2>3. proc'[p] = [state |-> "up", of |-> h]  BY <1>1, <1>2 DEF WorkersTyped, ProcsTyped
  <2>4. Alive' = Alive \cup {p}
    <3>1. \A q \in Procs : q \in Alive' <=> q \in Alive \/ q = p  BY <2>2, <2>3 DEF Alive
    <3>2. Alive' \subseteq Procs /\ Alive \subseteq Procs  BY DEF Alive
    <3> QED  BY <1>1, <3>1, <3>2
  <2>5. handle'[h].child = p /\ \A g \in Handles : g # h => handle'[g] = handle[g]
    BY <1>2 DEF WorkersTyped, HandlesTyped, HandleRecords
  <2>6. \A g \in Handles : g # h /\ handle'[g].child # 0 =>
          handle'[g].child \in Alive' /\ proc'[handle'[g].child].of = g
    BY <2>1, <2>2, <2>4, <2>5 DEF WorkersTyped, ChildrenAlive, Alive
  <2> QED  BY <2>3, <2>4, <2>5, <2>6 DEF ChildrenAlive
<1> QED  BY <1>2, <1>3, <1>4, <1>6, <1>7 DEF WorkersTyped

\* A step in which processes only change their state, and handles keep their child.
ProcsKept ==
    /\ proc' \in [Procs -> ProcRecords]
    /\ \A p \in Procs : proc'[p].of = proc[p].of /\ (proc[p].state = "none" <=> proc'[p].state = "none")
LEMMA KeptTyped ==
  ASSUME WorkersTyped, ProcsKept, \A h \in Handles : handle'[h].child = handle[h].child
  PROVE  ProcsTyped' /\ ChildrenAlive' /\ Alive' = Alive
<1>1. Alive' = Alive  BY DEF ProcsKept, Alive
<1>2. Alive \subseteq Procs  BY DEF Alive
<1> QED  BY <1>1, <1>2 DEF WorkersTyped, ProcsKept, ProcsTyped, ChildrenAlive

\* Told to go, or killed, a process stays alive.
LEMMA ToldTyped ==
  ASSUME WorkersTyped, NEW p \in Alive, NEW s \in {"up", "leaving", "killed"},
         proc' = [proc EXCEPT ![p].state = s]
  PROVE  ProcsKept
<1>1. p \in Procs /\ proc[p].state # "none"  BY DEF Alive
<1> QED  BY <1>1 DEF WorkersTyped, ProcsTyped, ProcsKept, ProcRecords

\* Nothing happens to the processes.
LEMMA SameProcs ==
  ASSUME WorkersTyped, proc' = proc
  PROVE  ProcsKept
BY DEF WorkersTyped, ProcsTyped, ProcsKept

\* stopInternal up to its first wait.
LEMMA StopTyped ==
  ASSUME WorkersAssumption, WorkersTyped, NEW t \in Operators, NEW h \in Handles, NEW at \in TaskRecords,
         at.op \notin {"upgrade", "restart"} => at.to \in PluginStatuses,
         BeginStop(t, h, at), UNCHANGED <<plugin, worker, lock>>
  PROVE  WorkersTyped'
<1> DEFINE child == handle[h].child
           over == handle[h].status \in {"stopped", "stopping"}
           k == [at EXCEPT !.h = h, !.child = child, !.pc = IF over \/ child = 0 THEN "returned" ELSE "drain"]
<1>1. handle[h] \in HandleRecords  BY DEF WorkersTyped, HandlesTyped
<1>2. child \in 0..MaxProcs /\ h \in 0..MaxHandles /\ h # 0  BY <1>1 DEF HandleRecords, Handles, WorkersAssumption
<1>3. /\ handle' = [handle EXCEPT ![h].timer = FALSE,
                        ![h].intentional = ~over \/ @,
                        ![h].status = IF over THEN @ ELSE IF child = 0 THEN "stopped" ELSE "stopping"]
      /\ task' = [task EXCEPT ![t] = k]
      /\ proc' = IF over \/ child = 0 THEN proc
                   ELSE [proc EXCEPT ![child].state = IF @ = "up" THEN "leaving" ELSE @]
  BY DEF BeginStop, StopHandle
<1>4. HandlesTyped'
  <2>1. handle'[h] \in HandleRecords
     BY <1>1, <1>3 DEF WorkersTyped, HandlesTyped, HandleRecords, WorkerStatuses
  <2>2. \A g \in Handles : g # h => handle'[g] = handle[g]  BY <1>3 DEF WorkersTyped, HandlesTyped
  <2>3. handle' = [g \in Handles |-> handle'[g]]  BY <1>3 DEF WorkersTyped, HandlesTyped
  <2> QED  BY <2>1, <2>2, <2>3 DEF WorkersTyped, HandlesTyped
<1>5. ProcsTyped' /\ ChildrenAlive'
  <2>1. CASE over \/ child = 0
    <3>1. ProcsKept  BY <1>3, <2>1, SameProcs
    <3> QED  BY <1>3, <3>1, KeptTyped DEF WorkersTyped, HandlesTyped, HandleRecords
  <2>2. CASE ~(over \/ child = 0)
    <3>1. child \in Alive  BY <2>2 DEF WorkersTyped, ChildrenAlive
    <3>2. proc[child].state \in {"up", "leaving", "killed"}
      BY <3>1 DEF Alive, WorkersTyped, ProcsTyped, ProcRecords
    <3>3. proc' = [proc EXCEPT ![child].state = IF proc[child].state = "up" THEN "leaving" ELSE proc[child].state]
      BY <1>3, <2>2
    <3>4. ProcsKept  BY <3>1, <3>2, <3>3, ToldTyped
    <3> QED  BY <1>3, <3>4, KeptTyped DEF WorkersTyped, HandlesTyped, HandleRecords
  <2> QED  BY <2>1, <2>2
<1>6. k.pc \in {"returned", "drain"} /\ k.op = at.op /\ k.to = at.to /\ k.h = h /\ k \in TaskRecords
  BY <1>2 DEF TaskRecords, WorkerPCs
<1> HIDE DEF k
<1>7. WellFormed(k)  BY <1>2, <1>6 DEF WellFormed, WillWrite
<1>8. t \notin Handles /\ t \in Threads  BY OperatorsAreNoHandles
<1>9. TasksTyped'  BY <1>3, <1>7, <1>8, TaskTyped DEF WorkersTyped
<1> QED  BY <1>4, <1>5, <1>9 DEF WorkersTyped

\* The handle of a task.
LEMMA HandleOfTask ==
  ASSUME WorkersAssumption, TasksTyped, NEW t \in Threads, task[t].pc \in WithHandle
  PROVE  task[t].h \in Handles
<1>1. WellFormed(task[t]) /\ task[t].h \in 0..MaxHandles  BY DEF TasksTyped, TaskRecords
<1> QED  BY <1>1 DEF WellFormed, Handles, WorkersAssumption

\* Many tasks change.
LEMMA TasksTypedAll ==
  ASSUME WorkersAssumption, NEW f, task' = [u \in Threads |-> f[u]],
         \A u \in Threads : WellFormed(f[u]), \A h \in Handles : f[h].pc \in TimerPCs
  PROVE  TasksTyped'
<1>1. \A u \in Threads : task'[u] = f[u] /\ f[u] \in TaskRecords  BY DEF WellFormed
<1>2. task' \in [Threads -> TaskRecords]  BY <1>1
<1>3. Handles \subseteq Threads  BY DEF Threads
<1> QED  BY <1>1, <1>2, <1>3 DEF TasksTyped, WellFormed, WillWrite

-----------------------------------------------------------------------------
(* Every step keeps the types *)

LEMMA EscalateTyped ==
  ASSUME WorkersAssumption, WorkersTyped, NEW t \in Threads, Escalate(t)
  PROVE  WorkersTyped'
<1> DEFINE child == handle[task[t].h].child
           pc == IF TaskAt(t, "drain") THEN "term" ELSE "kill"
<1>1. TasksTyped /\ task[t].pc \in {"drain", "term"} /\ WellFormed(task[t]) /\ task[t] \in TaskRecords
  BY DEF Escalate, WorkersTyped, TasksTyped
<1>2. t \notin Handles  BY <1>1 DEF TasksTyped, TimerPCs
<1>3. task[t].h \in Handles  BY <1>1, HandleOfTask DEF WithHandle, WithChild, Stopping
<1>4. child \in 0..MaxProcs  BY <1>3 DEF WorkersTyped, HandlesTyped, HandleRecords
<1>5. UNCHANGED <<plugin, worker, lock, handle>>  BY DEF Escalate
<1>6. CASE child = 0
  <2>1. TaskGo(t, "setStopped") /\ proc' = proc  BY <1>6 DEF Escalate
  <2>2. task[t].pc \in WithHandle  BY <1>1 DEF WithHandle, WithChild, Stopping
  <2>3. WillWrite([task[t] EXCEPT !.pc = "setStopped"]) => task[t].to \in PluginStatuses
    <3>1. [task[t] EXCEPT !.pc = "setStopped"].op = task[t].op  BY <1>1 DEF TaskRecords
    <3>2. [task[t] EXCEPT !.pc = "setStopped"].pc = "setStopped"  BY <1>1 DEF TaskRecords
    <3> QED  BY <1>1, <3>1, <3>2 DEF WellFormed, WillWrite, Stopping
  <2>4. TasksTyped'  BY <1>1, <1>2, <2>1, <2>2, <2>3, GoTyped DEF WorkerPCs
  <2>5. ProcsKept  BY <2>1, SameProcs
  <2> QED  BY <1>5, <2>4, <2>5, KeptTyped DEF WorkersTyped, HandlesTyped
<1>7. CASE child # 0
  <2> DEFINE k == [task[t] EXCEPT !.pc = pc, !.child = child]
  <2>1. /\ task' = [task EXCEPT ![t] = k]
        /\ proc' = [proc EXCEPT ![child].state =
                            IF TaskAt(t, "term") \/ @ = "killed" THEN "killed" ELSE "leaving"]
    BY <1>1, <1>7 DEF Escalate, TaskAt
  <2>2. k \in TaskRecords /\ k.pc = pc /\ k.op = task[t].op /\ k.to = task[t].to /\ k.h = task[t].h
    BY <1>1, <1>4 DEF TaskRecords, WorkerPCs
  <2> HIDE DEF k
  <2>3. WellFormed(k)
    BY <1>1, <2>2 DEF WellFormed, WillWrite, WithHandle, WithChild, Stopping
  <2>4. TasksTyped'  BY <1>1, <1>2, <2>1, <2>3, TaskTyped
  <2>5. child \in Alive  BY <1>3, <1>7 DEF WorkersTyped, ChildrenAlive
  <2>6. proc' = [proc EXCEPT ![child].state =
           IF TaskAt(t, "term") \/ proc[child].state = "killed" THEN "killed" ELSE "leaving"]
    BY <2>1
  <2>7. ProcsKept  BY <2>5, <2>6, ToldTyped
  <2> QED  BY <1>5, <2>4, <2>7, KeptTyped DEF WorkersTyped, HandlesTyped
<1> QED  BY <1>6, <1>7

LEMMA InitializedTyped ==
  ASSUME WorkersAssumption, WorkersTyped, NEW t \in Threads, Initialized(t)
  PROVE  WorkersTyped'
<1> DEFINE h == task[t].h
           m == [NoTask EXCEPT !.pc = "mark", !.op = "markError"]
           activating == {u \in Operators : lock = h /\ (u = t \/ TaskAt(u, "wait"))}
           f(failed) == [u \in Threads |->
               IF u \in failed THEN m
               ELSE IF u = t \/ (TaskAt(u, "wait") /\ lock = h) THEN NoTask ELSE task[u]]
<1>1. h \in Handles  BY HandleOfTask DEF Initialized, WorkersTyped, TaskAt, WithHandle, WithChild
<1>2. /\ handle' = [handle EXCEPT ![h].status = "running", ![h].crashes = 0]
      /\ lock' = IF lock = h THEN 0 ELSE lock
      /\ UNCHANGED <<plugin, worker, proc>>
  BY DEF Initialized
<1>3. PICK failed \in SUBSET activating : task' = [u \in Threads |-> f(failed)[u]]
  BY DEF Initialized
<1>4. WellFormed(m)
  <2>1. NoTask \in TaskRecords  BY NoTaskTyped DEF WellFormed
  <2>2. m \in TaskRecords /\ m.pc = "mark"  BY <2>1 DEF TaskRecords, WorkerPCs, WorkerOps
  <2> HIDE DEF m
  <2> QED  BY <2>2 DEF WellFormed, WillWrite, WithHandle, WithChild, Stopping, Immediate
<1>5. \A u \in Threads : f(failed)[u] \in {m, NoTask, task[u]}  OBVIOUS
<1>6. \A g \in Handles : f(failed)[g] \in {NoTask, task[g]}  BY OperatorsAreNoHandles
<1> HIDE DEF f, m
<1>7. \A u \in Threads : WellFormed(f(failed)[u])
  BY <1>4, <1>5, NoTaskTyped DEF WorkersTyped, TasksTyped
<1>8. \A g \in Handles : f(failed)[g].pc \in TimerPCs
  BY <1>6, NoTaskTyped DEF WorkersTyped, TasksTyped, TimerPCs
<1>9. TasksTyped'  BY <1>3, <1>7, <1>8, TasksTypedAll
<1>10. HandlesTyped'
  BY <1>1, <1>2 DEF WorkersTyped, HandlesTyped, HandleRecords, WorkerStatuses, WorkersAssumption
<1>11. lock' \in 0..MaxHandles  BY <1>2 DEF WorkersTyped, WorkersAssumption
<1>12. ProcsKept  BY <1>2, SameProcs
<1>13. \A g \in Handles : handle'[g].child = handle[g].child
  BY <1>2 DEF WorkersTyped, HandlesTyped, HandleRecords
<1> QED  BY <1>2, <1>9, <1>10, <1>11, <1>12, <1>13, KeptTyped DEF WorkersTyped

LEMMA NotInitializedTyped ==
  ASSUME WorkersAssumption, WorkersTyped, NEW t \in Threads, NotInitialized(t)
  PROVE  WorkersTyped'
<1> DEFINE h == task[t].h
           child == handle[h].child
           k == [task[t] EXCEPT !.pc = "killing", !.child = child]
<1>1. h \in Handles  BY HandleOfTask DEF NotInitialized, WorkersTyped, TaskAt, WithHandle, WithChild
<1>2. child \in 0..MaxProcs  BY <1>1 DEF WorkersTyped, HandlesTyped, HandleRecords
<1>3. TasksTyped /\ task[t].pc = "init" /\ WellFormed(task[t]) /\ task[t] \in TaskRecords
  BY DEF NotInitialized, WorkersTyped, TasksTyped, TaskAt
<1>4. UNCHANGED <<plugin, worker, lock>>  BY DEF NotInitialized
<1>5. CASE child = 0
  <2>1. TaskGo(t, "initFailed") /\ UNCHANGED <<handle, proc>>  BY <1>5 DEF NotInitialized
  <2>2. task[t].pc \in WithHandle  BY <1>3 DEF WithHandle, WithChild
  <2>3. ~WillWrite([task[t] EXCEPT !.pc = "initFailed"])
    BY <1>3 DEF WillWrite, Stopping, TaskRecords
  <2>4. TasksTyped'  BY <1>3, <2>1, <2>2, <2>3, GoTyped DEF WorkerPCs, TimerPCs
  <2>5. ProcsKept  BY <2>1, SameProcs
  <2> QED  BY <1>4, <2>1, <2>4, <2>5, KeptTyped DEF WorkersTyped, HandlesTyped
<1>6. CASE child # 0
  <2>1. /\ handle' = [handle EXCEPT ![h].intentional = TRUE]
        /\ proc' = [proc EXCEPT ![child].state = "killed"]
        /\ task' = [task EXCEPT ![t] = k]
    BY <1>6 DEF NotInitialized
  <2>2. k \in TaskRecords /\ k.pc = "killing" /\ k.h = h
    BY <1>2, <1>3 DEF TaskRecords, WorkerPCs
  <2> HIDE DEF k
  <2>3. WellFormed(k)  BY <1>1, <2>2 DEF WellFormed, WillWrite, Stopping, Handles, WorkersAssumption
  <2>4. TasksTyped'  BY <1>3, <2>1, <2>2, <2>3, TaskTyped DEF TimerPCs
  <2>5. child \in Alive  BY <1>1, <1>6 DEF WorkersTyped, ChildrenAlive
  <2>6. HandlesTyped'  BY <1>1, <2>1 DEF WorkersTyped, HandlesTyped, HandleRecords
  <2>7. \A g \in Handles : handle'[g].child = handle[g].child
    BY <2>1 DEF WorkersTyped, HandlesTyped, HandleRecords
  <2>8. ProcsKept  BY <2>1, <2>5, ToldTyped
  <2> QED  BY <1>4, <2>4, <2>6, <2>7, <2>8, KeptTyped DEF WorkersTyped
<1> QED  BY <1>5, <1>6

\* A step of the requests alone.
LEMMA SameHandles ==
  ASSUME WorkersTyped, UNCHANGED <<handle, proc>>, TasksTyped',
         plugin' \in PluginStatuses, worker' \in 0..MaxHandles, lock' \in 0..MaxHandles
  PROVE  WorkersTyped'
<1>1. ProcsKept  BY SameProcs
<1> QED  BY <1>1, KeptTyped DEF WorkersTyped, HandlesTyped

LEMMA RequestTyped ==
  ASSUME WorkersAssumption, WorkersTyped, NEW o \in Operators, NEW k, WellFormed(k),
         task' = [task EXCEPT ![o] = k], UNCHANGED <<worker, lock, handle, proc>>,
         plugin' \in PluginStatuses
  PROVE  WorkersTyped'
<1>1. o \in Threads /\ o \notin Handles  BY OperatorsAreNoHandles
<1>2. TasksTyped'  BY <1>1, TaskTyped DEF WorkersTyped
<1> QED  BY <1>2, SameHandles DEF WorkersTyped

LEMMA InstallTyped ==
  ASSUME WorkersAssumption, WorkersTyped, NEW o \in Operators, Install(o)
  PROVE  WorkersTyped'
<1> DEFINE k == [NoTask EXCEPT !.pc = "read", !.op = "install", !.to = "ready"]
<1>1. NoTask \in TaskRecords  BY NoTaskTyped DEF WellFormed
<1>0. "read" \in WorkerPCs /\ "install" \in WorkerOps /\ "ready" \in PluginStatuses
  BY DEF WorkerPCs, WorkerOps, PluginStatuses, Valid
<1>2. k \in TaskRecords /\ k.pc = "read" /\ k.to = "ready"  BY <1>0, <1>1 DEF TaskRecords
<1>3. task' = [task EXCEPT ![o] = k] /\ UNCHANGED <<worker, lock, handle, proc>> /\ plugin' = "installed"
  BY DEF Install
<1> HIDE DEF k
<1>4. WellFormed(k)
  BY <1>0, <1>2 DEF WellFormed, WillWrite, WithHandle, WithChild, Stopping, Immediate
<1>5. plugin' \in PluginStatuses  BY <1>3 DEF PluginStatuses, Valid
<1> QED  BY <1>3, <1>4, <1>5, RequestTyped

LEMMA EnableTyped ==
  ASSUME WorkersAssumption, WorkersTyped, NEW o \in Operators, Enable(o)
  PROVE  WorkersTyped'
<1> DEFINE k == [NoTask EXCEPT !.pc = "write", !.op = "enable", !.to = "ready"]
<1>1. NoTask \in TaskRecords  BY NoTaskTyped DEF WellFormed
<1>2. k \in TaskRecords /\ k.pc = "write" /\ k.to = "ready"
  BY <1>1 DEF TaskRecords, WorkerPCs, WorkerOps, PluginStatuses, Valid
<1>3. task' = [task EXCEPT ![o] = k] /\ UNCHANGED <<plugin, worker, lock, handle, proc>>
  BY DEF Enable
<1> HIDE DEF k
<1>4. WellFormed(k)
  BY <1>2 DEF WellFormed, WillWrite, WithHandle, WithChild, Stopping, Immediate, PluginStatuses, Valid
<1> QED  BY <1>3, <1>4, RequestTyped DEF WorkersTyped

LEMMA TakeDownTyped ==
  ASSUME WorkersAssumption, WorkersTyped, NEW o \in Operators, NEW op \in DOMAIN Accepts, TakeDown(o, op)
  PROVE  WorkersTyped'
<1> DEFINE k == [NoTask EXCEPT !.pc = "unload", !.op = op, !.read = plugin, !.to = Target[op]]
<1>1. NoTask \in TaskRecords  BY NoTaskTyped DEF WellFormed
<1>2. op \in {"disable", "unload", "upgrade"}  BY DEF Accepts
<1>3. /\ Target[op] \in PluginStatuses \cup {"none"}
      /\ op # "upgrade" => Target[op] \in PluginStatuses
  BY <1>2 DEF Target, PluginStatuses, Valid
<1>4. plugin \in PluginStatuses  BY DEF WorkersTyped
<1>5. "unload" \in WorkerPCs /\ op \in WorkerOps  BY <1>2 DEF WorkerPCs, WorkerOps
<1>6. k \in TaskRecords /\ k.pc = "unload" /\ k.op = op /\ k.to = Target[op]
  BY <1>1, <1>3, <1>4, <1>5 DEF TaskRecords
<1>7. task' = [task EXCEPT ![o] = k] /\ UNCHANGED <<plugin, worker, lock, handle, proc>>
  BY DEF TakeDown
<1> HIDE DEF k
<1>8. WellFormed(k)
  BY <1>2, <1>3, <1>6 DEF WellFormed, WillWrite, WithHandle, WithChild, Stopping, Immediate
<1> QED  BY <1>7, <1>8, RequestTyped DEF WorkersTyped

LEMMA UpgradeTyped ==
  ASSUME WorkersAssumption, WorkersTyped, NEW o \in Operators, UpgradePlugin(o)
  PROVE  WorkersTyped'
<1>1. o \in Threads /\ o \notin Handles  BY OperatorsAreNoHandles
<1>2. TasksTyped /\ task[o].pc = "download" /\ task[o] \in TaskRecords
  BY <1>1 DEF UpgradePlugin, TaskAt, WorkersTyped, TasksTyped
<1>3. UNCHANGED <<plugin, worker, lock, handle, proc>>  BY DEF UpgradePlugin
<1>4. CASE EndTask(o)
  <2>1. TasksTyped'  BY <1>1, <1>2, <1>4, EndTyped
  <2> QED  BY <1>3, <2>1, SameHandles DEF WorkersTyped
<1>5. CASE ~EndTask(o)
  <2>1. PICK to \in {"ready", "upgrade_pending"} \cap Valid[task[o].read] :
            task' = [task EXCEPT ![o].pc = "write", ![o].to = to]
    BY <1>5 DEF UpgradePlugin
  <2> DEFINE k == [task[o] EXCEPT !.pc = "write", !.to = to]
  <2>2. task' = [task EXCEPT ![o] = k]  BY <2>1
  <2>3. to \in PluginStatuses /\ "write" \in WorkerPCs  BY DEF PluginStatuses, Valid, WorkerPCs
  <2>4. k \in TaskRecords /\ k.pc = "write" /\ k.to = to  BY <1>2, <2>3 DEF TaskRecords
  <2> HIDE DEF k
  <2>5. WellFormed(k)
    BY <2>3, <2>4 DEF WellFormed, WillWrite, WithHandle, WithChild, Stopping, Immediate
  <2> QED  BY <1>3, <2>2, <2>5, RequestTyped DEF WorkersTyped
<1> QED  BY <1>4, <1>5

LEMMA UnloadTyped ==
  ASSUME WorkersAssumption, WorkersTyped, NEW o \in Operators, UnloadSingle(o)
  PROVE  WorkersTyped'
<1>1. o \in Threads  BY OperatorsAreNoHandles
<1>2. /\ task[o] \in TaskRecords
      /\ task[o].op # "upgrade" => task[o].to \in PluginStatuses
  BY <1>1 DEF UnloadSingle, TaskAt, WorkersTyped, TasksTyped, WellFormed, WillWrite
<1>3. UNCHANGED <<plugin, worker, lock>>  BY DEF UnloadSingle
<1>4. CASE worker # 0 /\ handle[worker].status = "running"
  <2>1. worker \in Handles  BY <1>4 DEF WorkersTyped, Handles, WorkersAssumption
  <2>2. BeginStop(o, worker, task[o])  BY <1>4 DEF UnloadSingle
  <2> QED  BY <1>2, <1>3, <2>1, <2>2, StopTyped
<1>5. CASE ~(worker # 0 /\ handle[worker].status = "running")
  <2>1. task' = [task EXCEPT ![o] = Offline(task[o])] /\ UNCHANGED <<handle, proc>>
    BY <1>5 DEF UnloadSingle
  <2>2. WellFormed(Offline(task[o]))  BY <1>2, OfflineTyped
  <2> QED  BY <1>3, <2>1, <2>2, RequestTyped DEF WorkersTyped
<1> QED  BY <1>4, <1>5

LEMMA RestartTyped ==
  ASSUME WorkersAssumption, WorkersTyped, NEW o \in Operators, RestartWorker(o)
  PROVE  WorkersTyped'
<1> DEFINE k == [NoTask EXCEPT !.op = "restart"]
<1>1. NoTask \in TaskRecords  BY NoTaskTyped DEF WellFormed
<1>2. k \in TaskRecords /\ k.op = "restart"  BY <1>1 DEF TaskRecords, WorkerOps
<1>3. worker \in Handles  BY DEF RestartWorker, WorkersTyped, Handles, WorkersAssumption
<1>4. BeginStop(o, worker, k) /\ UNCHANGED <<plugin, worker, lock>>  BY DEF RestartWorker
<1> HIDE DEF k
<1> QED  BY <1>2, <1>3, <1>4, StopTyped

LEMMA MarkTyped ==
  ASSUME WorkersAssumption, WorkersTyped, NEW o \in Operators, MarkError(o)
  PROVE  WorkersTyped'
<1> DEFINE k == [task[o] EXCEPT !.read = plugin, !.to = "error"]
<1>1. o \in Threads  BY OperatorsAreNoHandles
<1>2. task[o] \in TaskRecords  BY <1>1 DEF WorkersTyped, TasksTyped
<1>3. "error" \in PluginStatuses /\ plugin \in PluginStatuses  BY DEF PluginStatuses, Valid, WorkersTyped
<1>4. k \in TaskRecords /\ k.to = "error"  BY <1>2, <1>3 DEF TaskRecords
<1>5. /\ UNCHANGED <<plugin, worker, lock>>
      /\ IF worker # 0 THEN BeginStop(o, worker, k)
         ELSE task' = [task EXCEPT ![o] = Offline(k)] /\ UNCHANGED <<handle, proc>>
  BY DEF MarkError
<1> HIDE DEF k
<1>6. CASE worker # 0
  <2>1. worker \in Handles  BY <1>6 DEF WorkersTyped, Handles, WorkersAssumption
  <2> QED  BY <1>3, <1>4, <1>5, <1>6, <2>1, StopTyped
<1>7. CASE worker = 0
  <2>1. WellFormed(Offline(k))  BY <1>3, <1>4, OfflineTyped
  <2> QED  BY <1>5, <1>7, <2>1, RequestTyped DEF WorkersTyped
<1> QED  BY <1>6, <1>7

\* A request that goes on to a step without a handle, or ends.
LEMMA GoesTyped ==
  ASSUME WorkersAssumption, WorkersTyped, NEW o \in Operators,
         NEW pc \in WorkerPCs \ (WithHandle \cup {"unload"}), TaskGo(o, pc) \/ EndTask(o),
         pc \in {"read", "write"} => task[o].to \in PluginStatuses,
         plugin' \in PluginStatuses, UNCHANGED <<worker, lock, handle, proc>>
  PROVE  WorkersTyped'
<1>1. o \in Threads /\ o \notin Handles /\ TasksTyped  BY OperatorsAreNoHandles DEF WorkersTyped
<1>2. ~WillWrite([task[o] EXCEPT !.pc = pc]) \/ pc \in {"read", "write"}
  <2>1. [task[o] EXCEPT !.pc = pc].pc = pc  BY <1>1 DEF TasksTyped, TaskRecords
  <2> QED  BY <2>1 DEF WillWrite, WithHandle, WithChild, Immediate
<1>3. pc \notin WithHandle /\ pc # "unload" /\ pc \in WorkerPCs  OBVIOUS
<1>4. TaskGo(o, pc) => TasksTyped'  BY <1>1, <1>2, <1>3, GoTyped
<1>5. EndTask(o) => TasksTyped'  BY <1>1, EndTyped
<1> QED  BY <1>4, <1>5, SameHandles DEF WorkersTyped

LEMMA WriteTyped ==
  ASSUME WorkersAssumption, WorkersTyped, NEW o \in Operators, WriteStatus(o)
  PROVE  WorkersTyped'
<1>1. o \in Threads  BY OperatorsAreNoHandles
<1>2. task[o].to \in PluginStatuses
  BY <1>1 DEF WriteStatus, TaskAt, WorkersTyped, TasksTyped, WellFormed, WillWrite
<1>3. plugin' \in PluginStatuses /\ UNCHANGED <<worker, lock, handle, proc>>
  BY <1>2 DEF WriteStatus
<1>4. TaskGo(o, "load") \/ EndTask(o)  BY DEF WriteStatus
<1>5. "load" \in WorkerPCs \ (WithHandle \cup {"unload"})
  BY DEF WorkerPCs, WithHandle, WithChild, Stopping, Immediate
<1> QED  BY <1>3, <1>4, <1>5, GoesTyped

LEMMA LoadTyped ==
  ASSUME WorkersAssumption, WorkersTyped, NEW o \in Operators, LoadSingle(o)
  PROVE  WorkersTyped'
<1>1. plugin' \in PluginStatuses /\ UNCHANGED <<worker, lock, handle, proc>>
  BY DEF LoadSingle, WorkersTyped
<1>2. TaskGo(o, "start") \/ EndTask(o)  BY DEF LoadSingle
<1>3. "start" \in WorkerPCs \ (WithHandle \cup {"unload"})
  BY DEF WorkerPCs, WithHandle, WithChild, Stopping, Immediate
<1> QED  BY <1>1, <1>2, <1>3, GoesTyped

LEMMA ReadForLoadTyped ==
  ASSUME WorkersAssumption, WorkersTyped, NEW o \in Operators, ReadForLoad(o)
  PROVE  WorkersTyped'
<1>1. o \in Threads  BY OperatorsAreNoHandles
<1>2. task[o].to \in PluginStatuses
  BY <1>1 DEF ReadForLoad, TaskAt, WorkersTyped, TasksTyped, WellFormed, WillWrite
<1>3. plugin' \in PluginStatuses /\ UNCHANGED <<worker, lock, handle, proc>>
  BY DEF ReadForLoad, WorkersTyped
<1>4. TaskGo(o, "write") \/ EndTask(o)  BY DEF ReadForLoad
<1>5. "write" \in WorkerPCs \ (WithHandle \cup {"unload"})
  BY DEF WorkerPCs, WithHandle, WithChild, Stopping, Immediate
<1> QED  BY <1>2, <1>3, <1>4, <1>5, GoesTyped

LEMMA ExitTyped ==
  ASSUME WorkersAssumption, WorkersTyped, NEW p \in Procs, WorkerExit(p)
  PROVE  WorkersTyped'
<1> DEFINE h == proc[p].of
           wanted == handle[h].intentional
           answered(t) ==
             CASE task[t].h = h /\ task[t].pc = "init" -> "initFailed"
               [] task[t].h = h /\ task[t].pc = "drain" -> "setStopped"
               [] task[t].child = p /\ task[t].pc \in {"term", "kill"} -> "setStopped"
               [] task[t].child = p /\ task[t].pc = "killing" -> "initFailed"
               [] OTHER -> task[t].pc
           f == [t \in Threads |-> [task[t] EXCEPT !.pc = answered(t)]]
<1>1. p \in Alive /\ h \in 0..MaxHandles /\ h # 0
  BY DEF WorkerExit, WorkersTyped, ProcsTyped, ProcRecords
<1>2. h \in Handles  BY <1>1 DEF Handles, WorkersAssumption
<1>3. handle[h] \in HandleRecords  BY <1>2 DEF WorkersTyped, HandlesTyped
<1>4. PICK n \in {1, IF handle[h].crashes > MaxConsecutiveCrashes THEN handle[h].crashes
                             ELSE handle[h].crashes + 1} :
                handle' = [handle EXCEPT ![h].child = 0,
                    ![h].crashes = IF wanted THEN @ ELSE n,
                    ![h].timer = @ \/ (~wanted /\ n <= MaxConsecutiveCrashes),
                    ![h].status = IF wanted THEN "stopped"
                                  ELSE IF n <= MaxConsecutiveCrashes THEN "backoff" ELSE "crashed"]
  BY DEF WorkerExit
<1>5. /\ task' = [t \in Threads |-> f[t]]
      /\ proc' = [proc EXCEPT ![p] = NoProc]
      /\ UNCHANGED <<plugin, worker, lock>>
  BY DEF WorkerExit
<1>6. TasksTyped'
  <2>1. \A t \in Threads : /\ WellFormed(f[t])
                           /\ task[t].pc \in TimerPCs => f[t].pc \in TimerPCs
    <3> TAKE t \in Threads
    <3>1. WellFormed(task[t]) /\ task[t] \in TaskRecords  BY DEF WorkersTyped, TasksTyped
    <3>2. CASE answered(t) = task[t].pc
      <4>1. f[t] = task[t]  BY <3>1, <3>2 DEF TaskRecords
      <4> QED  BY <3>1, <4>1
    <3>3. CASE answered(t) = "initFailed" /\ task[t].pc \in {"init", "killing"}
      <4>1. f[t] = [task[t] EXCEPT !.pc = "initFailed"]  BY <3>3
      <4> HIDE DEF f
      <4>2. ~WillWrite([task[t] EXCEPT !.pc = "initFailed"])  BY <3>1 DEF WillWrite, Stopping, TaskRecords
      <4>3. task[t].pc \in WithHandle  BY <3>3 DEF WithHandle, WithChild
      <4>4. "initFailed" \in WorkerPCs  BY DEF WorkerPCs
      <4>5. /\ WellFormed([task[t] EXCEPT !.pc = "initFailed"])
            /\ [task[t] EXCEPT !.pc = "initFailed"].pc = "initFailed"
        BY <3>1, <4>2, <4>3, <4>4, MovedTyped
      <4> QED  BY <4>1, <4>5 DEF TimerPCs
    <3>4. CASE answered(t) = "setStopped" /\ task[t].pc \in {"drain", "term", "kill"}
      <4>1. f[t] = [task[t] EXCEPT !.pc = "setStopped"]  BY <3>4
      <4> HIDE DEF f
      <4>2. /\ [task[t] EXCEPT !.pc = "setStopped"].op = task[t].op
            /\ [task[t] EXCEPT !.pc = "setStopped"].pc = "setStopped"
        BY <3>1 DEF TaskRecords
      <4>3. WillWrite([task[t] EXCEPT !.pc = "setStopped"]) => task[t].to \in PluginStatuses
        BY <3>1, <3>4, <4>2 DEF WillWrite, Stopping, WellFormed
      <4>4. task[t].pc \in WithHandle  BY <3>4 DEF WithHandle, WithChild, Stopping
      <4>5. "setStopped" \in WorkerPCs  BY DEF WorkerPCs
      <4>6. WellFormed([task[t] EXCEPT !.pc = "setStopped"])  BY <3>1, <4>3, <4>4, <4>5, MovedTyped
      <4> QED  BY <3>4, <4>1, <4>6 DEF TimerPCs
    <3>5. \/ answered(t) = task[t].pc
          \/ answered(t) = "initFailed" /\ task[t].pc \in {"init", "killing"}
          \/ answered(t) = "setStopped" /\ task[t].pc \in {"drain", "term", "kill"}
      OBVIOUS
    <3> QED  BY <3>2, <3>3, <3>4, <3>5
  <2> HIDE DEF f
  <2>2. \A g \in Handles : f[g].pc \in TimerPCs
    BY <2>1, OperatorsAreNoHandles DEF WorkersTyped, TasksTyped
  <2> QED  BY <1>5, <2>1, <2>2, TasksTypedAll
<1>7. \A g \in Handles : g # h => handle'[g] = handle[g]  BY <1>4 DEF WorkersTyped, HandlesTyped
<1>8. handle'[h].child = 0  BY <1>2, <1>3, <1>4 DEF WorkersTyped, HandlesTyped, HandleRecords
<1>9. HandlesTyped'
  <2>0. MaxConsecutiveCrashes \in Nat \ {0} /\ 0 \in 0..MaxProcs  BY DEF WorkersAssumption
  <2>1. n \in 0..MaxConsecutiveCrashes + 1
    <3>1. handle[h].crashes \in 0..MaxConsecutiveCrashes + 1  BY <1>3 DEF HandleRecords
    <3> QED  BY <2>0, <3>1
  <2>2. handle'[h] \in HandleRecords
    BY <1>2, <1>3, <1>4, <2>0, <2>1 DEF WorkersTyped, HandlesTyped, HandleRecords, WorkerStatuses
  <2>3. handle' = [g \in Handles |-> handle'[g]]  BY <1>4 DEF WorkersTyped, HandlesTyped
  <2> QED  BY <1>7, <2>2, <2>3 DEF WorkersTyped, HandlesTyped
<1>10. ProcsTyped'
  <2>1. NoProc \in ProcRecords /\ NoProc.state = "none"  BY DEF NoProc, ProcRecords, WorkersAssumption
  <2> QED  BY <1>5, <2>1 DEF WorkersTyped, ProcsTyped, Alive
<1>11. ChildrenAlive'
  <2>1. \A q \in Procs : q # p => proc'[q] = proc[q]  BY <1>5 DEF WorkersTyped, ProcsTyped
  <2>2. \A q \in Alive : q # p => q \in Alive'  BY <2>1 DEF Alive
  <2>3. ASSUME NEW g \in Handles, handle'[g].child # 0
        PROVE  handle'[g].child \in Alive' /\ proc'[handle'[g].child].of = g
    <3>1. g # h /\ handle'[g] = handle[g]  BY <1>7, <1>8, <2>3
    <3>2. handle[g].child \in Alive /\ proc[handle[g].child].of = g
      BY <2>3, <3>1 DEF WorkersTyped, ChildrenAlive
    <3>3. handle[g].child # p  BY <3>1, <3>2
    <3> QED  BY <2>1, <2>2, <3>1, <3>2, <3>3 DEF Alive
  <2> QED  BY <2>3 DEF ChildrenAlive
<1> QED  BY <1>5, <1>6, <1>9, <1>10, <1>11 DEF WorkersTyped

LEMMA TimerTyped ==
  ASSUME WorkersAssumption, WorkersTyped, NEW h \in Handles, FireTimer(h)
  PROVE  WorkersTyped'
<1>1. NoTask \in TaskRecords /\ h \in Threads  BY NoTaskTyped, OperatorsAreNoHandles DEF WellFormed
<1>2. UNCHANGED <<plugin, worker, lock>>  BY DEF FireTimer
<1>3. CASE handle[h].status \in {"running", "starting"}
  <2>1. handle' = [handle EXCEPT ![h].timer = FALSE] /\ UNCHANGED <<proc, task>>  BY <1>3 DEF FireTimer
  <2>2. HandlesTyped' /\ \A g \in Handles : handle'[g].child = handle[g].child
    BY <2>1 DEF WorkersTyped, HandlesTyped, HandleRecords
  <2>3. ProcsKept  BY <2>1, SameProcs
  <2>4. TasksTyped'  BY <2>1 DEF WorkersTyped, TasksTyped
  <2> QED  BY <1>2, <2>2, <2>3, <2>4, KeptTyped DEF WorkersTyped
<1>4. CASE handle[h].status \notin {"running", "starting"}
  <2>1. Spawn(h, h, NoTask)  BY <1>4 DEF FireTimer
  <2> QED  BY <1>1, <1>2, <2>1, SpawnTyped
<1> QED  BY <1>3, <1>4

LEMMA InitFailedTyped ==
  ASSUME WorkersAssumption, WorkersTyped, NEW t \in Threads, InitFailed(t)
  PROVE  WorkersTyped'
<1> DEFINE h == task[t].h
           failed == {u \in Operators : lock = h /\ (u = t \/ TaskAt(u, "wait"))}
           m == [NoTask EXCEPT !.pc = "mark", !.op = "markError"]
           f == [u \in Threads |-> IF t \in failed /\ u \in failed THEN m
                                   ELSE IF u = t THEN NoTask ELSE task[u]]
<1>1. h \in Handles  BY HandleOfTask DEF InitFailed, WorkersTyped, TaskAt, WithHandle, Immediate
<1>2. /\ handle' = [handle EXCEPT ![h].status = "crashed"]
      /\ lock' = IF t \in failed THEN 0 ELSE lock
      /\ task' = [u \in Threads |-> f[u]]
      /\ UNCHANGED <<plugin, worker, proc>>
  BY DEF InitFailed
<1>3. WellFormed(m)
  <2>1. NoTask \in TaskRecords  BY NoTaskTyped DEF WellFormed
  <2>2. m \in TaskRecords /\ m.pc = "mark"  BY <2>1 DEF TaskRecords, WorkerPCs, WorkerOps
  <2> HIDE DEF m
  <2> QED  BY <2>2 DEF WellFormed, WillWrite, WithHandle, WithChild, Stopping, Immediate
<1>4. \A u \in Threads : f[u] \in {m, NoTask, task[u]}
  OBVIOUS
<1>5. \A g \in Handles : f[g] \in {NoTask, task[g]}  BY OperatorsAreNoHandles
<1> HIDE DEF f, m
<1>6. \A u \in Threads : WellFormed(f[u])  BY <1>3, <1>4, NoTaskTyped DEF WorkersTyped, TasksTyped
<1>7. \A g \in Handles : f[g].pc \in TimerPCs  BY <1>5, NoTaskTyped DEF WorkersTyped, TasksTyped, TimerPCs
<1>8. TasksTyped'  BY <1>2, <1>6, <1>7, TasksTypedAll
<1>9. HandlesTyped' /\ \A g \in Handles : handle'[g].child = handle[g].child
  BY <1>1, <1>2 DEF WorkersTyped, HandlesTyped, HandleRecords, WorkerStatuses
<1>10. lock' \in 0..MaxHandles  BY <1>2 DEF WorkersTyped, WorkersAssumption
<1>11. ProcsKept  BY <1>2, SameProcs
<1> QED  BY <1>2, <1>8, <1>9, <1>10, <1>11, KeptTyped DEF WorkersTyped

LEMMA SetStoppedTyped ==
  ASSUME WorkersAssumption, WorkersTyped, NEW t \in Threads, SetStopped(t)
  PROVE  WorkersTyped'
<1> DEFINE h == task[t].h
<1>1. h \in Handles /\ task[t].pc = "setStopped"
  BY HandleOfTask DEF SetStopped, WorkersTyped, TaskAt, WithHandle, Immediate
<1>2. /\ handle' = [handle EXCEPT ![h].status = "stopped"]
      /\ TaskGo(t, "returned") /\ UNCHANGED <<plugin, worker, lock, proc>>
  BY DEF SetStopped
<1>3. t \notin Handles /\ WellFormed(task[t]) /\ task[t] \in TaskRecords
  BY <1>1 DEF WorkersTyped, TasksTyped, TimerPCs
<1>4. TasksTyped'
  <2>1. /\ [task[t] EXCEPT !.pc = "returned"].op = task[t].op
        /\ [task[t] EXCEPT !.pc = "returned"].pc = "returned"
    BY <1>3 DEF TaskRecords
  <2>2. WillWrite([task[t] EXCEPT !.pc = "returned"]) => task[t].to \in PluginStatuses
    BY <1>1, <1>3, <2>1 DEF WillWrite, Stopping, WellFormed
  <2>3. "returned" \in WorkerPCs /\ task[t].pc \in WithHandle
    BY <1>1 DEF WorkerPCs, WithHandle, Immediate
  <2> QED  BY <1>2, <1>3, <2>2, <2>3, GoTyped DEF WorkersTyped
<1>5. HandlesTyped' /\ \A g \in Handles : handle'[g].child = handle[g].child
  BY <1>1, <1>2 DEF WorkersTyped, HandlesTyped, HandleRecords, WorkerStatuses
<1>6. ProcsKept  BY <1>2, SameProcs
<1> QED  BY <1>2, <1>4, <1>5, <1>6, KeptTyped DEF WorkersTyped

LEMMA ReturnedTyped ==
  ASSUME WorkersAssumption, WorkersTyped, NEW t \in Threads, Returned(t)
  PROVE  WorkersTyped'
<1> DEFINE h == task[t].h
<1>1. h \in Handles /\ task[t].pc = "returned"
  BY HandleOfTask DEF Returned, WorkersTyped, TaskAt, WithHandle, Immediate
<1>2. t \notin Handles /\ WellFormed(task[t]) /\ task[t] \in TaskRecords
  BY <1>1 DEF WorkersTyped, TasksTyped, TimerPCs
<1>3. t \in Operators  BY <1>2, OperatorsAreNoHandles
<1>4. UNCHANGED <<plugin, lock>>  BY DEF Returned
<1>5. CASE task[t].op # "restart"
  <2>1. worker' = 0 /\ task' = [task EXCEPT ![t] = Offline(task[t])] /\ UNCHANGED <<handle, proc>>
    BY <1>5 DEF Returned
  <2>2. WellFormed(Offline(task[t]))
    <3>1. task[t].op # "upgrade" => task[t].to \in PluginStatuses
      BY <1>1, <1>2, <1>5 DEF WellFormed, WillWrite
    <3> QED  BY <1>2, <3>1, OfflineTyped
  <2>3. TasksTyped'  BY <1>2, <2>1, <2>2, TaskTyped DEF WorkersTyped
  <2> QED  BY <1>4, <2>1, <2>3, SameHandles DEF WorkersTyped, WorkersAssumption
<1>6. CASE task[t].op = "restart"
  <2>1. worker' = worker  BY <1>6 DEF Returned
  <2>2. CASE handle[h].status \in {"running", "starting"}
    <3>1. EndTask(t) /\ UNCHANGED <<handle, proc>>  BY <1>6, <2>2 DEF Returned
    <3>2. TasksTyped'  BY <3>1, EndTyped DEF WorkersTyped
    <3> QED  BY <1>4, <2>1, <3>1, <3>2, SameHandles DEF WorkersTyped
  <2>3. CASE handle[h].status \notin {"running", "starting"}
    <3>1. Spawn(t, h, task[t])  BY <1>6, <2>3 DEF Returned
    <3> QED  BY <1>1, <1>2, <1>4, <2>1, <3>1, SpawnTyped
  <2> QED  BY <2>2, <2>3
<1> QED  BY <1>5, <1>6

\* A request takes a handle that nothing refers to.
LEMMA RegisterTyped ==
  ASSUME WorkersAssumption, WorkersTyped, NEW o \in Operators, TaskAt(o, "start"), Register(o), plugin' = plugin
  PROVE  WorkersTyped'
<1> DEFINE h == Least(FreeHandles)
           p == Least(FreeProcs)
           k == [task[o] EXCEPT !.pc = "init", !.h = h, !.child = p]
           n == [NoHandle EXCEPT !.status = "starting", !.child = p]
<1>1. p \in FreeProcs /\ p \in Procs /\ h \in FreeHandles /\ h \in Handles
  <2>1. FreeProcs \in SUBSET (1..MaxProcs) /\ FreeProcs # {} /\ MaxProcs \in Nat
    BY DEF Register, FreeProcs, Procs, WorkersAssumption
  <2>2. FreeHandles \in SUBSET (1..MaxHandles) /\ FreeHandles # {} /\ MaxHandles \in Nat
    BY DEF Register, FreeHandles, Handles, WorkersAssumption
  <2>3. p \in FreeProcs  BY <2>1, LeastIn
  <2>4. h \in FreeHandles  BY <2>2, LeastIn
  <2> QED  BY <2>3, <2>4 DEF FreeProcs, FreeHandles
<1>2. p \in 0..MaxProcs /\ h \in 0..MaxHandles /\ h # 0
  BY <1>1 DEF Procs, Handles, WorkersAssumption
<1>3. /\ worker' = h /\ lock' = h
      /\ proc' = [proc EXCEPT ![p] = [state |-> "up", of |-> h]]
      /\ handle' = [handle EXCEPT ![h] = n]
      /\ task' = [task EXCEPT ![o] = k]
  BY DEF Register
<1> HIDE DEF p, h
<1>4. o \in Threads /\ o \notin Handles  BY OperatorsAreNoHandles
<1>5. TasksTyped'
  <2>1. task[o] \in TaskRecords  BY <1>4 DEF WorkersTyped, TasksTyped
  <2>2. k \in TaskRecords /\ k.pc = "init" /\ k.h = h  BY <1>2, <2>1 DEF TaskRecords, WorkerPCs
  <2> HIDE DEF k
  <2>3. WellFormed(k)  BY <1>2, <2>2 DEF WellFormed, WillWrite, Stopping
  <2> QED  BY <1>3, <1>4, <2>3, TaskTyped DEF WorkersTyped
<1>6. n \in HandleRecords /\ n.child = p
  <2>1. NoHandle \in HandleRecords  BY DEF NoHandle, HandleRecords, WorkerStatuses, WorkersAssumption
  <2> QED  BY <1>2, <2>1 DEF HandleRecords, WorkerStatuses
<1> HIDE DEF n
<1>7. HandlesTyped'  BY <1>3, <1>6 DEF WorkersTyped, HandlesTyped
<1>8. ProcsTyped'  BY <1>1, <1>2, <1>3 DEF WorkersTyped, ProcsTyped, Alive, ProcRecords
<1>9. ChildrenAlive'
  <2>1. p \notin Alive  BY <1>1 DEF FreeProcs
  <2>2. \A q \in Procs : q # p => proc'[q] = proc[q]  BY <1>3 DEF WorkersTyped, ProcsTyped
  <2>3. proc'[p] = [state |-> "up", of |-> h]  BY <1>1, <1>3 DEF WorkersTyped, ProcsTyped
  <2>4. p \in Alive' /\ \A q \in Alive : q \in Alive'  BY <1>1, <2>1, <2>2, <2>3 DEF Alive
  <2>5. handle'[h].child = p /\ \A g \in Handles : g # h => handle'[g] = handle[g]
    BY <1>1, <1>3, <1>6 DEF WorkersTyped, HandlesTyped
  <2>6. ASSUME NEW g \in Handles, g # h, handle'[g].child # 0
        PROVE  handle'[g].child \in Alive' /\ proc'[handle'[g].child].of = g
    <3>1. handle[g].child \in Alive /\ proc[handle[g].child].of = g /\ handle'[g] = handle[g]
      BY <2>5, <2>6 DEF WorkersTyped, ChildrenAlive
    <3> QED  BY <2>1, <2>2, <2>4, <3>1 DEF Alive
  <2> QED  BY <2>3, <2>4, <2>5, <2>6 DEF ChildrenAlive
<1> QED  BY <1>2, <1>3, <1>5, <1>7, <1>8, <1>9 DEF WorkersTyped

LEMMA StartTyped ==
  ASSUME WorkersAssumption, WorkersTyped, NEW o \in Operators, StartWorker(o)
  PROVE  WorkersTyped'
<1> DEFINE w == [task[o] EXCEPT !.pc = "wait"]
           m == [NoTask EXCEPT !.pc = "mark", !.op = "markError"]
<1>1. TaskAt(o, "start") /\ plugin' = plugin  BY DEF StartWorker
<1>2. CASE Register(o)  BY <1>1, <1>2, RegisterTyped
<1>3. CASE ~Register(o)
  <2>1. /\ task' = [task EXCEPT ![o] = IF lock # 0 THEN w ELSE m]
        /\ UNCHANGED <<worker, lock, handle, proc>>
    BY <1>3 DEF StartWorker
  <2>2. o \in Threads  BY OperatorsAreNoHandles
  <2>3. NoTask \in TaskRecords /\ task[o] \in TaskRecords
    BY <2>2, NoTaskTyped DEF WellFormed, WorkersTyped, TasksTyped
  <2>0. {"wait", "mark"} \subseteq WorkerPCs /\ "markError" \in WorkerOps  BY DEF WorkerPCs, WorkerOps
  <2>4. w \in TaskRecords /\ w.pc = "wait" /\ m \in TaskRecords /\ m.pc = "mark"
    BY <2>0, <2>3 DEF TaskRecords
  <2> HIDE DEF w, m
  <2>5. WellFormed(w) /\ WellFormed(m)
    BY <2>4 DEF WellFormed, WillWrite, WithHandle, WithChild, Stopping, Immediate
  <2> QED  BY <1>1, <2>1, <2>5, RequestTyped DEF WorkersTyped
<1> QED  BY <1>2, <1>3

\* Every step keeps the types,
LEMMA WorkersTypedNext ==
  ASSUME WorkersAssumption, WorkersTyped, [WorkersNext]_workerVars
  PROVE  WorkersTyped'
<1>1. ASSUME NEW t \in Threads, InitFailed(t) \/ SetStopped(t) \/ Returned(t) PROVE WorkersTyped'
  BY <1>1, InitFailedTyped, SetStoppedTyped, ReturnedTyped
<1>2. ASSUME NEW t \in Threads, Escalate(t) \/ Initialized(t) \/ NotInitialized(t) PROVE WorkersTyped'
  BY <1>2, EscalateTyped, InitializedTyped, NotInitializedTyped
<1>3. ASSUME NEW p \in Procs, WorkerExit(p) PROVE WorkersTyped'  BY <1>3, ExitTyped
<1>4. ASSUME NEW h \in Handles, FireTimer(h) PROVE WorkersTyped'  BY <1>4, TimerTyped
<1>5. ASSUME NEW o \in Operators,
             \/ Install(o) \/ ReadForLoad(o) \/ Enable(o) \/ UnloadSingle(o) \/ UpgradePlugin(o)
             \/ RestartWorker(o) \/ MarkError(o) \/ WriteStatus(o) \/ LoadSingle(o) \/ StartWorker(o)
      PROVE WorkersTyped'
  BY <1>5, InstallTyped, ReadForLoadTyped, EnableTyped, UnloadTyped, UpgradeTyped, RestartTyped,
     MarkTyped, WriteTyped, LoadTyped, StartTyped
<1>6. ASSUME NEW o \in Operators, NEW op \in DOMAIN Accepts, TakeDown(o, op) PROVE WorkersTyped'
  BY <1>6, TakeDownTyped
<1>7. CASE UNCHANGED workerVars
  <2>1. UNCHANGED <<plugin, worker, lock, handle, proc, task>>  BY <1>7 DEF workerVars
  <2>2. TasksTyped'  BY <2>1 DEF WorkersTyped, TasksTyped
  <2> QED  BY <2>1, <2>2, SameHandles DEF WorkersTyped
<1>8. CASE WorkersNext  BY <1>1, <1>2, <1>3, <1>4, <1>5, <1>6, <1>8 DEF WorkersNext, Event
<1> QED  BY <1>7, <1>8

\* which are those of the module.
LEMMA TypedTypes ==
  ASSUME WorkersAssumption, WorkersTyped
  PROVE  WorkersTypeOK
<1>1. \A t \in Threads : task[t].h \in 0..MaxHandles /\ task[t].child \in 0..MaxProcs
  BY DEF WorkersTyped, TasksTyped, TaskRecords
<1> QED  BY <1>1 DEF WorkersTyped, WorkersTypeOK, HandlesTyped, HandleRecords, ProcsTyped, ProcRecords

\* They hold in every reachable state.
LEMMA WorkersTypedAlways == ASSUME WorkersAssumption PROVE WorkersSpec => []WorkersTyped
<1>1. WorkersInit => WorkersTyped  BY WorkersTypedInit
<1>2. WorkersTyped /\ [WorkersNext]_workerVars => WorkersTyped'  BY WorkersTypedNext
<1> QED  BY <1>1, <1>2, PTL DEF WorkersSpec

\* For any number of operators, handles, processes and crashes, every variable of the
\* worker manager and the lifecycle holds a value of its kind, and a task at a step of
\* a handle names one.
THEOREM WorkersTypeCorrect == ASSUME WorkersAssumption PROVE WorkersSpec => []WorkersTypeOK
<1>1. WorkersTyped => WorkersTypeOK  BY TypedTypes
<1> QED  BY <1>1, WorkersTypedAlways, PTL

-----------------------------------------------------------------------------
(* One operator at a time *)

\* Two requests of operators at once part the processes from their handles, as the run
\* two_workers shows: the rest is about one at a time.
OneOperator == \A o, u \in Operators : o = u

\* Only the registered handle has a child, a timer or a task of its own.
HandleOK(h) ==
    /\ handle[h].child # 0 => h = worker
    /\ handle[h].timer => h = worker /\ handle[h].child = 0
    /\ task[h].pc # "idle" => h = worker
\* A task at a step of a handle is about the registered one and its child; the
\* continuations follow its exit; a stop is intended, and leaves no timer.
ThreadOK(t) ==
    /\ task[t].pc \in WithHandle => worker # 0 /\ task[t].h = worker
    /\ task[t].pc \in WithChild => handle[worker].child # 0 /\ task[t].child = handle[worker].child
    /\ task[t].pc \in Stopping => handle[worker].intentional
    /\ task[t].pc \in Immediate => handle[worker].child = 0
    /\ task[t].pc \in {"setStopped", "returned"} => ~handle[worker].timer
\* A stopped handle is at rest, and one that is stopping has who stops it.
RegisteredOK ==
    worker # 0 =>
        /\ handle[worker].status = "stopped" => handle[worker].child = 0 /\ ~handle[worker].timer
        /\ handle[worker].status = "stopping" => \E o \in Operators : task[o].pc \in Stopping
\* A plugin that is marked, or about to be, has no handle.
MarkOK(o) ==
    /\ plugin = "error" => task[o].pc \in {"idle", "write", "unload", "download"}
    /\ TaskAt(o, "write") /\ task[o].to = "error" => worker = 0
    /\ TaskAt(o, "unload") => task[o].to # "error"
    /\ TaskAt(o, "read") => task[o].to = "ready"
\* The inductive invariant.
WorkersInv ==
    /\ WorkersTyped
    /\ \A h \in Handles : HandleOK(h)
    /\ \A p \in Alive : proc[p].of = worker /\ handle[worker].child = p
    /\ \A t \in Threads : ThreadOK(t)
    /\ RegisteredOK
    /\ plugin = "error" => worker = 0
    /\ \A o \in Operators : MarkOK(o)

\* The steps with a handle, one by one.
LEMMA PCSets ==
  /\ WithHandle = {"init", "killing", "drain", "term", "kill", "initFailed", "setStopped", "returned"}
  /\ WithChild = {"init", "killing", "drain", "term", "kill"}
BY DEF WithHandle, WithChild, Stopping, Immediate

\* The initial states satisfy it.
LEMMA WorkersInvInit ==
  ASSUME WorkersAssumption
  PROVE  WorkersInit => WorkersInv
<1> SUFFICES ASSUME WorkersInit PROVE WorkersInv  OBVIOUS
<1>1. WorkersTyped  BY WorkersTypedInit
<1>2. worker = 0 /\ plugin # "error" /\ Alive = {} /\ \A h \in Handles : handle[h] = NoHandle
  BY DEF WorkersInit, Alive, NoProc
<1>3. \A t \in Threads : task[t].pc \in {"idle", "start"} /\ (t \notin Operators => task[t].pc = "idle")
  <2>1. NoTask.pc = "idle" /\ [NoTask EXCEPT !.pc = "start", !.op = "boot"].pc = "start"  BY DEF NoTask
  <2>2. \A t \in Threads : \/ task[t] = NoTask
                           \/ t \in Operators /\ task[t] = [NoTask EXCEPT !.pc = "start", !.op = "boot"]
    BY DEF WorkersInit
  <2> QED  BY <2>1, <2>2
<1>4. \A h \in Handles : HandleOK(h)
  BY <1>2, <1>3, OperatorsAreNoHandles DEF HandleOK, NoHandle
<1>5. \A t \in Threads : ThreadOK(t)
  BY <1>3 DEF ThreadOK, WithHandle, WithChild, Stopping, Immediate
<1>6. \A o \in Operators : MarkOK(o)
  BY <1>2, <1>3, OperatorsAreNoHandles DEF MarkOK, TaskAt
<1> QED  BY <1>1, <1>2, <1>4, <1>5, <1>6 DEF WorkersInv, RegisteredOK

\* A request that is not at a step of the handle goes on to another such step.
LEMMA RequestInv ==
  ASSUME WorkersAssumption, OneOperator, WorkersInv, WorkersTyped', NEW o \in Operators, NEW k,
         task' = [task EXCEPT ![o] = k], UNCHANGED <<worker, lock, handle, proc>>,
         task[o].pc \notin WithHandle, k.pc \notin WithHandle,
         plugin' = "error" => worker = 0 /\ k.pc \in {"idle", "write", "unload", "download"},
         k.pc = "write" /\ k.to = "error" => worker = 0,
         k.pc = "unload" => k.to # "error",
         k.pc = "read" => k.to = "ready"
  PROVE  WorkersInv'
<1>1. /\ o \in Threads /\ o \notin Handles /\ Handles \subseteq Threads
  BY OperatorsAreNoHandles
<1>2. task'[o] = k /\ \A u \in Threads : u # o => task'[u] = task[u]
  BY <1>1 DEF WorkersInv, WorkersTyped, TasksTyped
<1>3. Alive' = Alive  BY DEF Alive
<1>4. \A h \in Handles : HandleOK(h)'
  BY <1>1, <1>2 DEF WorkersInv, HandleOK
<1>5. \A t \in Threads : ThreadOK(t)'
  <2> TAKE t \in Threads
  <2>1. CASE t = o
    BY <1>2, <2>1, PCSets DEF ThreadOK, Stopping, Immediate
  <2>2. CASE t # o
    BY <1>2, <2>2 DEF WorkersInv, ThreadOK
  <2> QED  BY <2>1, <2>2
<1>6. RegisteredOK'
  <2>1. \A u \in Operators : task[u].pc \in Stopping => FALSE
    BY PCSets DEF OneOperator, Stopping
  <2> QED  BY <2>1 DEF WorkersInv, RegisteredOK
<1>7. \A u \in Operators : MarkOK(u)'
  BY <1>2 DEF OneOperator, MarkOK, TaskAt
<1> QED  BY <1>3, <1>4, <1>5, <1>6, <1>7 DEF WorkersInv

\* Without a child, nothing is alive and no call waits for one.
LEMMA IsQuiet ==
  ASSUME WorkersAssumption, WorkersInv, worker = 0 \/ handle[worker].child = 0
  PROVE  /\ Alive = {} /\ \A h \in Handles : handle[h].child = 0
         /\ \A t \in Threads : task[t].pc \notin WithChild
         /\ worker = 0 => \A t \in Threads : task[t].pc \notin WithHandle
<1>1. \A h \in Handles : handle[h].child = 0
  BY DEF WorkersInv, HandleOK, Handles, WorkersAssumption
<1>2. ASSUME NEW p \in Alive PROVE FALSE
  <2>1. p # 0 /\ proc[p].of # 0 /\ proc[p].of = worker /\ handle[worker].child = p
    BY DEF Alive, Procs, WorkersAssumption, WorkersInv, WorkersTyped, ProcsTyped
  <2> QED  BY <2>1
<1>3. \A t \in Threads : task[t].pc \notin WithChild
  BY PCSets DEF WorkersInv, ThreadOK
<1> QED  BY <1>1, <1>2, <1>3 DEF WorkersInv, ThreadOK

\* The registered handle starts again: no other task is about it.
LEMMA SpawnInv ==
  ASSUME WorkersAssumption, WorkersInv, WorkersTyped', NEW t \in Threads, NEW h \in Handles,
         NEW at \in TaskRecords, Spawn(t, h, at), UNCHANGED <<plugin, worker, lock>>,
         h = worker, handle[h].child = 0, t \in Handles => t = h,
         \A u \in Threads : u # t => task[u].pc \notin WithHandle
  PROVE  WorkersInv'
<1> DEFINE p == Least(FreeProcs)
           k == [at EXCEPT !.pc = "init", !.h = h, !.child = p]
<1>1. p \in FreeProcs /\ p \in Procs /\ h # 0 /\ p # 0
  <2>1. FreeProcs \in SUBSET (1..MaxProcs) /\ FreeProcs # {} /\ MaxProcs \in Nat
    BY DEF Spawn, FreeProcs, Procs, WorkersAssumption
  <2>2. p \in FreeProcs  BY <2>1, LeastIn
  <2> QED  BY <2>2 DEF FreeProcs, Procs, Handles, WorkersAssumption
<1>2. /\ proc' = [proc EXCEPT ![p] = [state |-> "up", of |-> h]]
      /\ handle' = [handle EXCEPT ![h].status = "starting", ![h].child = p,
                                    ![h].intentional = FALSE, ![h].timer = FALSE]
      /\ task' = [task EXCEPT ![t] = k]
  BY DEF Spawn
<1>3. k.pc = "init" /\ k.h = h /\ k.child = p  BY DEF TaskRecords
<1> HIDE DEF p, k
<1>4. Alive = {} /\ \A g \in Handles : handle[g].child = 0  BY IsQuiet
<1>5. /\ handle'[h].child = p /\ handle'[h].status = "starting" /\ ~handle'[h].timer
      /\ \A g \in Handles : g # h => handle'[g] = handle[g]
  BY <1>2 DEF WorkersInv, WorkersTyped, HandlesTyped, HandleRecords
<1>6. task'[t] = k /\ \A u \in Threads : u # t => task'[u] = task[u]
  BY <1>2 DEF WorkersInv, WorkersTyped, TasksTyped
<1>7. \A q \in Alive' : q = p
  BY <1>2, <1>4 DEF Alive, WorkersInv, WorkersTyped, ProcsTyped
<1>8. proc'[p].of = h  BY <1>1, <1>2 DEF WorkersInv, WorkersTyped, ProcsTyped
<1>9. \A g \in Handles : HandleOK(g)'
  BY <1>4, <1>5, <1>6, OperatorsAreNoHandles DEF WorkersInv, HandleOK
<1>10. \A u \in Threads : ThreadOK(u)'
  <2> TAKE u \in Threads
  <2>1. CASE u = t
    BY <1>1, <1>3, <1>5, <1>6, <2>1 DEF ThreadOK, Stopping, Immediate
  <2>2. CASE u # t
    BY <1>6, <2>2, PCSets DEF ThreadOK, Stopping, Immediate
  <2> QED  BY <2>1, <2>2
<1>11. RegisteredOK'  BY <1>5 DEF RegisteredOK
<1>12. plugin # "error" /\ worker # 0  BY <1>1 DEF WorkersInv
<1>13. \A o \in Operators : MarkOK(o)'
  BY <1>3, <1>6, <1>12, OperatorsAreNoHandles DEF WorkersInv, MarkOK, TaskAt
<1> QED  BY <1>7, <1>8, <1>5, <1>9, <1>10, <1>11, <1>12, <1>13 DEF WorkersInv

-----------------------------------------------------------------------------
(* Every step keeps the invariant *)

LEMMA TimerInv ==
  ASSUME WorkersAssumption, WorkersInv, WorkersTyped', Settled, NEW h \in Handles, FireTimer(h)
  PROVE  WorkersInv'
<1>1. h = worker /\ handle[h].child = 0 /\ handle[h].timer /\ h # 0
  BY DEF WorkersInv, HandleOK, FireTimer, Handles, WorkersAssumption
<1>2. UNCHANGED <<plugin, worker, lock>>  BY DEF FireTimer
<1>3. \A t \in Threads : task[t].pc \notin WithHandle
  BY <1>1, IsQuiet DEF Settled, WithHandle
<1>4. CASE handle[h].status \in {"running", "starting"}
  <2>1. handle' = [handle EXCEPT ![h].timer = FALSE] /\ UNCHANGED <<proc, task>>  BY <1>4 DEF FireTimer
  <2>2. \A g \in Handles : handle'[g].child = handle[g].child /\ handle'[g].status = handle[g].status
                           /\ (handle'[g].timer => handle[g].timer)
    BY <2>1 DEF WorkersInv, WorkersTyped, HandlesTyped, HandleRecords
  <2>3. \A g \in Handles : HandleOK(g)'  BY <1>2, <2>1, <2>2 DEF WorkersInv, HandleOK
  <2>4. \A t \in Threads : ThreadOK(t)'
    BY <1>3, <2>1, PCSets DEF ThreadOK, Stopping, Immediate
  <2>5. RegisteredOK'  BY <1>1, <1>2, <1>4, <2>1, <2>2 DEF RegisteredOK
  <2>6. \A o \in Operators : MarkOK(o)'  BY <1>2, <2>1 DEF WorkersInv, MarkOK, TaskAt
  <2>7. Alive' = Alive /\ Alive = {}  BY <1>1, <2>1, IsQuiet DEF Alive
  <2> QED  BY <1>2, <2>3, <2>4, <2>5, <2>6, <2>7 DEF WorkersInv
<1>5. CASE handle[h].status \notin {"running", "starting"}
  <2>1. Spawn(h, h, NoTask)  BY <1>5 DEF FireTimer
  <2>2. NoTask \in TaskRecords /\ h \in Threads  BY NoTaskTyped, OperatorsAreNoHandles DEF WellFormed
  <2> QED  BY <1>1, <1>2, <1>3, <2>1, <2>2, SpawnInv
<1> QED  BY <1>4, <1>5

LEMMA ReturnedInv ==
  ASSUME WorkersAssumption, OneOperator, WorkersInv, WorkersTyped', NEW t \in Threads, Returned(t)
  PROVE  WorkersInv'
<1> DEFINE h == task[t].h
<1>1. /\ task[t].pc = "returned" /\ h = worker /\ worker # 0 /\ h \in Handles
      /\ handle[h].child = 0 /\ ~handle[h].timer
  <2>1. task[t].pc = "returned"  BY DEF Returned, TaskAt
  <2>2. ThreadOK(t) /\ TasksTyped  BY DEF WorkersInv, WorkersTyped
  <2> QED  BY <2>1, <2>2, HandleOfTask, PCSets DEF ThreadOK, Immediate
<1>2. t \in Operators
  BY <1>1, OperatorsAreNoHandles DEF WorkersInv, WorkersTyped, TasksTyped, TimerPCs
<1>3. \A u \in Threads : u # t => task[u].pc \notin WithHandle
  <2> TAKE u \in Threads
  <2>1. task[u].pc \notin {"initFailed", "setStopped"}  BY DEF Returned
  <2>2. task[u].pc \notin WithChild  BY <1>1, IsQuiet
  <2>3. u # t => task[u].pc # "returned"
    BY <1>2, OperatorsAreNoHandles DEF OneOperator, WorkersInv, WorkersTyped, TasksTyped, TimerPCs
  <2> QED  BY <2>1, <2>2, <2>3, PCSets
<1>4. t \notin Handles /\ WellFormed(task[t]) /\ task[t] \in TaskRecords
  BY <1>1 DEF WorkersInv, WorkersTyped, TasksTyped, TimerPCs
<1>5. UNCHANGED <<plugin, lock>> /\ plugin # "error"  BY <1>1 DEF Returned, WorkersInv
<1>6. CASE task[t].op # "restart"
  <2> DEFINE k == Offline(task[t])
  <2>1. worker' = 0 /\ task' = [task EXCEPT ![t] = k] /\ UNCHANGED <<handle, proc>>
    BY <1>6 DEF Returned
  <2>2. k.pc \in {"download", "write", "idle"}
    <3>1. task[t].op # "upgrade" => task[t].to \in PluginStatuses
      BY <1>1, <1>4, <1>6 DEF WellFormed, WillWrite
    <3> QED  BY <1>4, <3>1, OfflineTyped
  <2> HIDE DEF k
  <2>3. task'[t] = k /\ \A u \in Threads : u # t => task'[u] = task[u]
    BY <2>1 DEF WorkersInv, WorkersTyped, TasksTyped
  <2>4. Alive' = {} /\ \A g \in Handles : handle'[g].child = 0  BY <1>1, <2>1, IsQuiet DEF Alive
  <2>5. \A g \in Handles : ~handle'[g].timer  BY <1>1, <2>1 DEF WorkersInv, HandleOK
  <2>6. \A g \in Handles : task'[g].pc = "idle"
    <3> TAKE g \in Handles
    <3>1. g \in Threads /\ g # t  BY <1>4, OperatorsAreNoHandles
    <3>2. task[g].pc \notin WithHandle /\ task[g].pc \in TimerPCs
      BY <1>3, <3>1 DEF WorkersInv, WorkersTyped, TasksTyped
    <3> QED  BY <2>3, <3>1, <3>2, PCSets DEF TimerPCs
  <2>7. \A g \in Handles : HandleOK(g)'  BY <2>4, <2>5, <2>6 DEF HandleOK
  <2>8. \A u \in Threads : task'[u].pc \notin WithHandle  BY <1>3, <2>2, <2>3, PCSets
  <2>9. \A u \in Threads : ThreadOK(u)'
    BY <2>8, PCSets DEF ThreadOK, Stopping, Immediate
  <2>10. \A o \in Operators : MarkOK(o)'
    BY <1>2, <1>5, <2>1, <2>2, <2>3 DEF OneOperator, MarkOK, TaskAt
  <2> QED  BY <1>5, <2>1, <2>4, <2>7, <2>9, <2>10 DEF WorkersInv, RegisteredOK
<1>7. CASE task[t].op = "restart"
  <2>1. worker' = worker  BY <1>7 DEF Returned
  <2>2. CASE handle[h].status \in {"running", "starting"}
    <3>1. EndTask(t) /\ UNCHANGED <<handle, proc>>  BY <1>7, <2>2 DEF Returned
    <3>2. task'[t] = NoTask /\ \A u \in Threads : u # t => task'[u] = task[u]
      BY <3>1 DEF EndTask, WorkersInv, WorkersTyped, TasksTyped
    <3>3. NoTask.pc = "idle"  BY NoTaskTyped
    <3>4. Alive' = {}  BY <1>1, <3>1, IsQuiet DEF Alive
    <3>5. \A g \in Handles : HandleOK(g)'
      BY <1>4, <2>1, <3>1, <3>2, OperatorsAreNoHandles DEF WorkersInv, HandleOK
    <3>6. \A u \in Threads : task'[u].pc \notin WithHandle  BY <1>3, <3>2, <3>3, PCSets
    <3>7. \A u \in Threads : ThreadOK(u)'
      BY <3>6, PCSets DEF ThreadOK, Stopping, Immediate
    <3>8. RegisteredOK'  BY <1>1, <2>1, <2>2, <3>1 DEF RegisteredOK
    <3>9. \A o \in Operators : MarkOK(o)'
      BY <1>2, <1>5, <3>2, <3>3 DEF OneOperator, MarkOK, TaskAt
    <3> QED  BY <1>5, <3>4, <3>5, <3>7, <3>8, <3>9 DEF WorkersInv
  <2>3. CASE handle[h].status \notin {"running", "starting"}
    <3>1. Spawn(t, h, task[t])  BY <1>7, <2>3 DEF Returned
    <3> QED  BY <1>1, <1>3, <1>4, <1>5, <2>1, <3>1, SpawnInv
  <2> QED  BY <2>2, <2>3
<1> QED  BY <1>6, <1>7

\* What a step that keeps the registered handle and its child has to keep.
LEMMA SameHandleInv ==
  ASSUME WorkersAssumption, WorkersInv, WorkersTyped', worker' = worker, plugin' = plugin,
         Alive' = Alive, \A p \in Alive : proc'[p].of = proc[p].of,
         \A h \in Handles : /\ handle'[h].child = handle[h].child
                            /\ handle'[h].timer => handle[h].timer
                            /\ task'[h].pc # "idle" => task[h].pc # "idle",
         \A t \in Threads : task'[t] = task[t] \/ ThreadOK(t)',
         worker # 0 /\ handle[worker].intentional => handle'[worker].intentional,
         RegisteredOK', \A o \in Operators : MarkOK(o)'
  PROVE  WorkersInv'
<1>1. \A h \in Handles : HandleOK(h)'  BY DEF WorkersInv, HandleOK
<1>2. worker # 0 => worker \in Handles  BY DEF WorkersInv, WorkersTyped, Handles, WorkersAssumption
<1>3. \A t \in Threads : ThreadOK(t)'
  <2> SUFFICES ASSUME NEW t \in Threads, task'[t] = task[t] PROVE ThreadOK(t)'  OBVIOUS
  <2>1. ThreadOK(t)  BY DEF WorkersInv
  <2>2. task[t].pc \in WithHandle \/ task[t].pc \notin WithChild \cup Stopping \cup Immediate
    BY PCSets DEF Stopping, Immediate
  <2> QED  BY <1>2, <2>1, <2>2, PCSets DEF ThreadOK, Stopping, Immediate
<1>4. \A p \in Alive : proc'[p].of = worker /\ handle'[worker].child = p
  BY <1>2 DEF WorkersInv, WorkersTyped, ProcsTyped
<1> QED  BY <1>1, <1>3, <1>4 DEF WorkersInv

\* The handle of a task is the registered one.
LEMMA TaskOfHandle ==
  ASSUME WorkersAssumption, WorkersInv, NEW t \in Threads, task[t].pc \in WithHandle
  PROVE  task[t].h = worker /\ worker # 0 /\ worker \in Handles /\ plugin # "error"
BY DEF WorkersInv, ThreadOK, WorkersTyped, Handles, WorkersAssumption

LEMMA EscalateInv ==
  ASSUME WorkersAssumption, OneOperator, WorkersInv, WorkersTyped', NEW t \in Threads, Escalate(t)
  PROVE  WorkersInv'
<1> DEFINE child == handle[worker].child
           k == [task[t] EXCEPT !.pc = IF @ = "drain" THEN "term" ELSE "kill", !.child = child]
<1>1. task[t].pc \in {"drain", "term"} /\ UNCHANGED <<plugin, worker, lock, handle>>  BY DEF Escalate
<1>2. task[t].h = worker /\ worker # 0 /\ worker \in Handles /\ plugin # "error"
  BY <1>1, TaskOfHandle, PCSets
<1>3. child # 0 /\ task[t].child = child /\ handle[worker].intentional
  BY <1>1, <1>2, PCSets DEF WorkersInv, ThreadOK, Stopping
<1>4. /\ task' = [task EXCEPT ![t] = k]
      /\ proc' = [proc EXCEPT ![child].state =
                            IF TaskAt(t, "term") \/ @ = "killed" THEN "killed" ELSE "leaving"]
  BY <1>2, <1>3 DEF Escalate
<1>5. t \notin Handles /\ t \in Operators /\ task[t] \in TaskRecords
  BY <1>1, OperatorsAreNoHandles DEF WorkersInv, WorkersTyped, TasksTyped, TimerPCs
<1>6. k.pc \in {"term", "kill"} /\ k.h = worker /\ k.child = child  BY <1>1, <1>2, <1>5 DEF TaskRecords
<1> HIDE DEF k
<1>7. task'[t] = k /\ \A u \in Threads : u # t => task'[u] = task[u]
  BY <1>4 DEF WorkersInv, WorkersTyped, TasksTyped
<1>8. child \in Alive  BY <1>2, <1>3 DEF WorkersInv, WorkersTyped, ChildrenAlive
<1>9. Alive' = Alive /\ \A p \in Alive : proc'[p].of = proc[p].of
  BY <1>4, <1>8 DEF Alive, WorkersInv, WorkersTyped, ProcsTyped, ProcRecords
<1>10. ThreadOK(t)'  BY <1>1, <1>2, <1>3, <1>6, <1>7 DEF ThreadOK, Stopping, Immediate
<1>11. RegisteredOK'
  BY <1>1, <1>5, <1>6, <1>7 DEF WorkersInv, RegisteredOK, Stopping
<1>12. \A o \in Operators : MarkOK(o)'
  BY <1>1, <1>2, <1>5, <1>6, <1>7 DEF OneOperator, MarkOK, TaskAt
<1>13. \A h \in Handles : task'[h].pc # "idle" => task[h].pc # "idle"
  BY <1>5, <1>7, OperatorsAreNoHandles
<1> QED  BY <1>1, <1>7, <1>9, <1>10, <1>11, <1>12, <1>13, SameHandleInv

LEMMA InitializedInv ==
  ASSUME WorkersAssumption, WorkersInv, WorkersTyped', NEW t \in Threads, Initialized(t)
  PROVE  WorkersInv'
<1> DEFINE h == task[t].h
           m == [NoTask EXCEPT !.pc = "mark", !.op = "markError"]
<1>1. task[t].pc = "init"  BY DEF Initialized, TaskAt
<1>2. h = worker /\ worker # 0 /\ worker \in Handles /\ plugin # "error"
  BY <1>1, TaskOfHandle, PCSets
<1>3. /\ handle' = [handle EXCEPT ![h].status = "running", ![h].crashes = 0]
      /\ \A u \in Threads : task'[u] \in {NoTask, task[u]} \/ (u \in Operators /\ task'[u] = m)
      /\ UNCHANGED <<plugin, worker, proc>>
  BY DEF Initialized
<1>4. NoTask.pc = "idle" /\ m.pc = "mark"  BY DEF NoTask
<1> HIDE DEF m
<1>5. \A g \in Handles : /\ handle'[g].child = handle[g].child
                         /\ handle'[g].timer = handle[g].timer
                         /\ handle'[g].intentional = handle[g].intentional
  BY <1>3 DEF WorkersInv, WorkersTyped, HandlesTyped, HandleRecords
<1>6. handle'[worker].status = "running"
  BY <1>2, <1>3 DEF WorkersInv, WorkersTyped, HandlesTyped, HandleRecords
<1>7. \A u \in Threads : task'[u] = task[u] \/ ThreadOK(u)'
  BY <1>3, <1>4, PCSets DEF ThreadOK, Stopping, Immediate
<1>8. RegisteredOK'  BY <1>3, <1>6 DEF RegisteredOK
<1>9. \A o \in Operators : MarkOK(o)'
  BY <1>2, <1>3, <1>4, OperatorsAreNoHandles DEF WorkersInv, MarkOK, TaskAt
<1>10. Alive' = Alive  BY <1>3 DEF Alive
<1>11. \A g \in Handles : task'[g].pc # "idle" => task[g].pc # "idle"
  BY <1>3, <1>4, OperatorsAreNoHandles
<1> QED  BY <1>2, <1>3, <1>5, <1>7, <1>8, <1>9, <1>10, <1>11, SameHandleInv

LEMMA NotInitializedInv ==
  ASSUME WorkersAssumption, WorkersInv, WorkersTyped', NEW t \in Threads, NotInitialized(t)
  PROVE  WorkersInv'
<1> DEFINE child == handle[worker].child
           k == [task[t] EXCEPT !.pc = "killing", !.child = child]
<1>1. task[t].pc = "init" /\ UNCHANGED <<plugin, worker, lock>>  BY DEF NotInitialized, TaskAt
<1>2. task[t].h = worker /\ worker # 0 /\ worker \in Handles /\ plugin # "error"
  BY <1>1, TaskOfHandle, PCSets
<1>3. child # 0  BY <1>1, PCSets DEF WorkersInv, ThreadOK
<1>4. /\ handle' = [handle EXCEPT ![worker].intentional = TRUE]
      /\ proc' = [proc EXCEPT ![child].state = "killed"]
      /\ task' = [task EXCEPT ![t] = k]
  BY <1>2, <1>3 DEF NotInitialized
<1>5. task[t] \in TaskRecords  BY DEF WorkersInv, WorkersTyped, TasksTyped
<1>6. k.pc = "killing" /\ k.h = worker /\ k.child = child  BY <1>2, <1>5 DEF TaskRecords
<1> HIDE DEF k
<1>7. task'[t] = k /\ \A u \in Threads : u # t => task'[u] = task[u]
  BY <1>4 DEF WorkersInv, WorkersTyped, TasksTyped
<1>8. \A g \in Handles : /\ handle'[g].child = handle[g].child
                         /\ handle'[g].timer = handle[g].timer
                         /\ handle'[g].status = handle[g].status
  BY <1>4 DEF WorkersInv, WorkersTyped, HandlesTyped, HandleRecords
<1>9. handle'[worker].intentional
  BY <1>2, <1>4 DEF WorkersInv, WorkersTyped, HandlesTyped, HandleRecords
<1>10. child \in Alive  BY <1>2, <1>3 DEF WorkersInv, WorkersTyped, ChildrenAlive
<1>11. Alive' = Alive /\ \A p \in Alive : proc'[p].of = proc[p].of
  BY <1>4, <1>10 DEF Alive, WorkersInv, WorkersTyped, ProcsTyped, ProcRecords
<1>12. ThreadOK(t)'
  BY <1>1, <1>2, <1>3, <1>6, <1>7, <1>8 DEF ThreadOK, Stopping, Immediate
<1>13. RegisteredOK'
  <2>1. \A o \in Operators : task[o].pc \in Stopping => task'[o] = task[o]
    BY <1>1, <1>7, OperatorsAreNoHandles DEF Stopping
  <2> QED  BY <1>1, <1>2, <1>8, <2>1 DEF WorkersInv, RegisteredOK
<1>14. \A o \in Operators : MarkOK(o)'
  BY <1>1, <1>2, <1>6, <1>7, OperatorsAreNoHandles DEF WorkersInv, MarkOK, TaskAt
<1>15. \A g \in Handles : task'[g].pc # "idle" => task[g].pc # "idle"
  BY <1>1, <1>7, OperatorsAreNoHandles
<1> QED  BY <1>1, <1>7, <1>8, <1>9, <1>11, <1>12, <1>13, <1>14, <1>15, SameHandleInv

LEMMA SetStoppedInv ==
  ASSUME WorkersAssumption, OneOperator, WorkersInv, WorkersTyped', NEW t \in Threads, SetStopped(t)
  PROVE  WorkersInv'
<1> DEFINE h == task[t].h
           k == [task[t] EXCEPT !.pc = "returned"]
<1>1. task[t].pc = "setStopped"  BY DEF SetStopped, TaskAt
<1>2. h = worker /\ worker # 0 /\ worker \in Handles /\ plugin # "error"
  BY <1>1, TaskOfHandle, PCSets
<1>3. handle[worker].child = 0 /\ ~handle[worker].timer
  BY <1>1 DEF WorkersInv, ThreadOK, Immediate
<1>4. /\ handle' = [handle EXCEPT ![h].status = "stopped"]
      /\ task' = [task EXCEPT ![t] = k] /\ UNCHANGED <<plugin, worker, lock, proc>>
  BY DEF SetStopped, TaskGo
<1>5. task[t] \in TaskRecords /\ t \notin Handles /\ t \in Operators
  BY <1>1, OperatorsAreNoHandles DEF WorkersInv, WorkersTyped, TasksTyped, TimerPCs
<1>6. k.pc = "returned" /\ k.h = worker  BY <1>2, <1>5 DEF TaskRecords
<1> HIDE DEF k
<1>7. task'[t] = k /\ \A u \in Threads : u # t => task'[u] = task[u]
  BY <1>4 DEF WorkersInv, WorkersTyped, TasksTyped
<1>8. \A g \in Handles : /\ handle'[g].child = handle[g].child
                         /\ handle'[g].timer = handle[g].timer
                         /\ handle'[g].intentional = handle[g].intentional
  BY <1>4 DEF WorkersInv, WorkersTyped, HandlesTyped, HandleRecords
<1>9. handle'[worker].status = "stopped"
  BY <1>2, <1>4 DEF WorkersInv, WorkersTyped, HandlesTyped, HandleRecords
<1>10. ThreadOK(t)'
  BY <1>2, <1>3, <1>4, <1>6, <1>7, <1>8, PCSets DEF ThreadOK, Stopping, Immediate
<1>11. RegisteredOK'  BY <1>2, <1>3, <1>4, <1>8, <1>9 DEF RegisteredOK
<1>12. \A o \in Operators : MarkOK(o)'
  BY <1>2, <1>4, <1>5, <1>6, <1>7 DEF OneOperator, MarkOK, TaskAt
<1>13. \A g \in Handles : task'[g].pc # "idle" => task[g].pc # "idle"
  BY <1>5, <1>7, OperatorsAreNoHandles
<1>14. Alive' = Alive  BY <1>4 DEF Alive
<1> QED  BY <1>2, <1>4, <1>7, <1>8, <1>10, <1>11, <1>12, <1>13, <1>14, SameHandleInv

LEMMA InitFailedInv ==
  ASSUME WorkersAssumption, WorkersInv, WorkersTyped', NEW t \in Threads, InitFailed(t)
  PROVE  WorkersInv'
<1> DEFINE h == task[t].h
           m == [NoTask EXCEPT !.pc = "mark", !.op = "markError"]
<1>1. task[t].pc = "initFailed"  BY DEF InitFailed, TaskAt
<1>2. h = worker /\ worker # 0 /\ worker \in Handles /\ plugin # "error"
  BY <1>1, TaskOfHandle, PCSets
<1>3. /\ handle' = [handle EXCEPT ![h].status = "crashed"]
      /\ \A u \in Threads : task'[u] \in {NoTask, task[u]} \/ (u \in Operators /\ task'[u] = m)
      /\ UNCHANGED <<plugin, worker, proc>>
  BY DEF InitFailed
<1>4. NoTask.pc = "idle" /\ m.pc = "mark"  BY DEF NoTask
<1> HIDE DEF m
<1>5. \A g \in Handles : /\ handle'[g].child = handle[g].child
                         /\ handle'[g].timer = handle[g].timer
                         /\ handle'[g].intentional = handle[g].intentional
  BY <1>3 DEF WorkersInv, WorkersTyped, HandlesTyped, HandleRecords
<1>6. handle'[worker].status = "crashed"
  BY <1>2, <1>3 DEF WorkersInv, WorkersTyped, HandlesTyped, HandleRecords
<1>7. \A u \in Threads : task'[u] = task[u] \/ ThreadOK(u)'
  BY <1>3, <1>4, PCSets DEF ThreadOK, Stopping, Immediate
<1>8. RegisteredOK'  BY <1>3, <1>6 DEF RegisteredOK
<1>9. \A o \in Operators : MarkOK(o)'
  BY <1>2, <1>3, <1>4, OperatorsAreNoHandles DEF WorkersInv, MarkOK, TaskAt
<1>10. Alive' = Alive  BY <1>3 DEF Alive
<1>11. \A g \in Handles : task'[g].pc # "idle" => task[g].pc # "idle"
  BY <1>3, <1>4, OperatorsAreNoHandles
<1> QED  BY <1>2, <1>3, <1>5, <1>7, <1>8, <1>9, <1>10, <1>11, SameHandleInv

\* The exit of the child answers every call that waits for it.
LEMMA ExitInv ==
  ASSUME WorkersAssumption, OneOperator, WorkersInv, WorkersTyped', NEW p \in Procs, WorkerExit(p)
  PROVE  WorkersInv'
<1> DEFINE h == proc[p].of
           wanted == handle[h].intentional
           answered(t) ==
             CASE task[t].h = h /\ task[t].pc = "init" -> "initFailed"
               [] task[t].h = h /\ task[t].pc = "drain" -> "setStopped"
               [] task[t].child = p /\ task[t].pc \in {"term", "kill"} -> "setStopped"
               [] task[t].child = p /\ task[t].pc = "killing" -> "initFailed"
               [] OTHER -> task[t].pc
<1>1. /\ p \in Alive /\ h = worker /\ worker # 0 /\ handle[worker].child = p /\ p # 0
      /\ worker \in Handles /\ plugin # "error"
  <2>1. p \in Alive /\ p # 0
    <3>1. p # 0  BY DEF Procs, WorkersAssumption
    <3>2. QED  BY <3>1 DEF WorkerExit
  <2>2. worker # 0  BY <2>1 DEF WorkersInv, WorkersTyped, ProcsTyped
  <2> QED  BY <2>1, <2>2 DEF WorkersInv, WorkersTyped, Handles, WorkersAssumption
<1>2. PICK n : handle' = [handle EXCEPT ![h].child = 0,
                    ![h].crashes = IF wanted THEN @ ELSE n,
                    ![h].timer = @ \/ (~wanted /\ n <= MaxConsecutiveCrashes),
                    ![h].status = IF wanted THEN "stopped"
                                  ELSE IF n <= MaxConsecutiveCrashes THEN "backoff" ELSE "crashed"]
  BY DEF WorkerExit
<1>3. /\ task' = [t \in Threads |-> [task[t] EXCEPT !.pc = answered(t)]]
      /\ proc' = [proc EXCEPT ![p] = NoProc]
      /\ UNCHANGED <<plugin, worker, lock>>
  BY DEF WorkerExit
<1>4. ~handle[worker].timer  BY <1>1 DEF WorkersInv, HandleOK
<1>5. /\ handle'[worker].child = 0
      /\ wanted => ~handle'[worker].timer
      /\ handle'[worker].status = "stopped" => wanted
      /\ handle'[worker].status # "stopping"
      /\ \A g \in Handles : g # worker => handle'[g] = handle[g]
  <2>1. handle[worker] \in HandleRecords  BY <1>1 DEF WorkersInv, WorkersTyped, HandlesTyped
  <2> QED  BY <1>1, <1>2, <1>4, <2>1 DEF WorkersInv, WorkersTyped, HandlesTyped, HandleRecords
<1>6. \A t \in Threads : task'[t].pc = answered(t) /\ task'[t].h = task[t].h /\ task'[t].to = task[t].to
  BY <1>3 DEF WorkersInv, WorkersTyped, TasksTyped, TaskRecords
<1>7. \A t \in Threads :
         /\ task[t].pc \in WithChild => task[t].h = worker /\ task[t].child = p
         /\ task[t].pc \notin Immediate
  BY <1>1, PCSets DEF WorkersInv, ThreadOK
<1>8. \A t \in Threads :
         \/ task[t].pc \in {"init", "killing"} /\ task'[t].pc = "initFailed"
         \/ task[t].pc \in Stopping /\ task'[t].pc = "setStopped"
         \/ task[t].pc \notin WithHandle /\ task'[t].pc = task[t].pc
  <2> TAKE t \in Threads
  <2>1. CASE task[t].pc = "init"
    BY <1>1, <1>6, <1>7, <2>1, PCSets
  <2>2. CASE task[t].pc = "drain"
    BY <1>1, <1>6, <1>7, <2>2, PCSets DEF Stopping
  <2>3. CASE task[t].pc \in {"term", "kill"}
    BY <1>6, <1>7, <2>3, PCSets DEF Stopping
  <2>4. CASE task[t].pc = "killing"
    BY <1>6, <1>7, <2>4, PCSets
  <2>5. CASE task[t].pc \notin WithChild
    BY <1>6, <1>7, <2>5, PCSets DEF Immediate
  <2> QED  BY <2>1, <2>2, <2>3, <2>4, <2>5, PCSets
<1> HIDE DEF answered
<1>9. \A t \in Threads : task[t].pc \in Stopping => wanted  BY <1>1 DEF WorkersInv, ThreadOK
<1>10. \A t \in Threads : ThreadOK(t)'
  <2> TAKE t \in Threads
  <2>1. task'[t].pc \in WithHandle => task[t].pc \in WithChild  BY <1>8, PCSets DEF Stopping
  <2>2. task'[t].pc \notin WithChild  BY <1>8, PCSets
  <2>3. task'[t].pc \in {"setStopped", "returned"} => task[t].pc \in Stopping
    BY <1>8, PCSets
  <2>4. task'[t].pc \in WithHandle => task'[t].h = worker'  BY <1>3, <1>6, <1>7, <2>1
  <2>5. task'[t].pc \in {"setStopped", "returned"} => ~handle'[worker].timer  BY <1>5, <1>9, <2>3
  <2>6. task'[t].pc \notin Stopping  BY <2>2, PCSets DEF Stopping
  <2> QED  BY <1>1, <1>3, <1>5, <2>2, <2>4, <2>5, <2>6 DEF ThreadOK
<1>11. Alive' = {}
  <2>1. \A q \in Alive : q = p  BY <1>1 DEF WorkersInv
  <2>2. \A q \in Alive' : q \in Alive /\ q # p
    BY <1>3 DEF Alive, NoProc, WorkersInv, WorkersTyped, ProcsTyped
  <2> QED  BY <2>1, <2>2
<1>12. \A g \in Handles : HandleOK(g)'
  <2> TAKE g \in Handles
  <2>1. HandleOK(g) /\ g \in Threads  BY OperatorsAreNoHandles DEF WorkersInv
  <2>2. task'[g].pc # "idle" => task[g].pc # "idle"  BY <1>8, <2>1, PCSets DEF Stopping
  <2> QED  BY <1>3, <1>5, <2>1, <2>2 DEF HandleOK
<1>13. RegisteredOK'  BY <1>3, <1>5 DEF RegisteredOK
<1>14. \A o \in Operators : MarkOK(o)'
  <2> TAKE o \in Operators
  <2>1. MarkOK(o) /\ o \in Threads  BY OperatorsAreNoHandles DEF WorkersInv
  <2> QED  BY <1>1, <1>3, <1>6, <1>8, <2>1, PCSets DEF MarkOK, TaskAt, Stopping
<1> QED  BY <1>1, <1>3, <1>10, <1>11, <1>12, <1>13, <1>14 DEF WorkersInv

\* The one operator stops the registered handle: no other stop of it is under way.
LEMMA StopInv ==
  ASSUME WorkersAssumption, OneOperator, WorkersInv, WorkersTyped', NEW o \in Operators, NEW at \in TaskRecords,
         worker # 0, BeginStop(o, worker, at), task[o].pc \notin WithHandle, UNCHANGED <<plugin, worker, lock>>
  PROVE  WorkersInv'
<1> DEFINE h == worker
           child == handle[h].child
           over == handle[h].status \in {"stopped", "stopping"}
           k == [at EXCEPT !.h = h, !.child = child, !.pc = IF over \/ child = 0 THEN "returned" ELSE "drain"]
<1>1. h \in Handles /\ plugin # "error"  BY DEF WorkersInv, WorkersTyped, Handles, WorkersAssumption
<1>2. /\ handle' = [handle EXCEPT ![h].timer = FALSE,
                        ![h].intentional = ~over \/ @,
                        ![h].status = IF over THEN @ ELSE IF child = 0 THEN "stopped" ELSE "stopping"]
      /\ task' = [task EXCEPT ![o] = k]
      /\ proc' = IF over \/ child = 0 THEN proc
                   ELSE [proc EXCEPT ![child].state = IF @ = "up" THEN "leaving" ELSE @]
  BY DEF BeginStop, StopHandle
<1>3. handle[h].status # "stopping"
  BY PCSets DEF WorkersInv, RegisteredOK, OneOperator, Stopping
<1>4. over => child = 0  BY <1>3 DEF WorkersInv, RegisteredOK
<1>5. k.h = h /\ k.child = child /\ k.pc = IF child = 0 THEN "returned" ELSE "drain"
  BY <1>4 DEF TaskRecords
<1> HIDE DEF k
<1>6. o \in Threads /\ o \notin Handles  BY OperatorsAreNoHandles
<1>7. task'[o] = k /\ \A u \in Threads : u # o => task'[u] = task[u]
  BY <1>2, <1>6 DEF WorkersInv, WorkersTyped, TasksTyped
<1>8. /\ \A g \in Handles : /\ handle'[g].child = handle[g].child
                            /\ handle'[g].timer => handle[g].timer
      /\ ~handle'[h].timer
      /\ handle[h].intentional \/ child # 0 => handle'[h].intentional
      /\ handle'[h].status = "stopped" => child = 0
      /\ handle'[h].status = "stopping" => child # 0
  <2>1. handle[h] \in HandleRecords  BY <1>1 DEF WorkersInv, WorkersTyped, HandlesTyped
  <2>2. \A g \in Handles : g # h => handle'[g] = handle[g]
    BY <1>2 DEF WorkersInv, WorkersTyped, HandlesTyped
  <2>3. /\ handle'[h].child = child /\ handle'[h].timer = FALSE
        /\ handle'[h].intentional = (~over \/ handle[h].intentional)
        /\ handle'[h].status = IF over THEN handle[h].status ELSE IF child = 0 THEN "stopped" ELSE "stopping"
    BY <1>1, <1>2, <2>1 DEF WorkersInv, WorkersTyped, HandlesTyped, HandleRecords
  <2> QED  BY <1>3, <1>4, <2>2, <2>3
<1>9. Alive' = Alive /\ \A p \in Alive : proc'[p].of = proc[p].of
  <2>1. CASE child = 0
    <3>1. proc' = proc  BY <1>2, <2>1
    <3> QED  BY <3>1 DEF Alive
  <2>2. CASE child # 0
    <3>1. child \in Alive  BY <1>1, <2>2 DEF WorkersInv, WorkersTyped, ChildrenAlive
    <3>2. proc' = [proc EXCEPT ![child].state = IF @ = "up" THEN "leaving" ELSE @]  BY <1>2, <1>4, <2>2
    <3>3. proc \in [Procs -> ProcRecords] /\ child \in Procs /\ proc[child].state # "none"
      BY <3>1 DEF Alive, WorkersInv, WorkersTyped, ProcsTyped
    <3>4. \A p \in Procs : p # child => proc'[p] = proc[p]  BY <3>2, <3>3
    <3>5. proc'[child].of = proc[child].of /\ proc'[child].state # "none"
      BY <3>2, <3>3 DEF ProcRecords
    <3> QED  BY <3>3, <3>4, <3>5 DEF Alive
  <2> QED  BY <2>1, <2>2
<1>10. \A u \in Threads : task'[u] = task[u] \/ ThreadOK(u)'
  BY <1>1, <1>5, <1>7, <1>8, PCSets DEF ThreadOK, Stopping, Immediate
<1>11. RegisteredOK'
  BY <1>1, <1>5, <1>7, <1>8 DEF RegisteredOK, Stopping
<1>12. \A u \in Operators : MarkOK(u)'
  BY <1>1, <1>5, <1>7 DEF OneOperator, MarkOK, TaskAt
<1>13. \A g \in Handles : task'[g].pc # "idle" => task[g].pc # "idle"
  BY <1>6, <1>7, OperatorsAreNoHandles
<1> QED  BY <1>8, <1>9, <1>10, <1>11, <1>12, <1>13, SameHandleInv

\* The new handle is the only one that has a process, a timer or a task.
LEMMA RegisterInv ==
  ASSUME WorkersAssumption, OneOperator, WorkersInv, WorkersTyped', Settled, NEW o \in Operators,
         TaskAt(o, "start"), worker = 0 \/ handle[worker].status = "stopped", Register(o), plugin' = plugin
  PROVE  WorkersInv'
<1> DEFINE h == Least(FreeHandles)
           p == Least(FreeProcs)
           k == [task[o] EXCEPT !.pc = "init", !.h = h, !.child = p]
           n == [NoHandle EXCEPT !.status = "starting", !.child = p]
<1>1. p \in Procs /\ p # 0 /\ h \in Handles /\ h # 0
  <2>1. FreeProcs \in SUBSET (1..MaxProcs) /\ FreeProcs # {} /\ MaxProcs \in Nat
    BY DEF Register, FreeProcs, Procs, WorkersAssumption
  <2>2. FreeHandles \in SUBSET (1..MaxHandles) /\ FreeHandles # {} /\ MaxHandles \in Nat
    BY DEF Register, FreeHandles, Handles, WorkersAssumption
  <2>3. p \in FreeProcs  BY <2>1, LeastIn
  <2>4. h \in FreeHandles  BY <2>2, LeastIn
  <2> QED  BY <2>3, <2>4 DEF FreeProcs, FreeHandles, Procs, Handles, WorkersAssumption
<1>2. /\ worker' = h /\ lock' = h
      /\ proc' = [proc EXCEPT ![p] = [state |-> "up", of |-> h]]
      /\ handle' = [handle EXCEPT ![h] = n]
      /\ task' = [task EXCEPT ![o] = k]
  BY DEF Register
<1> HIDE DEF h, p
<1>3. o \in Threads /\ o \notin Handles  BY OperatorsAreNoHandles
<1>4. task[o] \in TaskRecords /\ task[o].pc = "start"
  BY <1>3 DEF WorkersInv, WorkersTyped, TasksTyped, TaskAt
<1>5. k.pc = "init" /\ k.h = h /\ k.child = p  BY <1>4 DEF TaskRecords
<1>6. n.child = p /\ n.status = "starting" /\ ~n.timer  BY DEF NoHandle
<1> HIDE DEF k, n
<1>7. worker # 0 => handle[worker].child = 0 /\ ~handle[worker].timer
  BY DEF WorkersInv, RegisteredOK
<1>8. Alive = {} /\ \A g \in Handles : handle[g].child = 0 /\ ~handle[g].timer
  BY <1>7, IsQuiet DEF WorkersInv, HandleOK, Handles, WorkersAssumption
<1>9. \A t \in Threads : task[t].pc \notin WithHandle
  BY <1>7, IsQuiet DEF Settled, WithHandle
<1>10. \A g \in Handles : task[g].pc = "idle"
  BY <1>9, OperatorsAreNoHandles, PCSets DEF WorkersInv, WorkersTyped, TasksTyped, TimerPCs
<1>11. task'[o] = k /\ \A u \in Threads : u # o => task'[u] = task[u]
  BY <1>2, <1>3 DEF WorkersInv, WorkersTyped, TasksTyped
<1>12. handle'[h] = n /\ \A g \in Handles : g # h => handle'[g] = handle[g]
  BY <1>1, <1>2 DEF WorkersInv, WorkersTyped, HandlesTyped
<1>13. (\A q \in Alive' : q = p) /\ proc'[p].of = h
  BY <1>1, <1>2, <1>8 DEF Alive, WorkersInv, WorkersTyped, ProcsTyped
<1>14. \A g \in Handles : HandleOK(g)'
  BY <1>2, <1>3, <1>6, <1>8, <1>10, <1>11, <1>12, OperatorsAreNoHandles DEF HandleOK
<1>15. \A u \in Threads : ThreadOK(u)'
  <2> TAKE u \in Threads
  <2>1. CASE u = o
    BY <1>1, <1>2, <1>5, <1>6, <1>11, <1>12, <2>1 DEF ThreadOK, Stopping, Immediate
  <2>2. CASE u # o
    BY <1>9, <1>11, <2>2, PCSets DEF ThreadOK, Stopping, Immediate
  <2> QED  BY <2>1, <2>2
<1>16. RegisteredOK'  BY <1>2, <1>6, <1>12 DEF RegisteredOK
<1>17. plugin # "error"  BY <1>4 DEF WorkersInv, MarkOK
<1>18. \A u \in Operators : MarkOK(u)'
  BY <1>5, <1>11, <1>17 DEF OneOperator, MarkOK, TaskAt
<1> QED  BY <1>2, <1>6, <1>12, <1>13, <1>14, <1>15, <1>16, <1>17, <1>18 DEF WorkersInv

\* The requests that begin without the handle, and those that go on without it.
LEMMA InstallInv ==
  ASSUME WorkersAssumption, OneOperator, WorkersInv, WorkersTyped', NEW o \in Operators,
         Install(o) \/ Enable(o) \/ \E op \in DOMAIN Accepts : TakeDown(o, op)
  PROVE  WorkersInv'
<1> DEFINE i == [NoTask EXCEPT !.pc = "read", !.op = "install", !.to = "ready"]
           e == [NoTask EXCEPT !.pc = "write", !.op = "enable", !.to = "ready"]
           u(op) == [NoTask EXCEPT !.pc = "unload", !.op = op, !.read = plugin, !.to = Target[op]]
<1>1. task[o].pc \notin WithHandle /\ UNCHANGED <<worker, lock, handle, proc>>
  BY PCSets DEF Install, Enable, TakeDown, TaskAt
<1>2. plugin' = "error" => worker = 0  BY DEF WorkersInv, Install, Enable, TakeDown
<1>3. CASE Install(o)
  <2>1. task' = [task EXCEPT ![o] = i] /\ plugin' # "error"  BY <1>3 DEF Install
  <2>2. i.pc = "read" /\ i.to = "ready"  BY DEF NoTask
  <2> HIDE DEF i
  <2> QED  BY <1>1, <2>1, <2>2, RequestInv, PCSets
<1>4. CASE Enable(o)
  <2>1. task' = [task EXCEPT ![o] = e]  BY <1>4 DEF Enable
  <2>2. e.pc = "write" /\ e.to = "ready"  BY DEF NoTask
  <2> HIDE DEF e
  <2> QED  BY <1>1, <1>2, <2>1, <2>2, RequestInv, PCSets
<1>5. ASSUME NEW op \in DOMAIN Accepts, TakeDown(o, op) PROVE WorkersInv'
  <2>1. task' = [task EXCEPT ![o] = u(op)]  BY <1>5 DEF TakeDown
  <2>2. u(op).pc = "unload" /\ u(op).to = Target[op]  BY DEF NoTask
  <2>3. Target[op] # "error"  BY DEF Target, Accepts
  <2> HIDE DEF u
  <2> QED  BY <1>1, <1>2, <2>1, <2>2, <2>3, RequestInv, PCSets
<1> QED  BY <1>3, <1>4, <1>5

LEMMA GoInv ==
  ASSUME WorkersAssumption, OneOperator, WorkersInv, WorkersTyped', NEW o \in Operators,
         ReadForLoad(o) \/ WriteStatus(o) \/ LoadSingle(o)
  PROVE  WorkersInv'
<1>1. task[o].pc \in {"read", "write", "load"} /\ UNCHANGED <<worker, lock, handle, proc>>
  BY DEF ReadForLoad, WriteStatus, LoadSingle, TaskAt
<1>2. task[o] \in TaskRecords /\ MarkOK(o)
  BY OperatorsAreNoHandles DEF WorkersInv, WorkersTyped, TasksTyped
<1>3. NoTask.pc = "idle"  BY NoTaskTyped
<1>4. plugin' = "error" => worker = 0
  BY <1>2 DEF WorkersInv, ReadForLoad, WriteStatus, LoadSingle, MarkOK
<1>5. ASSUME NEW pc \in {"write", "load", "start"}, TaskGo(o, pc),
             pc = "write" => task[o].to = "ready", pc # "write" => plugin' # "error"
      PROVE  WorkersInv'
  <2> DEFINE k == [task[o] EXCEPT !.pc = pc]
  <2>1. task' = [task EXCEPT ![o] = k]  BY <1>5 DEF TaskGo
  <2>2. k.pc = pc /\ k.to = task[o].to  BY <1>2 DEF TaskRecords
  <2> HIDE DEF k
  <2> QED  BY <1>1, <1>4, <1>5, <2>1, <2>2, RequestInv, PCSets
<1>6. ASSUME EndTask(o) PROVE WorkersInv'
  <2>1. task' = [task EXCEPT ![o] = NoTask]  BY <1>6 DEF EndTask
  <2> QED  BY <1>1, <1>3, <1>4, <2>1, RequestInv, PCSets
<1>7. CASE ReadForLoad(o)
  BY <1>2, <1>5, <1>6, <1>7 DEF ReadForLoad, MarkOK
<1>8. CASE WriteStatus(o)  BY <1>5, <1>6, <1>8 DEF WriteStatus
<1>9. CASE LoadSingle(o)  BY <1>5, <1>6, <1>9 DEF LoadSingle
<1> QED  BY <1>7, <1>8, <1>9

LEMMA UpgradeInv ==
  ASSUME WorkersAssumption, OneOperator, WorkersInv, WorkersTyped', NEW o \in Operators, UpgradePlugin(o)
  PROVE  WorkersInv'
<1>1. task[o].pc = "download" /\ UNCHANGED <<plugin, worker, lock, handle, proc>>
  BY DEF UpgradePlugin, TaskAt
<1>2. task[o] \in TaskRecords  BY OperatorsAreNoHandles DEF WorkersInv, WorkersTyped, TasksTyped
<1>3. plugin' = "error" => worker = 0  BY <1>1 DEF WorkersInv
<1>4. CASE EndTask(o)
  <2>1. task' = [task EXCEPT ![o] = NoTask] /\ NoTask.pc = "idle"  BY <1>4, NoTaskTyped DEF EndTask
  <2> QED  BY <1>1, <1>3, <2>1, RequestInv, PCSets
<1>5. CASE ~EndTask(o)
  <2>1. PICK to \in {"ready", "upgrade_pending"} :
            task' = [task EXCEPT ![o].pc = "write", ![o].to = to]
    BY <1>5 DEF UpgradePlugin
  <2> DEFINE k == [task[o] EXCEPT !.pc = "write", !.to = to]
  <2>2. task' = [task EXCEPT ![o] = k]  BY <2>1
  <2>3. k.pc = "write" /\ k.to = to  BY <1>2 DEF TaskRecords
  <2> HIDE DEF k
  <2> QED  BY <1>1, <1>3, <2>2, <2>3, RequestInv, PCSets
<1> QED  BY <1>4, <1>5

\* What a request without a worker goes on to.
LEMMA OfflineInv ==
  ASSUME WorkersAssumption, OneOperator, WorkersInv, WorkersTyped', NEW o \in Operators,
         NEW k \in TaskRecords, k.op # "upgrade" => k.to \in PluginStatuses,
         k.to = "error" => worker = 0, task[o].pc \notin WithHandle,
         task' = [task EXCEPT ![o] = Offline(k)], UNCHANGED <<plugin, worker, lock, handle, proc>>
  PROVE  WorkersInv'
<1>1. Offline(k).pc \in {"download", "write", "idle"}  BY OfflineTyped
<1>2. Offline(k).pc = "write" => Offline(k).to = k.to
  <2> DEFINE w == [k EXCEPT !.pc = "write", !.h = 0, !.child = 0]
             d == [k EXCEPT !.pc = "download", !.h = 0, !.child = 0]
  <2>1. w.to = k.to /\ d.pc = "download" /\ NoTask.pc = "idle"  BY NoTaskTyped DEF TaskRecords
  <2>2. Offline(k) \in {w, d, NoTask}  BY DEF Offline
  <2> HIDE DEF w, d
  <2> QED  BY <2>1, <2>2
<1>3. plugin' = "error" => worker = 0  BY DEF WorkersInv
<1> QED  BY <1>1, <1>2, <1>3, RequestInv, PCSets

LEMMA OffInv ==
  ASSUME WorkersAssumption, OneOperator, WorkersInv, WorkersTyped', NEW o \in Operators,
         UnloadSingle(o) \/ MarkError(o) \/ RestartWorker(o)
  PROVE  WorkersInv'
<1>1. /\ task[o].pc \in {"unload", "mark", "idle"} /\ task[o].pc \notin WithHandle
      /\ UNCHANGED <<plugin, worker, lock>>
  BY PCSets DEF UnloadSingle, MarkError, RestartWorker, TaskAt
<1>2. task[o] \in TaskRecords /\ WellFormed(task[o])
  BY OperatorsAreNoHandles DEF WorkersInv, WorkersTyped, TasksTyped
<1>3. CASE UnloadSingle(o)
  <2>1. task[o].pc = "unload" /\ task[o].to # "error"
    BY <1>3 DEF UnloadSingle, WorkersInv, MarkOK, TaskAt
  <2>2. task[o].op # "upgrade" => task[o].to \in PluginStatuses  BY <1>2, <2>1 DEF WellFormed, WillWrite
  <2>3. CASE BeginStop(o, worker, task[o]) /\ worker # 0  BY <1>1, <1>2, <2>3, StopInv
  <2>4. CASE task' = [task EXCEPT ![o] = Offline(task[o])] /\ UNCHANGED <<handle, proc>>
    BY <1>1, <1>2, <2>1, <2>2, <2>4, OfflineInv
  <2> QED  BY <1>3, <2>3, <2>4 DEF UnloadSingle
<1>4. CASE MarkError(o)
  <2> DEFINE k == [task[o] EXCEPT !.read = plugin, !.to = "error"]
  <2>1. "error" \in PluginStatuses /\ plugin \in PluginStatuses
    BY DEF PluginStatuses, Valid, WorkersInv, WorkersTyped
  <2>2. k \in TaskRecords /\ k.to = "error"  BY <1>2, <2>1 DEF TaskRecords
  <2>3. IF worker # 0 THEN BeginStop(o, worker, k)
        ELSE task' = [task EXCEPT ![o] = Offline(k)] /\ UNCHANGED <<handle, proc>>
    BY <1>4 DEF MarkError
  <2> HIDE DEF k
  <2>4. CASE worker # 0  BY <1>1, <2>2, <2>3, <2>4, StopInv
  <2>5. CASE worker = 0  BY <1>1, <2>1, <2>2, <2>3, <2>5, OfflineInv
  <2> QED  BY <2>4, <2>5
<1>5. CASE RestartWorker(o)
  <2> DEFINE k == [NoTask EXCEPT !.op = "restart"]
  <2>1. NoTask \in TaskRecords  BY NoTaskTyped DEF WellFormed
  <2>2. k \in TaskRecords  BY <2>1 DEF TaskRecords, WorkerOps
  <2>3. worker # 0 /\ BeginStop(o, worker, k)  BY <1>5 DEF RestartWorker
  <2> HIDE DEF k
  <2> QED  BY <1>1, <2>2, <2>3, StopInv
<1> QED  BY <1>3, <1>4, <1>5

LEMMA StartInv ==
  ASSUME WorkersAssumption, OneOperator, WorkersInv, WorkersTyped', Settled, NEW o \in Operators, StartWorker(o)
  PROVE  WorkersInv'
<1> DEFINE w == [task[o] EXCEPT !.pc = "wait"]
           m == [NoTask EXCEPT !.pc = "mark", !.op = "markError"]
<1>1. TaskAt(o, "start") /\ plugin' = plugin /\ task[o].pc = "start"  BY DEF StartWorker, TaskAt
<1>2. CASE lock = 0 /\ (worker = 0 \/ handle[worker].status = "stopped")
  <2>1. Register(o)  BY <1>2 DEF StartWorker
  <2> QED  BY <1>1, <1>2, <2>1, RegisterInv
<1>3. CASE ~(lock = 0 /\ (worker = 0 \/ handle[worker].status = "stopped"))
  <2> DEFINE k == IF lock # 0 THEN w ELSE m
  <2>1. /\ task' = [task EXCEPT ![o] = k]
        /\ UNCHANGED <<worker, lock, handle, proc>>
    BY <1>3 DEF StartWorker
  <2>2. task[o] \in TaskRecords  BY OperatorsAreNoHandles DEF WorkersInv, WorkersTyped, TasksTyped
  <2>3. w.pc = "wait" /\ m.pc = "mark"  BY <2>2 DEF TaskRecords, NoTask
  <2>4. k.pc \in {"wait", "mark"}  BY <2>3
  <2> HIDE DEF k
  <2>5. plugin # "error"  BY <1>1 DEF WorkersInv, MarkOK
  <2> QED  BY <1>1, <2>1, <2>4, <2>5, RequestInv, PCSets
<1> QED  BY <1>2, <1>3

\* Every step keeps the invariant,
LEMMA WorkersInvNext ==
  ASSUME WorkersAssumption, OneOperator
  PROVE  WorkersInv /\ [WorkersNext]_workerVars => WorkersInv'
<1> SUFFICES ASSUME WorkersInv, [WorkersNext]_workerVars PROVE WorkersInv'  OBVIOUS
<1>1. WorkersTyped'  BY WorkersTypedNext DEF WorkersInv
<1>2. ASSUME NEW t \in Threads, InitFailed(t) \/ SetStopped(t) \/ Returned(t) PROVE WorkersInv'
  BY <1>1, <1>2, InitFailedInv, SetStoppedInv, ReturnedInv
<1>3. ASSUME NEW t \in Threads, Escalate(t) \/ Initialized(t) \/ NotInitialized(t) PROVE WorkersInv'
  BY <1>1, <1>3, EscalateInv, InitializedInv, NotInitializedInv
<1>4. ASSUME NEW p \in Procs, WorkerExit(p) PROVE WorkersInv'  BY <1>1, <1>4, ExitInv
<1>5. ASSUME NEW h \in Handles, Settled, FireTimer(h) PROVE WorkersInv'  BY <1>1, <1>5, TimerInv
<1>6. ASSUME NEW o \in Operators,
             \/ Install(o) \/ ReadForLoad(o) \/ Enable(o) \/ UnloadSingle(o) \/ UpgradePlugin(o)
             \/ RestartWorker(o) \/ MarkError(o) \/ WriteStatus(o) \/ LoadSingle(o)
      PROVE WorkersInv'
  BY <1>1, <1>6, InstallInv, GoInv, UpgradeInv, OffInv
<1>7. ASSUME NEW o \in Operators, Settled, StartWorker(o) PROVE WorkersInv'  BY <1>1, <1>7, StartInv
<1>8. ASSUME NEW o \in Operators, NEW op \in DOMAIN Accepts, TakeDown(o, op) PROVE WorkersInv'
  BY <1>1, <1>8, InstallInv
<1>9. CASE UNCHANGED workerVars
  <2>1. UNCHANGED <<plugin, worker, lock, handle, proc, task>>  BY <1>9 DEF workerVars
  <2>2. Alive' = Alive  BY <2>1 DEF Alive
  <2>3. \A o \in Operators : MarkOK(o)'  BY <2>1 DEF WorkersInv, MarkOK, TaskAt
  <2>4. RegisteredOK'  BY <2>1 DEF WorkersInv, RegisteredOK
  <2> QED  BY <1>1, <2>1, <2>2, <2>3, <2>4, SameHandleInv
<1>10. CASE WorkersNext
  BY <1>2, <1>3, <1>4, <1>5, <1>6, <1>7, <1>8, <1>10 DEF WorkersNext, Event
<1> QED  BY <1>9, <1>10

\* so that it holds in every reachable state.
LEMMA WorkersInvariance == ASSUME WorkersAssumption, OneOperator PROVE WorkersSpec => []WorkersInv
<1>1. WorkersInit => WorkersInv  BY WorkersInvInit
<1>2. WorkersInv /\ [WorkersNext]_workerVars => WorkersInv'  BY WorkersInvNext
<1> QED  BY <1>1, <1>2, PTL DEF WorkersSpec

\* With one operator at a time, a plugin has one process, not counting one that was
\* told to go, for any handles, crashes, restarts and timers: manager.startWorker,
\* stopInternal, handleProcessExit and the backoff timer keep to one child.
THEOREM OneProcessAtATime == ASSUME WorkersAssumption, OneOperator PROVE WorkersSpec => []OneProcess
<1>1. WorkersInv => OneProcess
  <2> SUFFICES ASSUME WorkersInv PROVE OneProcess  OBVIOUS
  <2> DEFINE alone == {p \in Procs : proc[p].state = "up"}
  <2>1. \A p \in alone : p \in Alive /\ p = handle[worker].child  BY DEF WorkersInv, Alive
  <2>2. alone \subseteq {handle[worker].child}  BY <2>1
  <2>3. IsFiniteSet({handle[worker].child}) /\ Cardinality({handle[worker].child}) = 1  BY FS_Singleton
  <2>4. Cardinality(alone) <= 1  BY <2>2, <2>3, FS_Subset
  <2> QED  BY <2>4 DEF OneProcess
<1> QED  BY <1>1, WorkersInvariance, PTL

\* With one operator at a time, the host never loses sight of a process: each one alive
\* is the child of the registered handle, and a plugin marked as failed has neither a
\* process nor a pending restart.
THEOREM NoProcessIsLost == ASSUME WorkersAssumption, OneOperator PROVE WorkersSpec => []NoOrphans
<1>1. WorkersInv => NoOrphans
  <2> SUFFICES ASSUME WorkersInv PROVE NoOrphans  OBVIOUS
  <2>1. \A p \in Alive : proc[p].of = worker /\ handle[proc[p].of].child = p  BY DEF WorkersInv
  <2>2. ASSUME plugin = "error"
        PROVE  worker = 0 /\ Alive = {} /\ \A h \in Handles : ~handle[h].timer
    <3>1. worker = 0  BY <2>2 DEF WorkersInv
    <3>2. \A h \in Handles : ~handle[h].timer
      BY <3>1 DEF WorkersInv, HandleOK, Handles, WorkersAssumption
    <3> QED  BY <3>1, <3>2, IsQuiet
  <2> QED  BY <2>1, <2>2 DEF NoOrphans
<1> QED  BY <1>1, WorkersInvariance, PTL
=============================================================================
