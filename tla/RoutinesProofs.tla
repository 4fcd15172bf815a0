---------------------------- MODULE RoutinesProofs ----------------------------
(***************************************************************************)
(* Theorems of Routines.  From the read of its live issue to its COMMIT a   *)
(* dispatch has the routine's row alone; so what it has read of the issues  *)
(* stays true until it wakes an assignee, and the issue it has created is   *)
(* its own until it is woken or deleted.                                    *)
(***************************************************************************)
EXTENDS Routines, FiniteSetTheorems, TLAPS

Places == [pc : {"idle", "claim", "check", "connect", "lock", "find", "create", "wake",
                 "start", "commit"},
           due : 0 .. MaxTime, left : 0 .. MaxCatchUp, at : 0 .. MaxTime,
           issue : Issues \cup {0},
           verdict : {"none", "coalesced", "issue_created", "failed"}]
States == {"none", "created", "live", "idle", "stale"}
Counters == [calls : Nat, faults : Nat, rewakes : Nat, crashes : Nat]

Typed ==
    /\ clock \in 0 .. MaxTime /\ nextRun \in 1 .. MaxTime + 1
    /\ issue \in [Issues -> States]
    /\ disp \in [Dispatchers -> Places]
    /\ holder \in Dispatchers \cup {NoDispatcher}
    /\ used \in Counters

\* The tick a pass of the timer has read was due.
TicksWereDue == \A d \in Dispatchers : At(d, "claim") => disp[d].due <= disp[d].at

\* From its look for a live issue on, a dispatch has the routine's row.
OneDispatch ==
    \A d \in Dispatchers : disp[d].pc \in {"find", "create", "wake", "start", "commit"} => holder = d

\* Where dispatcher d stands says what it has in hand.
InHand(d) ==
    /\ At(d, "commit") <=> disp[d].verdict # "none"
    /\ disp[d].issue # 0 => disp[d].pc \in {"wake", "start", "commit"}
    /\ disp[d].verdict = "coalesced" => disp[d].issue = 0
    /\ disp[d].pc \in {"wake", "start"} \/ disp[d].verdict = "issue_created" =>
            disp[d].issue \in Issues
    /\ At(d, "start") \/ disp[d].verdict = "issue_created" =>
            issue[disp[d].issue] # "created"
InHands == \A d \in Dispatchers : InHand(d)

IInv ==
    Typed /\ TicksWereDue /\ OneDispatch /\ InHands /\ NoLiveIssueIsMissed
    /\ CreatedIssuesAreWoken

-----------------------------------------------------------------------------
\* The initial states satisfy the invariant.
LEMMA InitInv == ASSUME RoutineConstants PROVE Init => IInv
<1> SUFFICES ASSUME Init PROVE IInv  OBVIOUS
<1>1. NoDispatch \in Places /\ NoEvents \in Counters  BY DEF RoutineConstants, NoDispatch, Places, NoEvents, Counters
<1>2. Typed  BY <1>1 DEF Init, Typed, RoutineConstants, States
<1>3. \A d \in Dispatchers : disp[d].pc = "idle" /\ disp[d].issue = 0 /\ disp[d].verdict = "none"
  BY DEF Init, NoDispatch
<1>4. \A i \in Issues : issue[i] = "none"  BY DEF Init
<1>5. TicksWereDue /\ OneDispatch /\ InHands
  BY <1>3 DEF TicksWereDue, OneDispatch, InHands, InHand, At
<1>6. NoLiveIssueIsMissed /\ CreatedIssuesAreWoken
  BY <1>3, <1>4 DEF NoLiveIssueIsMissed, CreatedIssuesAreWoken, Bound
<1>7. QED  BY <1>2, <1>5, <1>6 DEF IInv

-----------------------------------------------------------------------------
(* What a step does *)

\* New locals of one dispatcher.
PlaceIs(d, h) == disp' = [disp EXCEPT ![d] = h]

LEMMA PlaceFacts ==
  ASSUME Typed, NEW d \in Dispatchers, NEW h \in Places, PlaceIs(d, h)
  PROVE  /\ disp' \in [Dispatchers -> Places] /\ disp'[d] = h
         /\ \A e \in Dispatchers : e # d => disp'[e] = disp[e]
BY DEF Typed, PlaceIs

\* A counter goes up, and with a counter of upsets their sum.
LEMMA CountFacts ==
  ASSUME Typed, NEW event \in {"calls", "faults", "rewakes", "crashes"}, Count(event)
  PROVE  /\ used' \in Counters
         /\ event # "rewakes" => used'.rewakes = used.rewakes
         /\ event = "rewakes" => used'.rewakes # 0
         /\ event # "crashes" => used'.crashes = used.crashes
         /\ event = "crashes" => used'.crashes # 0
<1>1. used \in Counters  BY DEF Typed
<1>2. CASE event = "calls"  BY <1>1, <1>2 DEF Count, Counters
<1>3. CASE event = "faults"  BY <1>1, <1>3 DEF Count, Counters
<1>4. CASE event = "rewakes"  BY <1>1, <1>4 DEF Count, Counters
<1>5. CASE event = "crashes"  BY <1>1, <1>5 DEF Count, Counters
<1>6. QED  BY <1>2, <1>3, <1>4, <1>5

\* A dispatcher that takes a place before the row's lock, and touches no issue and no
\* lock, disturbs nothing.
LEMMA Outside ==
  ASSUME IInv, NEW d \in Dispatchers, NEW h \in Places, PlaceIs(d, h),
         disp[d].pc \in {"idle", "claim", "check", "connect"},
         h.pc \in {"idle", "claim", "check", "connect", "lock"},
         h.issue = 0, h.verdict = "none", h.pc = "claim" => h.due <= h.at,
         UNCHANGED <<issue, holder>>, used'.rewakes = used.rewakes, used'.crashes = used.crashes
  PROVE  TicksWereDue' /\ OneDispatch' /\ InHands' /\ NoLiveIssueIsMissed' /\ CreatedIssuesAreWoken'
<1>1. /\ disp'[d] = h
      /\ \A e \in Dispatchers : e # d => disp'[e] = disp[e]
  BY PlaceFacts DEF IInv
<1>2. TicksWereDue'  BY <1>1 DEF IInv, TicksWereDue, At
<1>3. OneDispatch'  BY <1>1 DEF IInv, OneDispatch
<1>4. InHands'
  <2> SUFFICES ASSUME NEW e \in Dispatchers PROVE InHand(e)'  BY DEF InHands
  <2>1. CASE e = d  BY <1>1, <2>1 DEF InHand, At
  <2>2. CASE e # d  BY <1>1, <2>2 DEF IInv, InHands, InHand, At
  <2>3. QED  BY <2>1, <2>2
<1>5. NoLiveIssueIsMissed'  BY <1>1 DEF IInv, NoLiveIssueIsMissed, Live
<1>6. CreatedIssuesAreWoken'
  <2> SUFFICES ASSUME used'.crashes = 0, NEW i \in Issues, issue'[i] = "created"
               PROVE  \E e \in Dispatchers : disp'[e].issue = i /\ disp'[e].pc \in {"wake", "commit"}
    BY DEF CreatedIssuesAreWoken
  <2>1. PICK e \in Dispatchers : disp[e].issue = i /\ disp[e].pc \in {"wake", "commit"}
    BY DEF IInv, CreatedIssuesAreWoken
  <2>2. QED  BY <1>1, <2>1
<1>7. QED  BY <1>2, <1>3, <1>4, <1>5, <1>6

\* The rest of the invariant, of a step that moves dispatchers or the clock only.
LEMMA NothingMoves ==
  ASSUME IInv, UNCHANGED <<issue, disp, holder, used>>
  PROVE  TicksWereDue' /\ OneDispatch' /\ InHands' /\ NoLiveIssueIsMissed' /\ CreatedIssuesAreWoken'
<1>1. TicksWereDue' /\ OneDispatch'  BY DEF IInv, TicksWereDue, OneDispatch, At
<1>2. InHands'  BY DEF IInv, InHands, InHand, At
<1>3. NoLiveIssueIsMissed' /\ CreatedIssuesAreWoken'
  BY DEF IInv, NoLiveIssueIsMissed, CreatedIssuesAreWoken, Live
<1>4. QED  BY <1>1, <1>2, <1>3

-----------------------------------------------------------------------------
(* Who fires the trigger *)

LEMMA TickReadInv ==
  ASSUME RoutineConstants, IInv, NEW d \in Dispatchers, TickRead(d) PROVE IInv'
<1> DEFINE h == [NoDispatch EXCEPT !.pc = "claim", !.due = nextRun, !.at = clock]
<1>1. /\ h \in Places /\ h.pc = "claim" /\ h.issue = 0 /\ h.verdict = "none" /\ h.due <= h.at
      /\ PlaceIs(d, h) /\ At(d, "idle")
  <2>1. NoDispatch \in Places  BY DEF RoutineConstants, Places, NoDispatch
  <2>2. nextRun \in 0 .. MaxTime /\ clock \in 0 .. MaxTime /\ nextRun <= clock
    BY DEF TickRead, IInv, Typed, RoutineConstants
  <2>3. h \in Places /\ h.pc = "claim" /\ h.due = nextRun /\ h.at = clock  BY <2>1, <2>2 DEF Places
  <2>4. h.issue = 0 /\ h.verdict = "none"  BY DEF NoDispatch
  <2>5. PlaceIs(d, h) /\ At(d, "idle")  BY DEF TickRead, PlaceIs
  <2>6. QED  BY <2>2, <2>3, <2>4, <2>5
<1>2. UNCHANGED <<clock, nextRun, issue, holder, used>> /\ used'.rewakes = used.rewakes  BY DEF TickRead
<1> HIDE DEF h
<1>3. Typed'  BY <1>1, <1>2, PlaceFacts DEF IInv, Typed
<1>4. QED  BY <1>1, <1>2, <1>3, Outside DEF IInv, At

\* A tick that was due fires at least once and at most as often as ticks have passed.
LEMMA RunsForFacts ==
  ASSUME RoutineConstants, NEW due \in 0 .. MaxTime, NEW now \in 0 .. MaxTime, due <= now
  PROVE  /\ RunsFor(due, now) \in 1 .. MaxCatchUp
         /\ CatchUp => due + RunsFor(due, now) \in 1 .. MaxTime + 1
BY DEF RunsFor, RoutineConstants

LEMMA TickClaimInv ==
  ASSUME RoutineConstants, IInv, NEW d \in Dispatchers, TickClaim(d) PROVE IInv'
<1> DEFINE runs == RunsFor(disp[d].due, disp[d].at)
           went == [disp[d] EXCEPT !.pc = "connect", !.left = runs]
<1>1. /\ disp[d] \in Places /\ disp[d].pc = "claim" /\ disp[d].due <= disp[d].at
      /\ disp[d].issue = 0 /\ disp[d].verdict = "none"
  BY DEF IInv, Typed, TicksWereDue, InHands, InHand, At, TickClaim
<1>2. /\ runs \in 1 .. MaxCatchUp
      /\ CatchUp => disp[d].due + runs \in 1 .. MaxTime + 1
  BY <1>1, RunsForFacts DEF Places
<1>3. UNCHANGED <<clock, issue, holder, used>> /\ used'.rewakes = used.rewakes  BY DEF TickClaim
<1>4. CASE nextRun = disp[d].due
  <2>1. /\ went \in Places /\ went.pc = "connect" /\ went.issue = 0 /\ went.verdict = "none"
        /\ PlaceIs(d, went)
    <3>1. runs \in 0 .. MaxCatchUp  BY <1>2 DEF RoutineConstants
    <3> HIDE DEF runs
    <3>2. went \in Places /\ went.pc = "connect"  BY <1>1, <3>1 DEF Places
    <3>3. went.issue = 0 /\ went.verdict = "none"  BY <1>1 DEF Places
    <3>4. disp' = [disp EXCEPT ![d].pc = "connect", ![d].left = runs]  BY <1>4 DEF TickClaim, runs
    <3>5. PlaceIs(d, went)  BY <1>1, <3>4 DEF PlaceIs, IInv, Typed
    <3>6. QED  BY <3>2, <3>3, <3>5
  <2>2. nextRun' \in 1 .. MaxTime + 1
    BY <1>1, <1>2, <1>4 DEF TickClaim, NextTick, Places, RoutineConstants
  <2> HIDE DEF went, runs
  <2>3. Typed'  BY <1>3, <2>1, <2>2, PlaceFacts DEF IInv, Typed
  <2>4. QED  BY <1>1, <1>3, <2>1, <2>3, Outside DEF IInv
<1>5. CASE nextRun # disp[d].due
  <2>1. /\ NoDispatch \in Places /\ NoDispatch.pc = "idle" /\ NoDispatch.issue = 0
        /\ NoDispatch.verdict = "none"
    BY DEF NoDispatch, Places, RoutineConstants
  <2>2. PlaceIs(d, NoDispatch) /\ nextRun' = nextRun  BY <1>5 DEF TickClaim, PlaceIs
  <2>3. Typed'  BY <1>3, <2>1, <2>2, PlaceFacts DEF IInv, Typed
  <2>4. QED  BY <1>1, <1>3, <2>1, <2>2, <2>3, Outside DEF IInv
<1>6. QED  BY <1>4, <1>5

LEMMA CallInv ==
  ASSUME RoutineConstants, IInv, NEW d \in Dispatchers, Call(d) PROVE IInv'
<1> DEFINE h == [disp[d] EXCEPT !.pc = "connect", !.left = 1]
<1>1. disp[d] \in Places /\ disp[d].pc = "idle" /\ disp[d].issue = 0 /\ disp[d].verdict = "none"
  BY DEF IInv, Typed, InHands, InHand, At, Call
<1>2. h \in Places /\ h.pc = "connect" /\ h.issue = 0 /\ h.verdict = "none"
  <2>1. 1 \in 0 .. MaxCatchUp  BY DEF RoutineConstants
  <2>2. QED  BY <1>1, <2>1 DEF Places
<1>3. PlaceIs(d, h)
  <2>1. disp' = [disp EXCEPT ![d].pc = "connect", ![d].left = 1]  BY DEF Call
  <2>2. QED  BY <1>1, <2>1 DEF PlaceIs, IInv, Typed
<1>4. UNCHANGED <<clock, nextRun, issue, holder>>  BY DEF Call
<1>5. used' \in Counters /\ used'.rewakes = used.rewakes /\ used'.crashes = used.crashes
  BY CountFacts DEF Call, IInv
<1> HIDE DEF h
<1>6. Typed'  BY <1>2, <1>3, <1>4, <1>5, PlaceFacts DEF IInv, Typed
<1>7. QED  BY <1>1, <1>2, <1>3, <1>4, <1>5, <1>6, Outside DEF IInv

LEMMA JobBeginInv ==
  ASSUME RoutineConstants, IInv, NEW d \in Dispatchers, JobBegin(d) PROVE IInv'
<1> DEFINE h == [disp[d] EXCEPT !.pc = "check", !.due = nextRun]
<1>1. disp[d] \in Places /\ disp[d].pc = "idle" /\ disp[d].issue = 0 /\ disp[d].verdict = "none"
  BY DEF IInv, Typed, InHands, InHand, At, JobBegin
<1>2. h \in Places /\ h.pc = "check" /\ h.issue = 0 /\ h.verdict = "none"
  <2>1. nextRun \in 0 .. MaxTime  BY DEF RoutineConstants, JobBegin, IInv, Typed
  <2>2. QED  BY <1>1, <2>1 DEF Places
<1>3. PlaceIs(d, h)
  <2>1. disp' = [disp EXCEPT ![d].pc = "check", ![d].due = nextRun]  BY DEF JobBegin
  <2>2. QED  BY <1>1, <2>1 DEF PlaceIs, IInv, Typed
<1>4. UNCHANGED <<clock, nextRun, issue, holder, used>> /\ used'.rewakes = used.rewakes  BY DEF JobBegin
<1> HIDE DEF h
<1>5. Typed'  BY <1>2, <1>3, <1>4, PlaceFacts DEF IInv, Typed
<1>6. QED  BY <1>1, <1>2, <1>3, <1>4, <1>5, Outside DEF IInv

LEMMA JobCheckInv ==
  ASSUME RoutineConstants, IInv, NEW d \in Dispatchers, JobCheck(d) PROVE IInv'
<1> DEFINE h == IF nextRun > disp[d].due THEN NoDispatch
                ELSE [disp[d] EXCEPT !.pc = "connect", !.left = 1]
<1>1. disp[d] \in Places /\ disp[d].pc = "check" /\ disp[d].issue = 0 /\ disp[d].verdict = "none"
  BY DEF IInv, Typed, InHands, InHand, At, JobCheck
<1>2. h \in Places /\ h.pc \in {"idle", "connect"} /\ h.issue = 0 /\ h.verdict = "none"
  <2>1. 1 \in 0 .. MaxCatchUp  BY DEF RoutineConstants
  <2>2. NoDispatch \in Places  BY DEF RoutineConstants, Places, NoDispatch
  <2>3. [disp[d] EXCEPT !.pc = "connect", !.left = 1] \in Places  BY <1>1, <2>1 DEF Places
  <2>4. QED  BY <1>1, <2>2, <2>3 DEF Places, NoDispatch
<1>3. PlaceIs(d, h)  BY <1>1 DEF JobCheck, PlaceIs, IInv, Typed
<1>4. UNCHANGED <<clock, nextRun, issue, holder, used>> /\ used'.rewakes = used.rewakes  BY DEF JobCheck
<1> HIDE DEF h
<1>5. Typed'  BY <1>2, <1>3, <1>4, PlaceFacts DEF IInv, Typed
<1>6. QED  BY <1>1, <1>2, <1>3, <1>4, <1>5, Outside DEF IInv

-----------------------------------------------------------------------------
(* dispatchRoutineRun *)

LEMMA ConnectInv ==
  ASSUME RoutineConstants, IInv, NEW d \in Dispatchers, Connect(d) PROVE IInv'
<1> DEFINE h == [disp[d] EXCEPT !.pc = "lock"]
<1>1. disp[d] \in Places /\ disp[d].pc = "connect" /\ disp[d].issue = 0 /\ disp[d].verdict = "none"
  BY DEF IInv, Typed, InHands, InHand, At, Connect
<1>2. h \in Places /\ h.pc = "lock" /\ h.issue = 0 /\ h.verdict = "none"  BY <1>1 DEF Places
<1>3. PlaceIs(d, h)  BY <1>1 DEF Connect, Go, PlaceIs, IInv, Typed
<1>4. UNCHANGED <<clock, nextRun, issue, holder, used>> /\ used'.rewakes = used.rewakes  BY DEF Connect
<1> HIDE DEF h
<1>5. Typed'  BY <1>2, <1>3, <1>4, PlaceFacts DEF IInv, Typed
<1>6. QED  BY <1>1, <1>2, <1>3, <1>4, <1>5, Outside DEF IInv

\* While one dispatcher is in the critical part of its transaction, no other is.
LEMMA Alone ==
  ASSUME RoutineConstants, IInv, NEW d \in Dispatchers,
         disp[d].pc \in {"find", "create", "wake", "start", "commit"} \/ holder = NoDispatcher,
         NEW e \in Dispatchers, e # d
  PROVE  disp[e].pc \notin {"find", "create", "wake", "start", "commit"}
BY DEF IInv, OneDispatch, RoutineConstants

\* The locals of the other dispatchers keep their meaning, if no issue becomes
\* "created" that was not, and nobody else is in the critical part.
LEMMA OthersInHand ==
  ASSUME IInv, NEW d \in Dispatchers, NEW e \in Dispatchers, e # d, disp'[e] = disp[e],
         disp[e].pc \notin {"find", "create", "wake", "start", "commit"}
  PROVE  InHand(e)'
BY DEF IInv, InHands, InHand, At

LEMMA LockRoutineInv ==
  ASSUME RoutineConstants, IInv, NEW d \in Dispatchers, LockRoutine(d) PROVE IInv'
<1> DEFINE h == [disp[d] EXCEPT !.pc = "find", !.at = clock]
<1>1. disp[d] \in Places /\ disp[d].pc = "lock" /\ disp[d].issue = 0 /\ disp[d].verdict = "none"
  BY DEF IInv, Typed, InHands, InHand, At, LockRoutine
<1>2. h \in Places /\ h.pc = "find" /\ h.issue = 0 /\ h.verdict = "none"
  <2>1. clock \in 0 .. MaxTime  BY DEF IInv, Typed
  <2>2. QED  BY <1>1, <2>1 DEF Places
<1>3. PlaceIs(d, h)
  <2>1. disp' = [disp EXCEPT ![d].pc = "find", ![d].at = clock]  BY DEF LockRoutine
  <2>2. QED  BY <1>1, <2>1 DEF PlaceIs, IInv, Typed
<1>4. /\ UNCHANGED <<clock, nextRun, issue, used>> /\ used'.rewakes = used.rewakes
      /\ holder = NoDispatcher /\ holder' = d
  BY DEF LockRoutine
<1> HIDE DEF h
<1>5. disp' \in [Dispatchers -> Places] /\ disp'[d] = h
  BY <1>2, <1>3, PlaceFacts DEF IInv
<1>6. \A e \in Dispatchers : e # d =>
        disp'[e] = disp[e] /\ disp[e].pc \notin {"find", "create", "wake", "start", "commit"}
  BY <1>2, <1>3, <1>4, PlaceFacts, Alone DEF IInv
<1>7. Typed'  BY <1>4, <1>5 DEF IInv, Typed
<1>8. TicksWereDue' /\ OneDispatch'
  BY <1>2, <1>4, <1>5, <1>6 DEF IInv, TicksWereDue, OneDispatch, At
<1>9. InHands'
  <2> SUFFICES ASSUME NEW e \in Dispatchers PROVE InHand(e)'  BY DEF InHands
  <2>1. CASE e = d  BY <1>2, <1>5, <2>1 DEF InHand, At
  <2>2. CASE e # d  BY <1>6, <2>2, OthersInHand
  <2>3. QED  BY <2>1, <2>2
<1>10. NoLiveIssueIsMissed'  BY <1>2, <1>4, <1>5, <1>6 DEF IInv, NoLiveIssueIsMissed, Live
<1>11. CreatedIssuesAreWoken'
  BY <1>1, <1>4, <1>5, <1>6 DEF IInv, CreatedIssuesAreWoken
<1>12. QED  BY <1>7, <1>8, <1>9, <1>10, <1>11 DEF IInv

\* What a step within the critical part gives: the locals of all dispatchers.
LEMMA InsideFacts ==
  ASSUME RoutineConstants, IInv, NEW d \in Dispatchers, NEW h \in Places, PlaceIs(d, h),
         disp[d].pc \in {"find", "create", "wake", "start", "commit"}
  PROVE  /\ disp[d] \in Places /\ InHand(d) /\ holder = d
         /\ disp' \in [Dispatchers -> Places] /\ disp'[d] = h
         /\ \A e \in Dispatchers : e # d =>
              /\ disp'[e] = disp[e] /\ disp[e].issue = 0 /\ disp[e].verdict = "none"
              /\ disp[e].pc \notin {"find", "create", "wake", "start", "commit"}
         /\ h.pc # "claim" => TicksWereDue'
         /\ h.pc \notin {"find", "create", "wake", "start", "commit"} \/ holder' = holder => OneDispatch'
         /\ InHand(d)' => InHands'
<1>1. disp[d] \in Places /\ InHand(d) /\ holder = d  BY DEF IInv, Typed, InHands, OneDispatch
<1>2. disp' \in [Dispatchers -> Places] /\ disp'[d] = h  BY PlaceFacts DEF IInv
<1>3. \A e \in Dispatchers : e # d => disp'[e] = disp[e]  BY PlaceFacts DEF IInv
<1>4. \A e \in Dispatchers : e # d => disp[e].pc \notin {"find", "create", "wake", "start", "commit"}
  BY Alone
<1>5. \A e \in Dispatchers : e # d => disp[e].issue = 0 /\ disp[e].verdict = "none"
  BY <1>4 DEF IInv, InHands, InHand, At
<1>6. h.pc # "claim" => TicksWereDue'  BY <1>2, <1>3 DEF IInv, TicksWereDue, At
<1>7. h.pc \notin {"find", "create", "wake", "start", "commit"} \/ holder' = holder => OneDispatch'
  BY <1>1, <1>2, <1>3, <1>4 DEF OneDispatch
<1>8. InHand(d)' => InHands'
  <2> SUFFICES ASSUME InHand(d)', NEW e \in Dispatchers PROVE InHand(e)'  BY DEF InHands
  <2>1. CASE e # d  BY <1>3, <1>4, <2>1, OthersInHand
  <2>2. QED  BY <2>1
<1>9. QED  BY <1>1, <1>2, <1>3, <1>4, <1>5, <1>6, <1>7, <1>8

LEMMA FindLiveIssueInv ==
  ASSUME RoutineConstants, IInv, NEW d \in Dispatchers, FindLiveIssue(d) PROVE IInv'
<1> DEFINE found == (\E i \in Issues : Live(i)) /\ ~AlwaysEnqueue
           h == IF found THEN [disp[d] EXCEPT !.pc = "commit", !.verdict = "coalesced"]
                ELSE [disp[d] EXCEPT !.pc = "create"]
<1>1. disp[d] \in Places /\ disp[d].pc = "find" /\ disp[d].issue = 0 /\ disp[d].verdict = "none"
  BY DEF IInv, Typed, InHands, InHand, At, FindLiveIssue
<1>2. /\ h \in Places /\ h.issue = 0
      /\ found => h.pc = "commit" /\ h.verdict = "coalesced"
      /\ ~found => h.pc = "create" /\ h.verdict = "none"
  <2> HIDE DEF found
  <2>1. QED  BY <1>1 DEF Places
<1>3. PlaceIs(d, h)  BY <1>1 DEF FindLiveIssue, PlaceIs, IInv, Typed
<1>4. UNCHANGED <<clock, nextRun, issue, holder, used>> /\ used'.rewakes = used.rewakes
  BY DEF FindLiveIssue
<1> HIDE DEF h
<1>5. Typed'  BY <1>1, <1>2, <1>3, <1>4, InsideFacts DEF IInv, Typed
<1>6. InHand(d)'
  <2>1. disp'[d] = h  BY <1>1, <1>2, <1>3, InsideFacts
  <2> HIDE DEF found
  <2>2. QED  BY <1>2, <2>1 DEF InHand, At
<1>7. TicksWereDue' /\ OneDispatch' /\ InHands'
  <2> HIDE DEF found
  <2>1. h.pc # "claim"  BY <1>2
  <2>2. QED  BY <1>1, <1>2, <1>3, <1>4, <1>6, <2>1, InsideFacts
<1>8. NoLiveIssueIsMissed'
  <2>1. ~AlwaysEnqueue /\ ~found => \A i \in Issues : ~Live(i)'  BY <1>4 DEF Live
  <2> HIDE DEF found
  <2>2. QED  BY <1>1, <1>2, <1>3, <1>4, <2>1, InsideFacts DEF NoLiveIssueIsMissed
<1>9. CreatedIssuesAreWoken'
  <2>1. \A e \in Dispatchers : e # d => disp'[e] = disp[e]  BY <1>1, <1>2, <1>3, InsideFacts
  <2>2. QED  BY <1>1, <1>4, <2>1 DEF IInv, CreatedIssuesAreWoken
<1>10. QED  BY <1>5, <1>7, <1>8, <1>9 DEF IInv

LEMMA CreateIssueInv ==
  ASSUME RoutineConstants, IInv, NEW d \in Dispatchers, CreateIssue(d) PROVE IInv'
<1>1. PICK i \in Issues : /\ NewIssue(i) /\ issue' = [issue EXCEPT ![i] = "created"]
                          /\ disp' = [disp EXCEPT ![d].pc = "wake", ![d].issue = i]
  BY DEF CreateIssue
<1> DEFINE h == [disp[d] EXCEPT !.pc = "wake", !.issue = i]
<1>2. disp[d] \in Places /\ disp[d].pc = "create" /\ disp[d].issue = 0 /\ disp[d].verdict = "none"
  BY DEF IInv, Typed, InHands, InHand, At, CreateIssue
<1>3. h \in Places /\ h.pc = "wake" /\ h.issue = i /\ h.verdict = "none"
  <2>1. i \in Issues \cup {0}  BY <1>1
  <2>2. QED  BY <1>2, <2>1 DEF Places
<1>4. PlaceIs(d, h)  BY <1>1, <1>2 DEF PlaceIs, IInv, Typed
<1>5. UNCHANGED <<clock, nextRun, holder, used>> /\ used'.rewakes = used.rewakes  BY DEF CreateIssue
<1> HIDE DEF h
<1>6. /\ issue' \in [Issues -> States] /\ issue'[i] = "created"
      /\ \A j \in Issues : j # i => issue'[j] = issue[j]
  BY <1>1 DEF IInv, Typed, States
<1>7. Typed'  BY <1>2, <1>3, <1>4, <1>5, <1>6, InsideFacts DEF IInv, Typed
<1>8. disp'[d] = h /\ \A e \in Dispatchers : e # d =>
        /\ disp'[e] = disp[e] /\ disp[e].pc \notin {"find", "create", "wake", "start", "commit"}
        /\ disp[e].verdict = "none"
  BY <1>2, <1>3, <1>4, InsideFacts
<1>9. InHand(d)'
  <2>1. i # 0  BY DEF Issues
  <2>2. QED  BY <1>1, <1>3, <1>8, <2>1 DEF InHand, At
<1>10. TicksWereDue' /\ OneDispatch' /\ InHands'  BY <1>2, <1>3, <1>4, <1>5, <1>9, InsideFacts
<1>11. NoLiveIssueIsMissed'
  <2> SUFFICES ASSUME ~AlwaysEnqueue, used.rewakes = 0 PROVE \A j \in Issues : ~Live(j)'
    BY <1>5 DEF NoLiveIssueIsMissed
  <2>1. \A j \in Issues : ~Live(j)  BY <1>2 DEF IInv, NoLiveIssueIsMissed
  <2>2. QED  BY <1>6, <2>1 DEF Live
<1>12. CreatedIssuesAreWoken'
  <2> SUFFICES ASSUME used'.crashes = 0, NEW j \in Issues, issue'[j] = "created"
               PROVE  \E e \in Dispatchers : disp'[e].issue = j /\ disp'[e].pc \in {"wake", "commit"}
    BY DEF CreatedIssuesAreWoken
  <2>1. CASE j = i  BY <1>3, <1>8, <2>1
  <2>2. CASE j # i
    <3>1. PICK e \in Dispatchers : disp[e].issue = j /\ disp[e].pc \in {"wake", "commit"}
      BY <1>5, <1>6, <2>2 DEF IInv, CreatedIssuesAreWoken
    <3>2. QED  BY <1>2, <1>8, <3>1
  <2>3. QED  BY <2>1, <2>2
<1>13. QED  BY <1>7, <1>10, <1>11, <1>12 DEF IInv

\* A step of the dispatch that has the row, on its own issue, which is not "created"
\* any more: the rest of the invariant follows from what it has in hand then.
LEMMA OwnIssueMoves ==
  ASSUME RoutineConstants, IInv, NEW d \in Dispatchers, disp[d].pc \in {"wake", "start"},
         NEW h \in Places, PlaceIs(d, h), h.pc \in {"start", "commit"}, h.issue = disp[d].issue,
         h.pc = "commit" <=> h.verdict # "none", h.verdict # "coalesced",
         issue' \in [Issues -> States],
         \A j \in Issues : j # disp[d].issue => issue'[j] = issue[j],
         \A j \in Issues : issue'[j] = "created" => issue[j] = "created",
         issue'[disp[d].issue] = "created" => h.pc = "commit" /\ h.verdict = "failed",
         UNCHANGED <<clock, nextRun, holder, used>>
  PROVE  IInv'
<1>1. /\ disp[d] \in Places /\ disp[d].issue \in Issues /\ disp[d].issue # 0
      /\ disp[d].pc \in {"find", "create", "wake", "start", "commit"}
  BY DEF IInv, Typed, InHands, InHand, At, Issues
<1>2. /\ disp' \in [Dispatchers -> Places] /\ disp'[d] = h
      /\ \A e \in Dispatchers : e # d =>
            /\ disp'[e] = disp[e] /\ disp[e].issue = 0
            /\ disp[e].pc \notin {"find", "create", "wake", "start", "commit"}
  BY <1>1, InsideFacts
<1>3. Typed'  BY <1>2 DEF IInv, Typed
<1>4. InHand(d)'  BY <1>1, <1>2 DEF InHand, At
<1>5. TicksWereDue' /\ OneDispatch' /\ InHands'
  <2>1. h.pc # "claim" /\ holder' = holder  OBVIOUS
  <2>2. QED  BY <1>1, <1>4, <2>1, InsideFacts
<1>6. NoLiveIssueIsMissed'
  <2>1. \A e \in Dispatchers : disp'[e].pc \notin {"create", "wake"}  BY <1>2
  <2>2. QED  BY <2>1 DEF NoLiveIssueIsMissed
<1>7. CreatedIssuesAreWoken'
  <2> SUFFICES ASSUME used'.crashes = 0, NEW j \in Issues, issue'[j] = "created"
               PROVE  \E e \in Dispatchers : disp'[e].issue = j /\ disp'[e].pc \in {"wake", "commit"}
    BY DEF CreatedIssuesAreWoken
  <2>1. PICK e \in Dispatchers : disp[e].issue = j /\ disp[e].pc \in {"wake", "commit"}
    BY DEF IInv, CreatedIssuesAreWoken
  <2>2. e = d  BY <1>2, <2>1
  <2>3. QED  BY <1>2, <2>1, <2>2
<1>8. QED  BY <1>3, <1>5, <1>6, <1>7 DEF IInv

LEMMA WakeAssigneeInv ==
  ASSUME RoutineConstants, IInv, NEW d \in Dispatchers, WakeAssignee(d) PROVE IInv'
<1> DEFINE i == disp[d].issue
           woken == [disp[d] EXCEPT !.pc = "start"]
           refused == [disp[d] EXCEPT !.pc = "commit", !.verdict = "failed"]
<1>1. disp[d] \in Places /\ disp[d].pc = "wake" /\ i \in Issues /\ disp[d].verdict = "none"
  BY DEF IInv, Typed, InHands, InHand, At, WakeAssignee
<1>2. /\ woken \in Places /\ woken.pc = "start" /\ woken.issue = i /\ woken.verdict = "none"
      /\ refused \in Places /\ refused.pc = "commit" /\ refused.issue = i
      /\ refused.verdict = "failed"
  BY <1>1 DEF Places
<1>3. UNCHANGED <<clock, nextRun, holder, used>>  BY DEF WakeAssignee
<1>4. CASE MayBind(i)
  <2>1. issue' = [issue EXCEPT ![i] = "live"]  BY <1>4 DEF WakeAssignee
  <2>2. /\ issue' \in [Issues -> States] /\ issue'[i] = "live"
        /\ \A j \in Issues : j # i => issue'[j] = issue[j]
    BY <1>1, <2>1 DEF IInv, Typed, States
  <2>3. disp' = [disp EXCEPT ![d].pc = "start"]  BY <1>4 DEF WakeAssignee, Go
  <2>4. PlaceIs(d, woken)  BY <1>1, <2>3 DEF PlaceIs, IInv, Typed
  <2> HIDE DEF woken, refused
  <2>5. QED  BY <1>1, <1>2, <1>3, <2>2, <2>4, OwnIssueMoves
<1>5. CASE ~MayBind(i)
  <2>1. issue' = issue /\ issue' \in [Issues -> States]  BY <1>5 DEF WakeAssignee, IInv, Typed
  <2>2. disp' = [disp EXCEPT ![d].pc = "commit", ![d].verdict = "failed"]  BY <1>5 DEF WakeAssignee
  <2>3. PlaceIs(d, refused)  BY <1>1, <2>2 DEF PlaceIs, IInv, Typed
  <2> HIDE DEF woken, refused
  <2>4. QED  BY <1>1, <1>2, <1>3, <2>1, <2>3, OwnIssueMoves
<1>6. QED  BY <1>4, <1>5

LEMMA WakeDeclinedInv ==
  ASSUME RoutineConstants, IInv, NEW d \in Dispatchers, WakeDeclined(d) PROVE IInv'
<1> DEFINE i == disp[d].issue
           h == [disp[d] EXCEPT !.pc = "commit", !.verdict = "issue_created"]
<1>1. disp[d] \in Places /\ disp[d].pc = "wake" /\ i \in Issues
  BY DEF IInv, Typed, InHands, InHand, At, WakeDeclined
<1>2. h \in Places /\ h.pc = "commit" /\ h.issue = i /\ h.verdict = "issue_created"
  BY <1>1 DEF Places
<1>3. UNCHANGED <<clock, nextRun, holder, used>> /\ issue' = [issue EXCEPT ![i] = "idle"]
  BY DEF WakeDeclined
<1>4. /\ issue' \in [Issues -> States] /\ issue'[i] = "idle"
      /\ \A j \in Issues : j # i => issue'[j] = issue[j]
  BY <1>1, <1>3 DEF IInv, Typed, States
<1>5. PlaceIs(d, h)
  <2>1. disp' = [disp EXCEPT ![d].pc = "commit", ![d].verdict = "issue_created"]
    BY DEF WakeDeclined
  <2>2. QED  BY <1>1, <2>1 DEF PlaceIs, IInv, Typed
<1> HIDE DEF h
<1>6. QED  BY <1>1, <1>2, <1>3, <1>4, <1>5, OwnIssueMoves

LEMMA StartRunInv ==
  ASSUME RoutineConstants, IInv, NEW d \in Dispatchers, StartRun(d) PROVE IInv'
<1> DEFINE h == [disp[d] EXCEPT !.pc = "commit", !.verdict = "issue_created"]
<1>1. /\ disp[d] \in Places /\ disp[d].pc = "start" /\ disp[d].issue \in Issues
      /\ issue[disp[d].issue] # "created"
  BY DEF IInv, Typed, InHands, InHand, At, StartRun
<1>2. h \in Places /\ h.pc = "commit" /\ h.issue = disp[d].issue /\ h.verdict = "issue_created"
  BY <1>1 DEF Places
<1>3. UNCHANGED <<clock, nextRun, issue, holder, used>> /\ issue' \in [Issues -> States]
  BY DEF StartRun, IInv, Typed
<1>4. PlaceIs(d, h)
  <2>1. disp' = [disp EXCEPT ![d].pc = "commit", ![d].verdict = "issue_created"]  BY DEF StartRun
  <2>2. QED  BY <1>1, <2>1 DEF PlaceIs, IInv, Typed
<1> HIDE DEF h
<1>5. QED  BY <1>1, <1>2, <1>3, <1>4, OwnIssueMoves

LEMMA DispatchFailsInv ==
  ASSUME RoutineConstants, IInv, NEW d \in Dispatchers, DispatchFails(d) PROVE IInv'
<1> DEFINE h == [disp[d] EXCEPT !.pc = "commit", !.verdict = "failed"]
<1>1. /\ disp[d] \in Places /\ disp[d].pc \in {"create", "wake", "start"}
      /\ disp[d].issue # 0 => disp[d].issue \in Issues
  BY DEF IInv, Typed, InHands, InHand, At, DispatchFails, Places
<1>2. h \in Places /\ h.pc = "commit" /\ h.issue = disp[d].issue /\ h.verdict = "failed"
  BY <1>1 DEF Places
<1>3. PlaceIs(d, h)
  <2>1. disp' = [disp EXCEPT ![d].pc = "commit", ![d].verdict = "failed"]  BY DEF DispatchFails
  <2>2. QED  BY <1>1, <2>1 DEF PlaceIs, IInv, Typed
<1>4. UNCHANGED <<clock, nextRun, issue, holder>>  BY DEF DispatchFails
<1>5. used' \in Counters /\ used'.rewakes = used.rewakes /\ used'.crashes = used.crashes
  BY CountFacts DEF DispatchFails, IInv
<1> HIDE DEF h
<1>6. disp'[d] = h /\ \A e \in Dispatchers : e # d => disp'[e] = disp[e]
  BY <1>1, <1>2, <1>3, InsideFacts
<1>7. Typed'
  <2>1. disp' \in [Dispatchers -> Places]  BY <1>1, <1>2, <1>3, InsideFacts
  <2>2. QED  BY <1>4, <1>5, <2>1 DEF IInv, Typed
<1>8. InHand(d)'  BY <1>1, <1>2, <1>6 DEF InHand, At
<1>9. TicksWereDue' /\ OneDispatch' /\ InHands'
  <2>1. disp[d].pc \in {"find", "create", "wake", "start", "commit"} /\ h.pc # "claim" /\ holder' = holder
    BY <1>1, <1>2, <1>4
  <2>2. QED  BY <1>2, <1>3, <1>8, <2>1, InsideFacts
<1>10. NoLiveIssueIsMissed'  BY <1>2, <1>4, <1>5, <1>6 DEF IInv, NoLiveIssueIsMissed, Live
<1>11. CreatedIssuesAreWoken'
  <2> SUFFICES ASSUME used'.crashes = 0, NEW j \in Issues, issue'[j] = "created"
               PROVE  \E e \in Dispatchers : disp'[e].issue = j /\ disp'[e].pc \in {"wake", "commit"}
    BY DEF CreatedIssuesAreWoken
  <2>1. PICK e \in Dispatchers : disp[e].issue = j /\ disp[e].pc \in {"wake", "commit"}
    BY <1>4, <1>5 DEF IInv, CreatedIssuesAreWoken
  <2>2. QED  BY <1>2, <1>6, <2>1
<1>12. QED  BY <1>7, <1>9, <1>10, <1>11 DEF IInv

\* The issue of a failed dispatch is deleted; that of any other has been woken.
LEMMA CommitInv ==
  ASSUME RoutineConstants, IInv, NEW d \in Dispatchers, Commit(d) PROVE IInv'
<1> DEFINE h == IF disp[d].left > 1
                THEN [NoDispatch EXCEPT !.pc = "connect", !.left = disp[d].left - 1]
                ELSE NoDispatch
           i == disp[d].issue
<1>1. disp[d] \in Places /\ disp[d].pc = "commit" /\ InHand(d)
  BY DEF IInv, Typed, InHands, At, Commit
<1>2. h \in Places /\ h.pc \in {"idle", "connect"} /\ h.issue = 0 /\ h.verdict = "none"
  <2>1. NoDispatch \in Places  BY DEF NoDispatch, Places, RoutineConstants
  <2>2. CASE disp[d].left > 1
    <3>1. disp[d].left - 1 \in 0 .. MaxCatchUp  BY <1>1, <2>2 DEF Places, RoutineConstants
    <3>2. h \in Places /\ h.pc = "connect"  BY <2>1, <2>2, <3>1 DEF Places
    <3>3. QED  BY <2>2, <3>2 DEF NoDispatch
  <2>3. CASE ~(disp[d].left > 1)  BY <2>1, <2>3 DEF NoDispatch
  <2>4. QED  BY <2>2, <2>3
<1>3. PlaceIs(d, h)  BY <1>1 DEF Commit, PlaceIs, IInv, Typed
<1>4. UNCHANGED <<clock, used>> /\ used'.rewakes = used.rewakes /\ holder' = NoDispatcher
  BY DEF Commit
<1>5. /\ issue' \in [Issues -> States]
      /\ \A j \in Issues : issue'[j] = IF j = i /\ disp[d].verdict = "failed" THEN "none" ELSE issue[j]
  BY DEF Commit, IInv, Typed, States
<1>6. nextRun' \in 1 .. MaxTime + 1
  BY <1>1 DEF Commit, NextTick, IInv, Typed, Places, RoutineConstants
<1> HIDE DEF h
<1>7. disp'[d] = h /\ \A e \in Dispatchers : e # d =>
        /\ disp'[e] = disp[e] /\ disp[e].pc \notin {"find", "create", "wake", "start", "commit"}
        /\ disp[e].verdict = "none"
  BY <1>1, <1>2, <1>3, InsideFacts
<1>8. Typed'
  <2>1. disp' \in [Dispatchers -> Places]  BY <1>1, <1>2, <1>3, InsideFacts
  <2>2. QED  BY <1>4, <1>5, <1>6, <2>1 DEF IInv, Typed
<1>9. InHand(d)'  BY <1>2, <1>7 DEF InHand, At
<1>10. TicksWereDue' /\ OneDispatch' /\ InHands'
  <2>1. /\ disp[d].pc \in {"find", "create", "wake", "start", "commit"} /\ h.pc # "claim"
        /\ h.pc \notin {"find", "create", "wake", "start", "commit"}
    BY <1>1, <1>2
  <2>2. QED  BY <1>2, <1>3, <1>9, <2>1, InsideFacts
<1>11. NoLiveIssueIsMissed'
  <2>1. \A e \in Dispatchers : disp'[e].pc \notin {"create", "wake"}  BY <1>2, <1>7
  <2>2. QED  BY <2>1 DEF NoLiveIssueIsMissed
<1>12. CreatedIssuesAreWoken'
  <2> SUFFICES ASSUME used'.crashes = 0, NEW j \in Issues, issue'[j] = "created" PROVE FALSE
    BY DEF CreatedIssuesAreWoken
  <2>1. issue[j] = "created" /\ ~(j = i /\ disp[d].verdict = "failed")  BY <1>5
  <2>2. PICK e \in Dispatchers : disp[e].issue = j /\ disp[e].pc \in {"wake", "commit"}
    BY <1>4, <2>1 DEF IInv, CreatedIssuesAreWoken
  <2>3. e = d  BY <1>7, <2>2
  <2>4. j # 0  BY DEF Issues
  <2>5. disp[d].verdict \in {"none", "coalesced", "issue_created"}  BY <1>1, <2>1, <2>2, <2>3 DEF Places
  <2>6. QED  BY <1>1, <2>1, <2>2, <2>3, <2>4, <2>5 DEF InHand, At
<1>13. QED  BY <1>8, <1>10, <1>11, <1>12 DEF IInv

-----------------------------------------------------------------------------
(* The issues, the clock and the server *)

\* An issue changes elsewhere: none becomes "created", and what dispatchers have in
\* hand stays; if one becomes live, a later wake is counted.
LEMMA IssueMoves ==
  ASSUME RoutineConstants, IInv, NEW i \in Issues, NEW s \in {"none", "live", "stale", "idle"},
         issue' = [issue EXCEPT ![i] = s], issue[i] # "created",
         s = "live" => used'.rewakes # 0, used'.rewakes = 0 => used.rewakes = 0,
         used' \in Counters, used'.crashes = used.crashes,
         UNCHANGED <<clock, nextRun, disp, holder>>
  PROVE  IInv'
<1>1. /\ issue' \in [Issues -> States] /\ issue'[i] = s
      /\ \A j \in Issues : j # i => issue'[j] = issue[j]
  BY DEF IInv, Typed, States
<1>2. Typed'  BY <1>1 DEF IInv, Typed
<1>3. TicksWereDue' /\ OneDispatch'  BY DEF IInv, TicksWereDue, OneDispatch, At
<1>4. InHands'
  <2> SUFFICES ASSUME NEW d \in Dispatchers PROVE InHand(d)'  BY DEF InHands
  <2>1. InHand(d)  BY DEF IInv, InHands
  <2>2. QED  BY <1>1, <2>1 DEF InHand, At
<1>5. NoLiveIssueIsMissed'
  <2> SUFFICES ASSUME used'.rewakes = 0 PROVE NoLiveIssueIsMissed'  BY DEF NoLiveIssueIsMissed
  <2>1. s # "live" /\ used.rewakes = 0  OBVIOUS
  <2>2. QED  BY <1>1, <2>1 DEF IInv, NoLiveIssueIsMissed, Live
<1>6. CreatedIssuesAreWoken'  BY <1>1 DEF IInv, CreatedIssuesAreWoken
<1>7. QED  BY <1>2, <1>3, <1>4, <1>5, <1>6 DEF IInv

LEMMA RunEndsInv ==
  ASSUME RoutineConstants, IInv, NEW i \in Issues, RunEnds(i) PROVE IInv'
<1>1. used' = used /\ used' \in Counters  BY DEF RunEnds, IInv, Typed
<1>2. QED  BY <1>1, IssueMoves DEF RunEnds, Live

LEMMA ReleaseIssueInv ==
  ASSUME RoutineConstants, IInv, NEW i \in Issues, ReleaseIssue(i) PROVE IInv'
<1>1. used' = used /\ used' \in Counters  BY DEF ReleaseIssue, IInv, Typed
<1>2. QED  BY <1>1, IssueMoves DEF ReleaseIssue

LEMMA CloseIssueInv ==
  ASSUME RoutineConstants, IInv, NEW i \in Issues, CloseIssue(i) PROVE IInv'
<1>1. used'.rewakes = used.rewakes /\ used' \in Counters  BY DEF CloseIssue, IInv, Typed
<1>2. QED  BY <1>1, IssueMoves DEF CloseIssue

LEMMA RewakeInv ==
  ASSUME RoutineConstants, IInv, NEW i \in Issues, Rewake(i) PROVE IInv'
<1>1. used' \in Counters /\ used'.rewakes # 0 /\ used'.crashes = used.crashes
  BY CountFacts DEF Rewake, IInv
<1>2. QED  BY <1>1, IssueMoves DEF Rewake

LEMMA TimePassesInv ==
  ASSUME RoutineConstants, IInv, TimePasses PROVE IInv'
<1>1. Typed'  BY DEF TimePasses, IInv, Typed, RoutineConstants
<1>2. QED  BY <1>1, NothingMoves DEF TimePasses, IInv

\* A crash ends the dispatches of the server; those of the worker keep the row they
\* have, and the issues in their hands.
LEMMA CrashInv ==
  ASSUME RoutineConstants, IInv, Crash PROVE IInv'
<1>1. used' \in Counters /\ used'.rewakes = used.rewakes /\ used'.crashes # 0  BY CountFacts DEF Crash, IInv
<1>2. NoDispatch \in Places  BY DEF NoDispatch, Places, RoutineConstants
<1>3. /\ disp' \in [Dispatchers -> Places]
      /\ \A d \in Dispatchers : disp'[d] = IF d \in Server THEN NoDispatch ELSE disp[d]
  BY <1>2 DEF Crash, IInv, Typed
<1>4. issue' = issue  BY DEF Crash
<1>5. UNCHANGED <<clock, nextRun>> /\ holder' = (IF holder \in Server THEN NoDispatcher ELSE holder)
  BY DEF Crash
<1>6. Typed'  BY <1>1, <1>3, <1>4, <1>5 DEF IInv, Typed
<1>7. TicksWereDue'  BY <1>3 DEF IInv, TicksWereDue, At, NoDispatch
<1>8. OneDispatch'  BY <1>3, <1>5 DEF IInv, OneDispatch, NoDispatch
<1>9. InHands'
  <2> SUFFICES ASSUME NEW d \in Dispatchers PROVE InHand(d)'  BY DEF InHands
  <2>1. CASE d \in Server  BY <1>3, <2>1 DEF InHand, At, NoDispatch
  <2>2. CASE d \notin Server
    <3>1. disp'[d] = disp[d] /\ InHand(d)  BY <1>3, <2>2 DEF IInv, InHands
    <3>2. QED  BY <1>4, <3>1 DEF InHand, At
  <2>3. QED  BY <2>1, <2>2
<1>10. NoLiveIssueIsMissed' /\ CreatedIssuesAreWoken'
  <2>1. CreatedIssuesAreWoken'  BY <1>1 DEF CreatedIssuesAreWoken
  <2>2. NoLiveIssueIsMissed'
    BY <1>1, <1>3, <1>4 DEF IInv, NoLiveIssueIsMissed, Live, NoDispatch
  <2>3. QED  BY <2>1, <2>2
<1>11. QED  BY <1>6, <1>7, <1>8, <1>9, <1>10 DEF IInv

-----------------------------------------------------------------------------
\* Every step preserves the invariant.
LEMMA StepInv == ASSUME RoutineConstants PROVE IInv /\ [Next]_vars => IInv'
<1> SUFFICES ASSUME IInv, [Next]_vars PROVE IInv'  OBVIOUS
<1>1. ASSUME NEW d \in Dispatchers, Dispatch(d) PROVE IInv'
  BY <1>1, TickClaimInv, JobCheckInv, ConnectInv, LockRoutineInv, FindLiveIssueInv, CreateIssueInv,
     WakeAssigneeInv, StartRunInv, CommitInv DEF Dispatch
<1>2. CASE UNCHANGED vars
  <2>1. Typed'  BY <1>2 DEF IInv, Typed, vars
  <2>2. QED  BY <1>2, <2>1, NothingMoves DEF IInv, vars
<1>3. CASE Finished  BY <1>2, <1>3 DEF Finished
<1>4. QED
  BY <1>1, <1>2, <1>3, TickReadInv, CallInv, JobBeginInv, WakeDeclinedInv, DispatchFailsInv,
     RunEndsInv, ReleaseIssueInv, CloseIssueInv, RewakeInv, TimePassesInv, CrashInv DEF Next

LEMMA Invariance == ASSUME RoutineConstants PROVE Spec => []IInv
<1>1. Init => IInv  BY InitInv
<1>2. IInv /\ [Next]_vars => IInv'  BY StepInv
<1>3. QED  BY <1>1, <1>2, PTL DEF Spec

\* Every variable keeps its type; the schedule stays within one tick of the clock's
\* bound, whoever writes next_run_at and however many ticks were caught up.
THEOREM TypeCorrect == ASSUME RoutineConstants PROVE Spec => []TypeOK
<1>1. IInv => TypeOK
  <2> SUFFICES ASSUME IInv PROVE TypeOK  OBVIOUS
  <2>1. DOMAIN NoEvents = {"calls", "faults", "rewakes", "crashes"}  BY DEF NoEvents
  <2>2. used \in [DOMAIN NoEvents -> Nat]  BY <2>1 DEF IInv, Typed, Counters
  <2>3. \A d \in Dispatchers : disp[d] \in Places  BY DEF IInv, Typed
  <2>4. QED  BY <2>2, <2>3 DEF IInv, Typed, TypeOK, Places, States
<1>2. QED  BY <1>1, Invariance, PTL

\* However many timers, requests and workers dispatch a routine, what a dispatch has
\* seen of the runs of the others stays true until it has woken its own assignee.
THEOREM NoDispatchTripsAnother ==
  ASSUME RoutineConstants PROVE Spec => []NoLiveIssueIsMissed
<1>1. IInv => NoLiveIssueIsMissed  BY DEF IInv
<1>2. QED  BY <1>1, Invariance, PTL

\* Without a crash, every issue whose assignee was not woken is in the hands of a
\* dispatch that will wake or delete it.
THEOREM NoIssueIsLeftBehind ==
  ASSUME RoutineConstants PROVE Spec => []CreatedIssuesAreWoken
<1>1. IInv => CreatedIssuesAreWoken  BY DEF IInv
<1>2. QED  BY <1>1, Invariance, PTL

-----------------------------------------------------------------------------
(* No circle of waiting dispatches *)

\* The row belongs to a dispatch that will commit, and the index binds one issue.
RowIsInUse ==
    holder # NoDispatcher => disp[holder].pc \in {"find", "create", "wake", "start", "commit"}
OneIsBound == \A i, j \in Issues : Bound(i) /\ Bound(j) => i = j

\* A step of one dispatcher keeps the row in use, if it leaves the row to the
\* dispatch that has it, takes it from none, or gives it back.
LEMMA RowStaysInUse ==
  ASSUME IInv, RowIsInUse, NEW d \in Dispatchers,
         \A e \in Dispatchers : e # d => disp'[e] = disp[e],
         \/ holder' = NoDispatcher
         \/ holder' = holder /\ holder # d
         \/ holder' \in {holder, d} /\ disp'[d].pc \in {"find", "create", "wake", "start", "commit"}
  PROVE  RowIsInUse'
BY DEF RowIsInUse, IInv, Typed

\* Where dispatcher d goes, and what becomes of the row, in each of its steps.
LEMMA DispatchersKeepRow ==
  ASSUME RoutineConstants, IInv, RowIsInUse, NEW d \in Dispatchers,
         \/ TickRead(d) \/ Call(d) \/ JobBegin(d) \/ Dispatch(d) \/ WakeDeclined(d)
         \/ DispatchFails(d)
  PROVE  RowIsInUse'
<1>1. \A e \in Dispatchers : e # d => disp'[e] = disp[e]
  BY DEF TickRead, Call, JobBegin, Dispatch, WakeDeclined, DispatchFails, TickClaim, JobCheck,
     Connect, LockRoutine, FindLiveIssue, CreateIssue, WakeAssignee, StartRun, Commit, Go, IInv,
     Typed
<1>2. CASE TickRead(d) \/ Call(d) \/ JobBegin(d) \/ TickClaim(d) \/ JobCheck(d) \/ Connect(d)
  <2>1. holder' = holder /\ disp[d].pc \in {"idle", "claim", "check", "connect"}
    BY <1>2 DEF TickRead, Call, JobBegin, TickClaim, JobCheck, Connect, At
  <2>2. holder # d  BY <2>1 DEF RowIsInUse, RoutineConstants
  <2>3. QED  BY <1>1, <2>1, <2>2, RowStaysInUse
<1>3. CASE \/ LockRoutine(d) \/ FindLiveIssue(d) \/ CreateIssue(d) \/ WakeAssignee(d)
           \/ WakeDeclined(d) \/ StartRun(d) \/ DispatchFails(d)
  <2>1. holder' \in {holder, d}
    BY <1>3 DEF LockRoutine, FindLiveIssue, CreateIssue, WakeAssignee, WakeDeclined, StartRun,
       DispatchFails
  <2>2. disp[d] \in Places  BY DEF IInv, Typed
  <2>3. disp'[d].pc \in {"find", "create", "wake", "start", "commit"}
    <3>1. CASE LockRoutine(d)  BY <2>2, <3>1 DEF LockRoutine, IInv, Typed, Places
    <3>2. CASE FindLiveIssue(d)  BY <2>2, <3>2 DEF FindLiveIssue, IInv, Typed, Places
    <3>3. CASE CreateIssue(d)  BY <2>2, <3>3 DEF CreateIssue, IInv, Typed, Places
    <3>4. CASE WakeAssignee(d)  BY <2>2, <3>4 DEF WakeAssignee, Go, IInv, Typed, Places
    <3>5. CASE WakeDeclined(d) \/ StartRun(d) \/ DispatchFails(d)
      BY <2>2, <3>5 DEF WakeDeclined, StartRun, DispatchFails, IInv, Typed, Places
    <3>6. QED  BY <1>3, <3>1, <3>2, <3>3, <3>4, <3>5
  <2>4. QED  BY <1>1, <2>1, <2>3, RowStaysInUse
<1>4. CASE Commit(d)
  BY <1>1, <1>4, RowStaysInUse DEF Commit
<1>5. QED  BY <1>2, <1>3, <1>4 DEF Dispatch

\* An issue that was not bound becomes bound only where no other is.
LEMMA BoundStaysOne ==
  ASSUME OneIsBound, NEW i \in Issues, Bound(i)' => Bound(i) \/ MayBind(i),
         \A j \in Issues : j # i => (Bound(j)' => Bound(j))
  PROVE  OneIsBound'
BY DEF OneIsBound, MayBind

LEMMA WaitStep ==
  ASSUME RoutineConstants, IInv, RowIsInUse, OneIsBound, [Next]_vars
  PROVE  RowIsInUse' /\ OneIsBound'
<1>1. RowIsInUse'
  <2>1. CASE Crash
    <3>1. \A e \in Dispatchers : disp'[e] = IF e \in Server THEN NoDispatch ELSE disp[e]
      BY <2>1 DEF Crash
    <3>2. holder' = (IF holder \in Server THEN NoDispatcher ELSE holder)  BY <2>1 DEF Crash
    <3>3. QED  BY <3>1, <3>2 DEF RowIsInUse, IInv, Typed
  <2>2. CASE UNCHANGED <<disp, holder>>  BY <2>2 DEF RowIsInUse
  <2>3. QED
    BY <2>1, <2>2, DispatchersKeepRow DEF Next, RunEnds, ReleaseIssue, CloseIssue, Rewake,
       TimePasses, Finished, vars
<1>2. OneIsBound'
  <2>1. ASSUME NEW d \in Dispatchers, CreateIssue(d)  PROVE OneIsBound'
    <3>1. PICK i \in Issues : issue' = [issue EXCEPT ![i] = "created"]  BY <2>1 DEF CreateIssue
    <3>2. QED  BY <3>1, BoundStaysOne DEF Bound, IInv, Typed
  <2>2. ASSUME NEW d \in Dispatchers, WakeAssignee(d)  PROVE OneIsBound'
    <3>1. disp[d].issue \in Issues  BY <2>2 DEF WakeAssignee, At, IInv, InHands, InHand
    <3>2. CASE MayBind(disp[d].issue)
      <4>1. issue' = [issue EXCEPT ![disp[d].issue] = "live"]  BY <2>2, <3>2 DEF WakeAssignee
      <4>2. QED  BY <3>1, <3>2, <4>1, BoundStaysOne DEF Bound, IInv, Typed
    <3>3. CASE ~MayBind(disp[d].issue)
      BY <2>2, <3>3 DEF WakeAssignee, OneIsBound, Bound
    <3>4. QED  BY <3>2, <3>3
  <2>3. ASSUME NEW d \in Dispatchers, Commit(d)  PROVE OneIsBound'
    <3>1. \A i \in Issues : issue'[i] \in {issue[i], "none"}  BY <2>3 DEF Commit
    <3>2. QED  BY <3>1 DEF OneIsBound, Bound
  <2>4. ASSUME NEW i \in Issues, RunEnds(i) \/ ReleaseIssue(i) \/ CloseIssue(i) \/ Rewake(i)
        PROVE  OneIsBound'
    <3>1. CASE RunEnds(i) \/ ReleaseIssue(i) \/ CloseIssue(i)
      <4>1. \A j \in Issues : Bound(j)' => Bound(j)
        BY <3>1 DEF RunEnds, ReleaseIssue, CloseIssue, Live, Bound, IInv, Typed
      <4>2. QED  BY <4>1 DEF OneIsBound
    <3>2. CASE Rewake(i)  BY <3>2, BoundStaysOne DEF Rewake, Bound, IInv, Typed
    <3>3. QED  BY <2>4, <3>1, <3>2
  <2>5. ASSUME NEW d \in Dispatchers, WakeDeclined(d)  PROVE OneIsBound'
    <3>1. \A j \in Issues : Bound(j)' => Bound(j)
      BY <2>5 DEF WakeDeclined, Bound, IInv, Typed
    <3>2. QED  BY <3>1 DEF OneIsBound
  <2>6. CASE issue' = issue  BY <2>6 DEF OneIsBound, Bound
  <2>7. QED
    BY <2>1, <2>2, <2>3, <2>4, <2>5, <2>6 DEF Next, Dispatch, TickRead, Call, JobBegin, DispatchFails,
       TickClaim, JobCheck, Connect, LockRoutine, FindLiveIssue, StartRun, TimePasses, Crash,
       Finished, vars
<1>3. QED  BY <1>1, <1>2

\* Whoever has the row finds a place for its issue: it has none in hand yet, nobody
\* else has one, and of two issues one at most is bound.
LEMMA PlaceForIssue ==
  ASSUME RoutineConstants, IInv, OneIsBound, NEW d \in Dispatchers, At(d, "create")
  PROVE  \E i \in Issues : NewIssue(i)
<1>1. CASE \E i \in Issues : issue[i] = "none"  BY <1>1 DEF NewIssue
<1>2. CASE \A i \in Issues : issue[i] # "none"
  <2>1. 1 \in Issues /\ 2 \in Issues  BY DEF RoutineConstants, Issues
  <2>2. PICK i \in Issues : ~Bound(i)  BY <2>1 DEF OneIsBound
  <2>3. issue[i] \in {"created", "idle"}  BY <1>2, <2>2 DEF Bound, IInv, Typed, States
  <2>4. i # 0  BY DEF RoutineConstants, Issues
  <2>5. \A e \in Dispatchers : disp[e].issue = 0
    <3> TAKE e \in Dispatchers
    <3>1. InHand(e) /\ InHand(d)  BY DEF IInv, InHands
    <3>2. CASE e = d  BY <3>1, <3>2 DEF InHand, At
    <3>3. CASE e # d  BY <3>1, <3>3, Alone DEF InHand, At
    <3>4. QED  BY <3>2, <3>3
  <2>6. QED  BY <1>2, <2>3, <2>4, <2>5 DEF NewIssue
<1>3. QED  BY <1>1, <1>2

\* With more connections than the server has dispatchers, dispatches do not wait for
\* one another in a circle: the one that has the routine's row always finds a
\* connection for the issue and for the wake, and the others wait for nothing else.
THEOREM NoDispatchIsStuck ==
  ASSUME RoutineConstants, IsFiniteSet(Server), Cardinality(Server) < Connections
  PROVE  Spec => []DispatchesGoOn
<1>1. Init => RowIsInUse /\ OneIsBound
  BY DEF Init, RowIsInUse, OneIsBound, Bound
<1>2. IInv /\ RowIsInUse /\ OneIsBound /\ [Next]_vars => (RowIsInUse /\ OneIsBound)'
  BY WaitStep
<1>3. ASSUME NEW d \in Dispatchers  PROVE Connection(d)
  <2>1. {e \in Server : InTransaction(e)} \subseteq Server  OBVIOUS
  <2>2. /\ Cardinality({e \in Server : InTransaction(e)}) <= Cardinality(Server)
        /\ Cardinality({e \in Server : InTransaction(e)}) \in Nat /\ Cardinality(Server) \in Nat
    BY <2>1, FS_Subset, FS_CardinalityType
  <2>3. QED  BY <2>2 DEF Connection, RoutineConstants
<1>4. ASSUME IInv, RowIsInUse, OneIsBound, NEW d \in Dispatchers, ~At(d, "idle")
      PROVE  CanGoOn(d) \/ (At(d, "lock") /\ holder # NoDispatcher /\ CanGoOn(holder))
  <2>1. ASSUME NEW e \in Dispatchers, disp[e].pc \notin {"idle", "lock"}  PROVE CanGoOn(e)
    <3>1. disp[e].pc \in {"claim", "check", "connect", "find", "create", "wake", "start",
                         "commit"}
      BY <1>4, <2>1 DEF IInv, Typed, Places
    <3>2. QED  BY <1>3, <1>4, <3>1, PlaceForIssue DEF CanGoOn, At
  <2>2. CASE ~At(d, "lock")  BY <1>4, <2>1, <2>2 DEF At
  <2>3. CASE At(d, "lock") /\ holder = NoDispatcher  BY <2>3 DEF CanGoOn
  <2>4. CASE At(d, "lock") /\ holder # NoDispatcher
    <3>1. holder \in Dispatchers /\ disp[holder].pc \notin {"idle", "lock"}
      BY <1>4, <2>4 DEF IInv, Typed, RowIsInUse
    <3>2. QED  BY <2>1, <2>4, <3>1
  <2>5. QED  BY <2>2, <2>3, <2>4
<1>5. IInv /\ RowIsInUse /\ OneIsBound => DispatchesGoOn  BY <1>4 DEF DispatchesGoOn
<1>6. QED  BY <1>1, <1>2, <1>5, Invariance, PTL DEF Spec
=============================================================================
