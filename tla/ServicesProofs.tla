--------------------------- MODULE ServicesProofs ---------------------------
(***************************************************************************)
(* Theorems of the services beside the runs, taken together: whichever of  *)
(* them is driven, the variables of each one take its own steps only, so   *)
(* that a behaviour of all is a behaviour of each, and what is proved of   *)
(* one holds beside the others.                                            *)
(***************************************************************************)
EXTENDS MCServices, WorkspaceProofs, GovernanceProofs, PluginProofs, TLAPS

servicesVars ==
    <<driven, budgetVars, approvalVars, checkoutVars, workerVars, jobVars, localVars, documentVars>>

\* A step of the services is one of each, or leaves it alone.
LEMMA StepsAreTheirOwn ==
  ASSUME [ServicesNext]_servicesVars
  PROVE  /\ [BudgetsNext]_budgetVars /\ [ApprovalsNext]_approvalVars /\ [CheckoutNext]_checkoutVars
         /\ [WorkersNext]_workerVars /\ [JobsNext]_jobVars
         /\ [LocalNext]_localVars /\ [DocumentsNext]_documentVars
<1>1. CASE UNCHANGED servicesVars
  BY <1>1 DEF servicesVars
<1>2. CASE ServicesNext
  BY <1>2 DEF ServicesNext
<1> QED
  BY <1>1, <1>2

\* The initial states of the services are initial states of each.
LEMMA InitsAreTheirOwn ==
  ServicesInit => /\ BudgetsInit /\ ApprovalsInit /\ CheckoutInit /\ WorkersInit
                  /\ JobsInit /\ LocalInit /\ DocumentsInit
  BY DEF ServicesInit

\* Each service runs beside the others as it runs alone: a behaviour of the services
\* implements the specification of every one of them.
THEOREM ServicesKeepApart ==
  ServicesSpec => /\ BudgetsSpec /\ ApprovalsSpec /\ CheckoutSpec /\ WorkersSpec
                  /\ JobsSpec /\ LocalSpec /\ DocumentsSpec
<1>1. [ServicesNext]_servicesVars =>
        /\ [BudgetsNext]_budgetVars /\ [ApprovalsNext]_approvalVars /\ [CheckoutNext]_checkoutVars
        /\ [WorkersNext]_workerVars /\ [JobsNext]_jobVars
        /\ [LocalNext]_localVars /\ [DocumentsNext]_documentVars
  BY StepsAreTheirOwn
<1> QED
  BY <1>1, InitsAreTheirOwn, PTL
     DEF ServicesSpec, servicesVars, BudgetsSpec, ApprovalsSpec, CheckoutSpec, WorkersSpec,
         JobsSpec, LocalSpec, DocumentsSpec

\* Every column, thread and counter of every service holds a value of its kind.
THEOREM ServicesTypeCorrect == ServicesSpec => []ServicesTypeOK
<1>1. /\ BudgetsTypeOK /\ ApprovalsTypeOK /\ CheckoutTypeOK /\ WorkersTypeOK
      /\ JobsTypeOK /\ LocalTypeOK /\ DocumentsTypeOK
      => ServicesTypeOK
  BY DEF ServicesTypeOK
<1>2. BudgetsSpec => []BudgetsTypeOK
  BY ServicesAssumption, BudgetsTypeCorrect
<1>3. ApprovalsSpec => []ApprovalsTypeOK
  BY ServicesAssumption, ApprovalsTypeCorrect
<1>4. CheckoutSpec => []CheckoutTypeOK
  BY ServicesAssumption, CheckoutTypeCorrect
<1>5. WorkersSpec => []WorkersTypeOK
  BY ServicesAssumption, WorkersTypeCorrect
<1>6. JobsSpec => []JobsTypeOK
  BY ServicesAssumption, JobsTypeCorrect
<1>7. LocalSpec => []LocalTypeOK
  BY ServicesAssumption, LocalTypeCorrect
<1>8. DocumentsSpec => []DocumentsTypeOK
  BY ServicesAssumption, DocumentsTypeCorrect
<1> QED
  BY <1>1, <1>2, <1>3, <1>4, <1>5, <1>6, <1>7, <1>8, ServicesKeepApart, PTL

\* What the services promise of the board's money, work and staff, whichever of them
\* are at work.
ServicesAreSafe ==
    /\ NoWorkOverLimit /\ OpenIncidentsAreDecidable /\ HiredOnce /\ DecisionsTakeEffect
    /\ CheckoutHoldsExecution /\ DocumentsAreWhole
    /\ OneProcess /\ NoOrphans /\ ScheduledRunsDoNotOverlap /\ JobsAreReleased
    /\ UnleasedServicesStop

\* With one decision of the board and one operator at a time, every invariant of the
\* run of the services holds for any agents, runs, documents, plugins and services.
THEOREM ServicesStaySafe == ServicesSpec => []ServicesAreSafe
<1>1. BudgetsSpec => [](NoWorkOverLimit /\ OpenIncidentsAreDecidable)
  BY ServicesAssumption, OneDecisionIsSafe, IncidentsStayDecidable, PTL
<1>2. ApprovalsSpec => [](HiredOnce /\ DecisionsTakeEffect)
  BY ServicesAssumption, NobodyIsHiredTwice, DecisionsAreCarriedOut, PTL
<1>3. CheckoutSpec => []CheckoutHoldsExecution
  BY ServicesAssumption, OwnersAgree
<1>4. DocumentsSpec => []DocumentsAreWhole
  BY ServicesAssumption, NoRevisionIsLost
<1>5. WorkersSpec => [](OneProcess /\ NoOrphans)
  <2>1. OneOperator
    BY ServicesAssumption DEF OneOperator
  <2>2. WorkersSpec => []OneProcess
    BY <2>1, ServicesAssumption, OneProcessAtATime
  <2>3. WorkersSpec => []NoOrphans
    BY <2>1, ServicesAssumption, NoProcessIsLost
  <2> QED
    BY <2>2, <2>3, PTL
<1>6. JobsSpec => [](ScheduledRunsDoNotOverlap /\ JobsAreReleased)
  BY SchedulesDoNotOverlap, RunsReleaseTheirJobs, PTL
<1>7. LocalSpec => []UnleasedServicesStop
  BY ServicesAssumption, ServicesEndWithTheirRuns
<1> QED
  BY <1>1, <1>2, <1>3, <1>4, <1>5, <1>6, <1>7, ServicesKeepApart, PTL DEF ServicesAreSafe

\* And so does what no step of theirs may do: no pause of the board is lifted by a
\* budget, no live checkout goes to another run, no leased service is stopped.
THEOREM ServicesStepsAreSafe ==
  ServicesSpec => BoardPauseIsKept /\ LiveCheckoutIsKept /\ LeasedServicesAreKept
<1>1. BudgetsSpec => BoardPauseIsKept
  BY ServicesAssumption, BudgetsKeepPauses
<1>2. CheckoutSpec => LiveCheckoutIsKept
  BY ServicesAssumption, NoCheckoutIsStolen
<1>3. LocalSpec => LeasedServicesAreKept
  BY ServicesAssumption, LeasesHold
<1> QED
  BY <1>1, <1>2, <1>3, ServicesKeepApart
=============================================================================
