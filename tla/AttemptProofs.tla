---------------------------- MODULE AttemptProofs ----------------------------
(***************************************************************************)
(* TLAPS proofs about Attempt, for any number of schedulers, any retry     *)
(* budget and any number of disruptions.                                   *)
(***************************************************************************)
EXTENDS Attempt, TLAPS

(* Setting the candidate flag of one scheduler's result keeps its type.     *)
LEMMA CandidateUpdate ==
  ASSUME NEW c \in Controller, result \in [Controller -> Result], NEW b \in BOOLEAN
  PROVE  [result EXCEPT ![c].candidate = b] \in [Controller -> Result]
BY DEF Result

(* The type invariant is preserved by every step.                           *)
LEMMA AttemptTypeStep == TypeOK /\ [Next]_vars => TypeOK'
<1> SUFFICES ASSUME TypeOK, [Next]_vars PROVE TypeOK'
  OBVIOUS
<1> USE AttemptConstants DEF TypeOK, Goto, row, gateway, local, Station, Working, Launching,
        Judging, Status, Evaluation, ReportStatus, Nothing
<1>1. ASSUME NEW c \in Controller, Start(c) PROVE TypeOK'
  BY <1>1 DEF Start
<1>2. ASSUME NEW c \in Controller, Evicted(c) PROVE TypeOK'
  BY <1>2 DEF Evicted
<1>3. ASSUME NEW c \in Controller, Crash(c) PROVE TypeOK'
  BY <1>3 DEF Crash
<1>4. ASSUME NEW c \in Controller, ResumeEpoch(c) PROVE TypeOK'
  BY <1>4 DEF ResumeEpoch
<1>5. ASSUME NEW c \in Controller, EnterEpoch(c) PROVE TypeOK'
  BY <1>5 DEF EnterEpoch
<1>6. ASSUME NEW c \in Controller, InsertAttempt(c) PROVE TypeOK'
  BY <1>6 DEF InsertAttempt
<1>7. ASSUME NEW c \in Controller, RetryAttempt(c) PROVE TypeOK'
  BY <1>7 DEF RetryAttempt
<1>8. ASSUME NEW c \in Controller, GiveUp(c) PROVE TypeOK'
  BY <1>8 DEF GiveUp
<1>9. ASSUME NEW c \in Controller, AttemptDone(c) PROVE TypeOK'
  BY <1>9 DEF AttemptDone
<1>10. ASSUME NEW c \in Controller, LoadRegistered(c) PROVE TypeOK'
  BY <1>10 DEF LoadRegistered
<1>11. ASSUME NEW c \in Controller, LoadOutcome(c) PROVE TypeOK'
  BY <1>11 DEF LoadOutcome, Result
<1>12. ASSUME NEW c \in Controller, LoadFresh(c) PROVE TypeOK'
  BY <1>12 DEF LoadFresh
<1>13. ASSUME NEW c \in Controller, StartSession(c) PROVE TypeOK'
  BY <1>13 DEF StartSession
<1>14. ASSUME NEW c \in Controller, NEW s \in ReportStatus, SubmitReport(c, s) PROVE TypeOK'
  BY <1>14 DEF SubmitReport, Report
<1>15. ASSUME NEW c \in Controller, SessionFails(c) PROVE TypeOK'
  BY <1>15 DEF SessionFails
<1>16. ASSUME NEW c \in Controller, SessionSilent(c) PROVE TypeOK'
  BY <1>16 DEF SessionSilent, Result
<1>17. ASSUME NEW c \in Controller, SessionReports(c) PROVE TypeOK'
  <2>1. PICK r \in receipts :
          result' = [result EXCEPT ![c] = [report |-> r, candidate |-> FALSE]]
    BY <1>17 DEF SessionReports
  <2>2. result' \in [Controller -> Result]
    BY <2>1 DEF Result
  <2> QED  BY <1>17, <2>2 DEF SessionReports
<1>18. ASSUME NEW c \in Controller, FinalizeCommits(c) PROVE TypeOK'
  BY <1>18, CandidateUpdate DEF FinalizeCommits
<1>19. ASSUME NEW c \in Controller, FinalizeAdopts(c) PROVE TypeOK'
  BY <1>19, CandidateUpdate DEF FinalizeAdopts
<1>20. ASSUME NEW c \in Controller, FinalizeRejects(c) PROVE TypeOK'
  BY <1>20 DEF FinalizeRejects
<1>21. ASSUME NEW c \in Controller, FinalizeFails(c) PROVE TypeOK'
  BY <1>21 DEF FinalizeFails
<1>22. ASSUME NEW c \in Controller, RecordReport(c) PROVE TypeOK'
  BY <1>22 DEF RecordReport, Result
<1>23. ASSUME NEW c \in Controller, ReportConflict(c) PROVE TypeOK'
  BY <1>23 DEF ReportConflict
<1>24. ASSUME NEW c \in Controller, RegisterKernel(c) PROVE TypeOK'
  BY <1>24 DEF RegisterKernel
<1>25. ASSUME NEW c \in Controller, CompleteEmpty(c) PROVE TypeOK'
  BY <1>25 DEF CompleteEmpty
<1>26. ASSUME NEW c \in Controller, RecordFailure(c) PROVE TypeOK'
  BY <1>26 DEF RecordFailure
<1>27. ASSUME NEW c \in Controller, CompleteUnreported(c) PROVE TypeOK'
  BY <1>27 DEF CompleteUnreported
<1>28. ASSUME NEW c \in Controller, CompareKernels(c) PROVE TypeOK'
  BY <1>28 DEF CompareKernels
<1>29. ASSUME NEW c \in Controller, CompareRejects(c) PROVE TypeOK'
  BY <1>29 DEF CompareRejects
<1>30. ASSUME NEW c \in Controller, CompareFails(c) PROVE TypeOK'
  BY <1>30 DEF CompareFails
<1>31. ASSUME NEW c \in Controller, CompleteCompared(c) PROVE TypeOK'
  BY <1>31 DEF CompleteCompared
<1>32. CASE StopEpoch
  BY <1>32 DEF StopEpoch
<1>33. CASE UNCHANGED vars
  BY <1>33 DEF vars
<1> QED
    BY <1>1, <1>2, <1>3, <1>4, <1>5, <1>6, <1>7, <1>8, <1>9, <1>10, <1>11, <1>12, <1>13, <1>14,
     <1>15, <1>16, <1>17, <1>18, <1>19, <1>20, <1>21, <1>22, <1>23, <1>24, <1>25, <1>26, <1>27,
     <1>28, <1>29, <1>30, <1>31, <1>32, <1>33 DEF Next, ControllerStep, SessionStep

(* Every step preserves the inductive invariant, one step per action.       *)
LEMMA AttemptStep == AttemptInv /\ [Next]_vars => AttemptInv'
<1> SUFFICES ASSUME AttemptInv, [Next]_vars, TypeOK' PROVE AttemptInv'
  BY AttemptTypeStep DEF AttemptInv
<1> USE AttemptConstants DEF AttemptInv, TypeOK, HolderIsCurrent, InterruptedIsStopped, ResultsAreAccepted,
        CandidateTravelsWithReport, AcceptedIsEarned, ReportIsAccepted, RetryBudget, Holds,
        ReportReady, Goto, row, gateway, local, Working, Launching, Judging, Nothing
<1>1. ASSUME NEW c \in Controller, Start(c) PROVE AttemptInv'
  BY <1>1 DEF Start
<1>2. ASSUME NEW c \in Controller, Evicted(c) PROVE AttemptInv'
  BY <1>2 DEF Evicted
<1>3. ASSUME NEW c \in Controller, Crash(c) PROVE AttemptInv'
  BY <1>3 DEF Crash
<1>4. ASSUME NEW c \in Controller, ResumeEpoch(c) PROVE AttemptInv'
  BY <1>4 DEF ResumeEpoch, Report
<1>5. ASSUME NEW c \in Controller, EnterEpoch(c) PROVE AttemptInv'
  BY <1>5 DEF EnterEpoch
<1>6. ASSUME NEW c \in Controller, InsertAttempt(c) PROVE AttemptInv'
  BY <1>6 DEF InsertAttempt
<1>7. ASSUME NEW c \in Controller, RetryAttempt(c) PROVE AttemptInv'
  BY <1>7 DEF RetryAttempt, Report
<1>8. ASSUME NEW c \in Controller, GiveUp(c) PROVE AttemptInv'
  BY <1>8 DEF GiveUp
<1>9. ASSUME NEW c \in Controller, AttemptDone(c) PROVE AttemptInv'
  BY <1>9 DEF AttemptDone
<1>10. ASSUME NEW c \in Controller, LoadRegistered(c) PROVE AttemptInv'
  BY <1>10 DEF LoadRegistered
<1>11. ASSUME NEW c \in Controller, LoadOutcome(c) PROVE AttemptInv'
  BY <1>11 DEF LoadOutcome
<1>12. ASSUME NEW c \in Controller, LoadFresh(c) PROVE AttemptInv'
  BY <1>12 DEF LoadFresh
<1>13. ASSUME NEW c \in Controller, StartSession(c) PROVE AttemptInv'
  BY <1>13 DEF StartSession
<1>14. ASSUME NEW c \in Controller, NEW s \in ReportStatus, SubmitReport(c, s) PROVE AttemptInv'
  BY <1>14 DEF SubmitReport
<1>15. ASSUME NEW c \in Controller, SessionFails(c) PROVE AttemptInv'
  BY <1>15 DEF SessionFails
<1>16. ASSUME NEW c \in Controller, SessionSilent(c) PROVE AttemptInv'
  BY <1>16 DEF SessionSilent
<1>17. ASSUME NEW c \in Controller, SessionReports(c) PROVE AttemptInv'
  BY <1>17 DEF SessionReports
<1>18. ASSUME NEW c \in Controller, FinalizeCommits(c) PROVE AttemptInv'
  BY <1>18 DEF FinalizeCommits
<1>19. ASSUME NEW c \in Controller, FinalizeAdopts(c) PROVE AttemptInv'
  BY <1>19 DEF FinalizeAdopts
<1>20. ASSUME NEW c \in Controller, FinalizeRejects(c) PROVE AttemptInv'
  BY <1>20 DEF FinalizeRejects
<1>21. ASSUME NEW c \in Controller, FinalizeFails(c) PROVE AttemptInv'
  BY <1>21 DEF FinalizeFails
<1>22. ASSUME NEW c \in Controller, RecordReport(c) PROVE AttemptInv'
  BY <1>22 DEF RecordReport
<1>23. ASSUME NEW c \in Controller, ReportConflict(c) PROVE AttemptInv'
  BY <1>23 DEF ReportConflict
<1>24. ASSUME NEW c \in Controller, RegisterKernel(c) PROVE AttemptInv'
  BY <1>24 DEF RegisterKernel
<1>25. ASSUME NEW c \in Controller, CompleteEmpty(c) PROVE AttemptInv'
  BY <1>25 DEF CompleteEmpty
<1>26. ASSUME NEW c \in Controller, RecordFailure(c) PROVE AttemptInv'
  BY <1>26 DEF RecordFailure
<1>27. ASSUME NEW c \in Controller, CompleteUnreported(c) PROVE AttemptInv'
  BY <1>27 DEF CompleteUnreported
<1>28. ASSUME NEW c \in Controller, CompareKernels(c) PROVE AttemptInv'
  BY <1>28 DEF CompareKernels
<1>29. ASSUME NEW c \in Controller, CompareRejects(c) PROVE AttemptInv'
  BY <1>29 DEF CompareRejects
<1>30. ASSUME NEW c \in Controller, CompareFails(c) PROVE AttemptInv'
  BY <1>30 DEF CompareFails
<1>31. ASSUME NEW c \in Controller, CompleteCompared(c) PROVE AttemptInv'
  BY <1>31 DEF CompleteCompared
<1>32. CASE StopEpoch
  BY <1>32 DEF StopEpoch
<1>33. CASE UNCHANGED vars
  BY <1>33 DEF vars
<1> QED
    BY <1>1, <1>2, <1>3, <1>4, <1>5, <1>6, <1>7, <1>8, <1>9, <1>10, <1>11, <1>12, <1>13, <1>14,
     <1>15, <1>16, <1>17, <1>18, <1>19, <1>20, <1>21, <1>22, <1>23, <1>24, <1>25, <1>26, <1>27,
     <1>28, <1>29, <1>30, <1>31, <1>32, <1>33 DEF Next, ControllerStep, SessionStep

(* Init establishes the inductive invariant.                                *)
LEMMA AttemptInit == Init => AttemptInv
<1> SUFFICES ASSUME Init PROVE AttemptInv
  OBVIOUS
<1> USE AttemptConstants DEF Init
<1>1. TypeOK
  BY DEF TypeOK, Station, Status, Evaluation, Nothing, Result
<1>2. HolderIsCurrent /\ InterruptedIsStopped
  BY DEF HolderIsCurrent, InterruptedIsStopped, Holds
<1>3. ResultsAreAccepted /\ ReportIsAccepted
  BY DEF ResultsAreAccepted, ReportIsAccepted, Nothing
<1>4. CandidateTravelsWithReport
  BY DEF CandidateTravelsWithReport, Holds
<1>5. AcceptedIsEarned /\ RetryBudget
  BY DEF AcceptedIsEarned, RetryBudget
<1> QED  BY <1>1, <1>2, <1>3, <1>4, <1>5 DEF AttemptInv

(***************************************************************************)
(* The inductive invariant holds in every reachable state of _finish_attempt *)
(* and its collaborators, however many schedulers are lost or superseded.  *)
(***************************************************************************)
THEOREM AttemptSafety == Spec => []AttemptInv
<1>1. Init => AttemptInv
  BY AttemptInit
<1>2. AttemptInv /\ [Next]_vars => AttemptInv'
  BY AttemptStep
<1> QED  BY <1>1, <1>2, PTL DEF Spec

(***************************************************************************)
(* complete_attempt accepts a Kernel only with its ready report and the    *)
(* improving evaluation on the rows.                                       *)
(***************************************************************************)
THEOREM AttemptAcceptedIsEarned == Spec => []AcceptedIsEarned
<1>1. AttemptInv => AcceptedIsEarned
  BY DEF AttemptInv
<1> QED  BY <1>1, AttemptSafety, PTL

(***************************************************************************)
(* The retry budget bounds infrastructure failures, stops are free.        *)
(***************************************************************************)
THEOREM AttemptRetryBudget == Spec => []RetryBudget
<1>1. AttemptInv => RetryBudget
  BY DEF AttemptInv
<1> QED  BY <1>1, AttemptSafety, PTL

(***************************************************************************)
(* In a Lineage that adopts the Agent's evaluation no completed Attempt    *)
(* has a Kernel without its candidate_ready report.                        *)
(***************************************************************************)
THEOREM AttemptKeepsReport == Spec => []CandidateKeepsItsReport
<1>1. AttemptInv => CandidateKeepsItsReport
  BY DEF AttemptInv, CandidateTravelsWithReport, CandidateKeepsItsReport
<1> QED  BY <1>1, AttemptSafety, PTL

(***************************************************************************)
(* A completed Attempt is final: no scheduler, superseded or not, and no   *)
(* operator command changes its row or its Kernel.                         *)
(***************************************************************************)
THEOREM AttemptCompletedIsFinal == Spec => CompletedIsFinal
<1>1. AttemptInv /\ [Next]_vars => [status = "completed" => UNCHANGED row]_vars
  <2> SUFFICES ASSUME AttemptInv, [Next]_vars, status = "completed" PROVE UNCHANGED row
    OBVIOUS
  <2> USE DEF AttemptInv, TypeOK, HolderIsCurrent, Holds, row, Working, Launching, Judging
  <2>1. ASSUME NEW c \in Controller, Start(c) PROVE UNCHANGED row
    BY <2>1 DEF Start
  <2>2. ASSUME NEW c \in Controller, Evicted(c) PROVE UNCHANGED row
    BY <2>2 DEF Evicted
  <2>3. ASSUME NEW c \in Controller, Crash(c) PROVE UNCHANGED row
    BY <2>3 DEF Crash
  <2>4. ASSUME NEW c \in Controller, ResumeEpoch(c) PROVE UNCHANGED row
    BY <2>4 DEF ResumeEpoch
  <2>5. ASSUME NEW c \in Controller, EnterEpoch(c) PROVE UNCHANGED row
    BY <2>5 DEF EnterEpoch
  <2>6. ASSUME NEW c \in Controller, InsertAttempt(c) PROVE UNCHANGED row
    BY <2>6 DEF InsertAttempt
  <2>7. ASSUME NEW c \in Controller, RetryAttempt(c) PROVE UNCHANGED row
    BY <2>7 DEF RetryAttempt
  <2>8. ASSUME NEW c \in Controller, GiveUp(c) PROVE UNCHANGED row
    BY <2>8 DEF GiveUp
  <2>9. ASSUME NEW c \in Controller, AttemptDone(c) PROVE UNCHANGED row
    BY <2>9 DEF AttemptDone
  <2>10. ASSUME NEW c \in Controller, LoadRegistered(c) PROVE UNCHANGED row
    BY <2>10 DEF LoadRegistered
  <2>11. ASSUME NEW c \in Controller, LoadOutcome(c) PROVE UNCHANGED row
    BY <2>11 DEF LoadOutcome
  <2>12. ASSUME NEW c \in Controller, LoadFresh(c) PROVE UNCHANGED row
    BY <2>12 DEF LoadFresh
  <2>13. ASSUME NEW c \in Controller, StartSession(c) PROVE UNCHANGED row
    BY <2>13 DEF StartSession
  <2>14. ASSUME NEW c \in Controller, NEW s \in ReportStatus, SubmitReport(c, s) PROVE UNCHANGED row
    BY <2>14 DEF SubmitReport
  <2>15. ASSUME NEW c \in Controller, SessionFails(c) PROVE UNCHANGED row
    BY <2>15 DEF SessionFails
  <2>16. ASSUME NEW c \in Controller, SessionSilent(c) PROVE UNCHANGED row
    BY <2>16 DEF SessionSilent
  <2>17. ASSUME NEW c \in Controller, SessionReports(c) PROVE UNCHANGED row
    BY <2>17 DEF SessionReports
  <2>18. ASSUME NEW c \in Controller, FinalizeCommits(c) PROVE UNCHANGED row
    BY <2>18 DEF FinalizeCommits
  <2>19. ASSUME NEW c \in Controller, FinalizeAdopts(c) PROVE UNCHANGED row
    BY <2>19 DEF FinalizeAdopts
  <2>20. ASSUME NEW c \in Controller, FinalizeRejects(c) PROVE UNCHANGED row
    BY <2>20 DEF FinalizeRejects
  <2>21. ASSUME NEW c \in Controller, FinalizeFails(c) PROVE UNCHANGED row
    BY <2>21 DEF FinalizeFails
  <2>22. ASSUME NEW c \in Controller, RecordReport(c) PROVE UNCHANGED row
    BY <2>22 DEF RecordReport
  <2>23. ASSUME NEW c \in Controller, ReportConflict(c) PROVE UNCHANGED row
    BY <2>23 DEF ReportConflict
  <2>24. ASSUME NEW c \in Controller, RegisterKernel(c) PROVE UNCHANGED row
    BY <2>24 DEF RegisterKernel
  <2>25. ASSUME NEW c \in Controller, CompleteEmpty(c) PROVE UNCHANGED row
    BY <2>25 DEF CompleteEmpty
  <2>26. ASSUME NEW c \in Controller, RecordFailure(c) PROVE UNCHANGED row
    BY <2>26 DEF RecordFailure
  <2>27. ASSUME NEW c \in Controller, CompleteUnreported(c) PROVE UNCHANGED row
    BY <2>27 DEF CompleteUnreported
  <2>28. ASSUME NEW c \in Controller, CompareKernels(c) PROVE UNCHANGED row
    BY <2>28 DEF CompareKernels
  <2>29. ASSUME NEW c \in Controller, CompareRejects(c) PROVE UNCHANGED row
    BY <2>29 DEF CompareRejects
  <2>30. ASSUME NEW c \in Controller, CompareFails(c) PROVE UNCHANGED row
    BY <2>30 DEF CompareFails
  <2>31. ASSUME NEW c \in Controller, CompleteCompared(c) PROVE UNCHANGED row
    BY <2>31 DEF CompleteCompared
  <2>32. CASE StopEpoch
    BY <2>32 DEF StopEpoch
  <2>33. CASE UNCHANGED vars
    BY <2>33 DEF vars
  <2> QED
        BY <2>1, <2>2, <2>3, <2>4, <2>5, <2>6, <2>7, <2>8, <2>9, <2>10, <2>11, <2>12, <2>13,
       <2>14, <2>15, <2>16, <2>17, <2>18, <2>19, <2>20, <2>21, <2>22, <2>23, <2>24, <2>25,
       <2>26, <2>27, <2>28, <2>29, <2>30, <2>31, <2>32, <2>33 DEF Next, ControllerStep,
       SessionStep
<1> QED  BY <1>1, AttemptSafety, PTL DEF Spec, CompletedIsFinal

(***************************************************************************)
(* An Optimizer Session is never started for an Attempt whose Kernel is    *)
(* already registered.                                                     *)
(***************************************************************************)
THEOREM AttemptNoSessionAfterKernel == Spec => NoSessionAfterKernel
<1> DEFINE Launch == \A c \in Controller :
             pc[c] = "launch" /\ pc'[c] = "session" => kernel = "none"
<1>1. AttemptInv /\ [Next]_vars => [Launch]_vars
  <2> SUFFICES ASSUME AttemptInv, [Next]_vars, NEW d \in Controller,
                      pc[d] = "launch", pc'[d] = "session"
               PROVE  kernel = "none"
    OBVIOUS
  <2>1. StartSession(d)
    <3> USE DEF AttemptInv, TypeOK, Goto, Station, Working, Launching, Judging, local, vars
    <3>1. ASSUME NEW c \in Controller, Start(c) PROVE FALSE
      BY <3>1 DEF Start
    <3>2. ASSUME NEW c \in Controller, Evicted(c) PROVE FALSE
      BY <3>2 DEF Evicted
    <3>3. ASSUME NEW c \in Controller, Crash(c) PROVE FALSE
      BY <3>3 DEF Crash
    <3>4. ASSUME NEW c \in Controller, ResumeEpoch(c) PROVE FALSE
      BY <3>4 DEF ResumeEpoch
    <3>5. ASSUME NEW c \in Controller, EnterEpoch(c) PROVE FALSE
      BY <3>5 DEF EnterEpoch
    <3>6. ASSUME NEW c \in Controller, InsertAttempt(c) PROVE FALSE
      BY <3>6 DEF InsertAttempt
    <3>7. ASSUME NEW c \in Controller, RetryAttempt(c) PROVE FALSE
      BY <3>7 DEF RetryAttempt
    <3>8. ASSUME NEW c \in Controller, GiveUp(c) PROVE FALSE
      BY <3>8 DEF GiveUp
    <3>9. ASSUME NEW c \in Controller, AttemptDone(c) PROVE FALSE
      BY <3>9 DEF AttemptDone
    <3>10. ASSUME NEW c \in Controller, LoadRegistered(c) PROVE FALSE
      BY <3>10 DEF LoadRegistered
    <3>11. ASSUME NEW c \in Controller, LoadOutcome(c) PROVE FALSE
      BY <3>11 DEF LoadOutcome
    <3>12. ASSUME NEW c \in Controller, LoadFresh(c) PROVE FALSE
      BY <3>12 DEF LoadFresh
    <3>13. ASSUME NEW c \in Controller, NEW s \in ReportStatus, SubmitReport(c, s) PROVE FALSE
      BY <3>13 DEF SubmitReport
    <3>14. ASSUME NEW c \in Controller, SessionFails(c) PROVE FALSE
      BY <3>14 DEF SessionFails
    <3>15. ASSUME NEW c \in Controller, SessionSilent(c) PROVE FALSE
      BY <3>15 DEF SessionSilent
    <3>16. ASSUME NEW c \in Controller, SessionReports(c) PROVE FALSE
      BY <3>16 DEF SessionReports
    <3>17. ASSUME NEW c \in Controller, FinalizeCommits(c) PROVE FALSE
      BY <3>17 DEF FinalizeCommits
    <3>18. ASSUME NEW c \in Controller, FinalizeAdopts(c) PROVE FALSE
      BY <3>18 DEF FinalizeAdopts
    <3>19. ASSUME NEW c \in Controller, FinalizeRejects(c) PROVE FALSE
      BY <3>19 DEF FinalizeRejects
    <3>20. ASSUME NEW c \in Controller, FinalizeFails(c) PROVE FALSE
      BY <3>20 DEF FinalizeFails
    <3>21. ASSUME NEW c \in Controller, RecordReport(c) PROVE FALSE
      BY <3>21 DEF RecordReport
    <3>22. ASSUME NEW c \in Controller, ReportConflict(c) PROVE FALSE
      BY <3>22 DEF ReportConflict
    <3>23. ASSUME NEW c \in Controller, RegisterKernel(c) PROVE FALSE
      BY <3>23 DEF RegisterKernel
    <3>24. ASSUME NEW c \in Controller, CompleteEmpty(c) PROVE FALSE
      BY <3>24 DEF CompleteEmpty
    <3>25. ASSUME NEW c \in Controller, RecordFailure(c) PROVE FALSE
      BY <3>25 DEF RecordFailure
    <3>26. ASSUME NEW c \in Controller, CompleteUnreported(c) PROVE FALSE
      BY <3>26 DEF CompleteUnreported
    <3>27. ASSUME NEW c \in Controller, CompareKernels(c) PROVE FALSE
      BY <3>27 DEF CompareKernels
    <3>28. ASSUME NEW c \in Controller, CompareRejects(c) PROVE FALSE
      BY <3>28 DEF CompareRejects
    <3>29. ASSUME NEW c \in Controller, CompareFails(c) PROVE FALSE
      BY <3>29 DEF CompareFails
    <3>30. ASSUME NEW c \in Controller, CompleteCompared(c) PROVE FALSE
      BY <3>30 DEF CompleteCompared
    <3>31. ASSUME NEW c \in Controller, StartSession(c) PROVE c = d
      BY <3>31 DEF StartSession
    <3>32. ASSUME StopEpoch PROVE FALSE
      BY <3>32 DEF StopEpoch
    <3>33. ASSUME UNCHANGED vars PROVE FALSE
      BY <3>33 DEF vars
    <3> QED
            BY <3>1, <3>2, <3>3, <3>4, <3>5, <3>6, <3>7, <3>8, <3>9, <3>10, <3>11, <3>12, <3>13,
         <3>14, <3>15, <3>16, <3>17, <3>18, <3>19, <3>20, <3>21, <3>22, <3>23, <3>24, <3>25,
         <3>26, <3>27, <3>28, <3>29, <3>30, <3>31, <3>32, <3>33 DEF Next, ControllerStep,
         SessionStep
  <2> QED  BY <2>1 DEF StartSession, AttemptInv, HolderIsCurrent, Launching
<1> QED  BY <1>1, AttemptSafety, PTL DEF Spec, NoSessionAfterKernel

(***************************************************************************)
(* The report on the row is the one the Gateway accepted in its generation *)
(* and the Gateway accepts one in each.                                    *)
(***************************************************************************)
THEOREM AttemptReportIsAccepted == Spec => []ReportIsAccepted
<1>1. AttemptInv => ReportIsAccepted
  BY DEF AttemptInv
<1> QED  BY <1>1, AttemptSafety, PTL

(***************************************************************************)
(* The refinement.  Only eight actions and the operator's stop write what  *)
(* the contract is about; the others are stutters of it.                   *)
(***************************************************************************)
LEMMA AttemptContractStep ==
  AttemptInv /\ [Next]_vars => [Contract!Next]_(Contract!vars)
<1> SUFFICES ASSUME AttemptInv, [Next]_vars PROVE [Contract!Next]_(Contract!vars)
  OBVIOUS
<1> USE DEF Contract!vars, Contract!Next
<1>1. ASSUME UNCHANGED <<status, report, kernel, accepted>>
      PROVE  UNCHANGED Contract!vars
  BY <1>1
<1>2. ASSUME NEW c \in Controller,
             \/ Start(c) \/ Evicted(c) \/ Crash(c) \/ EnterEpoch(c) \/ GiveUp(c) \/ AttemptDone(c)
             \/ LoadRegistered(c) \/ LoadOutcome(c) \/ LoadFresh(c)
             \/ SessionStep(c) \/ ReportConflict(c) \/ CompareRejects(c) \/ CompareFails(c)
      PROVE  UNCHANGED Contract!vars
  BY <1>1, <1>2 DEF row, Start, Evicted, Crash, EnterEpoch, GiveUp, AttemptDone, LoadRegistered,
       LoadOutcome, LoadFresh, SessionStep, StartSession, SubmitReport, SessionFails,
       SessionSilent, SessionReports, FinalizeCommits, FinalizeAdopts, FinalizeRejects,
       FinalizeFails, ReportConflict, CompareRejects, CompareFails
<1>3. ASSUME NEW c \in Controller,
             \/ ResumeEpoch(c) \/ InsertAttempt(c) \/ RetryAttempt(c) \/ RecordFailure(c)
      PROVE  UNCHANGED Contract!vars
  BY <1>3 DEF ResumeEpoch, InsertAttempt, RetryAttempt, RecordFailure
<1>4. CASE StopEpoch
  BY <1>4 DEF StopEpoch
<1>5. ASSUME NEW c \in Controller, RecordReport(c) PROVE Contract!Attach \/ UNCHANGED Contract!vars
  BY <1>5 DEF RecordReport, Contract!Attach, AttemptInv, TypeOK, Report, ReportStatus, Result
<1>6. ASSUME NEW c \in Controller, RegisterKernel(c)
      PROVE  Contract!Register \/ UNCHANGED Contract!vars
  BY <1>6 DEF RegisterKernel, Contract!Register, AttemptInv, TypeOK, HolderIsCurrent, Working,
       Launching
<1>7. ASSUME NEW c \in Controller, CompleteEmpty(c) \/ CompleteUnreported(c)
      PROVE  Contract!Reject
  BY <1>7 DEF CompleteEmpty, CompleteUnreported, Contract!Reject, AttemptInv, TypeOK,
       AcceptedIsEarned
<1>8. ASSUME NEW c \in Controller, CompareKernels(c) PROVE Contract!Measure
  BY <1>8 DEF CompareKernels, Contract!Measure, AttemptInv, HolderIsCurrent, Judging, ReportReady
<1>9. ASSUME NEW c \in Controller, CompleteCompared(c)
      PROVE  Contract!Retain \/ Contract!Reject
  <2>1. CASE verdict[c]
    BY <1>9, <2>1 DEF CompleteCompared, Contract!Retain, AttemptInv, HolderIsCurrent, ReportReady
  <2>2. CASE ~verdict[c]
    BY <1>9, <2>2 DEF CompleteCompared, Contract!Reject, AttemptInv, TypeOK
  <2> QED  BY <2>1, <2>2
<1>10. CASE UNCHANGED vars
  BY <1>1, <1>10 DEF vars, row
<1> QED
  BY <1>2, <1>3, <1>4, <1>5, <1>6, <1>7, <1>8, <1>9, <1>10 DEF Next, ControllerStep

(***************************************************************************)
(* _finish_attempt and its collaborators implement the contract, for any   *)
(* number of schedulers, retries and disruptions.                          *)
(***************************************************************************)
THEOREM AttemptKeepsContract == Spec => ContractIsKept
<1>1. Init => Contract!Init
  BY DEF Init, Contract!Init
<1>2. AttemptInv /\ [Next]_vars => [Contract!Next]_(Contract!vars)
  BY AttemptContractStep
<1> QED  BY <1>1, <1>2, AttemptSafety, PTL DEF Spec, ContractIsKept, Contract!Spec

=============================================================================
