------------------------------- MODULE Attempt -------------------------------
(***************************************************************************)
(* One logical Attempt of an Epoch, at the granularity of its durable      *)
(* writes: EpochController._workflow_run_attempt, _finish_attempt and      *)
(* _complete_registered_attempt (controller/epoch.py) over the attempts    *)
(* and kernel_revisions rows of SqliteRegistry, SessionOptimizerRunner     *)
(* (workers/optimizer.py) with its Worker Session, and the Gateway's two   *)
(* durable records about the Attempt: the terminal-report receipt of each  *)
(* recovery generation and the authoritative outcome.                      *)
(*                                                                         *)
(* Several schedulers may be alive: a takeover leaves the superseded one   *)
(* running until its next Registry write.  LineageFence shows that only    *)
(* one of them passes the fence check; here that one is `holder`.          *)
(* A Registry transaction reads and writes under the fence, so a read and  *)
(* the conditional UPDATE it leads to are one step; reads that lead to a   *)
(* Session, to the Gateway or to a later transaction are steps of their    *)
(* own.  The contents of reports, kernels and measurements are reduced to  *)
(* their status; a report is identified by the generation that wrote it.   *)
(***************************************************************************)
EXTENDS Naturals

CONSTANTS
  Controller,        \* scheduler processes that may own the Lineage
  NoOne,             \* nobody holds the fence
  NoReport,          \* no terminal report
  MaxRetries,        \* max_infrastructure_retries
  MaxDisruptions     \* bound on crashes, takeovers and operator stops

ASSUME AttemptConstants ==
  /\ NoOne \notin Controller
  /\ MaxRetries \in Nat
  /\ MaxDisruptions \in Nat

VARIABLES
  epoch,        \* status of the Epoch, as far as the Attempt can tell
  holder,       \* the scheduler whose fence token is current
  status,       \* attempts.status; "absent" before insert_attempt
  failures,     \* attempts.infrastructure_failures
  generation,   \* attempts.recovery_generation
  report,       \* attempts.attempt_report_digest and _status
  kernel,       \* kernel_revisions row of this Attempt and its evaluation
  accepted,     \* attempts.accepted_as_branch_best
  receipts,     \* Gateway: the terminal reports it has accepted
  outcome,      \* Gateway: an attempt_outcomes row exists
  independent,  \* fixed for the Lineage: finalize runs its own Evaluate and
                \* commits an outcome (dev_only, raw); else the Agent's is adopted
  pc,           \* where each scheduler is in _finish_attempt
  authority,    \* the generation each scheduler's Session was issued
  seenReport,   \* the report each scheduler read with the Attempt row
  result,       \* RunAttemptResult: report and whether there is a candidate
  verdict,      \* KernelComparisonResult.accepted of each scheduler
  disruptions   \* crashes, takeovers and stops so far

row == <<status, failures, generation, report, kernel, accepted>>
gateway == <<receipts, outcome, independent>>
local == <<authority, seenReport, result, verdict>>
vars == <<epoch, holder, row, gateway, pc, local, disruptions>>

ReportStatus == {"candidate_ready", "pivot"}  \* "blocked" is handled as "pivot"
Report == [generation : Nat, status : ReportStatus]
Result == [report : Report \cup {NoReport}, candidate : BOOLEAN]

Status == {"absent", "running", "infrastructure_failed", "interrupted", "completed"}
Evaluation == {"provisional", "improved", "regressed"}

\* The stations at which the scheduler believes the Attempt to be running.
Launching == {"launch", "session", "finalize", "record", "settle"}
Judging == {"compare", "verdict"}
Working == Launching \cup Judging \cup {"fail"}
Station == Working \cup {"off", "enter", "load"}

TypeOK ==
  /\ epoch \in {"running", "stopped"}
  /\ holder \in Controller \cup {NoOne}
  /\ status \in Status
  /\ failures \in Nat
  /\ generation \in Nat
  /\ report \in Report \cup {NoReport}
  /\ kernel \in Evaluation \cup {"none"}
  /\ accepted \in BOOLEAN
  /\ receipts \subseteq Report
  /\ outcome \in BOOLEAN
  /\ independent \in BOOLEAN
  /\ pc \in [Controller -> Station]
  /\ authority \in [Controller -> Nat]
  /\ seenReport \in [Controller -> Report \cup {NoReport}]
  /\ result \in [Controller -> Result]
  /\ verdict \in [Controller -> BOOLEAN]
  /\ disruptions \in Nat

Nothing == [report |-> NoReport, candidate |-> FALSE]

Init ==
  /\ epoch = "running"
  /\ holder = NoOne
  /\ status = "absent"
  /\ failures = 0
  /\ generation = 0
  /\ report = NoReport
  /\ kernel = "none"
  /\ accepted = FALSE
  /\ receipts = {}
  /\ outcome = FALSE
  /\ independent \in BOOLEAN
  /\ pc = [c \in Controller |-> "off"]
  /\ authority = [c \in Controller |-> 0]
  /\ seenReport = [c \in Controller |-> NoReport]
  /\ result = [c \in Controller |-> Nothing]
  /\ verdict = [c \in Controller |-> FALSE]
  /\ disruptions = 0

Holds(c) == holder = c
Goto(c, s) == pc' = [pc EXCEPT ![c] = s]
ReportReady(r) == r # NoReport /\ r.status = "candidate_ready"

-----------------------------------------------------------------------------
(* Schedulers come and go.                                                 *)

\* A scheduler acquires the Lineage.  When another one is still at work this
\* is a takeover of an expired lease.
Start(c) ==
  /\ pc[c] = "off"
  /\ LET takeover == \E d \in Controller : pc[d] # "off" IN
       /\ takeover => disruptions < MaxDisruptions
       /\ disruptions' = IF takeover THEN disruptions + 1 ELSE disruptions
  /\ holder' = c
  /\ Goto(c, "enter")
  /\ UNCHANGED <<epoch, row, gateway, local>>

\* A fenced write of a superseded scheduler raises; it leaves.
Evicted(c) ==
  /\ pc[c] # "off"
  /\ ~Holds(c)
  /\ Goto(c, "off")
  /\ UNCHANGED <<epoch, holder, row, gateway, local, disruptions>>

\* The process dies, or an exception that is no InfrastructureError leaves
\* _finish_attempt and ends the run of the Epoch.
Crash(c) ==
  /\ pc[c] # "off"
  /\ disruptions < MaxDisruptions
  /\ disruptions' = disruptions + 1
  /\ Goto(c, "off")
  /\ UNCHANGED <<epoch, holder, row, gateway, local>>

\* stop_epoch: the fence is bumped in the same transaction.
StopEpoch ==
  /\ epoch = "running"
  /\ disruptions < MaxDisruptions
  /\ disruptions' = disruptions + 1
  /\ epoch' = "stopped"
  /\ holder' = NoOne
  /\ status' = IF status = "running" THEN "interrupted" ELSE status
  /\ UNCHANGED <<failures, generation, report, kernel, accepted, gateway, pc, local>>

\* run_epoch on a stopped Epoch: resume_stopped_epoch.
ResumeEpoch(c) ==
  /\ pc[c] = "enter"
  /\ epoch = "stopped"
  /\ Holds(c)
  /\ epoch' = "running"
  /\ status' = IF status = "interrupted" THEN "running" ELSE status
  /\ generation' = IF status = "interrupted" THEN generation + 1 ELSE generation
  /\ Goto(c, "load")
  /\ UNCHANGED <<holder, failures, report, kernel, accepted, gateway, local, disruptions>>

\* run_epoch on an open Epoch: the Workflow calls run_attempts_parallel.
EnterEpoch(c) ==
  /\ pc[c] = "enter"
  /\ epoch = "running"
  /\ Goto(c, "load")
  /\ UNCHANGED <<epoch, holder, row, gateway, local, disruptions>>

-----------------------------------------------------------------------------
(* The head of the loop of _finish_attempt.                                *)

InsertAttempt(c) ==
  /\ pc[c] = "load"
  /\ status = "absent"
  /\ Holds(c)
  /\ status' = "running"
  /\ UNCHANGED <<epoch, holder, failures, generation, report, kernel, accepted,
                 gateway, pc, local, disruptions>>

\* Slip: one retry too many.
RetryAttemptOnceMore(c) ==
  /\ pc[c] = "load"
  /\ status = "infrastructure_failed"
  /\ failures <= MaxRetries + 1
  /\ Holds(c)
  /\ status' = "running"
  /\ generation' = generation + 1
  /\ UNCHANGED <<epoch, holder, failures, report, kernel, accepted,
                 gateway, pc, local, disruptions>>

\* Slip: the retry test and the give-up test leave a gap.
RetryAttemptOnceLess(c) ==
  /\ pc[c] = "load"
  /\ status = "infrastructure_failed"
  /\ failures < MaxRetries
  /\ Holds(c)
  /\ status' = "running"
  /\ generation' = generation + 1
  /\ UNCHANGED <<epoch, holder, failures, report, kernel, accepted,
                 gateway, pc, local, disruptions>>

RetryAttempt(c) ==
  /\ pc[c] = "load"
  /\ status = "infrastructure_failed"
  /\ failures <= MaxRetries
  /\ Holds(c)
  /\ status' = "running"
  /\ generation' = generation + 1
  /\ UNCHANGED <<epoch, holder, failures, report, kernel, accepted,
                 gateway, pc, local, disruptions>>

\* The retry budget is spent: InfrastructureError leaves the Workflow.
GiveUp(c) ==
  /\ pc[c] = "load"
  /\ status = "infrastructure_failed"
  /\ failures > MaxRetries
  /\ Goto(c, "off")
  /\ UNCHANGED <<epoch, holder, row, gateway, local, disruptions>>

AttemptDone(c) ==
  /\ pc[c] = "load"
  /\ status = "completed"
  /\ Goto(c, "off")
  /\ UNCHANGED <<epoch, holder, row, gateway, local, disruptions>>

\* find_kernel_revision_by_attempt found one: go on to the comparison.
LoadRegistered(c) ==
  /\ pc[c] = "load"
  /\ status \in {"running", "interrupted"}
  /\ kernel # "none"
  /\ seenReport' = [seenReport EXCEPT ![c] = report]
  /\ Goto(c, "compare")
  /\ UNCHANGED <<epoch, holder, row, gateway, authority, result, verdict, disruptions>>

\* run_attempt: a committed outcome is returned as it is, without a report.
LoadOutcome(c) ==
  /\ pc[c] = "load"
  /\ status \in {"running", "interrupted"}
  /\ kernel = "none"
  /\ outcome
  /\ result' = [result EXCEPT ![c] = [report |-> NoReport, candidate |-> TRUE]]
  /\ Goto(c, "record")
  /\ UNCHANGED <<epoch, holder, row, gateway, authority, seenReport, verdict, disruptions>>

LoadFresh(c) ==
  /\ pc[c] = "load"
  /\ status \in {"running", "interrupted"}
  /\ kernel = "none"
  /\ ~outcome
  /\ Goto(c, "launch")
  /\ UNCHANGED <<epoch, holder, row, gateway, local, disruptions>>

-----------------------------------------------------------------------------
(* SessionOptimizerRunner.run_attempt.                                     *)

\* start_worker_session, then get_authority for the current generation.
StartSession(c) ==
  /\ pc[c] = "launch"
  /\ Holds(c)
  /\ authority' = [authority EXCEPT ![c] = generation]
  /\ Goto(c, "session")
  /\ UNCHANGED <<epoch, holder, row, gateway, seenReport, result, verdict, disruptions>>

\* The Agent hands its report to the Gateway, which takes one per generation
\* and none from a stale or interrupted one.  (A raw Lineage has no Gateway: its
\* worker makes the report up, which is a case of this.)
SubmitReport(c, s) ==
  /\ pc[c] = "session"
  /\ status # "interrupted"
  /\ authority[c] = generation
  /\ \A r \in receipts : r.generation # generation
  /\ receipts' = receipts \cup {[generation |-> generation, status |-> s]}
  /\ UNCHANGED <<epoch, holder, row, outcome, independent, pc, local, disruptions>>

\* InfrastructureError, a Session without Runtime State, or a completed one
\* without an accepted report (IncompleteTerminalReportError).
SessionFails(c) ==
  /\ pc[c] = "session"
  /\ Holds(c)
  /\ Goto(c, "fail")
  /\ UNCHANGED <<epoch, holder, row, gateway, local, disruptions>>

\* The Session ended for another reason and left no report: no candidate.
SessionSilent(c) ==
  /\ pc[c] = "session"
  /\ Holds(c)
  /\ result' = [result EXCEPT ![c] = Nothing]
  /\ Goto(c, "record")
  /\ UNCHANGED <<epoch, holder, row, gateway, authority, seenReport, verdict, disruptions>>

\* The harness returns the report the Gateway accepted in this generation.
\* A ready report of a completed Session is finalized; a report of any other
\* status, or one that is rejected, yields no candidate.
SessionReports(c) ==
  /\ pc[c] = "session"
  /\ Holds(c)
  /\ \E r \in receipts :
       /\ r.generation = authority[c]
       /\ result' = [result EXCEPT ![c] = [report |-> r, candidate |-> FALSE]]
       /\ \/ ReportReady(r) /\ Goto(c, "finalize")
          \/ Goto(c, "record")
  /\ UNCHANGED <<epoch, holder, row, gateway, authority, seenReport, verdict, disruptions>>

\* finalize, the private Evaluate: the outcome is committed in the Gateway
\* database, outside the Lineage fence, for the current generation only.
FinalizeCommits(c) ==
  /\ pc[c] = "finalize"
  /\ independent
  /\ outcome \/ (status # "interrupted" /\ authority[c] = generation)
  /\ outcome' = TRUE
  /\ result' = [result EXCEPT ![c].candidate = TRUE]
  /\ Goto(c, "record")
  /\ UNCHANGED <<epoch, holder, row, receipts, independent, authority, seenReport, verdict, disruptions>>

\* finalize, the ordinary Lineage: the Agent's own evaluation is adopted.
FinalizeAdopts(c) ==
  /\ pc[c] = "finalize"
  /\ ~independent
  /\ result' = [result EXCEPT ![c].candidate = TRUE]
  /\ Goto(c, "record")
  /\ UNCHANGED <<epoch, holder, row, gateway, authority, seenReport, verdict, disruptions>>

\* ValueError: the nomination is rejected, the report stays.
FinalizeRejects(c) ==
  /\ pc[c] = "finalize"
  /\ Goto(c, "record")
  /\ UNCHANGED <<epoch, holder, row, gateway, local, disruptions>>

\* InfrastructureError out of the private Evaluate.
FinalizeFails(c) ==
  /\ pc[c] = "finalize"
  /\ Goto(c, "fail")
  /\ UNCHANGED <<epoch, holder, row, gateway, local, disruptions>>

-----------------------------------------------------------------------------
(* Back in _finish_attempt with a RunAttemptResult.                        *)

\* Slip: only negative results have their report recorded.
RecordReportWithoutCandidate(c) ==
  /\ pc[c] = "record"
  /\ Holds(c)
  /\ report' = IF report = NoReport /\ ~result[c].candidate
               THEN result[c].report ELSE report
  /\ Goto(c, "settle")
  /\ UNCHANGED <<epoch, holder, status, failures, generation, kernel, accepted,
                 gateway, local, disruptions>>

\* record_attempt_report, skipped when the result carries no report.
RecordReport(c) ==
  /\ pc[c] = "record"
  /\ Holds(c)
  /\ \/ result[c].report = NoReport /\ report' = report
     \/ result[c].report # NoReport /\ report = result[c].report /\ report' = report
     \/ /\ result[c].report # NoReport
        /\ report = NoReport
        /\ status = "running"
        /\ report' = result[c].report
  /\ Goto(c, "settle")
  /\ UNCHANGED <<epoch, holder, status, failures, generation, kernel, accepted,
                 gateway, local, disruptions>>

\* "already has a different terminal report": the Workflow fails.
ReportConflict(c) ==
  /\ pc[c] = "record"
  /\ Holds(c)
  /\ NoReport \notin {report, result[c].report}
  /\ report # result[c].report
  /\ Goto(c, "off")
  /\ UNCHANGED <<epoch, holder, row, gateway, local, disruptions>>

\* register_kernel_revision for the candidate, then the loop's head again.
RegisterKernel(c) ==
  /\ pc[c] = "settle"
  /\ result[c].candidate
  /\ Holds(c)
  /\ kernel' = IF kernel = "none" THEN "provisional" ELSE kernel
  /\ Goto(c, "load")
  /\ UNCHANGED <<epoch, holder, status, failures, generation, report, accepted,
                 gateway, local, disruptions>>

\* complete_attempt without an output.
CompleteEmpty(c) ==
  /\ pc[c] = "settle"
  /\ ~result[c].candidate
  /\ Holds(c)
  /\ status = "running"
  /\ status' = "completed"
  /\ Goto(c, "load")
  /\ UNCHANGED <<epoch, holder, failures, generation, report, kernel, accepted,
                 gateway, local, disruptions>>

RecordFailure(c) ==
  /\ pc[c] = "fail"
  /\ Holds(c)
  /\ status = "running"
  /\ status' = "infrastructure_failed"
  /\ failures' = failures + 1
  /\ Goto(c, "load")
  /\ UNCHANGED <<epoch, holder, generation, report, kernel, accepted,
                 gateway, local, disruptions>>

-----------------------------------------------------------------------------
(* _complete_registered_attempt.                                           *)

\* "candidate lacks a candidate_ready Attempt report".
CompleteUnreported(c) ==
  /\ pc[c] = "compare"
  /\ ~ReportReady(seenReport[c])
  /\ Holds(c)
  /\ status = "running"
  /\ status' = "completed"
  /\ Goto(c, "load")
  /\ UNCHANGED <<epoch, holder, failures, generation, report, kernel, accepted,
                 gateway, local, disruptions>>

\* Slip: the report is not consulted before the comparison.
CompareUnreported(c) ==
  /\ pc[c] = "compare"
  /\ Holds(c)
  /\ \E v \in {"improved", "regressed"} :
       /\ kernel' = v
       /\ verdict' = [verdict EXCEPT ![c] = (v = "improved")]
  /\ Goto(c, "verdict")
  /\ UNCHANGED <<epoch, holder, status, failures, generation, report, accepted,
                 gateway, authority, seenReport, result, disruptions>>

\* Slip: the measurement is stored without the fence and the status test.
CompareKernelsLate(c) ==
  /\ pc[c] = "compare"
  /\ ReportReady(seenReport[c])
  /\ \E v \in {"improved", "regressed"} :
       /\ kernel' = v
       /\ verdict' = [verdict EXCEPT ![c] = (v = "improved")]
  /\ Goto(c, "verdict")
  /\ UNCHANGED <<epoch, holder, status, failures, generation, report, accepted,
                 gateway, authority, seenReport, result, disruptions>>

\* The comparator measures and finalize_kernel_revision_evaluation stores
\* what it measured, in a transaction before the one that completes.
CompareKernels(c) ==
  /\ pc[c] = "compare"
  /\ ReportReady(seenReport[c])
  /\ Holds(c)
  /\ status = "running"
  /\ \E v \in {"improved", "regressed"} :
       /\ kernel' = v
       /\ verdict' = [verdict EXCEPT ![c] = (v = "improved")]
  /\ Goto(c, "verdict")
  /\ UNCHANGED <<epoch, holder, status, failures, generation, report, accepted,
                 gateway, authority, seenReport, result, disruptions>>

\* A rejected pair measurement: no authoritative evaluation, not accepted.
CompareRejects(c) ==
  /\ pc[c] = "compare"
  /\ ReportReady(seenReport[c])
  /\ verdict' = [verdict EXCEPT ![c] = FALSE]
  /\ Goto(c, "verdict")
  /\ UNCHANGED <<epoch, holder, row, gateway, authority, seenReport, result, disruptions>>

\* InfrastructureError out of the comparator.
CompareFails(c) ==
  /\ pc[c] = "compare"
  /\ ReportReady(seenReport[c])
  /\ Goto(c, "fail")
  /\ UNCHANGED <<epoch, holder, row, gateway, local, disruptions>>

CompleteCompared(c) ==
  /\ pc[c] = "verdict"
  /\ Holds(c)
  /\ status = "running"
  /\ status' = "completed"
  /\ accepted' = verdict[c]
  /\ Goto(c, "load")
  /\ UNCHANGED <<epoch, holder, failures, generation, report, kernel,
                 gateway, local, disruptions>>

-----------------------------------------------------------------------------
SessionStep(c) ==
  \/ StartSession(c)
  \/ \E s \in ReportStatus : SubmitReport(c, s)
  \/ SessionFails(c) \/ SessionSilent(c) \/ SessionReports(c)
  \/ FinalizeCommits(c) \/ FinalizeAdopts(c) \/ FinalizeRejects(c) \/ FinalizeFails(c)

ControllerStep(c) ==
  \/ Start(c) \/ Evicted(c) \/ ResumeEpoch(c) \/ EnterEpoch(c)
  \/ InsertAttempt(c) \/ RetryAttempt(c) \/ GiveUp(c) \/ AttemptDone(c)
  \/ LoadRegistered(c) \/ LoadOutcome(c) \/ LoadFresh(c)
  \/ SessionStep(c)
  \/ RecordReport(c) \/ ReportConflict(c)
  \/ RegisterKernel(c) \/ CompleteEmpty(c) \/ RecordFailure(c)
  \/ CompleteUnreported(c) \/ CompareKernels(c) \/ CompareRejects(c) \/ CompareFails(c)
  \/ CompleteCompared(c)

Next ==
  \/ \E c \in Controller : ControllerStep(c) \/ Crash(c)
  \/ StopEpoch

Spec == Init /\ [][Next]_vars

(***************************************************************************)
(* A live scheduler goes on and a dead one is restarted by its supervisor; *)
(* crashes, takeovers and stops are free but finitely many.                *)
(***************************************************************************)
FairSpec == Spec /\ \A c \in Controller : WF_vars(ControllerStep(c))

-----------------------------------------------------------------------------
(***************************************************************************)
(* A Kernel is retained as the branch best only after its candidate_ready  *)
(* report is on the row and the evaluation stored with the Kernel is the   *)
(* one that improved, although the scheduler may die between the two       *)
(* transactions and the next one may measure something else.               *)
(***************************************************************************)
AcceptedIsEarned ==
  accepted => /\ status = "completed"
              /\ ReportReady(report)
              /\ kernel = "improved"

(***************************************************************************)
(* A completed Attempt never changes again, whichever superseded scheduler *)
(* is still at work and whatever the operator does: neither its verdict    *)
(* nor its report nor the evaluation of its Kernel.                        *)
(***************************************************************************)
CompletedIsFinal == [][status = "completed" => UNCHANGED row]_vars

(***************************************************************************)
(* The report on the row is one the Gateway accepted, in a generation the  *)
(* Attempt has been in, and the Gateway accepts one in a generation, also  *)
(* when a takeover lets two Sessions run in the same one.                  *)
(***************************************************************************)
ReportIsAccepted ==
  /\ report # NoReport => report \in receipts /\ report.generation <= generation
  /\ \A r, q \in receipts : r.generation = q.generation => r = q

(***************************************************************************)
(* "Already registered Kernels continue validation without rerunning the   *)
(* Optimizer": no Session is started for an Attempt that has a Kernel.     *)
(***************************************************************************)
NoSessionAfterKernel ==
  [][ \A c \in Controller :
        pc[c] = "launch" /\ pc'[c] = "session" => kernel = "none" ]_vars

(***************************************************************************)
(* Infrastructure failures are bounded by the retry budget for the whole   *)
(* life of the Attempt, and an operator stop does not spend any of it      *)
(* ("interruption does not consume infrastructure retries"): a running or  *)
(* interrupted Attempt may always fail once more and be recorded.  Every   *)
(* generation after the first is owed to a failure or to a stop.           *)
(***************************************************************************)
RetryBudget ==
  LET failed == IF status = "infrastructure_failed" THEN 1 ELSE 0
      interrupted == IF status = "interrupted" THEN 1 ELSE 0
  IN /\ failures <= MaxRetries + failed
     /\ generation + failed + interrupted <= failures + disruptions

(***************************************************************************)
(* No candidate is lost for want of its report: a completed Attempt that   *)
(* has a Kernel has the candidate_ready report the Kernel came with        *)
(* (docs/interfaces.md, "the incomplete handoff is never consumed as an    *)
(* ordinary negative optimization result").  Where the Evaluate is private *)
(* this is not so: LoadOutcome returns a committed outcome that a lost     *)
(* scheduler left behind, without its report.                              *)
(***************************************************************************)
CandidateKeepsItsReport ==
  ~independent /\ status = "completed" /\ kernel # "none" => ReportReady(report)

(***************************************************************************)
(* "Restart restores the saved Epoch phase and retries interrupted         *)
(* Attempts with the same ID and a new generation/session": the Attempt is *)
(* eventually completed or its retry budget is spent.                      *)
(***************************************************************************)
Settled ==
  \/ status = "completed"
  \/ status = "infrastructure_failed" /\ failures > MaxRetries

AttemptSettles == <>Settled

(***************************************************************************)
(* The same, with its one exception: a report was recorded, no Kernel was  *)
(* registered for it before the scheduler was lost, and a new generation   *)
(* has begun, which can only write a different report.                     *)
(***************************************************************************)
Orphaned ==
  /\ report # NoReport
  /\ kernel = "none"
  /\ report.generation < generation

AttemptSettlesOrOrphans == <>(Settled \/ Orphaned)

-----------------------------------------------------------------------------
(***************************************************************************)
(* The Attempt implements its contract: whatever schedulers die, overtake  *)
(* each other or wake up late, the Epoch sees one report, one Kernel that  *)
(* is measured after its report and never after the decision, and one      *)
(* decision that the stored measurement justifies.                         *)
(***************************************************************************)
Contract == INSTANCE AttemptContract WITH
  report <- IF report = NoReport THEN "none" ELSE report.status,
  decision <- IF status # "completed" THEN "open"
              ELSE IF accepted THEN "retained" ELSE "rejected"

ContractIsKept == Contract!Spec

-----------------------------------------------------------------------------
(***************************************************************************)
(* The inductive invariant.  Its heart is HolderIsCurrent: what the fence  *)
(* holder read before a Session, a comparison or a crash of another        *)
(* scheduler is still true when it writes.                                 *)
(***************************************************************************)
HolderIsCurrent ==
  \A c \in Controller : Holds(c) =>
    /\ pc[c] \in Working => status = "running"
    /\ pc[c] \in Working \cup {"load"} => epoch = "running"
    /\ pc[c] \in Launching => kernel = "none"
    /\ pc[c] \in Judging => kernel # "none"
    /\ pc[c] = "compare" => seenReport[c] = report
    /\ pc[c] = "verdict" => ReportReady(report)
    /\ pc[c] = "verdict" /\ verdict[c] => kernel = "improved"

InterruptedIsStopped == status = "interrupted" => epoch = "stopped"

\* What a scheduler carries in memory came from the Gateway.
ResultsAreAccepted ==
  /\ \A r \in receipts : r.generation <= generation
  /\ \A c \in Controller : result[c].report \in receipts \cup {NoReport}

\* Without a committed outcome every candidate travels with its report.
CandidateTravelsWithReport ==
  ~independent =>
    /\ ~outcome
    /\ kernel # "none" => ReportReady(report)
    /\ \A c \in Controller :
         /\ pc[c] = "finalize" \/ (pc[c] \in {"record", "settle"} /\ result[c].candidate)
              => ReportReady(result[c].report)
         /\ Holds(c) /\ pc[c] = "settle" /\ result[c].candidate => ReportReady(report)

AttemptInv ==
  /\ TypeOK
  /\ HolderIsCurrent
  /\ InterruptedIsStopped
  /\ ResultsAreAccepted
  /\ CandidateTravelsWithReport
  /\ AcceptedIsEarned
  /\ ReportIsAccepted
  /\ RetryBudget

=============================================================================
