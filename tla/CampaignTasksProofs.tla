------------------------ MODULE CampaignTasksProofs ------------------------
(***************************************************************************)
(* Proofs for CampaignTasks: the invariant of the queue, that a completed  *)
(* Task is a done one, and that a Task only moves forward, for any number  *)
(* of Tasks and workers, any targets and any stalls, crashes and commands. *)
(***************************************************************************)
EXTENDS CampaignTasks, TLAPS

\* The empty queue satisfies the invariant.
LEMMA TaskInit == Init => TaskInv
<1>. SUFFICES ASSUME Init PROVE TaskInv
  OBVIOUS
<1>0. 1 \in Task
  BY TaskConstants DEF Task
<1>a. /\ status \in [Task -> TaskStatus]
      /\ owner \in [Task -> Worker \cup {NoOne, Gone}]
      /\ pc \in [Worker -> Station]
      /\ held \in [Worker -> Task]
  BY <1>0 DEF Init, TaskStatus, Station
<1>b. /\ lapsed \subseteq Task
      /\ fence \in Worker \cup {NoOne, Gone}
      /\ fenceLapsed \in BOOLEAN
  BY Zenon DEF Init
<1>1. TypeOK
  BY <1>a, <1>b DEF Init, TypeOK
<1>2. LeasedIsOwned
  BY TaskConstants DEF Init, LeasedIsOwned, Leased
<1>3. FenceIsInside /\ TerminalTogether
  BY TaskConstants DEF Init, FenceIsInside, TerminalTogether
<1>4. ReturnIsEarned /\ CompletedTaskIsDone
  BY DEF Init, ReturnIsEarned, CompletedTaskIsDone, Owns
<1>. QED
  BY <1>1, <1>2, <1>3, <1>4 DEF TaskInv

\* Every step preserves the invariant.
LEMMA TaskStep == TaskInv /\ [Next]_vars => TaskInv'
<1>. SUFFICES ASSUME TaskInv, [Next]_vars PROVE TaskInv'
  OBVIOUS
<1>. USE TaskConstants DEF TypeOK, TaskStatus, Station, Awaiting, Leased, Fenced, rows, work, lease, bounds, Goto, Owns, Done,
      TaskInv, LeasedIsOwned, FenceIsInside, TerminalTogether, ReturnIsEarned, CompletedTaskIsDone
<1>1. ASSUME NEW w \in Worker, CheckCampaign(w) PROVE TaskInv'
  BY <1>1 DEF CheckCampaign
<1>2. ASSUME NEW w \in Worker, AcquireLineage(w) PROVE TaskInv'
  BY <1>2 DEF AcquireLineage, FenceFree
<1>3. ASSUME NEW w \in Worker, LineageUnavailable(w) PROVE TaskInv'
  BY <1>3 DEF LineageUnavailable, FenceFree
<1>4. ASSUME NEW w \in Worker, StartEpoch(w) PROVE TaskInv'
  BY <1>4 DEF StartEpoch, MayWrite
<1>5. ASSUME NEW w \in Worker, FinishEpoch(w) PROVE TaskInv'
  BY <1>5 DEF FinishEpoch, MayWrite
<1>6. ASSUME NEW w \in Worker, AdvanceEvidence(w) PROVE TaskInv'
  BY <1>6 DEF AdvanceEvidence, MayWrite
<1>7. ASSUME NEW w \in Worker, LineageEnded(w) PROVE TaskInv'
  BY <1>7 DEF LineageEnded, Leave
<1>8. ASSUME NEW w \in Worker, WriteRefused(w) PROVE TaskInv'
  BY <1>8 DEF WriteRefused, MayWrite, Leave
<1>9. ASSUME NEW w \in Worker, TargetReached(w) PROVE TaskInv'
  BY <1>9 DEF TargetReached, Leave
<1>10. ASSUME NEW w \in Worker, CompleteCampaign(w) PROVE TaskInv'
  BY <1>10 DEF CompleteCampaign, MayWrite, Leave
<1>11. ASSUME NEW w \in Worker, CompleteTask(w) PROVE TaskInv'
  <2>1. CASE owner[held[w]] = w
    BY <1>11, <2>1 DEF CompleteTask, EndTask
  <2>2. CASE owner[held[w]] # w
    BY <1>11, <2>2 DEF CompleteTask, EndTask
  <2>. QED
    BY <2>1, <2>2
<1>12. ASSUME NEW w \in Worker, FailTask(w) PROVE TaskInv'
  <2>1. CASE owner[held[w]] = w
    BY <1>12, <2>1 DEF FailTask, EndTask
  <2>2. CASE owner[held[w]] # w
    BY <1>12, <2>2 DEF FailTask, EndTask
  <2>. QED
    BY <2>1, <2>2
<1>13. ASSUME NEW w \in Worker, HeartbeatCancels(w) PROVE TaskInv'
  BY <1>13 DEF HeartbeatCancels, Leave
<1>14. ASSUME NEW w \in Worker, HeartbeatSuperseded(w) PROVE TaskInv'
  <2>. USE <1>14 DEF HeartbeatSuperseded
  <2>1. TypeOK'
    OBVIOUS
  <2>2. LeasedIsOwned'
    OBVIOUS
  <2>3. FenceIsInside' /\ TerminalTogether'
    OBVIOUS
  <2>4. ReturnIsEarned' /\ CompletedTaskIsDone'
    OBVIOUS
  <2>. QED
    BY <2>1, <2>2, <2>3, <2>4
<1>15. ASSUME NEW w \in Worker, HeartbeatRenew(w) PROVE TaskInv'
  BY <1>15 DEF HeartbeatRenew
<1>16. ASSUME NEW w \in Worker, FenceRenew(w) PROVE TaskInv'
  BY <1>16 DEF FenceRenew
<1>17. ASSUME NEW w \in Worker, EpochRaises(w) PROVE TaskInv'
  BY <1>17 DEF EpochRaises, Leave
<1>18. ASSUME NEW w \in Worker, Crash(w) PROVE TaskInv'
  BY <1>18 DEF Crash
<1>19. ASSUME NEW w \in Worker, NEW t \in Task, ClaimTask(w, t) PROVE TaskInv'
  BY <1>19 DEF ClaimTask, Oldest, Ready
<1>20. ASSUME NEW w \in Worker, NEW t \in Task, ClaimCancelled(w, t) PROVE TaskInv'
  BY <1>20 DEF ClaimCancelled, Oldest, Ready
<1>21. ASSUME NEW t \in Task, EnqueueTask(t) PROVE TaskInv'
  BY <1>21 DEF EnqueueTask
<1>22. ASSUME NEW t \in Task, TaskLeaseLapses(t) PROVE TaskInv'
  BY <1>22 DEF TaskLeaseLapses
<1>23. ASSUME NEW t \in Task, CancelTask(t) PROVE TaskInv'
  BY <1>23 DEF CancelTask, Command
<1>24. ASSUME NEW t \in Task, RequeueTask(t) PROVE TaskInv'
  BY <1>24 DEF RequeueTask, Command
<1>25. ASSUME FenceLapses PROVE TaskInv'
  BY <1>25 DEF FenceLapses
<1>26. ASSUME CancelCampaign PROVE TaskInv'
  BY <1>26 DEF CancelCampaign, Command
<1>27. ASSUME UNCHANGED vars PROVE TaskInv'
  BY <1>27 DEF vars
<1>. QED
  BY <1>1, <1>2, <1>3, <1>4, <1>5, <1>6, <1>7, <1>8, <1>9, <1>10, <1>11, <1>12, <1>13, <1>14, <1>15, <1>16, <1>17, <1>18, <1>19, <1>20, <1>21, <1>22, <1>23, <1>24, <1>25, <1>26, <1>27 DEF Next, WorkerStep

(***************************************************************************)
(* The invariant holds in every reachable state of campaign_tasks, its     *)
(* workers and its Lineage.                                                *)
(***************************************************************************)
THEOREM TaskSafety == Spec => []TaskInv
<1>. QED
  BY TaskInit, TaskStep, PTL DEF Spec

(***************************************************************************)
(* complete_campaign_task never records a Task whose scheduler has not     *)
(* reached the target and, when asked to, completed the Campaign.          *)
(***************************************************************************)
THEOREM TaskCompletedIsDone == Spec => []CompletedTaskIsDone
<1>1. TaskInv => CompletedTaskIsDone
  BY DEF TaskInv
<1>. QED
  BY <1>1, TaskSafety, PTL

\* What one step may do to the status of a Task.
LEMMA TaskForwardStep ==
  ASSUME TaskInv, [Next]_vars, NEW t \in Task
  PROVE  /\ status[t] \in {"completed", "cancelled"} => status'[t] = status[t]
         /\ status[t] = "cancelling" => status'[t] \in {"cancelling", "cancelled"}
         /\ status[t] = "failed" => status'[t] \in {"failed", "queued"}
<1>. DEFINE Forward ==
       /\ status[t] \in {"completed", "cancelled"} => status'[t] = status[t]
       /\ status[t] = "cancelling" => status'[t] \in {"cancelling", "cancelled"}
       /\ status[t] = "failed" => status'[t] \in {"failed", "queued"}
<1>. USE DEF TypeOK, TaskStatus, Leased
<1>i. TypeOK /\ LeasedIsOwned
  BY DEF TaskInv
<1>1. ASSUME status' = status PROVE Forward
  BY <1>1
<1>2. ASSUME NEW w \in Worker, NEW u \in Task, ClaimTask(w, u) \/ ClaimCancelled(w, u)
      PROVE  Forward
  BY <1>2, <1>i DEF ClaimTask, ClaimCancelled, Oldest, Ready
<1>3. ASSUME NEW w \in Worker, CompleteTask(w) \/ FailTask(w) PROVE Forward
  <2>. DEFINE h == held[w]
  <2>1. CASE owner[h] = w
    <3>1. status[h] \in Leased
      BY <1>i, <2>1, TaskConstants DEF LeasedIsOwned
    <3>2. \E outcome \in {"completed", "failed"} :
            status' = [status EXCEPT ![h] = IF @ = "cancelling" THEN "cancelled" ELSE outcome]
      BY <1>3, <2>1 DEF CompleteTask, FailTask, EndTask
    <3>. QED
      BY <1>i, <3>1, <3>2
  <2>2. CASE owner[h] # w
    BY <1>3, <2>2, <1>1 DEF CompleteTask, FailTask, EndTask, rows
  <2>. QED
    BY <2>1, <2>2
<1>4. ASSUME NEW u \in Task, EnqueueTask(u) \/ CancelTask(u) \/ RequeueTask(u) PROVE Forward
  BY <1>4, <1>i DEF EnqueueTask, CancelTask, RequeueTask
<1>5. ASSUME NEW w \in Worker,
             \/ CheckCampaign(w) \/ AcquireLineage(w) \/ LineageUnavailable(w)
             \/ StartEpoch(w) \/ FinishEpoch(w) \/ AdvanceEvidence(w)
             \/ LineageEnded(w) \/ WriteRefused(w) \/ TargetReached(w) \/ CompleteCampaign(w)
             \/ HeartbeatCancels(w) \/ HeartbeatSuperseded(w)
             \/ HeartbeatRenew(w) \/ FenceRenew(w) \/ EpochRaises(w) \/ Crash(w)
      PROVE  status' = status
  BY <1>5 DEF rows, CheckCampaign, AcquireLineage, LineageUnavailable, StartEpoch, FinishEpoch,
       AdvanceEvidence, LineageEnded, WriteRefused, TargetReached, CompleteCampaign,
       HeartbeatCancels, HeartbeatSuperseded, HeartbeatRenew, FenceRenew, EpochRaises, Crash
<1>6. ASSUME \/ \E u \in Task : TaskLeaseLapses(u)
             \/ FenceLapses \/ CancelCampaign \/ UNCHANGED vars
      PROVE  status' = status
  BY <1>6 DEF rows, vars, TaskLeaseLapses, FenceLapses, CancelCampaign
<1>. QED
  BY <1>1, <1>2, <1>3, <1>4, <1>5, <1>6 DEF Next, WorkerStep

(***************************************************************************)
(* Completed and cancelled Tasks never change again, a requested           *)
(* cancellation ends only in "cancelled", and a failed Task leaves that    *)
(* status only through requeue_campaign_task.                              *)
(***************************************************************************)
THEOREM TaskMovesForward == Spec => TasksMoveForward
<1>1. TaskInv /\ [Next]_vars =>
        [\A t \in Task :
           /\ status[t] \in {"completed", "cancelled"} => status'[t] = status[t]
           /\ status[t] = "cancelling" => status'[t] \in {"cancelling", "cancelled"}
           /\ status[t] = "failed" => status'[t] \in {"failed", "queued"}]_vars
  BY TaskForwardStep
<1>. QED
  BY <1>1, TaskSafety, PTL DEF Spec, TasksMoveForward


=============================================================================
