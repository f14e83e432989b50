---------------------------- MODULE CampaignTasks ----------------------------
(***************************************************************************)
(* The durable Task queue of one Campaign: CampaignTaskWorker (controller/ *)
(* tasks.py) over the campaign_tasks rows of SqliteRegistry, with the      *)
(* scheduler that a Task runs, CampaignScheduler.run_registered_campaign_  *)
(* through (controller/campaign.py), and the operator's commands.          *)
(*                                                                         *)
(* The Lineages of the Campaign are one here.  Its fence is that of module *)
(* LineageFence and its Epochs are those of module Epoch, reduced to the   *)
(* status of the Lineage and the number of the next Epoch.  Time is what   *)
(* lets a lease lapse.  Tasks are numbered in the order of their rows      *)
(* (created_at, id).                                                       *)
(***************************************************************************)
EXTENDS Naturals

CONSTANTS
  Tasks,       \* number of Tasks
  Worker,      \* worker processes
  NoOne,       \* NULL in lease_owner
  Gone,        \* the owner name of a process that has died
  Target,      \* target_epoch_number of each Task
  Finalize,    \* finalize of each Task
  MaxStalls,   \* bound on leases that lapse under a live worker
  MaxCrashes,  \* bound on worker crashes
  MaxCommands  \* bound on cancel, requeue and cancel-campaign commands

Task == 1..Tasks

ASSUME TaskConstants ==
  /\ Tasks \in Nat \ {0}
  /\ {NoOne, Gone} \cap Worker = {}
  /\ NoOne # Gone
  /\ Target \in [Task -> Nat \ {0}]
  /\ Finalize \in [Task -> BOOLEAN]
  /\ MaxStalls \in Nat /\ MaxCrashes \in Nat /\ MaxCommands \in Nat

VARIABLES
  status,       \* campaign_tasks.status, "absent" before the insert
  owner,        \* campaign_tasks.lease_owner
  lapsed,       \* Tasks whose lease_expires_at has passed
  campaign,     \* campaigns.status
  lineage,      \* lineages.status
  next,         \* lineages.next_epoch_number
  fence,        \* the worker whose Lineage fence is current
  fenceLapsed,  \* the fence's lease_expires_at has passed
  pc,           \* where run_once is in each worker
  held,         \* the Task of each worker
  stalls, crashes, commands

rows == <<status, owner, lapsed>>
work == <<campaign, lineage, next>>
lease == <<fence, fenceLapsed>>
bounds == <<stalls, crashes, commands>>
vars == <<rows, work, lease, pc, held, bounds>>

TaskStatus == {"absent", "queued", "running", "cancelling", "completed", "failed", "cancelled"}
Leased == {"running", "cancelling"}
Settled == {"completed", "failed", "cancelled"}

\* The stations of run_registered_campaign_through at which it awaits, so
\* that the heartbeat may run; the others are not interrupted by it.
Awaiting == {"acquire", "run", "finalize"}
Station == Awaiting \cup {"idle", "start", "commit", "returned", "raised"}

\* The stations inside the with-block of a Lineage lease.
Fenced == {"run", "commit"}

TypeOK ==
  /\ status \in [Task -> TaskStatus]
  /\ owner \in [Task -> Worker \cup {NoOne, Gone}]
  /\ lapsed \subseteq Task
  /\ campaign \in {"active", "completed", "cancelled"}
  /\ lineage \in {"ready", "running", "awaiting_evidence", "completed", "cancelled"}
  /\ next \in Nat \ {0}
  /\ fence \in Worker \cup {NoOne, Gone}
  /\ fenceLapsed \in BOOLEAN
  /\ pc \in [Worker -> Station]
  /\ held \in [Worker -> Task]
  /\ stalls \in Nat /\ crashes \in Nat /\ commands \in Nat

Init ==
  /\ status = [t \in Task |-> "absent"]
  /\ owner = [t \in Task |-> NoOne]
  /\ lapsed = {}
  /\ campaign = "active"
  /\ lineage = "ready"
  /\ next = 1
  /\ fence = NoOne
  /\ fenceLapsed = FALSE
  /\ pc = [w \in Worker |-> "idle"]
  /\ held = [w \in Worker |-> 1]
  /\ stalls = 0 /\ crashes = 0 /\ commands = 0

Goto(w, s) == pc' = [pc EXCEPT ![w] = s]

\* The scheduler leaves for station s.  Leaving a Lineage's with-block
\* releases the fence, and raises when another scheduler has taken it.
Leave(w, s) ==
  /\ Goto(w, IF pc[w] \in Fenced /\ fence # w THEN "raised" ELSE s)
  /\ fence' = IF fence = w THEN NoOne ELSE fence
  /\ fenceLapsed' = IF fence = w THEN FALSE ELSE fenceLapsed

-----------------------------------------------------------------------------
(* The queue.                                                              *)

EnqueueTask(t) ==
  /\ status[t] = "absent"
  /\ \A u \in 1..(t - 1) : status[u] # "absent"
  /\ status' = [status EXCEPT ![t] = "queued"]
  /\ UNCHANGED <<owner, lapsed, work, lease, pc, held, bounds>>

\* Slip: nobody takes over the Task of a worker that was lost.
ReadyQueuedOnly(t) == status[t] = "queued"

\* Slip: an abandoned cancellation is nobody's.
ReadyNotCancelling(t) == status[t] = "queued" \/ (status[t] = "running" /\ t \in lapsed)

Ready(t) == status[t] = "queued" \/ (status[t] \in Leased /\ t \in lapsed)

\* The row that claim_campaign_task selects.
Oldest(t) == Ready(t) /\ \A u \in 1..(t - 1) : ~Ready(u)

\* Slip: the Task of a lost worker is taken for running work even when its
\* cancellation was requested.
ClaimRunsCancelled(w, t) ==
  /\ pc[w] = "idle"
  /\ Oldest(t)
  /\ status' = [status EXCEPT ![t] = "running"]
  /\ owner' = [owner EXCEPT ![t] = w]
  /\ lapsed' = lapsed \ {t}
  /\ held' = [held EXCEPT ![w] = t]
  /\ Goto(w, "start")
  /\ UNCHANGED <<work, lease, bounds>>

\* claim_campaign_task: queued work, or the Task of a worker that was lost.
ClaimTask(w, t) ==
  /\ pc[w] = "idle"
  /\ Oldest(t)
  /\ status[t] # "cancelling"
  /\ status' = [status EXCEPT ![t] = "running"]
  /\ owner' = [owner EXCEPT ![t] = w]
  /\ lapsed' = lapsed \ {t}
  /\ held' = [held EXCEPT ![w] = t]
  /\ Goto(w, "start")
  /\ UNCHANGED <<work, lease, bounds>>

\* claim_campaign_task finishes an abandoned cancellation.
ClaimCancelled(w, t) ==
  /\ pc[w] = "idle"
  /\ Oldest(t)
  /\ status[t] = "cancelling"
  /\ status' = [status EXCEPT ![t] = "cancelled"]
  /\ owner' = [owner EXCEPT ![t] = NoOne]
  /\ lapsed' = lapsed \ {t}
  /\ UNCHANGED <<work, lease, pc, held, bounds>>

-----------------------------------------------------------------------------
(* run_registered_campaign_through.                                        *)

CheckCampaign(w) ==
  /\ pc[w] = "start"
  /\ Goto(w, IF campaign = "active" THEN "acquire" ELSE "raised")
  /\ UNCHANGED <<rows, work, lease, held, bounds>>

FenceFree == fence = NoOne \/ fenceLapsed

\* run_lineage_through acquires the Lineage, and so does finalization.
AcquireLineage(w) ==
  /\ pc[w] \in {"acquire", "finalize"}
  /\ FenceFree
  /\ fence' = w
  /\ fenceLapsed' = FALSE
  /\ Goto(w, IF pc[w] = "acquire" THEN "run" ELSE "commit")
  /\ UNCHANGED <<rows, work, held, bounds>>

LineageUnavailable(w) ==
  /\ pc[w] \in {"acquire", "finalize"}
  /\ ~FenceFree
  /\ Goto(w, "raised")
  /\ UNCHANGED <<rows, work, lease, held, bounds>>

\* _assert_active_fence, at every write of the scheduler.
MayWrite(w) == fence = w /\ ~fenceLapsed

\* run_epoch creates the next Epoch, or finds the open one.
StartEpoch(w) ==
  /\ pc[w] = "run"
  /\ MayWrite(w)
  /\ lineage = "ready"
  /\ next <= Target[held[w]]
  /\ lineage' = "running"
  /\ UNCHANGED <<rows, campaign, next, lease, pc, held, bounds>>

FinishEpoch(w) ==
  /\ pc[w] = "run"
  /\ MayWrite(w)
  /\ lineage = "running"
  /\ next <= Target[held[w]]
  /\ lineage' = "awaiting_evidence"
  /\ next' = next + 1
  /\ UNCHANGED <<rows, campaign, lease, pc, held, bounds>>

\* assemble_next and advance_lineage_evidence, for whoever's Epoch it was.
AdvanceEvidence(w) ==
  /\ pc[w] = "run"
  /\ MayWrite(w)
  /\ lineage = "awaiting_evidence"
  /\ lineage' = "ready"
  /\ UNCHANGED <<rows, campaign, next, lease, pc, held, bounds>>

\* A cancelled Lineage, one that completed before the target, or one whose
\* open Epoch lies beyond the target.
LineageEnded(w) ==
  /\ pc[w] = "run"
  /\ \/ lineage = "cancelled"
     \/ lineage = "completed" /\ next <= Target[held[w]]
     \/ lineage = "running" /\ next > Target[held[w]]
  /\ Leave(w, "raised")
  /\ UNCHANGED <<rows, work, held, bounds>>

\* A write raises: the fence lapsed or was taken over.
WriteRefused(w) ==
  /\ pc[w] \in Fenced
  /\ ~MayWrite(w)
  /\ Leave(w, "raised")
  /\ UNCHANGED <<rows, work, held, bounds>>

\* The Epoch or the evidence raises: a wedged Attempt, a refused Workflow
\* call, a timeout.
EpochRaises(w) ==
  /\ pc[w] = "run"
  /\ \/ lineage = "running" /\ next <= Target[held[w]]
     \/ lineage = "awaiting_evidence"
  /\ Leave(w, "raised")
  /\ UNCHANGED <<rows, work, held, bounds>>

\* _run_owned_lineage_through returns; it only reads to find that out.
TargetReached(w) ==
  /\ pc[w] = "run"
  /\ lineage \in {"ready", "completed"}
  /\ next > Target[held[w]]
  /\ Leave(w, IF Finalize[held[w]] THEN "finalize" ELSE "returned")
  /\ UNCHANGED <<rows, work, held, bounds>>

\* Slip: a Campaign that cannot complete now is left alone.
CompleteCampaignQuietly(w) ==
  LET quiescent == campaign = "active" /\ lineage = "ready" IN
  /\ pc[w] = "commit"
  /\ MayWrite(w)
  /\ campaign' = IF quiescent THEN "completed" ELSE campaign
  /\ lineage' = IF quiescent THEN "completed" ELSE lineage
  /\ Leave(w, "returned")
  /\ UNCHANGED <<rows, next, held, bounds>>

\* complete_campaign: an Epoch may have been started since the target was
\* reached, and the Campaign may have been cancelled or completed.
CompleteCampaign(w) ==
  LET quiescent == campaign = "active" /\ lineage = "ready" /\ next > Target[held[w]] IN
  /\ pc[w] = "commit"
  /\ MayWrite(w)
  /\ campaign' = IF quiescent THEN "completed" ELSE campaign
  /\ lineage' = IF quiescent THEN "completed" ELSE lineage
  /\ Leave(w, IF quiescent \/ campaign = "completed" THEN "returned" ELSE "raised")
  /\ UNCHANGED <<rows, next, held, bounds>>

\* The heartbeat thread of the Lineage lease revives a row that lapsed.
FenceRenew(w) ==
  /\ pc[w] \in Fenced
  /\ fence = w
  /\ fenceLapsed
  /\ fenceLapsed' = FALSE
  /\ UNCHANGED <<rows, work, fence, pc, held, bounds>>

-----------------------------------------------------------------------------
(* The end of run_once, its heartbeat, and the leases.                     *)

\* Slip: the ended row keeps its lease_owner.
EndTaskKeepsOwner(w, outcome) ==
  LET t == held[w] IN
  /\ IF owner[t] = w
     THEN /\ status' = [status EXCEPT ![t] = IF @ = "cancelling" THEN "cancelled" ELSE outcome]
          /\ lapsed' = lapsed \ {t}
          /\ UNCHANGED owner
     ELSE UNCHANGED rows
  /\ Goto(w, "idle")
  /\ UNCHANGED <<work, lease, held, bounds>>

\* complete_campaign_task and fail_campaign_task write the row only for its
\* owner; for anyone else they raise and the process ends.
EndTask(w, outcome) ==
  LET t == held[w] IN
  /\ IF owner[t] = w
     THEN /\ status' = [status EXCEPT ![t] = IF @ = "cancelling" THEN "cancelled" ELSE outcome]
          /\ owner' = [owner EXCEPT ![t] = NoOne]
          /\ lapsed' = lapsed \ {t}
     ELSE UNCHANGED rows
  /\ Goto(w, "idle")
  /\ UNCHANGED <<work, lease, held, bounds>>

CompleteTask(w) == pc[w] = "returned" /\ EndTask(w, "completed")
FailTask(w) == pc[w] = "raised" /\ EndTask(w, "failed")

HeartbeatRenew(w) ==
  /\ pc[w] \in Awaiting
  /\ owner[held[w]] = w
  /\ status[held[w]] = "running"
  /\ lapsed' = lapsed \ {held[w]}
  /\ UNCHANGED <<status, owner, work, lease, pc, held, bounds>>

\* The heartbeat sees the request, cancels the scheduler, and run_once goes
\* on as if it had returned.
HeartbeatCancels(w) ==
  /\ pc[w] \in Awaiting
  /\ owner[held[w]] = w
  /\ status[held[w]] = "cancelling"
  /\ lapsed' = lapsed \ {held[w]}
  /\ Leave(w, "returned")
  /\ UNCHANGED <<status, owner, work, held, bounds>>

\* A superseded heartbeat raises out of run_once; the process ends.
HeartbeatSuperseded(w) ==
  /\ pc[w] \in Awaiting
  /\ owner[held[w]] # w
  /\ Goto(w, "idle")
  /\ fence' = IF fence = w THEN NoOne ELSE fence
  /\ fenceLapsed' = IF fence = w THEN FALSE ELSE fenceLapsed
  /\ UNCHANGED <<rows, work, held, bounds>>

\* A lease lapses when its owner is dead, or stalls for longer than it.
TaskLeaseLapses(t) ==
  /\ status[t] \in Leased
  /\ t \notin lapsed
  /\ IF owner[t] = Gone THEN UNCHANGED stalls ELSE stalls < MaxStalls /\ stalls' = stalls + 1
  /\ lapsed' = lapsed \cup {t}
  /\ UNCHANGED <<status, owner, work, lease, pc, held, crashes, commands>>

FenceLapses ==
  /\ fence # NoOne
  /\ ~fenceLapsed
  /\ IF fence = Gone THEN UNCHANGED stalls ELSE stalls < MaxStalls /\ stalls' = stalls + 1
  /\ fenceLapsed' = TRUE
  /\ UNCHANGED <<rows, work, fence, pc, held, crashes, commands>>

\* The process dies.  Its successor has another owner name.
Crash(w) ==
  /\ pc[w] # "idle"
  /\ crashes < MaxCrashes
  /\ crashes' = crashes + 1
  /\ owner' = [t \in Task |-> IF owner[t] = w THEN Gone ELSE owner[t]]
  /\ fence' = IF fence = w THEN Gone ELSE fence
  /\ Goto(w, "idle")
  /\ UNCHANGED <<status, lapsed, work, fenceLapsed, held, stalls, commands>>

-----------------------------------------------------------------------------
(* Operator commands.                                                      *)

Command ==
  /\ commands < MaxCommands
  /\ commands' = commands + 1

CancelTask(t) ==
  /\ Command
  /\ status[t] \in {"queued", "running"}
  /\ status' = [status EXCEPT ![t] = IF @ = "queued" THEN "cancelled" ELSE "cancelling"]
  /\ UNCHANGED <<owner, lapsed, work, lease, pc, held, stalls, crashes>>

RequeueTask(t) ==
  /\ Command
  /\ status[t] = "failed"
  /\ status' = [status EXCEPT ![t] = "queued"]
  /\ UNCHANGED <<owner, lapsed, work, lease, pc, held, stalls, crashes>>

\* cancel_campaign, from another process and without the fence: between two
\* Epochs it goes through although a scheduler holds the Lineage.
CancelCampaign ==
  /\ Command
  /\ campaign = "active"
  /\ lineage = "ready"
  /\ campaign' = "cancelled"
  /\ lineage' = "cancelled"
  /\ UNCHANGED <<rows, next, lease, pc, held, stalls, crashes>>

-----------------------------------------------------------------------------
WorkerStep(w) ==
  \/ \E t \in Task : ClaimTask(w, t) \/ ClaimCancelled(w, t)
  \/ CheckCampaign(w) \/ AcquireLineage(w) \/ LineageUnavailable(w)
  \/ StartEpoch(w) \/ FinishEpoch(w) \/ AdvanceEvidence(w)
  \/ LineageEnded(w) \/ WriteRefused(w) \/ TargetReached(w) \/ CompleteCampaign(w)
  \/ CompleteTask(w) \/ FailTask(w)
  \/ HeartbeatCancels(w) \/ HeartbeatSuperseded(w)

Next ==
  \/ \E w \in Worker : 
       WorkerStep(w) \/ HeartbeatRenew(w) \/ FenceRenew(w) \/ EpochRaises(w) \/ Crash(w)
  \/ \E t \in Task : EnqueueTask(t) \/ TaskLeaseLapses(t) \/ CancelTask(t) \/ RequeueTask(t)
  \/ FenceLapses
  \/ CancelCampaign

Spec == Init /\ [][Next]_vars

(***************************************************************************)
(* A live worker goes on, its heartbeat included, and the lease of a dead  *)
(* one lapses in the end.  Nothing makes anyone enqueue, stall, crash,     *)
(* command or fail.                                                        *)
(***************************************************************************)
FairSpec ==
  /\ Spec
  /\ \A w \in Worker : WF_vars(WorkerStep(w))
  /\ \A w \in Worker : WF_vars(HeartbeatCancels(w))
  /\ \A t \in Task : WF_vars(owner[t] = Gone /\ TaskLeaseLapses(t))
  /\ WF_vars(fence = Gone /\ FenceLapses)

-----------------------------------------------------------------------------
(* Properties.                                                             *)

\* A worker that believes it owns its Task.
Owns(w) == pc[w] # "idle" /\ owner[held[w]] = w

\* What the scheduler of a Task returns for.
Done(t) == next > Target[t] /\ (Finalize[t] => campaign = "completed")

(***************************************************************************)
(* No Task is recorded as completed before its work is done: the Lineage   *)
(* is past the target and a finalizing Task's Campaign is completed,       *)
(* although a cancelled run_once also goes through complete_campaign_task, *)
(* workers stall and are superseded, and schedulers of several Tasks work  *)
(* on the same Lineage.                                                    *)
(***************************************************************************)
CompletedTaskIsDone ==
  \A t \in Task : status[t] = "completed" => Done(t)

(***************************************************************************)
(* TaskInv, the inductive invariant of the queue.  A row has an owner      *)
(* exactly while it is leased, a lapsed lease is that of a leased row, and *)
(* a live owner is at work on that very Task; a live fence is inside its   *)
(* with-block; a terminal Campaign has its Lineage in the same status; a   *)
(* scheduler that goes on to finalization is past its target; and a        *)
(* scheduler that returned, for a Task it still owns and nobody has        *)
(* cancelled, has done the work.                                           *)
(***************************************************************************)
LeasedIsOwned ==
  /\ \A t \in Task : owner[t] # NoOne <=> status[t] \in Leased
  /\ \A t \in lapsed : status[t] \in Leased
  /\ \A t \in Task : owner[t] \in Worker => Owns(owner[t]) /\ held[owner[t]] = t

FenceIsInside ==
  /\ fence \in Worker => pc[fence] \in Fenced
  /\ fence = NoOne => ~fenceLapsed

TerminalTogether ==
  /\ campaign # "active" => lineage = campaign
  /\ campaign = "active" => lineage \notin {"completed", "cancelled"}

ReturnIsEarned ==
  \A w \in Worker :
    /\ pc[w] \in {"finalize", "commit"} => next > Target[held[w]]
    /\ Owns(w) /\ pc[w] = "returned" /\ status[held[w]] = "running" => Done(held[w])

TaskInv ==
  /\ TypeOK
  /\ LeasedIsOwned
  /\ FenceIsInside
  /\ TerminalTogether
  /\ ReturnIsEarned
  /\ CompletedTaskIsDone

(***************************************************************************)
(* What has ended or was cancelled stays so, whoever still works on it: a  *)
(* completed or cancelled Task never changes, and a requested cancellation *)
(* ends in nothing but "cancelled".                                        *)
(***************************************************************************)
TasksMoveForward ==
  [][\A t \in Task :
       /\ status[t] \in {"completed", "cancelled"} => status'[t] = status[t]
       /\ status[t] = "cancelling" => status'[t] \in {"cancelling", "cancelled"}
       /\ status[t] = "failed" => status'[t] \in {"failed", "queued"}]_vars

(***************************************************************************)
(* Every Task that is claimed or waits is settled in the end, whatever     *)
(* workers are lost on the way (claim_campaign_task takes over their       *)
(* Tasks in order).                                                        *)
(***************************************************************************)
TasksSettle == \A t \in Task : status[t] = "queued" ~> status[t] \in Settled

(***************************************************************************)
(* A requested cancellation takes effect: through the heartbeat of a live  *)
(* worker, through the end of its run, or through the next claim when the  *)
(* worker is lost.                                                         *)
(***************************************************************************)
CancellationTakesEffect ==
  \A t \in Task : status[t] = "cancelling" ~> status[t] = "cancelled"

=============================================================================
