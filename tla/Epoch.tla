-------------------------------- MODULE Epoch --------------------------------
(***************************************************************************)
(* One Epoch of one Lineage: EpochController and its Workflow service      *)
(* surface _EpochWorkflowOperations (controller/epoch.py) over the epochs, *)
(* epoch_challengers, epoch_branch_workflows, attempts and lineages rows   *)
(* of SqliteRegistry.                                                      *)
(*                                                                         *)
(* The Workflow is an untrusted program of the Agent under evaluation: it  *)
(* may issue any service call with any arguments in any order, one at a    *)
(* time, and go on after a refused call.  A refused call changes nothing   *)
(* and is not a step.  The Attempts of one batch run concurrently.  The    *)
(* scheduler is the holder of the Lineage fence (module LineageFence), its *)
(* Attempts are those of module Attempt, reduced to the status of a row.   *)
(*                                                                         *)
(* An Attempt is named by its slot <<branch, trajectory, ordinal>>; branch *)
(* 0 is Active and branch i is Challenger i.  The Kernel an Attempt        *)
(* produces is named by its slot, the Epoch's starting Kernel by Start.    *)
(***************************************************************************)
EXTENDS Naturals, FiniteSets

CONSTANTS
  MaxChallengers,  \* epochs.max_challengers
  Budget,          \* epochs.optimizer_attempt_budget
  MaxParallel,     \* max_parallel_attempts
  Latency,         \* latency of every Kernel the Epoch may see
  MaxDisruptions   \* bound on crashes, operator stops and failures

Branch == 0..MaxChallengers
Slot == Branch \X (1..Budget) \X (1..Budget)
Start == <<0, 0, 0>>
Kernel == Slot \cup {Start}

ASSUME EpochConstants ==
  /\ MaxChallengers \in Nat
  /\ Budget \in Nat \ {0}
  /\ MaxParallel \in Nat \ {0}
  /\ Latency \in [Kernel -> Nat]
  /\ MaxDisruptions \in Nat

VARIABLES
  lineage,     \* lineages.status
  status,      \* epochs.status; "none" before insert_epoch
  stopRow,     \* epoch_stops.previous_status, or "none"
  challengers, \* epoch_challengers: how each attached ordinal was made
  plan,        \* epoch_branch_workflows: capacity of each branch
  attempt,     \* attempts.status of each slot, "absent" before the insert
  input,       \* attempts.input_kernel_revision_id
  accepted,    \* slots whose output is accepted_as_branch_best
  successor,   \* an epoch_successor_evolutions row exists
  selection,   \* the Kernel and the branch that complete_epoch recorded
  up,          \* a scheduler is running the Workflow
  planStarted, \* _plan_started of the Workflow surface
  pending,     \* create_trajectory has stored a plan and not frozen the pool yet
  batch,       \* launches of run_attempts_parallel that wait for the limiter
  active,      \* launches that execute
  chosen,      \* volatile results of select_best_kernel and compare_agents
  disruptions

registry == <<lineage, status, stopRow, challengers, plan, attempt, input,
              accepted, successor, selection>>
volatile == <<up, planStarted, pending, batch, active, chosen>>
vars == <<registry, volatile, disruptions>>

EpochStatus == {"none", "building_challenger", "ready", "running", "selecting",
                "stopped", "completed", "failed"}
Open == {"building_challenger", "ready", "running", "selecting"}
AttemptStatus == {"absent", "running", "infrastructure_failed", "interrupted", "completed"}
Capacity == [trajectories : 0..Budget, attempts : 0..Budget]
NoPlan == [trajectories |-> 0, attempts |-> 0]
NoBranch == MaxChallengers + 1
NoKernel == <<NoBranch, 0, 0>>
Unchosen == [kernel |-> NoKernel, branch |-> NoBranch]
Choice == [kernel : Kernel \cup {NoKernel}, branch : 0..NoBranch]
Launch == [slot : Slot, kernel : Kernel]

TypeOK ==
  /\ lineage \in {"ready", "running", "awaiting_evidence", "failed"}
  /\ status \in EpochStatus
  /\ stopRow \in Open \cup {"none"}
  /\ challengers \in [Branch -> {"none", "replica", "evolver"}]
  /\ plan \in [Branch -> Capacity]
  /\ attempt \in [Slot -> AttemptStatus]
  /\ input \in [Slot -> Kernel]
  /\ accepted \subseteq Slot
  /\ successor \in BOOLEAN
  /\ selection \in Choice
  /\ up \in BOOLEAN
  /\ planStarted \in BOOLEAN
  /\ pending \in BOOLEAN
  /\ batch \subseteq Launch
  /\ active \subseteq Launch
  /\ chosen \in Choice
  /\ disruptions \in Nat

Init ==
  /\ lineage = "ready"
  /\ status = "none"
  /\ stopRow = "none"
  /\ challengers = [b \in Branch |-> "none"]
  /\ plan = [b \in Branch |-> NoPlan]
  /\ attempt = [s \in Slot |-> "absent"]
  /\ input = [s \in Slot |-> Start]
  /\ accepted = {}
  /\ successor = FALSE
  /\ selection = Unchosen
  /\ up = FALSE
  /\ planStarted = FALSE
  /\ pending = FALSE
  /\ batch = {}
  /\ active = {}
  /\ chosen = Unchosen
  /\ disruptions = 0

-----------------------------------------------------------------------------
Attached == {b \in Branch \ {0} : challengers[b] # "none"}
InCapacity(s) == s[2] <= plan[s[1]].trajectories /\ s[3] <= plan[s[1]].attempts
PlannedSlots == {s \in Slot : InCapacity(s)}
Present == {s \in Slot : attempt[s] # "absent"}
Earlier(s) == {r \in Slot : r[1] = s[1] /\ r[2] = s[2] /\ r[3] < s[3]}

\* Slip: a plan within the budget is good enough.
PlanWithinBudget ==
  /\ \E b \in Branch : plan[b] # NoPlan
  /\ \A b \in Branch \ {0} : plan[b] # NoPlan => b \in Attached
  /\ Cardinality(PlannedSlots) <= Budget

(***************************************************************************)
(* _workflow_validate_plan.  The sum of trajectories * attempts over the   *)
(* branches is the number of planned slots.                                *)
(***************************************************************************)
ValidPlan ==
  /\ \E b \in Branch : plan[b] # NoPlan
  /\ \A b \in Branch \ {0} : plan[b] # NoPlan => b \in Attached
  /\ Cardinality(PlannedSlots) = Budget

\* Slip: present Attempts are counted, finished or not.
SelectionReadyUnfinished ==
  /\ ValidPlan
  /\ Cardinality(Present) = Cardinality(PlannedSlots)

\* _workflow_validate_selection_ready.
SelectionReady ==
  /\ ValidPlan
  /\ Cardinality(Present) = Cardinality(PlannedSlots)
  /\ \A s \in Present : attempt[s] = "completed"

\* Slip: any Kernel of the Epoch may be an input.
AnyKernelInput(k) == k = Start \/ k \in Present

\* _workflow_validate_kernel_input.
ValidKernelInput(k) == k = Start \/ (k \in accepted /\ attempt[k] = "completed")

\* Slip: the Kernels of the Challengers are forgotten.
RetainedByActive == {Start} \cup {s \in accepted : s[1] = 0}

\* _retained_kernels and select_best_kernel.
Retained == {Start} \cup accepted
Fastest(K) == CHOOSE k \in K : \A j \in K : Latency[k] <= Latency[j]

\* The Workflow's service calls are handled one at a time.
Serving == up /\ ~pending /\ batch = {} /\ active = {}

-----------------------------------------------------------------------------
(* run_epoch.                                                              *)

InsertEpoch ==
  /\ ~up
  /\ status = "none"
  /\ lineage = "ready"
  /\ status' = IF MaxChallengers = 0 THEN "ready" ELSE "building_challenger"
  /\ lineage' = "running"
  /\ up' = TRUE
  /\ UNCHANGED <<stopRow, challengers, plan, attempt, input, accepted, successor,
                 selection, planStarted, pending, batch, active, chosen, disruptions>>

\* A restarted scheduler runs the Workflow program again from its beginning.
RestartEpoch ==
  /\ ~up
  /\ status \in Open
  /\ up' = TRUE
  /\ UNCHANGED <<registry, planStarted, pending, batch, active, chosen, disruptions>>

\* Slip: the interrupted Attempts are forgotten.
ResumeLeavesAttempts ==
  /\ ~up
  /\ status = "stopped"
  /\ status' = stopRow
  /\ stopRow' = "none"
  /\ up' = TRUE
  /\ UNCHANGED <<lineage, challengers, plan, attempt, input, accepted, successor,
                 selection, planStarted, pending, batch, active, chosen, disruptions>>

\* resume_stopped_epoch, then the Workflow.
ResumeEpoch ==
  /\ ~up
  /\ status = "stopped"
  /\ status' = stopRow
  /\ stopRow' = "none"
  /\ attempt' = [s \in Slot |-> IF attempt[s] = "interrupted" THEN "running" ELSE attempt[s]]
  /\ up' = TRUE
  /\ UNCHANGED <<lineage, challengers, plan, input, accepted, successor,
                 selection, planStarted, pending, batch, active, chosen, disruptions>>

\* What dies with the scheduler.
Down ==
  /\ up' = FALSE
  /\ planStarted' = FALSE
  /\ pending' = FALSE
  /\ batch' = {}
  /\ active' = {}
  /\ chosen' = Unchosen

\* The scheduler or the Workflow process ends, between or inside calls.
Crash ==
  /\ up
  /\ disruptions < MaxDisruptions
  /\ disruptions' = disruptions + 1
  /\ Down
  /\ UNCHANGED registry

\* The Workflow program exits with an error between two calls, and run_epoch
\* raises: the program's own doing, and no disruption.
WorkflowRaises ==
  /\ Serving
  /\ Down
  /\ UNCHANGED <<registry, disruptions>>

-----------------------------------------------------------------------------
(* Challengers.                                                            *)

\* attach_challenger for the next ordinal; a full pool makes the Epoch ready.
Attach(b, how) ==
  /\ b \in Branch \ {0}
  /\ b = Cardinality(Attached) + 1
  /\ status = "building_challenger"
  /\ challengers' = [challengers EXCEPT ![b] = how]
  /\ status' = IF b = MaxChallengers THEN "ready" ELSE "building_challenger"

ReplicateActive(b) ==
  /\ Serving
  /\ Attach(b, "replica")
  /\ UNCHANGED <<lineage, stopRow, plan, attempt, input, accepted, successor,
                 selection, volatile, disruptions>>

\* evolve_agent before the plan: the Evolver proposes a revision.
EvolveAgent(b) ==
  /\ Serving
  /\ ~planStarted
  /\ Attach(b, "evolver")
  /\ UNCHANGED <<lineage, stopRow, plan, attempt, input, accepted, successor,
                 selection, volatile, disruptions>>

\* evolve_agent before the plan: the Evolver proposes no change, and
\* close_challenger_pool ends the pool.
EvolveNoChange ==
  /\ Serving
  /\ ~planStarted
  /\ status = "building_challenger"
  /\ Cardinality(Attached) < MaxChallengers
  /\ status' = "ready"
  /\ UNCHANGED <<lineage, stopRow, challengers, plan, attempt, input, accepted, successor,
                 selection, volatile, disruptions>>

\* evolve_agent after the plan: a request for after the Epoch.
RequestSuccessor ==
  /\ Serving
  /\ planStarted
  /\ MaxChallengers > 0
  /\ SelectionReady
  /\ status = "running"
  /\ successor' = TRUE
  /\ UNCHANGED <<lineage, status, stopRow, challengers, plan, attempt, input, accepted,
                 selection, volatile, disruptions>>

-----------------------------------------------------------------------------
(* create_trajectory: two transactions.                                    *)

\* A refused create_trajectory still marks the plan as started.
CreateRefused ==
  /\ Serving
  /\ ~planStarted
  /\ planStarted' = TRUE
  /\ UNCHANGED <<registry, up, pending, batch, active, chosen, disruptions>>

\* ensure_epoch_branch_workflow: a new Branch plan, or the same one again.
CreateTrajectory(b, c) ==
  /\ Serving
  /\ b = 0 \/ b \in Attached
  /\ 0 \notin {c.trajectories, c.attempts}
  /\ \/ /\ plan[b] = NoPlan
        /\ status \in {"building_challenger", "ready"}
        /\ Cardinality(PlannedSlots) + c.trajectories * c.attempts <= Budget
     \/ plan[b] = c
  /\ plan' = [plan EXCEPT ![b] = c]
  /\ planStarted' = TRUE
  /\ pending' = TRUE
  /\ UNCHANGED <<lineage, status, stopRow, challengers, attempt, input, accepted, successor,
                 selection, up, batch, active, chosen, disruptions>>

\* freeze_epoch_workflow_challengers.
FreezeChallengers ==
  /\ up
  /\ pending
  /\ status' = IF status = "building_challenger" THEN "ready" ELSE status
  /\ pending' = FALSE
  /\ UNCHANGED <<lineage, stopRow, challengers, plan, attempt, input, accepted, successor,
                 selection, up, planStarted, batch, active, chosen, disruptions>>

-----------------------------------------------------------------------------
(* run_attempts_parallel.                                                  *)

\* One launch per Trajectory, every slot within its Branch's capacity.  The
\* empty set stands for a batch with a bad launch: it is refused, but only
\* after the Epoch has become running.
Batches ==
  {L \in SUBSET [slot : PlannedSlots, kernel : {Start} \cup Present] :
     \A l, m \in L : l # m => <<l.slot[1], l.slot[2]>> # <<m.slot[1], m.slot[2]>>}

RunAttempts(L) ==
  /\ Serving
  /\ ValidPlan
  /\ status \in {"ready", "running"}
  /\ status' = "running"
  /\ batch' = L
  /\ UNCHANGED <<lineage, stopRow, challengers, plan, attempt, input, accepted, successor,
                 selection, up, planStarted, pending, active, chosen, disruptions>>

\* Slip: the earlier ordinals of the Trajectory need only exist.
LaunchAfterPresent(l) ==
  /\ l \in batch
  /\ Cardinality(active) < MaxParallel
  /\ Earlier(l.slot) \subseteq Present
  /\ ValidKernelInput(l.kernel)
  /\ attempt[l.slot] = "absent"
  /\ attempt' = [attempt EXCEPT ![l.slot] = "running"]
  /\ input' = [input EXCEPT ![l.slot] = l.kernel]
  /\ batch' = batch \ {l}
  /\ active' = active \cup {l}
  /\ UNCHANGED <<lineage, status, stopRow, challengers, plan, accepted, successor,
                 selection, up, planStarted, pending, chosen, disruptions>>

\* What every launch of _workflow_run_attempt tests.
MayRun(l) ==
  /\ l \in batch
  /\ Cardinality(active) < MaxParallel
  /\ \A r \in Earlier(l.slot) : attempt[r] = "completed"
  /\ ValidKernelInput(l.kernel)

\* A new Attempt is persisted before its Optimizer is started.
LaunchNew(l) ==
  /\ MayRun(l)
  /\ attempt[l.slot] = "absent"
  /\ attempt' = [attempt EXCEPT ![l.slot] = "running"]
  /\ input' = [input EXCEPT ![l.slot] = l.kernel]
  /\ batch' = batch \ {l}
  /\ active' = active \cup {l}
  /\ UNCHANGED <<lineage, status, stopRow, challengers, plan, accepted, successor,
                 selection, up, planStarted, pending, chosen, disruptions>>

\* A recovered Attempt goes on with the input it was created with.
LaunchAgain(l) ==
  /\ MayRun(l)
  /\ attempt[l.slot] # "absent"
  /\ input[l.slot] = l.kernel
  /\ batch' = batch \ {l}
  /\ active' = active \cup {l}
  /\ UNCHANGED <<registry, up, planStarted, pending, chosen, disruptions>>

LaunchRefused(l) ==
  /\ l \in batch
  /\ Cardinality(active) < MaxParallel
  /\ \/ \E r \in Earlier(l.slot) : attempt[r] # "completed"
     \/ ~ValidKernelInput(l.kernel)
     \/ attempt[l.slot] # "absent" /\ input[l.slot] # l.kernel
  /\ batch' = batch \ {l}
  /\ UNCHANGED <<registry, up, planStarted, pending, active, chosen, disruptions>>

\* record_infrastructure_failure.
AttemptFails(l) ==
  /\ l \in active
  /\ attempt[l.slot] = "running"
  /\ attempt' = [attempt EXCEPT ![l.slot] = "infrastructure_failed"]
  /\ UNCHANGED <<lineage, status, stopRow, challengers, plan, input, accepted, successor,
                 selection, volatile, disruptions>>

\* retry_attempt.
AttemptRetried(l) ==
  /\ l \in active
  /\ attempt[l.slot] = "infrastructure_failed"
  /\ attempt' = [attempt EXCEPT ![l.slot] = "running"]
  /\ UNCHANGED <<lineage, status, stopRow, challengers, plan, input, accepted, successor,
                 selection, volatile, disruptions>>

\* complete_attempt, with or without an accepted output.
AttemptCompletes(l, improved) ==
  /\ l \in active
  /\ attempt[l.slot] = "running"
  /\ attempt' = [attempt EXCEPT ![l.slot] = "completed"]
  /\ accepted' = IF improved THEN accepted \cup {l.slot} ELSE accepted
  /\ UNCHANGED <<lineage, status, stopRow, challengers, plan, input, successor,
                 selection, volatile, disruptions>>

\* The launch returns, or raises with its Attempt unfinished: the retry
\* budget is spent, or the Session or the comparison raised.
LaunchEnds(l) ==
  /\ l \in active
  /\ active' = active \ {l}
  /\ UNCHANGED <<registry, up, planStarted, pending, batch, chosen, disruptions>>

-----------------------------------------------------------------------------
(* Selection and completion.                                               *)

SelectBestKernel ==
  /\ Serving
  /\ SelectionReady
  /\ chosen.kernel = NoKernel
  /\ chosen' = [chosen EXCEPT !.kernel = Fastest(Retained)]
  /\ UNCHANGED <<registry, up, planStarted, pending, batch, active, disruptions>>

\* The comparators decide among the branches that have run.
CompareAgents(b) ==
  /\ Serving
  /\ SelectionReady
  /\ chosen.branch = NoBranch
  /\ plan[b] # NoPlan
  /\ chosen' = [chosen EXCEPT !.branch = b]
  /\ UNCHANGED <<registry, up, planStarted, pending, batch, active, disruptions>>

\* What complete_epoch tests before its first transaction.
MayComplete ==
  /\ Serving
  /\ chosen.kernel # NoKernel
  /\ chosen.branch # NoBranch
  /\ chosen.kernel = Fastest(Retained)
  /\ plan[chosen.branch] # NoPlan
  /\ \A s \in PlannedSlots : attempt[s] = "completed"

\* complete_epoch, first transaction: running -> selecting.
BeginSelecting ==
  /\ MayComplete
  /\ status = "running"
  /\ status' = "selecting"
  /\ UNCHANGED <<lineage, stopRow, challengers, plan, attempt, input, accepted, successor,
                 selection, volatile, disruptions>>

\* complete_epoch, second transaction.
CompleteEpoch ==
  /\ MayComplete
  /\ status = "selecting"
  /\ status' = "completed"
  /\ lineage' = "awaiting_evidence"
  /\ selection' = chosen
  /\ UNCHANGED <<stopRow, challengers, plan, attempt, input, accepted, successor,
                 volatile, disruptions>>

-----------------------------------------------------------------------------
(* Operator commands, from another process: the fence is bumped and the    *)
(* scheduler's next write fails.                                           *)

\* Slip: every Attempt of the Epoch is interrupted.
StopInterruptsAll ==
  /\ status \in Open
  /\ stopRow = "none"
  /\ disruptions < MaxDisruptions
  /\ disruptions' = disruptions + 1
  /\ stopRow' = status
  /\ status' = "stopped"
  /\ attempt' = [s \in Slot |-> IF attempt[s] = "absent" THEN "absent" ELSE "interrupted"]
  /\ Down
  /\ UNCHANGED <<lineage, challengers, plan, input, accepted, successor, selection>>

StopEpoch ==
  /\ status \in Open
  /\ stopRow = "none"
  /\ disruptions < MaxDisruptions
  /\ disruptions' = disruptions + 1
  /\ stopRow' = status
  /\ status' = "stopped"
  /\ attempt' = [s \in Slot |-> IF attempt[s] = "running" THEN "interrupted" ELSE attempt[s]]
  /\ Down
  /\ UNCHANGED <<lineage, challengers, plan, input, accepted, successor, selection>>

\* fail_epoch, under the fence of the scheduler; its caller gives up.  The
\* Epoch is not stopped: a scheduler resumes a stopped Epoch first.
FailEpoch ==
  /\ up
  /\ status \in Open
  /\ disruptions < MaxDisruptions
  /\ disruptions' = disruptions + 1
  /\ status' = "failed"
  /\ lineage' = "failed"
  /\ Down
  /\ UNCHANGED <<stopRow, challengers, plan, attempt, input, accepted, successor, selection>>

\* recover_failed_epoch with a new key.  It also recovers the running
\* Attempts that have registered a Kernel, here any set of running ones.
RecoverEpoch(registered) ==
  /\ ~up
  /\ status = "failed"
  /\ lineage = "failed"
  /\ \A s \in registered : attempt[s] = "running"
  /\ LET recovered == registered \cup {s \in Slot : attempt[s] = "infrastructure_failed"} IN
       /\ recovered # {} \/ Cardinality(Attached) < MaxChallengers
       /\ attempt' = [s \in Slot |-> IF s \in recovered THEN "running" ELSE attempt[s]]
       /\ status' = IF recovered # {} THEN "running" ELSE "building_challenger"
  /\ lineage' = "running"
  /\ UNCHANGED <<volatile, stopRow, challengers, plan, input, accepted, successor, selection, disruptions>>

-----------------------------------------------------------------------------
Scheduling == InsertEpoch \/ RestartEpoch \/ ResumeEpoch \/ WorkflowRaises

Challenging ==
  \/ \E b \in Branch : ReplicateActive(b) \/ EvolveAgent(b)
  \/ EvolveNoChange \/ RequestSuccessor

Planning ==
  \/ CreateRefused
  \/ \E b \in Branch, c \in Capacity : CreateTrajectory(b, c)
  \/ FreezeChallengers

Launching ==
  \/ \E L \in Batches : RunAttempts(L)
  \/ \E l \in batch : LaunchNew(l) \/ LaunchAgain(l) \/ LaunchRefused(l)
  \/ \E l \in active :
       \/ AttemptFails(l) \/ AttemptRetried(l) \/ LaunchEnds(l)
       \/ \E improved \in BOOLEAN : AttemptCompletes(l, improved)

Selecting ==
  \/ SelectBestKernel
  \/ \E b \in Branch : CompareAgents(b)
  \/ BeginSelecting \/ CompleteEpoch

Disrupting ==
  \/ Crash \/ StopEpoch \/ FailEpoch
  \/ \E registered \in SUBSET Present : RecoverEpoch(registered)

Next == Scheduling \/ Challenging \/ Planning \/ Launching \/ Selecting \/ Disrupting

Spec == Init /\ [][Next]_vars

-----------------------------------------------------------------------------
(* Properties.                                                             *)

Selected == {"selecting", "completed"}

(***************************************************************************)
(* _workflow_validate_selection_ready compares counts before selection,    *)
(* and crashes, stops and replays come between that test and complete_     *)
(* epoch.  An Epoch that selects or has completed has run exactly its      *)
(* planned slots, all of them to completion, and they are exactly the      *)
(* budget that the Registry promised.                                      *)
(***************************************************************************)
SelectionCoversBudget ==
  status \in Selected =>
    /\ Present = PlannedSlots
    /\ \A s \in PlannedSlots : attempt[s] = "completed"
    /\ Cardinality(Present) = Budget

(***************************************************************************)
(* Attempts of one Trajectory never overlap: whatever batches the Workflow *)
(* sends and wherever they are cut off, an Attempt that has a row comes    *)
(* after completed Attempts only (_workflow_run_attempt).                  *)
(***************************************************************************)
TrajectoryOrder ==
  \A s \in Present : \A r \in Earlier(s) : attempt[r] = "completed"

(***************************************************************************)
(* Every Kernel that an Attempt was started from is the Epoch's start or   *)
(* was accepted by a completed Attempt, at every later moment too: no      *)
(* stop, failure or recovery withdraws an input that was handed out        *)
(* (_workflow_validate_kernel_input).                                      *)
(***************************************************************************)
InputProvenance ==
  \A s \in Present :
    input[s] = Start \/ (input[s] \in accepted /\ attempt[input[s]] = "completed")

(***************************************************************************)
(* The Kernel a completed Epoch hands to its Lineage is at least as fast   *)
(* as the starting Kernel and as every Kernel that an Attempt of any       *)
(* Branch got accepted, although the Workflow chose it in an earlier call  *)
(* than the one that commits it (_workflow_complete_epoch).                *)
(***************************************************************************)
BestIsBest ==
  status = "completed" =>
    \A k \in {Start} \cup accepted : Latency[selection.kernel] <= Latency[k]

(***************************************************************************)
(* The Lineage row and the Epoch row are written together by insert_epoch, *)
(* complete_epoch, fail_epoch and recover_failed_epoch: a Lineage is       *)
(* running exactly while its Epoch is open or stopped.                     *)
(***************************************************************************)
LineageAgrees ==
  lineage = CASE status = "none" -> "ready"
              [] status \in Open \cup {"stopped"} -> "running"
              [] status = "completed" -> "awaiting_evidence"
              [] status = "failed" -> "failed"

(***************************************************************************)
(* stop_epoch leaves nothing running and nothing half recorded: a stopped  *)
(* Epoch has no scheduler, no running Attempt and the phase to restore;    *)
(* and an Attempt is interrupted only while its Epoch is stopped.          *)
(***************************************************************************)
StoppedIsQuiescent ==
  /\ status = "stopped" <=> stopRow # "none"
  /\ status = "stopped" => ~up /\ \A s \in Slot : attempt[s] # "running"
  /\ \A s \in Slot : attempt[s] = "interrupted" => status = "stopped"

\* Every planned slot has a completed Attempt and the plan is the budget.
Covered ==
  /\ Present = PlannedSlots
  /\ \A s \in PlannedSlots : attempt[s] = "completed"
  /\ Cardinality(PlannedSlots) = Budget

(***************************************************************************)
(* The inductive invariant.  Beyond the properties above it says what the  *)
(* scheduler of a live Epoch knows: launches stand for planned slots, and  *)
(* a choice is remembered, or its phase saved by a stop, only when the     *)
(* budget has been covered.                                                *)
(***************************************************************************)
SchedulerState ==
  /\ up => status \in Open \cup {"completed"}
  /\ ~up => batch = {} /\ active = {} /\ chosen = Unchosen
  /\ batch \cup active # {} => status = "running"
  /\ \A l \in batch \cup active : l.slot \in PlannedSlots
  /\ \A l \in active : attempt[l.slot] # "absent"

WithinPlan == Present \subseteq PlannedSlots

AcceptedCompleted == \A s \in accepted : attempt[s] = "completed"

SelectionSettled ==
  chosen # Unchosen \/ status \in Selected \/ stopRow \in Selected => Covered

(***************************************************************************)
(* EpochInv holds in every state of an Epoch, for every budget, pool size  *)
(* and parallelism, whatever its Workflow calls and whenever it is stopped,*)
(* failed, recovered or its scheduler dies.                                *)
(***************************************************************************)
EpochInv ==
  /\ TypeOK
  /\ SchedulerState
  /\ WithinPlan
  /\ AcceptedCompleted
  /\ TrajectoryOrder
  /\ InputProvenance
  /\ SelectionSettled
  /\ LineageAgrees
  /\ StoppedIsQuiescent
  /\ BestIsBest

\* What one step may not undo.
WorkKept ==
  /\ \A s \in Slot : attempt[s] = "completed" => attempt'[s] = "completed"
  /\ \A s \in Present : attempt'[s] # "absent" /\ input'[s] = input[s]
  /\ accepted \subseteq accepted'
  /\ \A b \in Branch : plan[b] # NoPlan => plan'[b] = plan[b]

(***************************************************************************)
(* What an Epoch has paid for is kept: across stops, crashes, failures and *)
(* recoveries a completed Attempt stays completed, its acceptance and the  *)
(* input of every Attempt stand, and a frozen Branch plan never changes.   *)
(***************************************************************************)
WorkIsKept == [][WorkKept]_vars

(***************************************************************************)
(* complete_epoch is the end of the Epoch: no replayed call of a Workflow, *)
(* no late Attempt and no operator command changes a row of it.            *)
(***************************************************************************)
CompletedEpochIsFinal ==
  [][status = "completed" => UNCHANGED registry]_vars

=============================================================================
