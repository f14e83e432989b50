----------------------------- MODULE EpochReplay -----------------------------
(***************************************************************************)
(* An Epoch driven by a real Workflow: the program of workflow_templates/  *)
(* evolve_3.py over the services of module Epoch.  It makes one            *)
(* Challenger (a replica of Active in the first Epoch, an Evolver proposal *)
(* in later ones), gives Active and the Challenger one Trajectory each (or *)
(* Active the whole budget when there is no Challenger), runs the rounds,  *)
(* routes every Trajectory's Kernel to its next round, and completes.      *)
(*                                                                         *)
(* The program keeps nothing: when its scheduler dies, is stopped or       *)
(* raises, the next one runs it again from its first line, and the         *)
(* services must recognise what was already done.  A refused service call  *)
(* ends the program (`serve` exits and run_epoch raises).  Every Attempt   *)
(* that runs long enough settles; when it does not is the subject of       *)
(* module Attempt.                                                         *)
(***************************************************************************)
EXTENDS Epoch

ASSUME ReplayConstants ==
  /\ MaxChallengers > 0
  /\ Budget % 2 = 0

VARIABLES
  first, \* epoch_number = 1, fixed when the Epoch is inserted
  line,  \* the service call the Workflow program is at, "off" when it is not
         \* running and "done" when it has ended
  i      \* its loop variable: the Branch it plans, then the round

program == <<line, i>>
replayVars == <<vars, program, first>>

ReplayInit == Init /\ first \in BOOLEAN /\ line = "off" /\ i = 0

-----------------------------------------------------------------------------
\* The pools of the program, and the capacity it asks for each of them.
Pools == IF Attached = {} THEN {0} ELSE {0, 1}
Rounds == IF Attached = {} THEN Budget ELSE Budget \div 2
PoolCapacity == [trajectories |-> 1, attempts |-> Rounds]

\* Slip: a round starts from the best Kernel known at the moment of the call.
BestSoFarRoute(b, n) == Fastest(Retained)

\* carry_states: the Kernel that a Trajectory has after its previous round.
RoutedKernel(b, n) ==
  IF n = 1 THEN Start
  ELSE LET previous == <<b, 1, n - 1>> IN
       IF previous \in accepted THEN previous ELSE input[previous]

RoundBatch(n) == {[slot |-> <<b, 1, n>>, kernel |-> RoutedKernel(b, n)] : b \in Pools}

-----------------------------------------------------------------------------
\* A scheduler starts the program.
Begin ==
  /\ InsertEpoch \/ RestartEpoch \/ ResumeEpoch
  /\ line' = "challenger"
  /\ i' = 0

\* The first call: replicate_active(1) or evolve_agent(1).
MakeChallenger ==
  /\ line = "challenger"
  /\ Attached = {}
  /\ \/ first /\ ReplicateActive(1)
     \/ ~first /\ EvolveAgent(1)
     \/ ~first /\ EvolveNoChange
  /\ line' = "plan"
  /\ UNCHANGED i

\* The same call when an earlier run of the program has attached Challenger 1.
FindChallenger ==
  /\ line = "challenger"
  /\ Serving
  /\ Attached # {}
  /\ line' = "plan"
  /\ UNCHANGED <<vars, i>>

\* create_pool for the next Branch.
PlanPool ==
  /\ line = "plan"
  /\ CreateTrajectory(i, PoolCapacity)
  /\ UNCHANGED program

FreezePool ==
  /\ line = "plan"
  /\ FreezeChallengers
  /\ IF i + 1 \in Pools THEN i' = i + 1 /\ UNCHANGED line ELSE i' = 1 /\ line' = "round"

RunRound ==
  /\ line = "round"
  /\ RunAttempts(RoundBatch(i))
  /\ line' = "wait"
  /\ UNCHANGED i

\* The Attempts of the round, in any order.
AttemptStep ==
  /\ line = "wait"
  /\ \/ \E l \in batch : LaunchNew(l) \/ LaunchAgain(l)
     \/ \E l \in active, improved \in BOOLEAN : AttemptCompletes(l, improved)
     \/ \E l \in active : attempt[l.slot] = "completed" /\ LaunchEnds(l)
  /\ UNCHANGED program

\* run_attempts_parallel returns and the program goes on.
RoundEnds ==
  /\ line = "wait"
  /\ Serving
  /\ IF i < Rounds THEN i' = i + 1 /\ line' = "round" ELSE line' = "select" /\ UNCHANGED i
  /\ UNCHANGED vars

\* epoch.complete(): three service calls.
SelectKernel ==
  /\ line = "select"
  /\ SelectBestKernel
  /\ line' = "compare"
  /\ UNCHANGED i

SelectAgent ==
  /\ line = "compare"
  /\ \E b \in Pools : CompareAgents(b)
  /\ line' = "complete"
  /\ UNCHANGED i

Complete ==
  /\ line = "complete"
  /\ \/ BeginSelecting /\ UNCHANGED line
     \/ CompleteEpoch /\ line' = "done"
  /\ UNCHANGED i

\* evolve_agent or run_attempts_parallel raises, and so do the program and
\* run_epoch.  The other calls of the program are never refused: that is
\* ReplayIsAccepted.
Raise ==
  /\ \/ line = "challenger" /\ Attached = {} /\ status # "building_challenger"
     \/ line = "round" /\ status \notin {"ready", "running"}
  /\ WorkflowRaises
  /\ line' = "off"
  /\ UNCHANGED i

Disrupt ==
  /\ status # "completed"
  /\ Crash \/ StopEpoch
  /\ line' = "off"
  /\ UNCHANGED i

-----------------------------------------------------------------------------
Progress ==
  /\ \/ Begin \/ MakeChallenger \/ FindChallenger \/ PlanPool \/ FreezePool \/ RunRound
     \/ AttemptStep \/ RoundEnds \/ SelectKernel \/ SelectAgent \/ Complete \/ Raise
  /\ UNCHANGED first

ReplayNext == Progress \/ (Disrupt /\ UNCHANGED first)

ReplaySpec == ReplayInit /\ [][ReplayNext]_replayVars

(***************************************************************************)
(* A scheduler that runs goes on, and one that is down is started again by *)
(* its Task or its operator.  Disruptions are finite in number and nothing *)
(* makes them happen.                                                      *)
(***************************************************************************)
FairReplaySpec == ReplaySpec /\ WF_replayVars(Progress)

-----------------------------------------------------------------------------
(* Properties.                                                             *)

\* The service call at `line` recognises what earlier runs have done.
LaunchAccepted(l) ==
  /\ \A r \in Earlier(l.slot) : attempt[r] = "completed"
  /\ ValidKernelInput(l.kernel)
  /\ attempt[l.slot] = "absent" \/ input[l.slot] = l.kernel

PoolAccepted ==
  \/ plan[i] = PoolCapacity
  \/ /\ plan[i] = NoPlan
     /\ status \in {"building_challenger", "ready"}
     /\ Cardinality(PlannedSlots) + Rounds <= Budget

(***************************************************************************)
(* "a Workflow restart replays completed logical rounds idempotently"      *)
(* (docs/protocols.md): wherever earlier runs of the program were cut off, *)
(* no later run has a pool, a launch or a selection refused because the    *)
(* recovered rows differ from what it asks for.                            *)
(***************************************************************************)
ReplayIsAccepted ==
  /\ line = "plan" => pending \/ PoolAccepted
  /\ line = "round" => ValidPlan
  /\ line = "wait" => \A l \in batch : LaunchAccepted(l)
  /\ line = "wait" /\ Serving => \A b \in Pools : attempt[<<b, 1, i>>] = "completed"
  /\ line \in {"select", "compare", "complete"} => SelectionReady
  /\ line = "complete" => MayComplete

(***************************************************************************)
(* The inductive invariant behind ReplayIsAccepted: what the rows that     *)
(* earlier runs of the program left behind look like, and what the running *)
(* one may rely on at each of its lines.                                   *)
(***************************************************************************)

\* The phase of the Epoch, which a stop only sets aside.
Phase == IF status = "stopped" THEN stopRow ELSE status

Line == {"off", "challenger", "plan", "round", "wait", "select", "compare", "complete", "done"}

\* The program runs while its scheduler does, and one service call at a time.
ProgramRuns ==
  /\ first \in BOOLEAN /\ line \in Line /\ i \in Nat
  /\ up <=> line # "off"
  /\ line \notin {"off", "done"} => status \in Open
  /\ line = "done" => status = "completed"
  /\ pending => line = "plan"
  /\ batch \cup active # {} => line = "wait"

\* Only the program has planned: one capacity for all pools, once the
\* Challenger is decided, and no phase after "ready" with a pool missing.
PlansAreItsOwn ==
  /\ status # "failed"
  /\ Attached \subseteq {1}
  /\ \A b \in Branch : plan[b] # NoPlan => b \in Pools /\ plan[b] = PoolCapacity
  /\ Attached = {} /\ Phase \in {"none", "building_challenger"} =>
       \A b \in Branch : plan[b] = NoPlan
  /\ Phase \in {"running", "selecting", "completed"} => \A b \in Pools : plan[b] = PoolCapacity

\* Where the program is, the decisions of its earlier lines stand.
LinesInOrder ==
  /\ line = "challenger" => i = 0
  /\ line \notin {"off", "challenger"} => Attached # {} \/ status # "building_challenger"
  /\ line = "plan" =>
       /\ i \in Pools
       /\ \A b \in Pools : b < i \/ (b = i /\ pending) => plan[b] = PoolCapacity
  /\ line \in {"round", "wait", "select", "compare", "complete"} =>
       /\ i \in 1..Rounds
       /\ \A b \in Pools : plan[b] = PoolCapacity
  /\ line \in {"wait", "select", "compare", "complete"} => status \in {"running", "selecting"}

\* Every Attempt, of whichever run, has the input that the program routes to
\* its round, and the rounds before the present one are over.
RoundsInOrder ==
  /\ \A s \in Present : input[s] = RoutedKernel(s[1], s[3])
  /\ line \in {"round", "wait"} =>
       \A b \in Pools, n \in 1..(i - 1) : attempt[<<b, 1, n>>] = "completed"
  /\ line = "wait" =>
       /\ batch \cup active \subseteq RoundBatch(i)
       /\ \A b \in Pools : \/ attempt[<<b, 1, i>>] = "completed"
                           \/ \E l \in batch \cup active : l.slot = <<b, 1, i>>
  /\ line \in {"select", "compare", "complete"} =>
       \A s \in PlannedSlots : attempt[s] = "completed"

\* What select_best_kernel and compare_agents chose is still the choice.
ChoiceStands ==
  /\ line \in {"compare", "complete"} => chosen.kernel = Fastest(Retained)
  /\ line = "complete" => chosen.branch \in Pools

(***************************************************************************)
(* ReplayInv holds in every state, for every even budget and pool size,    *)
(* wherever and however often the program has been cut off.                *)
(***************************************************************************)
ReplayInv ==
  /\ EpochInv
  /\ ProgramRuns
  /\ PlansAreItsOwn
  /\ LinesInOrder
  /\ RoundsInOrder
  /\ ChoiceStands

\* The two points at which a restarted program can go no further.
CutInSelection == status = "selecting" /\ line # "complete"
CutAfterNoChange == line = "challenger" /\ Attached = {} /\ status # "building_challenger"

(***************************************************************************)
(* The Epoch completes, however often its program is cut off, unless the   *)
(* cut fell inside complete_epoch or after an Evolver's no_change: in all  *)
(* other places run_epoch resumes "from its last committed transition".    *)
(***************************************************************************)
CompletesOrIsCut == <>(status = "completed" \/ CutInSelection \/ CutAfterNoChange)

(***************************************************************************)
(* EpochController: "resume an epoch from its last committed transition":  *)
(* an Epoch whose scheduler is always restarted completes.  Refuted, for a *)
(* Lineage's first Epoch, where no Evolver intervenes: an Epoch left       *)
(* selecting refuses the replayed run_attempts_parallel.                   *)
(***************************************************************************)
EpochCompletes == first => <>(status = "completed")

=============================================================================
