----------------------------- MODULE EpochProofs -----------------------------
(***************************************************************************)
(* TLAPS proofs about Epoch, for every budget, pool size, parallelism and  *)
(* table of latencies, and any number of disruptions.                      *)
(***************************************************************************)
EXTENDS Epoch, FiniteSetTheorems, WellFoundedInduction, TLAPS

(* There are finitely many slots.                                          *)
LEMMA SlotFinite == IsFiniteSet(Slot)
<1> DEFINE Pairs == Branch \X (1..Budget)
           f == [p \in Pairs \X (1..Budget) |-> <<p[1][1], p[1][2], p[2]>>]
<1>1. IsFiniteSet(Pairs \X (1..Budget))
  <2>1. IsFiniteSet(Branch) /\ IsFiniteSet(1..Budget)
    BY EpochConstants, FS_Interval DEF Branch
  <2> QED  BY <2>1, FS_Product
<1>2. ASSUME NEW s \in Slot PROVE \E p \in Pairs \X (1..Budget) : f[p] = s
  <2>1. <<<<s[1], s[2]>>, s[3]>> \in Pairs \X (1..Budget)
    BY DEF Slot
  <2>2. f[<<<<s[1], s[2]>>, s[3]>>] = s
    BY <2>1 DEF Slot
  <2> QED  BY <2>1, <2>2
<1>3. f \in [Pairs \X (1..Budget) -> Slot]
  BY DEF Slot
<1>4. f \in Surjection(Pairs \X (1..Budget), Slot)
  BY <1>2, <1>3 DEF Surjection
<1> QED  BY <1>1, <1>4, FS_Surjection

(* Selection's comparison of counts: a set of present slots within the plan *)
(* that has the plan's size is the plan.                                    *)
LEMMA ReadyIsCovered ==
  ASSUME WithinPlan, SelectionReady
  PROVE  Covered
<1>1. IsFiniteSet(PlannedSlots)
  BY SlotFinite, FS_Subset DEF PlannedSlots
<1>2. Present = PlannedSlots
  BY <1>1, FS_Subset DEF WithinPlan, SelectionReady
<1> QED  BY <1>2 DEF Covered, SelectionReady, ValidPlan

(* A nonempty set of Kernels has a fastest member.                          *)
LEMMA FastestIsFastest ==
  ASSUME NEW K \in SUBSET Kernel, K # {}
  PROVE  /\ Fastest(K) \in K
         /\ \A j \in K : Latency[Fastest(K)] <= Latency[j]
<1> DEFINE T == {Latency[k] : k \in K}
<1>1. T \subseteq Nat /\ T # {}
  BY EpochConstants
<1> DEFINE Less == {ss \in Nat \X Nat : ss[1] < ss[2]}
<1>2. IsWellFoundedOn(Less, Nat)
  BY NatLessThanWellFounded, Zenon DEF OpToRel
<1>3. PICK x \in T : \A y \in T : x <= y
  <2> HIDE DEF T
  <2>1. PICK x \in T : \A y \in T : ~ (<<y, x>> \in Less)
    <3> HIDE DEF Less
    <3> QED  BY <1>1, <1>2, WFMin, Zenon
  <2>2. ASSUME NEW y \in T PROVE x <= y
    <3>1. x \in Nat /\ y \in Nat
      BY <1>1
    <3>2. ~ (y < x)
      BY <2>1, <3>1
    <3> QED  BY <3>1, <3>2
  <2> QED  BY <2>1, <2>2
<1>4. PICK k \in K : Latency[k] = x
  OBVIOUS
<1>5. \A j \in K : Latency[k] <= Latency[j]
  BY <1>3, <1>4
<1> QED  BY <1>4, <1>5 DEF Fastest

(* The choices that the Workflow's surface remembers.                       *)
LEMMA ChoiceTypes ==
  /\ Unchosen \in Choice
  /\ \A ch \in Choice, k \in Kernel : [ch EXCEPT !.kernel = k] \in Choice
  /\ \A ch \in Choice, b \in Branch : [ch EXCEPT !.branch = b] \in Choice
BY EpochConstants DEF Choice, Unchosen, NoBranch, Branch

(* What dies with the scheduler is well typed afterwards.                   *)
LEMMA DownTypes ==
  ASSUME Down
  PROVE  /\ up' \in BOOLEAN /\ planStarted' \in BOOLEAN /\ pending' \in BOOLEAN
         /\ batch' \subseteq Launch /\ active' \subseteq Launch
         /\ chosen' \in Choice
<1>1. up' \in BOOLEAN /\ planStarted' \in BOOLEAN /\ pending' \in BOOLEAN
  BY DEF Down
<1>2. batch' \subseteq Launch /\ active' \subseteq Launch
  BY DEF Down
<1>3. chosen' \in Choice
  BY ChoiceTypes DEF Down
<1> QED  BY <1>1, <1>2, <1>3

(* A step that leaves the plan alone plans the same slots.                  *)
LEMMA PlanFrame == plan' = plan => PlannedSlots' = PlannedSlots
BY DEF PlannedSlots, InCapacity

(* A plan for a Branch that had none keeps every slot planned before.       *)
LEMMA PlanGrows ==
  ASSUME NEW b \in Branch, NEW c, plan \in [Branch -> Capacity], plan[b] = NoPlan,
         plan' = [plan EXCEPT ![b] = c]
  PROVE  PlannedSlots \subseteq PlannedSlots'
<1> SUFFICES ASSUME NEW s \in PlannedSlots PROVE s \in PlannedSlots'
  OBVIOUS
<1>1. s \in Slot /\ s[1] \in Branch /\ s[2] \in 1..Budget
  BY DEF PlannedSlots, Slot
<1>2. s[1] # b
  BY <1>1, EpochConstants DEF PlannedSlots, InCapacity, NoPlan
<1> QED  BY <1>1, <1>2 DEF PlannedSlots, InCapacity

(* A Branch capacity of at least one by one exceeds a budget that is spent. *)
LEMMA ProductPositive ==
  ASSUME NEW t \in Nat \ {0}, NEW a \in Nat \ {0}, NEW n
  PROVE  ~ (n = Budget /\ n + t * a <= Budget)
<1>1. t * a \in Nat \ {0}
  OBVIOUS
<1> QED  BY <1>1, EpochConstants

(* Slots are their own kind of Kernel, and never the starting one.          *)
LEMMA SlotFacts ==
  /\ \A s \in Slot : s \in Kernel /\ s # Start /\ Earlier(s) \subseteq Slot
  /\ Start \in Kernel
  /\ PlannedSlots \subseteq Slot
BY EpochConstants DEF Slot, Kernel, Start, Earlier, PlannedSlots

(* The type invariant is preserved by every step.                           *)
LEMMA EpochTypeStep == TypeOK /\ StoppedIsQuiescent /\ [Next]_vars => TypeOK'
<1> SUFFICES ASSUME TypeOK, StoppedIsQuiescent, [Next]_vars PROVE TypeOK'
  OBVIOUS
<1> USE EpochConstants DEF TypeOK, registry, volatile, EpochStatus, Open, AttemptStatus
<1>1. CASE InsertEpoch
  BY <1>1 DEF InsertEpoch
<1>2. CASE RestartEpoch
  BY <1>2 DEF RestartEpoch
<1>3. CASE ResumeEpoch
  BY <1>3 DEF ResumeEpoch, StoppedIsQuiescent
<1>4. CASE Crash
  BY <1>4, DownTypes DEF Crash
<1>5. ASSUME NEW b \in Branch, ReplicateActive(b) PROVE TypeOK'
  BY <1>5 DEF ReplicateActive, Attach
<1>6. ASSUME NEW b \in Branch, EvolveAgent(b) PROVE TypeOK'
  BY <1>6 DEF EvolveAgent, Attach
<1>7. CASE EvolveNoChange
  BY <1>7 DEF EvolveNoChange
<1>8. CASE RequestSuccessor
  BY <1>8 DEF RequestSuccessor
<1>9. CASE CreateRefused
  BY <1>9 DEF CreateRefused
<1>10. ASSUME NEW b \in Branch, NEW c \in Capacity, CreateTrajectory(b, c) PROVE TypeOK'
  BY <1>10 DEF CreateTrajectory
<1>11. CASE FreezeChallengers
  BY <1>11 DEF FreezeChallengers
<1>12. ASSUME NEW L \in Batches, RunAttempts(L) PROVE TypeOK'
  BY <1>12 DEF RunAttempts, Batches, Launch, PlannedSlots, Present, Kernel
<1>13. ASSUME NEW l \in batch, LaunchNew(l) PROVE TypeOK'
  BY <1>13 DEF LaunchNew, Launch
<1>14. ASSUME NEW l \in batch, LaunchAgain(l) PROVE TypeOK'
  BY <1>14 DEF LaunchAgain
<1>15. ASSUME NEW l \in batch, LaunchRefused(l) PROVE TypeOK'
  BY <1>15 DEF LaunchRefused
<1>16. ASSUME NEW l \in active, AttemptFails(l) PROVE TypeOK'
  BY <1>16 DEF AttemptFails, Launch
<1>17. ASSUME NEW l \in active, AttemptRetried(l) PROVE TypeOK'
  BY <1>17 DEF AttemptRetried, Launch
<1>18. ASSUME NEW l \in active, NEW improved \in BOOLEAN, AttemptCompletes(l, improved) PROVE TypeOK'
  BY <1>18 DEF AttemptCompletes, Launch
<1>19. ASSUME NEW l \in active, LaunchEnds(l) PROVE TypeOK'
  BY <1>19 DEF LaunchEnds
<1>20. CASE SelectBestKernel
  <2>1. Fastest(Retained) \in Kernel
    BY FastestIsFastest DEF Retained, Kernel
  <2> QED  BY <1>20, <2>1, ChoiceTypes DEF SelectBestKernel
<1>21. ASSUME NEW b \in Branch, CompareAgents(b) PROVE TypeOK'
  BY <1>21, ChoiceTypes DEF CompareAgents
<1>22. CASE BeginSelecting
  BY <1>22 DEF BeginSelecting
<1>23. CASE CompleteEpoch
  BY <1>23 DEF CompleteEpoch
<1>24. CASE StopEpoch
  BY <1>24, DownTypes DEF StopEpoch
<1>25. CASE FailEpoch
  BY <1>25, DownTypes DEF FailEpoch
<1>26. ASSUME NEW R \in SUBSET Present, RecoverEpoch(R) PROVE TypeOK'
  BY <1>26 DEF RecoverEpoch
<1>27. CASE UNCHANGED vars
  BY <1>27 DEF vars
<1>28. CASE WorkflowRaises
  BY <1>28, DownTypes DEF WorkflowRaises
<1> QED
    BY <1>1, <1>2, <1>3, <1>4, <1>5, <1>6, <1>7, <1>8, <1>9, <1>10, <1>11, <1>12, <1>13,
     <1>14, <1>15, <1>16, <1>17, <1>18, <1>19, <1>20, <1>21, <1>22, <1>23, <1>24, <1>25,
     <1>26, <1>27, <1>28 DEF Next, Scheduling, Challenging, Planning, Launching, Selecting,
     Disrupting

(* Every step preserves the inductive invariant, one step per action.       *)
LEMMA EpochStep == EpochInv /\ [Next]_vars => EpochInv'
<1> SUFFICES ASSUME EpochInv, [Next]_vars, TypeOK' PROVE EpochInv'
  BY EpochTypeStep DEF EpochInv
<1> USE EpochConstants, SlotFacts DEF EpochInv, TypeOK, SchedulerState, WithinPlan,
        AcceptedCompleted, TrajectoryOrder, InputProvenance, SelectionSettled, LineageAgrees,
        StoppedIsQuiescent, BestIsBest, Present, Covered, Selected, Open, registry, volatile,
        EpochStatus, AttemptStatus, Serving
<1>1. CASE InsertEpoch
  BY <1>1, PlanFrame DEF InsertEpoch
<1>2. CASE RestartEpoch
  BY <1>2, PlanFrame DEF RestartEpoch
<1>3. CASE ResumeEpoch
  BY <1>3, PlanFrame DEF ResumeEpoch
<1>4. CASE Crash
  BY <1>4, PlanFrame DEF Crash, Down
<1>5. ASSUME NEW b \in Branch, ReplicateActive(b) PROVE EpochInv'
  BY <1>5, PlanFrame DEF ReplicateActive, Attach
<1>6. ASSUME NEW b \in Branch, EvolveAgent(b) PROVE EpochInv'
  BY <1>6, PlanFrame DEF EvolveAgent, Attach
<1>7. CASE EvolveNoChange
  BY <1>7, PlanFrame DEF EvolveNoChange
<1>8. CASE RequestSuccessor
  BY <1>8, PlanFrame DEF RequestSuccessor
<1>9. CASE CreateRefused
  BY <1>9, PlanFrame DEF CreateRefused
<1>10. ASSUME NEW b \in Branch, NEW c \in Capacity, CreateTrajectory(b, c) PROVE EpochInv'
  <2>1. CASE plan[b] = c
    <3>1. plan' = plan
      BY <1>10, <2>1 DEF CreateTrajectory
    <3> QED  BY <1>10, <3>1, PlanFrame DEF CreateTrajectory
  <2>2. CASE plan[b] # c
    <3>1. /\ plan[b] = NoPlan
          /\ Cardinality(PlannedSlots) + c.trajectories * c.attempts <= Budget
          /\ c.trajectories \in Nat \ {0} /\ c.attempts \in Nat \ {0}
          /\ plan' = [plan EXCEPT ![b] = c]
      BY <1>10, <2>2 DEF CreateTrajectory, Capacity
    <3>2. PlannedSlots \subseteq PlannedSlots'
      BY <3>1, PlanGrows
    <3>3. Cardinality(PlannedSlots) # Budget
      BY <3>1, ProductPositive
    <3> QED  BY <1>10, <3>2, <3>3 DEF CreateTrajectory
  <2> QED  BY <2>1, <2>2
<1>11. CASE FreezeChallengers
  BY <1>11, PlanFrame DEF FreezeChallengers
<1>12. ASSUME NEW L \in Batches, RunAttempts(L) PROVE EpochInv'
  BY <1>12, PlanFrame DEF RunAttempts, Serving, Batches
<1>13. ASSUME NEW l \in batch, LaunchNew(l) PROVE EpochInv'
  BY <1>13, PlanFrame DEF LaunchNew, MayRun, ValidKernelInput, Launch
<1>14. ASSUME NEW l \in batch, LaunchAgain(l) PROVE EpochInv'
  BY <1>14, PlanFrame DEF LaunchAgain, MayRun, Launch
<1>15. ASSUME NEW l \in batch, LaunchRefused(l) PROVE EpochInv'
  BY <1>15, PlanFrame DEF LaunchRefused
<1>16. ASSUME NEW l \in active, AttemptFails(l) PROVE EpochInv'
  BY <1>16, PlanFrame DEF AttemptFails
<1>17. ASSUME NEW l \in active, AttemptRetried(l) PROVE EpochInv'
  BY <1>17, PlanFrame DEF AttemptRetried
<1>18. ASSUME NEW l \in active, NEW improved \in BOOLEAN, AttemptCompletes(l, improved) PROVE EpochInv'
  BY <1>18, PlanFrame DEF AttemptCompletes
<1>19. ASSUME NEW l \in active, LaunchEnds(l) PROVE EpochInv'
  BY <1>19, PlanFrame DEF LaunchEnds
<1>20. CASE SelectBestKernel
  BY <1>20, PlanFrame, ReadyIsCovered DEF SelectBestKernel
<1>21. ASSUME NEW b \in Branch, CompareAgents(b) PROVE EpochInv'
  BY <1>21, PlanFrame, ReadyIsCovered DEF CompareAgents
<1>22. CASE BeginSelecting
  <2>1. chosen # Unchosen
    BY <1>22 DEF BeginSelecting, MayComplete, Unchosen
  <2> QED  BY <1>22, <2>1, PlanFrame DEF BeginSelecting, MayComplete
<1>23. CASE CompleteEpoch
  <2>1. Retained \in SUBSET Kernel /\ Retained # {}
    BY DEF Retained, Kernel
  <2>2. \A k \in {Start} \cup accepted : Latency[chosen.kernel] <= Latency[k]
    BY <1>23, <2>1, FastestIsFastest DEF CompleteEpoch, MayComplete, Retained
  <2> QED  BY <1>23, <2>2, PlanFrame DEF CompleteEpoch, MayComplete
<1>24. CASE StopEpoch
  BY <1>24, PlanFrame DEF StopEpoch, Down
<1>25. CASE FailEpoch
  BY <1>25, PlanFrame DEF FailEpoch, Down
<1>26. ASSUME NEW R \in SUBSET Present, RecoverEpoch(R) PROVE EpochInv'
  BY <1>26, PlanFrame DEF RecoverEpoch
<1>27. CASE UNCHANGED vars
  BY <1>27, PlanFrame DEF vars
<1>28. CASE WorkflowRaises
  BY <1>28, PlanFrame DEF WorkflowRaises, Down
<1> QED
    BY <1>1, <1>2, <1>3, <1>4, <1>5, <1>6, <1>7, <1>8, <1>9, <1>10, <1>11, <1>12, <1>13,
     <1>14, <1>15, <1>16, <1>17, <1>18, <1>19, <1>20, <1>21, <1>22, <1>23, <1>24, <1>25,
     <1>26, <1>27, <1>28 DEF Next, Scheduling, Challenging, Planning, Launching, Selecting,
     Disrupting

(* The initial state satisfies the invariant.                               *)
LEMMA EpochInit == Init => EpochInv
<1> SUFFICES ASSUME Init PROVE EpochInv
  OBVIOUS
<1> USE EpochConstants, SlotFacts DEF Init
<1>1. /\ challengers \in [Branch -> {"none", "replica", "evolver"}]
      /\ plan \in [Branch -> Capacity]
      /\ attempt \in [Slot -> AttemptStatus]
      /\ input \in [Slot -> Kernel]
      /\ selection \in Choice /\ chosen \in Choice
  BY ChoiceTypes DEF Capacity, NoPlan, AttemptStatus
<1>2. TypeOK
  BY <1>1 DEF TypeOK, EpochStatus, Open
<1>3. Present = {}
  BY DEF Present
<1>4. SchedulerState
  BY DEF SchedulerState
<1>5. WithinPlan /\ AcceptedCompleted /\ TrajectoryOrder /\ InputProvenance
  BY <1>3 DEF WithinPlan, AcceptedCompleted, TrajectoryOrder, InputProvenance
<1>6. LineageAgrees
  BY DEF LineageAgrees, Open
<1>7. SelectionSettled
  BY DEF SelectionSettled, Selected
<1>8. BestIsBest
  BY DEF BestIsBest
<1>9. StoppedIsQuiescent
  BY DEF StoppedIsQuiescent
<1> QED  BY <1>2, <1>4, <1>5, <1>6, <1>7, <1>8, <1>9 DEF EpochInv

(* The Registry and the scheduler of an Epoch keep EpochInv: types, plans,  *)
(* order of Trajectories, provenance of inputs, agreement with the Lineage  *)
(* row, quiescence when stopped, and the fastest Kernel on completion.      *)
THEOREM EpochSafety == Spec => []EpochInv
BY EpochInit, EpochStep, PTL DEF Spec

(* No Epoch selects before exactly its budget of Attempts has completed.    *)
THEOREM EpochCoversBudget == Spec => []SelectionCoversBudget
<1>1. EpochInv => SelectionCoversBudget
  BY DEF EpochInv, SelectionSettled, SelectionCoversBudget, Covered
<1> QED  BY <1>1, EpochSafety, PTL

(* A completed Epoch hands over the fastest Kernel it accepted.             *)
THEOREM EpochBestIsBest == Spec => []BestIsBest
<1>1. EpochInv => BestIsBest
  BY DEF EpochInv
<1> QED  BY <1>1, EpochSafety, PTL

(* Attempts of one Trajectory never overlap: one that has a row comes after  *)
(* completed ones only, wherever batches are cut off.                       *)
THEOREM EpochTrajectoryOrder == Spec => []TrajectoryOrder
<1>1. EpochInv => TrajectoryOrder
  BY DEF EpochInv
<1> QED  BY <1>1, EpochSafety, PTL

(* Every input of an Attempt is and stays an accepted Kernel of the Epoch,  *)
(* or its start.                                                            *)
THEOREM EpochInputProvenance == Spec => []InputProvenance
<1>1. EpochInv => InputProvenance
  BY DEF EpochInv
<1> QED  BY <1>1, EpochSafety, PTL

(* Every step keeps completed Attempts, acceptances, inputs and plans.      *)
LEMMA KeptStep == EpochInv /\ [Next]_vars => WorkKept
<1> SUFFICES ASSUME EpochInv, [Next]_vars PROVE WorkKept
  OBVIOUS
<1> USE DEF EpochInv, TypeOK, SchedulerState, StoppedIsQuiescent, Present, registry, volatile, WorkKept
<1>1. CASE InsertEpoch
  BY <1>1 DEF InsertEpoch
<1>2. CASE RestartEpoch
  BY <1>2 DEF RestartEpoch
<1>3. CASE ResumeEpoch
  BY <1>3 DEF ResumeEpoch
<1>4. CASE Crash
  BY <1>4 DEF Crash
<1>5. ASSUME NEW b \in Branch, ReplicateActive(b) PROVE WorkKept
  BY <1>5 DEF ReplicateActive, Attach
<1>6. ASSUME NEW b \in Branch, EvolveAgent(b) PROVE WorkKept
  BY <1>6 DEF EvolveAgent, Attach
<1>7. CASE EvolveNoChange
  BY <1>7 DEF EvolveNoChange
<1>8. CASE RequestSuccessor
  BY <1>8 DEF RequestSuccessor
<1>9. CASE CreateRefused
  BY <1>9 DEF CreateRefused
<1>10. ASSUME NEW b \in Branch, NEW c \in Capacity, CreateTrajectory(b, c) PROVE WorkKept
  BY <1>10 DEF CreateTrajectory
<1>11. CASE FreezeChallengers
  BY <1>11 DEF FreezeChallengers
<1>12. ASSUME NEW L \in Batches, RunAttempts(L) PROVE WorkKept
  BY <1>12 DEF RunAttempts
<1>13. ASSUME NEW l \in batch, LaunchNew(l) PROVE WorkKept
  BY <1>13 DEF LaunchNew
<1>14. ASSUME NEW l \in batch, LaunchAgain(l) PROVE WorkKept
  BY <1>14 DEF LaunchAgain
<1>15. ASSUME NEW l \in batch, LaunchRefused(l) PROVE WorkKept
  BY <1>15 DEF LaunchRefused
<1>16. ASSUME NEW l \in active, AttemptFails(l) PROVE WorkKept
  BY <1>16 DEF AttemptFails
<1>17. ASSUME NEW l \in active, AttemptRetried(l) PROVE WorkKept
  BY <1>17 DEF AttemptRetried
<1>18. ASSUME NEW l \in active, NEW improved \in BOOLEAN, AttemptCompletes(l, improved) PROVE WorkKept
  BY <1>18 DEF AttemptCompletes
<1>19. ASSUME NEW l \in active, LaunchEnds(l) PROVE WorkKept
  BY <1>19 DEF LaunchEnds
<1>20. CASE SelectBestKernel
  BY <1>20 DEF SelectBestKernel
<1>21. ASSUME NEW b \in Branch, CompareAgents(b) PROVE WorkKept
  BY <1>21 DEF CompareAgents
<1>22. CASE BeginSelecting
  BY <1>22 DEF BeginSelecting
<1>23. CASE CompleteEpoch
  BY <1>23 DEF CompleteEpoch
<1>24. CASE StopEpoch
  BY <1>24 DEF StopEpoch
<1>25. CASE FailEpoch
  BY <1>25 DEF FailEpoch
<1>26. ASSUME NEW R \in SUBSET Present, RecoverEpoch(R) PROVE WorkKept
  BY <1>26 DEF RecoverEpoch
<1>27. CASE UNCHANGED vars
  BY <1>27 DEF vars
<1>28. CASE WorkflowRaises
  BY <1>28 DEF WorkflowRaises
<1> QED
    BY <1>1, <1>2, <1>3, <1>4, <1>5, <1>6, <1>7, <1>8, <1>9, <1>10, <1>11, <1>12, <1>13,
     <1>14, <1>15, <1>16, <1>17, <1>18, <1>19, <1>20, <1>21, <1>22, <1>23, <1>24, <1>25,
     <1>26, <1>27, <1>28 DEF Next, Scheduling, Challenging, Planning, Launching, Selecting,
     Disrupting

(* Stops, crashes, failures and recoveries never undo paid work.            *)
THEOREM EpochWorkIsKept == Spec => WorkIsKept
<1>1. EpochInv /\ [Next]_vars => WorkKept
  BY KeptStep
<1> QED  BY <1>1, EpochSafety, PTL DEF Spec, WorkIsKept

(* Every step leaves the rows of a completed Epoch alone.                   *)
LEMMA FinalStep == EpochInv /\ [Next]_vars /\ status = "completed" => UNCHANGED registry
<1> SUFFICES ASSUME EpochInv, [Next]_vars, status = "completed" PROVE UNCHANGED registry
  OBVIOUS
<1> USE DEF EpochInv, TypeOK, SchedulerState, StoppedIsQuiescent, LineageAgrees, Open, registry,
        volatile
<1>1. CASE InsertEpoch
  BY <1>1 DEF InsertEpoch
<1>2. CASE RestartEpoch
  BY <1>2 DEF RestartEpoch
<1>3. CASE ResumeEpoch
  BY <1>3 DEF ResumeEpoch
<1>4. CASE Crash
  BY <1>4 DEF Crash
<1>5. ASSUME NEW b \in Branch, ReplicateActive(b) PROVE UNCHANGED registry
  BY <1>5 DEF ReplicateActive, Attach
<1>6. ASSUME NEW b \in Branch, EvolveAgent(b) PROVE UNCHANGED registry
  BY <1>6 DEF EvolveAgent, Attach
<1>7. CASE EvolveNoChange
  BY <1>7 DEF EvolveNoChange
<1>8. CASE RequestSuccessor
  BY <1>8 DEF RequestSuccessor
<1>9. CASE CreateRefused
  BY <1>9 DEF CreateRefused
<1>10. ASSUME NEW b \in Branch, NEW c \in Capacity, CreateTrajectory(b, c) PROVE UNCHANGED registry
  <2>1. plan' = plan
    BY <1>10 DEF CreateTrajectory
  <2> QED  BY <1>10, <2>1 DEF CreateTrajectory
<1>11. CASE FreezeChallengers
  BY <1>11 DEF FreezeChallengers
<1>12. ASSUME NEW L \in Batches, RunAttempts(L) PROVE UNCHANGED registry
  BY <1>12 DEF RunAttempts
<1>13. ASSUME NEW l \in batch, LaunchNew(l) PROVE UNCHANGED registry
  BY <1>13 DEF LaunchNew
<1>14. ASSUME NEW l \in batch, LaunchAgain(l) PROVE UNCHANGED registry
  BY <1>14 DEF LaunchAgain
<1>15. ASSUME NEW l \in batch, LaunchRefused(l) PROVE UNCHANGED registry
  BY <1>15 DEF LaunchRefused
<1>16. ASSUME NEW l \in active, AttemptFails(l) PROVE UNCHANGED registry
  BY <1>16 DEF AttemptFails
<1>17. ASSUME NEW l \in active, AttemptRetried(l) PROVE UNCHANGED registry
  BY <1>17 DEF AttemptRetried
<1>18. ASSUME NEW l \in active, NEW improved \in BOOLEAN, AttemptCompletes(l, improved) PROVE UNCHANGED registry
  BY <1>18 DEF AttemptCompletes
<1>19. ASSUME NEW l \in active, LaunchEnds(l) PROVE UNCHANGED registry
  BY <1>19 DEF LaunchEnds
<1>20. CASE SelectBestKernel
  BY <1>20 DEF SelectBestKernel
<1>21. ASSUME NEW b \in Branch, CompareAgents(b) PROVE UNCHANGED registry
  BY <1>21 DEF CompareAgents
<1>22. CASE BeginSelecting
  BY <1>22 DEF BeginSelecting
<1>23. CASE CompleteEpoch
  BY <1>23 DEF CompleteEpoch
<1>24. CASE StopEpoch
  BY <1>24 DEF StopEpoch
<1>25. CASE FailEpoch
  BY <1>25 DEF FailEpoch
<1>26. ASSUME NEW R \in SUBSET Present, RecoverEpoch(R) PROVE UNCHANGED registry
  BY <1>26 DEF RecoverEpoch
<1>27. CASE UNCHANGED vars
  BY <1>27 DEF vars
<1>28. CASE WorkflowRaises
  BY <1>28 DEF WorkflowRaises
<1> QED
    BY <1>1, <1>2, <1>3, <1>4, <1>5, <1>6, <1>7, <1>8, <1>9, <1>10, <1>11, <1>12, <1>13,
     <1>14, <1>15, <1>16, <1>17, <1>18, <1>19, <1>20, <1>21, <1>22, <1>23, <1>24, <1>25,
     <1>26, <1>27, <1>28 DEF Next, Scheduling, Challenging, Planning, Launching, Selecting,
     Disrupting

(* A completed Epoch is final.                                              *)
THEOREM EpochCompletedIsFinal == Spec => CompletedEpochIsFinal
<1>1. EpochInv /\ [Next]_vars => (status = "completed" => UNCHANGED registry)
  BY FinalStep
<1> QED  BY <1>1, EpochSafety, PTL DEF Spec, CompletedEpochIsFinal

=============================================================================
