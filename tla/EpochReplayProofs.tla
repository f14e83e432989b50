-------------------------- MODULE EpochReplayProofs --------------------------
(***************************************************************************)
(* TLAPS proofs about EpochReplay, for every even budget, pool size,       *)
(* parallelism and table of latencies, and any number of disruptions: the  *)
(* Workflow program uses the services of an Epoch as module Epoch offers   *)
(* them, and none of its replayed calls is refused for what it recovered.  *)
(***************************************************************************)
EXTENDS EpochReplay, EpochProofs

(* The program divides the budget evenly and plans real Branches.           *)
LEMMA PoolFacts ==
  /\ Rounds \in 1..Budget
  /\ PoolCapacity \in Capacity /\ PoolCapacity # NoPlan
  /\ PoolCapacity.trajectories = 1 /\ PoolCapacity.attempts = Rounds
  /\ 0 \in Pools /\ Pools \subseteq Branch /\ Pools \subseteq {0, 1}
  /\ Attached = {} => Rounds = Budget /\ Pools = {0}
  /\ Attached # {} => Rounds + Rounds = Budget /\ Pools = {0, 1}
<1>1. /\ Rounds \in 1..Budget
      /\ Attached = {} => Rounds = Budget
      /\ Attached # {} => Rounds + Rounds = Budget
  BY EpochConstants, ReplayConstants DEF Rounds
<1>2. PoolCapacity \in Capacity /\ PoolCapacity # NoPlan
  BY <1>1, EpochConstants DEF PoolCapacity, Capacity, NoPlan
<1>3. PoolCapacity.trajectories = 1 /\ PoolCapacity.attempts = Rounds
  BY DEF PoolCapacity
<1>4. /\ 0 \in Pools /\ Pools \subseteq Branch /\ Pools \subseteq {0, 1}
      /\ Attached = {} => Pools = {0}
      /\ Attached # {} => Pools = {0, 1}
  BY EpochConstants, ReplayConstants DEF Pools, Branch
<1> QED  BY <1>1, <1>2, <1>3, <1>4

(* The slots of one pool.                                                   *)
PoolSlots(b) == {<<b, 1, n>> : n \in 1..Rounds}

(* A pool has one slot per round.                                           *)
LEMMA PoolSize ==
  ASSUME NEW b
  PROVE  IsFiniteSet(PoolSlots(b)) /\ Cardinality(PoolSlots(b)) = Rounds
<1> DEFINE f == [n \in 1..Rounds |-> <<b, 1, n>>]
<1>1. Rounds \in Nat /\ Rounds > 0
  BY PoolFacts, EpochConstants
<1>2. IsFiniteSet(1..Rounds) /\ Cardinality(1..Rounds) = Rounds
  BY <1>1, FS_Interval
<1>3. f \in Bijection(1..Rounds, PoolSlots(b))
  BY DEF Bijection, Injection, IsInjective, Surjection, PoolSlots
<1>4. ExistsBijection(1..Rounds, PoolSlots(b))
  BY <1>3 DEF ExistsBijection
<1> QED  BY <1>2, <1>4, FS_Bijection

(* The planned slots are those of the pools that have their plan.           *)
LEMMA PlannedIsPools ==
  ASSUME TypeOK, PlansAreItsOwn, NEW s
  PROVE  s \in PlannedSlots <=> \E b \in Pools : plan[b] = PoolCapacity /\ s \in PoolSlots(b)
<1>1. ASSUME s \in PlannedSlots
      PROVE  \E b \in Pools : plan[b] = PoolCapacity /\ s \in PoolSlots(b)
  <2>1. /\ s \in Slot /\ s[1] \in Branch /\ s[2] \in 1..Budget /\ s[3] \in 1..Budget
        /\ s = <<s[1], s[2], s[3]>>
        /\ s[2] <= plan[s[1]].trajectories /\ s[3] <= plan[s[1]].attempts
    BY <1>1 DEF PlannedSlots, InCapacity, Slot
  <2>2. plan[s[1]] # NoPlan
    BY <2>1, EpochConstants DEF NoPlan
  <2>3. s[1] \in Pools /\ plan[s[1]] = PoolCapacity
    BY <2>1, <2>2 DEF PlansAreItsOwn
  <2>4. s[2] = 1 /\ s[3] \in 1..Rounds
    BY <2>1, <2>3, PoolFacts, EpochConstants
  <2> QED  BY <2>1, <2>3, <2>4 DEF PoolSlots
<1>2. ASSUME NEW b \in Pools, plan[b] = PoolCapacity, s \in PoolSlots(b)
      PROVE  s \in PlannedSlots
  <2>1. PICK n \in 1..Rounds : s = <<b, 1, n>>
    BY <1>2 DEF PoolSlots
  <2>2. s \in Slot
    BY <2>1, PoolFacts, EpochConstants DEF Slot
  <2> QED  BY <2>1, <2>2, <1>2, PoolFacts, EpochConstants DEF PlannedSlots, InCapacity
<1> QED  BY <1>1, <1>2

(* How much of the budget is planned: one pool at a time.                   *)
LEMMA PlannedSize ==
  ASSUME TypeOK, PlansAreItsOwn
  PROVE  /\ (\A b \in Pools : plan[b] = PoolCapacity) => Cardinality(PlannedSlots) = Budget
         /\ \A b \in Pools : plan[b] = NoPlan => Cardinality(PlannedSlots) + Rounds <= Budget
<1>1. \A b \in Pools : plan[b] \in {NoPlan, PoolCapacity}
  BY PoolFacts DEF PlansAreItsOwn
<1>2. CASE Attached = {}
  <2>1. CASE plan[0] = PoolCapacity
    <3>1. PlannedSlots = PoolSlots(0)
      BY <1>2, <2>1, PlannedIsPools, PoolFacts
    <3> QED  BY <1>2, <2>1, <3>1, PoolSize, PoolFacts
  <2>2. CASE plan[0] # PoolCapacity
    <3>1. PlannedSlots = {}
      BY <1>2, <2>2, PlannedIsPools, PoolFacts
    <3> QED  BY <1>2, <2>2, <3>1, FS_EmptySet, PoolFacts, EpochConstants
  <2> QED  BY <2>1, <2>2
<1>3. CASE Attached # {}
  <2>0. Pools = {0, 1} /\ Rounds + Rounds = Budget /\ Rounds \in Nat
    BY <1>3, PoolFacts, EpochConstants
  <2>1. CASE plan[0] = PoolCapacity /\ plan[1] = PoolCapacity
    <3>1. PlannedSlots = PoolSlots(0) \cup PoolSlots(1)
      BY <2>0, <2>1, PlannedIsPools
    <3>2. PoolSlots(0) \cap PoolSlots(1) = {}
      BY DEF PoolSlots
    <3>3. Cardinality(PlannedSlots) = Rounds + Rounds - 0
      BY <3>1, <3>2, PoolSize, FS_Union, FS_EmptySet
    <3> QED  BY <2>0, <2>1, <3>3, PoolFacts
  <2>2. CASE plan[0] # PoolCapacity /\ plan[1] # PoolCapacity
    <3>1. PlannedSlots = {}
      BY <2>0, <2>2, PlannedIsPools
    <3> QED  BY <2>0, <2>2, <3>1, FS_EmptySet
  <2>3. ASSUME NEW b \in {0, 1}, NEW d \in {0, 1}, b # d,
               plan[b] = PoolCapacity, plan[d] # PoolCapacity
        PROVE  Cardinality(PlannedSlots) = Rounds
    <3>1. ASSUME NEW s PROVE s \in PlannedSlots <=> s \in PoolSlots(b)
      <4>1. \A e \in Pools : plan[e] = PoolCapacity <=> e = b
        BY <2>0, <2>3
      <4> QED  BY <4>1, <2>0, <2>3, PlannedIsPools
    <3>2. PlannedSlots = PoolSlots(b)
      BY <3>1
    <3> QED  BY <3>2, PoolSize
  <2> QED  BY <2>0, <2>1, <2>2, <2>3
<1> QED  BY <1>2, <1>3

(* A planned program has a valid plan.                                      *)
LEMMA ProgramPlanIsValid ==
  ASSUME TypeOK, PlansAreItsOwn, \A b \in Pools : plan[b] = PoolCapacity
  PROVE  ValidPlan
<1>1. Cardinality(PlannedSlots) = Budget
  BY PlannedSize
<1>2. \E b \in Branch : plan[b] # NoPlan
  BY PoolFacts
<1>3. ASSUME NEW b \in Branch \ {0}, plan[b] # NoPlan PROVE b \in Attached
  <2>1. b \in Pools
    BY <1>3 DEF PlansAreItsOwn
  <2>2. Attached # {} /\ Attached \subseteq {1} /\ b = 1
    BY <1>3, <2>1, PoolFacts DEF PlansAreItsOwn
  <2> QED  BY <2>2
<1> QED  BY <1>1, <1>2, <1>3 DEF ValidPlan

(* The slot of a round is planned, and the rounds before it are its earlier *)
(* Attempts.                                                                *)
LEMMA RoundSlot ==
  ASSUME NEW b \in Pools, NEW n \in 1..Rounds
  PROVE  /\ <<b, 1, n>> \in Slot
         /\ \A r \in Earlier(<<b, 1, n>>) : \E m \in 1..(n - 1) : r = <<b, 1, m>>
         /\ n # 1 => <<b, 1, n - 1>> \in Earlier(<<b, 1, n>>)
<1>1. Rounds \in 1..Budget /\ b \in Branch /\ Budget \in Nat /\ b \in {0, 1}
  BY PoolFacts, EpochConstants
<1>2. <<b, 1, n>> \in Slot
  BY <1>1 DEF Slot
<1>3. ASSUME NEW r \in Earlier(<<b, 1, n>>) PROVE \E m \in 1..(n - 1) : r = <<b, 1, m>>
  <2>1. r = <<r[1], r[2], r[3]>> /\ r[1] = b /\ r[2] = 1 /\ r[3] < n /\ r[3] \in 1..Budget
    BY <1>3 DEF Earlier, Slot
  <2>2. r[3] \in 1..(n - 1)
    BY <2>1, <1>1
  <2> QED  BY <2>1, <2>2
<1>4. n # 1 => <<b, 1, n - 1>> \in Earlier(<<b, 1, n>>)
  BY <1>1 DEF Earlier, Slot
<1> QED  BY <1>2, <1>3, <1>4

(* What the program routes to a round, once the rounds before it are over,  *)
(* is a Kernel that may be an input.                                        *)
LEMMA RouteIsValid ==
  ASSUME EpochInv, NEW b \in Pools, NEW n \in 1..Rounds,
         \A m \in 1..(n - 1) : attempt[<<b, 1, m>>] = "completed"
  PROVE  /\ ValidKernelInput(RoutedKernel(b, n))
         /\ RoutedKernel(b, n) \in {Start} \cup Present
<1>1. CASE n = 1
  BY <1>1 DEF RoutedKernel, ValidKernelInput
<1>2. CASE n # 1
  <2> DEFINE p == <<b, 1, n - 1>>
  <2>1. p \in Slot /\ n - 1 \in 1..(n - 1)
    <3>1. n - 1 \in 1..Rounds /\ n - 1 \in 1..(n - 1)
      BY <1>2, PoolFacts, EpochConstants
    <3> QED  BY <3>1, RoundSlot
  <2>2. attempt[p] = "completed" /\ p \in Present
    BY <2>1 DEF Present
  <2>3. RoutedKernel(b, n) = IF p \in accepted THEN p ELSE input[p]
    BY <1>2 DEF RoutedKernel
  <2>4. input[p] = Start \/ (input[p] \in accepted /\ attempt[input[p]] = "completed")
    BY <2>2 DEF EpochInv, InputProvenance
  <2>5. accepted \subseteq Slot
    BY DEF EpochInv, TypeOK
  <2> QED  BY <2>2, <2>3, <2>4, <2>5 DEF ValidKernelInput, Present
<1> QED  BY <1>1, <1>2

(* The Attempts of a round are a batch that the service accepts.            *)
LEMMA RoundIsBatch ==
  ASSUME ReplayInv, line = "round"
  PROVE  RoundBatch(i) \in Batches
<1>0. TypeOK /\ PlansAreItsOwn /\ EpochInv /\ i \in 1..Rounds
  BY DEF ReplayInv, EpochInv, LinesInOrder
<1>1. ASSUME NEW b \in Pools
      PROVE  <<b, 1, i>> \in PlannedSlots /\ RoutedKernel(b, i) \in {Start} \cup Present
  <2>1. <<b, 1, i>> \in PoolSlots(b) /\ plan[b] = PoolCapacity
    BY <1>0 DEF PoolSlots, ReplayInv, LinesInOrder
  <2>2. <<b, 1, i>> \in PlannedSlots
    BY <1>0, <2>1, PlannedIsPools
  <2>3. \A m \in 1..(i - 1) : attempt[<<b, 1, m>>] = "completed"
    BY DEF ReplayInv, RoundsInOrder
  <2> QED  BY <1>0, <2>2, <2>3, RouteIsValid
<1>2. RoundBatch(i) \subseteq [slot : PlannedSlots, kernel : {Start} \cup Present]
  BY <1>1 DEF RoundBatch
<1>3. ASSUME NEW l \in RoundBatch(i), NEW m \in RoundBatch(i),
             <<l.slot[1], l.slot[2]>> = <<m.slot[1], m.slot[2]>>
      PROVE  l = m
  <2>1. PICK b \in Pools : l = [slot |-> <<b, 1, i>>, kernel |-> RoutedKernel(b, i)]
    BY DEF RoundBatch
  <2>2. PICK d \in Pools : m = [slot |-> <<d, 1, i>>, kernel |-> RoutedKernel(d, i)]
    BY DEF RoundBatch
  <2>3. b = d
    BY <1>3, <2>1, <2>2
  <2> QED  BY <2>1, <2>2, <2>3
<1> QED  BY <1>2, <1>3 DEF Batches

(* A step of the program is a step of the Epoch, or leaves it alone.        *)
LEMMA ReplayStepIsEpochStep ==
  ASSUME ReplayInv, [ReplayNext]_replayVars
  PROVE  [Next]_vars
<1> USE DEF Next, Scheduling, Challenging, Planning, Launching, Selecting, Disrupting
<1>1. CASE Begin
  BY <1>1 DEF Begin
<1>2. CASE MakeChallenger
  <2>1. 1 \in Branch
    BY EpochConstants, ReplayConstants DEF Branch
  <2> QED  BY <1>2, <2>1 DEF MakeChallenger
<1>3. CASE FindChallenger
  BY <1>3 DEF FindChallenger
<1>4. CASE PlanPool
  <2>1. i \in Branch /\ PoolCapacity \in Capacity
    BY <1>4, PoolFacts DEF PlanPool, ReplayInv, LinesInOrder
  <2> QED  BY <1>4, <2>1 DEF PlanPool
<1>5. CASE FreezePool
  BY <1>5 DEF FreezePool
<1>6. CASE RunRound
  BY <1>6, RoundIsBatch DEF RunRound
<1>7. CASE AttemptStep
  BY <1>7 DEF AttemptStep
<1>8. CASE RoundEnds
  BY <1>8 DEF RoundEnds
<1>9. CASE SelectKernel
  BY <1>9 DEF SelectKernel
<1>10. CASE SelectAgent
  BY <1>10, PoolFacts DEF SelectAgent
<1>11. CASE Complete
  BY <1>11 DEF Complete
<1>12. CASE Raise
  BY <1>12 DEF Raise
<1>13. CASE Disrupt
  BY <1>13 DEF Disrupt
<1>14. CASE UNCHANGED replayVars
  BY <1>14 DEF replayVars
<1> QED  BY <1>1, <1>2, <1>3, <1>4, <1>5, <1>6, <1>7, <1>8, <1>9, <1>10, <1>11, <1>12,
            <1>13, <1>14 DEF ReplayNext, Progress

(* What the program plans depends on the Challengers only.                  *)
LEMMA PoolsFrame ==
  challengers' = challengers =>
    /\ Attached' = Attached /\ Pools' = Pools /\ Rounds' = Rounds
    /\ PoolCapacity' = PoolCapacity
<1>1. challengers' = challengers => Attached' = Attached
  BY DEF Attached
<1> QED  BY <1>1 DEF Pools, Rounds, PoolCapacity

(* The Kernel routed to a round stands once the round before it is over.    *)
LEMMA RouteStands ==
  ASSUME TypeOK, WorkKept, NEW b \in Pools, NEW n \in 1..Rounds,
         n # 1 => attempt[<<b, 1, n - 1>>] = "completed",
         \A s \in Slot : attempt[s] = "completed" => (s \in accepted' <=> s \in accepted)
  PROVE  RoutedKernel(b, n)' = RoutedKernel(b, n)
<1>1. CASE n = 1
  BY <1>1 DEF RoutedKernel
<1>2. CASE n # 1
  <2>1. <<b, 1, n - 1>> \in Slot
    BY <1>2, RoundSlot DEF Earlier
  <2>2. input'[<<b, 1, n - 1>>] = input[<<b, 1, n - 1>>]
    BY <1>2, <2>1 DEF WorkKept, Present
  <2> QED  BY <1>2, <2>1, <2>2 DEF RoutedKernel
<1> QED  BY <1>1, <1>2

(* An Attempt that has a row lies in a pool.                                *)
LEMMA PresentInPool ==
  ASSUME ReplayInv, NEW s \in Present
  PROVE  /\ s[1] \in Pools /\ s[3] \in 1..Rounds /\ s = <<s[1], 1, s[3]>>
         /\ s[3] # 1 => attempt[<<s[1], 1, s[3] - 1>>] = "completed"
<1>1. PICK b \in Pools : s \in PoolSlots(b)
  BY PlannedIsPools DEF ReplayInv, EpochInv, WithinPlan
<1>2. PICK n \in 1..Rounds : s = <<b, 1, n>>
  BY <1>1 DEF PoolSlots
<1>3. n # 1 => <<b, 1, n - 1>> \in Earlier(s)
  BY <1>2, RoundSlot
<1> QED  BY <1>2, <1>3 DEF ReplayInv, EpochInv, TrajectoryOrder

(* Inputs stay as they are routed in every step that creates no Attempt.    *)
LEMMA InputsStand ==
  ASSUME ReplayInv, WorkKept, Present' = Present,
         \A s \in Slot : attempt[s] = "completed" => (s \in accepted' <=> s \in accepted)
  PROVE  (\A s \in Present : input[s] = RoutedKernel(s[1], s[3]))'
<1> SUFFICES ASSUME NEW s \in Present PROVE input'[s] = RoutedKernel(s[1], s[3])'
  OBVIOUS
<1>1. input'[s] = input[s] /\ input[s] = RoutedKernel(s[1], s[3])
  BY DEF WorkKept, ReplayInv, RoundsInOrder
<1>2. TypeOK
  BY DEF ReplayInv, EpochInv
<1> QED  BY <1>1, <1>2, PresentInPool, RouteStands

(* The initial state satisfies the invariant.                               *)
LEMMA ReplayInitially == ReplayInit => ReplayInv
<1> SUFFICES ASSUME ReplayInit PROVE ReplayInv
  OBVIOUS
<1>1. EpochInv
  BY EpochInit DEF ReplayInit
<1>2. ProgramRuns
  BY DEF ReplayInit, Init, ProgramRuns, Line
<1>3. PlansAreItsOwn
  BY DEF ReplayInit, Init, PlansAreItsOwn, Phase, Attached
<1>4. LinesInOrder /\ RoundsInOrder /\ ChoiceStands
  BY DEF ReplayInit, Init, LinesInOrder, RoundsInOrder, ChoiceStands, Present
<1> QED  BY <1>1, <1>2, <1>3, <1>4 DEF ReplayInv

(* The steps that start, cut off or end the program.                        *)
LEMMA ProgramStops ==
  ASSUME ReplayInv, EpochInv', WorkKept, UNCHANGED first,
         Begin \/ Raise \/ Disrupt
  PROVE  ReplayInv'
<1> USE DEF ReplayInv, registry, volatile
<1>0. /\ challengers' = challengers /\ plan' = plan /\ accepted' = accepted
      /\ Present' = Present
  BY DEF Begin, Raise, Disrupt, InsertEpoch, RestartEpoch, ResumeEpoch, WorkflowRaises, Crash,
     StopEpoch, Present, EpochInv, TypeOK
<1>1. /\ Attached' = Attached /\ Pools' = Pools /\ Rounds' = Rounds
      /\ PoolCapacity' = PoolCapacity
  BY <1>0, PoolsFrame
<1>2. /\ line' \in {"off", "challenger"} /\ i' \in Nat
      /\ up' <=> line' # "off"
      /\ line' = "challenger" => status' \in Open
      /\ ~pending' /\ batch' = {} /\ active' = {}
  BY DEF Begin, Raise, Disrupt, InsertEpoch, RestartEpoch, ResumeEpoch, WorkflowRaises, Crash,
     StopEpoch, Down, ProgramRuns, EpochInv, SchedulerState, StoppedIsQuiescent, Open, TypeOK
<1>3. ProgramRuns'
  BY <1>2 DEF ProgramRuns, Line
<1>4. PlansAreItsOwn'
  <2>1. status' # "failed"
    BY DEF Begin, Raise, Disrupt, InsertEpoch, RestartEpoch, ResumeEpoch, WorkflowRaises, Crash,
       StopEpoch, PlansAreItsOwn, EpochInv, StoppedIsQuiescent, Open, TypeOK
  <2>2. \/ Phase' = Phase
        \/ Phase = "none" /\ Phase' = "building_challenger"
    BY EpochConstants, ReplayConstants
    DEF Begin, Raise, Disrupt, InsertEpoch, RestartEpoch, ResumeEpoch, WorkflowRaises, Crash,
       StopEpoch, Phase, EpochInv, StoppedIsQuiescent, Open, TypeOK
  <2> QED  BY <1>0, <1>1, <2>1, <2>2 DEF PlansAreItsOwn
<1>5. LinesInOrder' /\ ChoiceStands'
  <2>1. line' = "challenger" => i' = 0
    BY DEF Begin, Raise, Disrupt
  <2> QED  BY <1>2, <2>1 DEF LinesInOrder, ChoiceStands
<1>6. RoundsInOrder'
  BY <1>0, <1>2, InputsStand DEF RoundsInOrder
<1> QED  BY <1>3, <1>4, <1>5, <1>6

(* The Challenger is made, or found.                                        *)
LEMMA ProgramChallenges ==
  ASSUME ReplayInv, EpochInv', WorkKept, UNCHANGED first,
         MakeChallenger \/ FindChallenger
  PROVE  ReplayInv'
<1> USE DEF ReplayInv, registry, volatile
<1>0. /\ plan' = plan /\ accepted' = accepted /\ Present' = Present /\ line = "challenger"
      /\ stopRow' = stopRow
      /\ up' /\ line' = "plan" /\ i' = i /\ ~pending' /\ batch' = {} /\ active' = {}
  BY DEF MakeChallenger, FindChallenger, ReplicateActive, EvolveAgent, EvolveNoChange, Serving,
     Present, vars
<1>1. status \in Open /\ status' \in Open
  BY <1>0 DEF MakeChallenger, FindChallenger, ReplicateActive, EvolveAgent, EvolveNoChange,
     Attach, Open, ProgramRuns, vars
<1>2. ProgramRuns'
  BY <1>0, <1>1 DEF ProgramRuns, Line
<1>3. /\ PlansAreItsOwn'
      /\ i' \in Pools'
      /\ Attached' # {} \/ status' # "building_challenger"
  <2>1. CASE FindChallenger
    <3>1. challengers' = challengers /\ status' = status /\ Attached # {}
      BY <2>1 DEF FindChallenger, vars
    <3>2. Phase' = Phase
      BY <1>0, <3>1 DEF Phase
    <3>3. i = 0
      BY <1>0 DEF LinesInOrder
    <3> QED  BY <1>0, <3>1, <3>2, <3>3, PoolsFrame, PoolFacts DEF PlansAreItsOwn
  <2>2. CASE MakeChallenger
    <3>1. /\ Attached = {} /\ status = "building_challenger"
          /\ \/ challengers' = challengers /\ status' = "ready"
             \/ /\ \E how \in {"replica", "evolver"} :
                     challengers' = [challengers EXCEPT ![1] = how]
                /\ status' \in {"ready", "building_challenger"}
      BY <2>2 DEF MakeChallenger, ReplicateActive, EvolveAgent, EvolveNoChange, Attach
    <3>2. \A b \in Branch : plan'[b] = NoPlan
      BY <1>0, <3>1 DEF PlansAreItsOwn, Phase
    <3>3. 1 \in Branch \ {0} /\ 0 \in Branch
      BY EpochConstants, ReplayConstants DEF Branch
    <3>4. /\ Attached' \subseteq {1}
          /\ Attached' # {} \/ status' # "building_challenger"
      BY <3>1, <3>3 DEF Attached, EpochInv, TypeOK
    <3>5. Phase' \in {"ready", "building_challenger"}
      BY <3>1 DEF Phase
    <3>6. i' = 0 /\ 0 \in Pools'
      BY <1>0 DEF LinesInOrder, Pools
    <3>7. status' # "failed"
      BY <3>1
    <3> QED  BY <3>2, <3>4, <3>5, <3>6, <3>7 DEF PlansAreItsOwn
  <2> QED  BY <2>1, <2>2
<1>4. LinesInOrder'
  <2>1. i' = 0 /\ Pools' \subseteq {0, 1}
    BY <1>0 DEF LinesInOrder, Pools
  <2> QED  BY <1>0, <1>3, <2>1 DEF LinesInOrder
<1>5. RoundsInOrder'
  BY <1>0, InputsStand DEF RoundsInOrder
<1>6. ChoiceStands'
  BY <1>0 DEF ChoiceStands
<1> QED  BY <1>2, <1>3, <1>4, <1>5, <1>6

(* A pool is planned, and the Challengers are frozen.                       *)
LEMMA ProgramPlans ==
  ASSUME ReplayInv, EpochInv', WorkKept, UNCHANGED first, PlanPool \/ FreezePool
  PROVE  ReplayInv'
<1> USE DEF ReplayInv, registry, volatile
<1>0. /\ challengers' = challengers /\ accepted' = accepted /\ Present' = Present
      /\ line = "plan" /\ stopRow' = stopRow
      /\ up' /\ batch' = batch /\ active' = active
      /\ line' \in {"plan", "round"} /\ i \in Pools /\ i \in Nat
  BY DEF PlanPool, FreezePool, CreateTrajectory, FreezeChallengers, program, Serving, Present,
     LinesInOrder, ProgramRuns
<1>1. /\ Attached' = Attached /\ Pools' = Pools /\ Rounds' = Rounds
      /\ PoolCapacity' = PoolCapacity
  BY <1>0, PoolsFrame
<1>2. status \in Open /\ status' \in Open /\ Phase = status /\ Phase' = status'
  BY <1>0 DEF PlanPool, FreezePool, CreateTrajectory, FreezeChallengers, Open, ProgramRuns, Phase
<1>3. Attached # {} \/ status # "building_challenger"
  BY <1>0 DEF LinesInOrder
<1>4. RoundsInOrder'
  <2>1. line' = "round" => i' = 1
    BY <1>0 DEF PlanPool, FreezePool, program
  <2> QED  BY <1>0, <2>1, InputsStand DEF RoundsInOrder
<1>5. ChoiceStands'
  BY <1>0 DEF ChoiceStands
<1>6. CASE PlanPool
  <2>1. /\ plan' = [plan EXCEPT ![i] = PoolCapacity] /\ status' = status
        /\ line' = line /\ i' = i /\ i \in Branch
    BY <1>0, <1>6, PoolFacts DEF PlanPool, CreateTrajectory, program
  <2>2. \A b \in Branch : plan'[b] = IF b = i THEN PoolCapacity ELSE plan[b]
    BY <2>1 DEF EpochInv, TypeOK
  <2>3. ProgramRuns'
    BY <1>0, <1>2, <2>1 DEF ProgramRuns, Line
  <2>4. PlansAreItsOwn'
    <3>1. \A b \in Branch : plan'[b] # NoPlan => b \in Pools /\ plan'[b] = PoolCapacity
      BY <1>0, <2>2 DEF PlansAreItsOwn
    <3>2. Phase \in {"running", "selecting", "completed"} =>
            \A b \in Pools : plan'[b] = PoolCapacity
      BY <2>2, PoolFacts DEF PlansAreItsOwn
    <3>3. status' # "failed" /\ Attached' \subseteq {1} /\ Phase' = Phase
      BY <1>1, <1>2, <2>1 DEF PlansAreItsOwn
    <3>4. ~(Attached = {} /\ Phase \in {"none", "building_challenger"})
      BY <1>2, <1>3 DEF Open
    <3> QED  BY <1>1, <3>1, <3>2, <3>3, <3>4 DEF PlansAreItsOwn
  <2>5. LinesInOrder'
    BY <1>0, <1>1, <1>3, <2>1, <2>2, PoolFacts DEF LinesInOrder
  <2> QED  BY <1>4, <1>5, <2>3, <2>4, <2>5
<1>7. CASE FreezePool
  <2>1. /\ plan' = plan /\ ~pending' /\ pending
        /\ status' = IF status = "building_challenger" THEN "ready" ELSE status
        /\ IF i + 1 \in Pools THEN i' = i + 1 /\ line' = "plan" ELSE i' = 1 /\ line' = "round"
    BY <1>0, <1>7 DEF FreezePool, FreezeChallengers
  <2>2. ProgramRuns'
    <3>1. i' \in Nat /\ status' # "completed"
      BY <1>0, <1>2, <2>1 DEF Open
    <3> QED  BY <1>0, <1>2, <2>1, <3>1 DEF ProgramRuns, Line
  <2>3. PlansAreItsOwn'
    BY <1>1, <1>2, <1>3, <2>1 DEF PlansAreItsOwn, Open
  <2>4. \A b \in Pools : b < i + 1 => plan[b] = PoolCapacity
    <3>1. \A b \in Pools : b < i + 1 => b < i \/ b = i
      BY <1>0, PoolFacts
    <3> QED  BY <1>0, <2>1, <3>1 DEF LinesInOrder
  <2>5. i + 1 \notin Pools => \A b \in Pools : b < i + 1
    BY <1>0, PoolFacts
  <2>6. 1 \in 1..Rounds
    BY PoolFacts, EpochConstants
  <2>7. status' # "building_challenger"
    BY <2>1
  <2> QED
    <3>1. LinesInOrder'
      BY <1>1, <2>1, <2>4, <2>5, <2>6, <2>7 DEF LinesInOrder
    <3> QED  BY <1>4, <1>5, <2>2, <2>3, <3>1
<1> QED  BY <1>6, <1>7

(* The launches of a round keep their routes while the round runs.          *)
LEMMA RoundStands ==
  ASSUME ReplayInv, WorkKept, challengers' = challengers, i' = i, i \in 1..Rounds,
         \A b \in Pools, n \in 1..(i - 1) : attempt[<<b, 1, n>>] = "completed",
         \A s \in Slot : attempt[s] = "completed" => (s \in accepted' <=> s \in accepted)
  PROVE  /\ \A b \in Pools : RoutedKernel(b, i)' = RoutedKernel(b, i)
         /\ RoundBatch(i)' = RoundBatch(i)
<1>1. ASSUME NEW b \in Pools PROVE RoutedKernel(b, i)' = RoutedKernel(b, i)
  <2>1. i # 1 => i - 1 \in 1..(i - 1)
    BY PoolFacts, EpochConstants
  <2>2. TypeOK
    BY DEF ReplayInv, EpochInv
  <2>3. RoutedKernel(b, i)' = RoutedKernel(b, i)
    BY <2>1, <2>2, RouteStands
  <2> QED  BY <2>3
<1>2. Pools' = Pools
  BY PoolsFrame
<1>3. RoundBatch(i)' = RoundBatch(i)
  BY <1>1, <1>2 DEF RoundBatch
<1> QED  BY <1>1, <1>3

(* A round is launched.                                                     *)
LEMMA ProgramRunsRound ==
  ASSUME ReplayInv, EpochInv', WorkKept, UNCHANGED first, RunRound
  PROVE  ReplayInv'
<1> USE DEF ReplayInv, registry, volatile
<1>0. /\ challengers' = challengers /\ accepted' = accepted /\ Present' = Present
      /\ plan' = plan /\ input' = input /\ attempt' = attempt
      /\ line = "round" /\ stopRow' = stopRow /\ status' = "running"
      /\ up' /\ ~pending' /\ batch' = RoundBatch(i) /\ active' = {}
      /\ line' = "wait" /\ i' = i /\ i \in Nat /\ i \in 1..Rounds
      /\ \A b \in Pools : plan[b] = PoolCapacity
      /\ \A b \in Pools, n \in 1..(i - 1) : attempt[<<b, 1, n>>] = "completed"
  BY DEF RunRound, RunAttempts, Serving, Present, LinesInOrder, RoundsInOrder, ProgramRuns
<1>1. /\ Attached' = Attached /\ Pools' = Pools /\ Rounds' = Rounds
      /\ PoolCapacity' = PoolCapacity
  BY <1>0, PoolsFrame
<1>2. ProgramRuns'
  BY <1>0 DEF ProgramRuns, Line, Open
<1>3. PlansAreItsOwn'
  BY <1>0, <1>1 DEF PlansAreItsOwn, Phase
<1>4. LinesInOrder'
  BY <1>0, <1>1 DEF LinesInOrder
<1>5. RoundBatch(i)' = RoundBatch(i)
  BY <1>0, RoundStands
<1>6. \A b \in Pools : \E l \in RoundBatch(i) : l.slot = <<b, 1, i>>
  <2>1. ASSUME NEW b \in Pools PROVE \E l \in RoundBatch(i) : l.slot = <<b, 1, i>>
    <3>1. [slot |-> <<b, 1, i>>, kernel |-> RoutedKernel(b, i)] \in RoundBatch(i)
      BY DEF RoundBatch
    <3> QED  BY <3>1
  <2> QED  BY <2>1
<1>7. RoundsInOrder'
  BY <1>0, <1>1, <1>5, <1>6, InputsStand DEF RoundsInOrder
<1>8. ChoiceStands'
  BY <1>0 DEF ChoiceStands
<1> QED  BY <1>2, <1>3, <1>4, <1>7, <1>8

(* An Attempt of the round starts, completes or returns.                    *)
LEMMA ProgramWaits ==
  ASSUME ReplayInv, EpochInv', WorkKept, UNCHANGED first, AttemptStep
  PROVE  ReplayInv'
<1> USE DEF ReplayInv, registry, volatile
<1>0. /\ line = "wait" /\ line' = line /\ i' = i /\ i \in Nat /\ i \in 1..Rounds
      /\ batch \cup active \subseteq RoundBatch(i)
      /\ \A b \in Pools : plan[b] = PoolCapacity
      /\ \A b \in Pools, n \in 1..(i - 1) : attempt[<<b, 1, n>>] = "completed"
      /\ status \in {"running", "selecting"}
  BY DEF AttemptStep, LinesInOrder, RoundsInOrder, ProgramRuns, program
<1>1. /\ challengers' = challengers /\ plan' = plan /\ status' = status /\ stopRow' = stopRow
      /\ up' = up /\ pending' = pending
      /\ batch' \cup active' \subseteq batch \cup active
  BY DEF AttemptStep, LaunchNew, LaunchAgain, MayRun, AttemptCompletes, LaunchEnds
<1>2. \A s \in Slot : attempt[s] = "completed" => (s \in accepted' <=> s \in accepted)
  BY DEF AttemptStep, LaunchNew, LaunchAgain, AttemptCompletes, LaunchEnds
<1>3. /\ Attached' = Attached /\ Pools' = Pools /\ Rounds' = Rounds
      /\ PoolCapacity' = PoolCapacity /\ Phase' = Phase
  BY <1>1, PoolsFrame DEF Phase
<1>4. ProgramRuns'
  BY <1>0, <1>1 DEF ProgramRuns
<1>5. PlansAreItsOwn' /\ LinesInOrder'
  BY <1>0, <1>1, <1>3 DEF PlansAreItsOwn, LinesInOrder
<1>6. ChoiceStands'
  BY <1>0 DEF ChoiceStands
<1>7. /\ \A b \in Pools : RoutedKernel(b, i)' = RoutedKernel(b, i)
      /\ RoundBatch(i)' = RoundBatch(i)
  BY <1>0, <1>1, <1>2, RoundStands
<1>8. (\A s \in Present : input[s] = RoutedKernel(s[1], s[3]))'
  <2>1. CASE Present' = Present
    BY <1>2, <2>1, InputsStand
  <2>2. CASE Present' # Present
    <3>1. PICK l \in batch : LaunchNew(l)
      BY <2>2 DEF AttemptStep, LaunchAgain, AttemptCompletes, LaunchEnds, Present, EpochInv,
         TypeOK, Launch
    <3>2. PICK b \in Pools : l = [slot |-> <<b, 1, i>>, kernel |-> RoutedKernel(b, i)]
      BY <1>0, <3>1 DEF RoundBatch
    <3>3. l.slot \in Slot /\ l.slot[1] = b /\ l.slot[3] = i /\ l.kernel = RoutedKernel(b, i)'
      BY <1>0, <1>7, <3>2, RoundSlot
    <3>4. /\ Present' = Present \cup {l.slot} /\ l.slot \notin Present
          /\ input'[l.slot] = l.kernel
      BY <3>1, <3>3 DEF LaunchNew, Present, EpochInv, TypeOK
    <3>5. ASSUME NEW s \in Present PROVE input'[s] = RoutedKernel(s[1], s[3])'
      <4>1. input'[s] = input[s] /\ input[s] = RoutedKernel(s[1], s[3])
        BY DEF WorkKept, RoundsInOrder
      <4>2. TypeOK
        BY DEF EpochInv
      <4>3. RoutedKernel(s[1], s[3])' = RoutedKernel(s[1], s[3])
        BY <1>2, <4>2, PresentInPool, RouteStands
      <4> QED  BY <4>1, <4>3
    <3>6. RoutedKernel(l.slot[1], l.slot[3])' = l.kernel
      BY <1>0, <3>3 DEF RoutedKernel
    <3> QED  BY <3>4, <3>5, <3>6
  <2> QED  BY <2>1, <2>2
<1>9. \A b \in Pools, n \in 1..(i - 1) : attempt'[<<b, 1, n>>] = "completed"
  <2>1. ASSUME NEW b \in Pools, NEW n \in 1..(i - 1) PROVE <<b, 1, n>> \in Slot
    <3>1. n \in 1..Rounds
      BY <1>0, PoolFacts, EpochConstants
    <3> QED  BY <3>1, RoundSlot
  <2> QED  BY <1>0, <2>1 DEF WorkKept
<1>10. ASSUME NEW b \in Pools
       PROVE  \/ attempt'[<<b, 1, i>>] = "completed"
              \/ \E l \in batch' \cup active' : l.slot = <<b, 1, i>>
  <2>1. <<b, 1, i>> \in Slot
    BY <1>0, RoundSlot
  <2>2. CASE attempt[<<b, 1, i>>] = "completed"
    BY <2>1, <2>2 DEF WorkKept
  <2>3. CASE attempt[<<b, 1, i>>] # "completed"
    <3>1. PICK l \in batch \cup active : l.slot = <<b, 1, i>>
      BY <1>0, <2>3 DEF RoundsInOrder
    <3>2. l \in batch' \cup active'
      BY <2>3, <3>1 DEF AttemptStep, LaunchNew, LaunchAgain, AttemptCompletes, LaunchEnds
    <3> QED  BY <3>1, <3>2
  <2> QED  BY <2>2, <2>3
<1>11. RoundsInOrder'
  BY <1>0, <1>1, <1>3, <1>7, <1>8, <1>9, <1>10 DEF RoundsInOrder
<1> QED  BY <1>4, <1>5, <1>6, <1>11

(* A round is over: the next one, or selection.                             *)
LEMMA ProgramEndsRound ==
  ASSUME ReplayInv, EpochInv', WorkKept, UNCHANGED first, RoundEnds
  PROVE  ReplayInv'
<1> USE DEF ReplayInv, registry, volatile
<1>0. /\ line = "wait" /\ i \in Nat /\ i \in 1..Rounds /\ up /\ ~pending
      /\ batch = {} /\ active = {}
      /\ \A b \in Pools : plan[b] = PoolCapacity
      /\ \A b \in Pools, n \in 1..(i - 1) : attempt[<<b, 1, n>>] = "completed"
      /\ \A b \in Pools : attempt[<<b, 1, i>>] = "completed"
      /\ status \in {"running", "selecting"}
      /\ IF i < Rounds THEN i' = i + 1 /\ line' = "round" ELSE line' = "select" /\ i' = i
  BY DEF RoundEnds, Serving, LinesInOrder, RoundsInOrder, ProgramRuns
<1>1. /\ challengers' = challengers /\ plan' = plan /\ status' = status /\ stopRow' = stopRow
      /\ up' = up /\ pending' = pending /\ batch' = batch /\ active' = active
      /\ attempt' = attempt /\ accepted' = accepted /\ Present' = Present
  BY DEF RoundEnds, vars, Present
<1>2. /\ Attached' = Attached /\ Pools' = Pools /\ Rounds' = Rounds
      /\ PoolCapacity' = PoolCapacity /\ Phase' = Phase /\ PlannedSlots' = PlannedSlots
  BY <1>1, PoolsFrame, PlanFrame DEF Phase
<1>3. i' \in Nat /\ i' \in 1..Rounds
  BY <1>0, PoolFacts, EpochConstants
<1>4. ProgramRuns'
  BY <1>0, <1>1, <1>3 DEF ProgramRuns, Line
<1>5. PlansAreItsOwn' /\ LinesInOrder'
  BY <1>0, <1>1, <1>2, <1>3 DEF PlansAreItsOwn, LinesInOrder
<1>6. ChoiceStands'
  BY <1>0 DEF ChoiceStands
<1>7. \A b \in Pools, n \in 1..i : attempt[<<b, 1, n>>] = "completed"
  <2>1. \A n \in 1..i : n = i \/ n \in 1..(i - 1)
    BY <1>0
  <2> QED  BY <1>0, <2>1
<1>8. ASSUME ~(i < Rounds), NEW s \in PlannedSlots PROVE attempt[s] = "completed"
  <2>1. PICK b \in Pools : s \in PoolSlots(b)
    BY PlannedIsPools DEF EpochInv
  <2>2. PICK n \in 1..Rounds : s = <<b, 1, n>>
    BY <2>1 DEF PoolSlots
  <2>3. n \in 1..i
    BY <1>0, <1>8, PoolFacts, EpochConstants
  <2> QED  BY <1>7, <2>2, <2>3
<1>9. (i < Rounds) => i' - 1 = i
  BY <1>0
<1>10. RoundsInOrder'
  BY <1>0, <1>1, <1>2, <1>7, <1>8, <1>9, InputsStand DEF RoundsInOrder
<1> QED  BY <1>4, <1>5, <1>6, <1>10

(* The three calls of epoch.complete().                                     *)
LEMMA ProgramCompletes ==
  ASSUME ReplayInv, EpochInv', WorkKept, UNCHANGED first,
         SelectKernel \/ SelectAgent \/ Complete
  PROVE  ReplayInv'
<1> USE DEF ReplayInv, registry, volatile
<1>0. /\ line \in {"select", "compare", "complete"} /\ i \in Nat /\ i \in 1..Rounds
      /\ line' \in {"compare", "complete", "done"} /\ i' = i
      /\ up /\ ~pending /\ batch = {} /\ active = {}
      /\ \A b \in Pools : plan[b] = PoolCapacity
      /\ \A s \in PlannedSlots : attempt[s] = "completed"
      /\ status \in {"running", "selecting"}
  BY DEF SelectKernel, SelectAgent, Complete, SelectBestKernel, CompareAgents, BeginSelecting,
     CompleteEpoch, MayComplete, Serving, LinesInOrder, RoundsInOrder, ProgramRuns
<1>1. /\ challengers' = challengers /\ plan' = plan /\ stopRow' = stopRow
      /\ up' = up /\ pending' = pending /\ batch' = batch /\ active' = active
      /\ attempt' = attempt /\ accepted' = accepted /\ Present' = Present
      /\ status' \in {"running", "selecting", "completed"}
      /\ status' = "completed" <=> line' = "done"
  BY <1>0 DEF SelectKernel, SelectAgent, Complete, SelectBestKernel, CompareAgents,
     BeginSelecting, CompleteEpoch, Present
<1>2. /\ Attached' = Attached /\ Pools' = Pools /\ Rounds' = Rounds
      /\ PoolCapacity' = PoolCapacity /\ PlannedSlots' = PlannedSlots
      /\ Phase' = status' /\ Retained' = Retained
  BY <1>1, PoolsFrame, PlanFrame DEF Phase, Retained
<1>3. ProgramRuns'
  BY <1>0, <1>1 DEF ProgramRuns, Line, Open
<1>4. PlansAreItsOwn' /\ LinesInOrder'
  BY <1>0, <1>1, <1>2 DEF PlansAreItsOwn, LinesInOrder
<1>5. RoundsInOrder'
  BY <1>0, <1>1, <1>2, InputsStand DEF RoundsInOrder
<1>6. ChoiceStands'
  <2>0. chosen \in Choice /\ Fastest(Retained)' = Fastest(Retained)
    BY <1>2 DEF EpochInv, TypeOK, Fastest
  <2>1. CASE SelectKernel
    BY <2>0, <2>1 DEF SelectKernel, SelectBestKernel, ChoiceStands, Choice
  <2>2. CASE SelectAgent
    BY <1>2, <2>0, <2>2 DEF SelectAgent, CompareAgents, ChoiceStands, Choice
  <2>3. CASE Complete
    BY <1>2, <2>0, <2>3 DEF Complete, BeginSelecting, CompleteEpoch, ChoiceStands
  <2> QED  BY <2>1, <2>2, <2>3
<1> QED  BY <1>3, <1>4, <1>5, <1>6

(* Every step preserves the invariant.                                      *)
LEMMA ReplayStep == ReplayInv /\ [ReplayNext]_replayVars => ReplayInv'
<1> SUFFICES ASSUME ReplayInv, [ReplayNext]_replayVars PROVE ReplayInv'
  OBVIOUS
<1>1. [Next]_vars
  BY ReplayStepIsEpochStep
<1>2. EpochInv' /\ WorkKept
  BY <1>1, EpochStep, KeptStep DEF ReplayInv
<1>3. CASE UNCHANGED replayVars
  <2> USE <1>3 DEF replayVars, vars, registry, volatile, program, ReplayInv
  <2>1. /\ Attached' = Attached /\ Pools' = Pools /\ Rounds' = Rounds
        /\ PoolCapacity' = PoolCapacity /\ PlannedSlots' = PlannedSlots
        /\ Present' = Present /\ Phase' = Phase /\ Retained' = Retained
    BY PoolsFrame, PlanFrame DEF Present, Phase, Retained
  <2>2. Fastest(Retained)' = Fastest(Retained)
    BY <2>1 DEF Fastest
  <2>3. RoundBatch(i)' = RoundBatch(i)
    BY <2>1 DEF RoundBatch, RoutedKernel
  <2>4. ProgramRuns' /\ PlansAreItsOwn' /\ LinesInOrder' /\ ChoiceStands'
    BY <2>1, <2>2 DEF ProgramRuns, PlansAreItsOwn, LinesInOrder, ChoiceStands
  <2>5. RoundsInOrder'
    BY <1>2, <2>1, <2>3, InputsStand DEF RoundsInOrder
  <2> QED  BY <1>2, <2>4, <2>5
<1>4. CASE ReplayNext
  <2>1. UNCHANGED first
    BY <1>4 DEF ReplayNext, Progress
  <2>2. \/ Begin \/ MakeChallenger \/ FindChallenger \/ PlanPool \/ FreezePool \/ RunRound
        \/ AttemptStep \/ RoundEnds \/ SelectKernel \/ SelectAgent \/ Complete \/ Raise
        \/ Disrupt
    BY <1>4 DEF ReplayNext, Progress
  <2> QED  BY <1>2, <2>1, <2>2, ProgramStops, ProgramChallenges, ProgramPlans,
              ProgramRunsRound, ProgramWaits, ProgramEndsRound, ProgramCompletes
<1> QED  BY <1>3, <1>4

(* Wherever and however often the program is cut off, ReplayInv holds.      *)
THEOREM ReplaySafety == ReplaySpec => []ReplayInv
BY ReplayInitially, ReplayStep, PTL DEF ReplaySpec

(* The program uses the services of an Epoch as module Epoch offers them:   *)
(* all that is proved of an Epoch with an arbitrary Workflow holds of one   *)
(* that runs this program.                                                  *)
THEOREM ReplayImplementsEpoch == ReplaySpec => Spec
<1>1. ReplayInit => Init
  BY DEF ReplayInit
<1>2. ReplayInv /\ [ReplayNext]_replayVars => [Next]_vars
  BY ReplayStepIsEpochStep
<1> QED  BY <1>1, <1>2, ReplaySafety, PTL DEF ReplaySpec, Spec

(* What the invariant says of each service call of the program.             *)
LEMMA ReplayCallsAccepted == ReplayInv => ReplayIsAccepted
<1> SUFFICES ASSUME ReplayInv PROVE ReplayIsAccepted
  OBVIOUS
<1> USE DEF ReplayInv
<1>0. TypeOK /\ PlansAreItsOwn /\ EpochInv
  BY DEF EpochInv
<1>1. ASSUME line = "plan", ~pending PROVE PoolAccepted
  <2>1. i \in Pools /\ i \in Branch /\ status \in Open
    BY <1>1, PoolFacts DEF LinesInOrder, ProgramRuns
  <2>2. CASE plan[i] # NoPlan
    BY <2>1, <2>2 DEF PlansAreItsOwn, PoolAccepted
  <2>3. CASE plan[i] = NoPlan
    <3>1. Cardinality(PlannedSlots) + Rounds <= Budget
      BY <1>0, <2>1, <2>3, PlannedSize
    <3>2. status \in {"building_challenger", "ready"}
      BY <2>1, <2>3, PoolFacts DEF PlansAreItsOwn, Phase, Open
    <3> QED  BY <2>3, <3>1, <3>2 DEF PoolAccepted
  <2> QED  BY <2>2, <2>3
<1>2. line \in {"round", "select", "compare", "complete"} => ValidPlan
  BY <1>0, ProgramPlanIsValid DEF LinesInOrder
<1>3. ASSUME line = "wait", NEW l \in batch PROVE LaunchAccepted(l)
  <2>1. PICK b \in Pools : l = [slot |-> <<b, 1, i>>, kernel |-> RoutedKernel(b, i)]
    BY <1>3 DEF RoundsInOrder, RoundBatch
  <2>2. i \in 1..Rounds /\ \A n \in 1..(i - 1) : attempt[<<b, 1, n>>] = "completed"
    BY <1>3 DEF LinesInOrder, RoundsInOrder
  <2>3. \A r \in Earlier(l.slot) : attempt[r] = "completed"
    <3>1. l.slot = <<b, 1, i>>
      BY <2>1
    <3>2. \A r \in Earlier(<<b, 1, i>>) : \E m \in 1..(i - 1) : r = <<b, 1, m>>
      BY <2>2, RoundSlot
    <3> QED  BY <2>2, <3>1, <3>2
  <2>4. ValidKernelInput(l.kernel)
    BY <1>0, <2>1, <2>2, RouteIsValid
  <2>5. attempt[l.slot] = "absent" \/ input[l.slot] = l.kernel
    <3>1. l.slot \in Slot /\ l.slot[1] = b /\ l.slot[3] = i
      BY <2>1, <2>2, RoundSlot
    <3> QED  BY <2>1, <3>1 DEF RoundsInOrder, Present
  <2> QED  BY <2>3, <2>4, <2>5 DEF LaunchAccepted
<1>4. line = "wait" /\ Serving => \A b \in Pools : attempt[<<b, 1, i>>] = "completed"
  BY DEF RoundsInOrder, Serving
<1>5. line \in {"select", "compare", "complete"} => SelectionReady
  <2>1. ASSUME line \in {"select", "compare", "complete"} PROVE Present = PlannedSlots
    <3>1. PlannedSlots \subseteq Present
      BY <2>1 DEF RoundsInOrder, PlannedSlots, Present
    <3> QED  BY <3>1 DEF EpochInv, WithinPlan
  <2> QED  BY <1>2, <2>1 DEF SelectionReady, RoundsInOrder
<1>6. ASSUME line = "complete" PROVE MayComplete
  <2>1. Serving
    BY <1>6 DEF ProgramRuns, Serving
  <2>2. Fastest(Retained) \in Kernel
    <3>1. Retained \in SUBSET Kernel /\ Retained # {}
      BY <1>0, SlotFacts DEF TypeOK, Retained
    <3> QED  BY <3>1, FastestIsFastest
  <2>3. NoKernel \notin Kernel
    BY EpochConstants DEF NoKernel, NoBranch, Kernel, Slot, Start, Branch
  <2>4. chosen.kernel = Fastest(Retained) /\ chosen.branch \in Pools
    BY <1>6 DEF ChoiceStands
  <2>5. chosen.branch # NoBranch /\ plan[chosen.branch] # NoPlan
    <3>1. \A b \in Branch : b # NoBranch
      BY EpochConstants DEF Branch, NoBranch
    <3> QED  BY <1>6, <2>4, <3>1, PoolFacts DEF LinesInOrder
  <2>6. \A s \in PlannedSlots : attempt[s] = "completed"
    BY <1>6 DEF RoundsInOrder
  <2> QED  BY <2>1, <2>2, <2>3, <2>4, <2>5, <2>6 DEF MayComplete
<1> QED  BY <1>1, <1>2, <1>3, <1>4, <1>5, <1>6 DEF ReplayIsAccepted

(* No replayed call of the program is refused because the rows that it      *)
(* recovers differ from what it asks for.                                   *)
THEOREM ReplayAccepted == ReplaySpec => []ReplayIsAccepted
BY ReplayCallsAccepted, ReplaySafety, PTL

=============================================================================
