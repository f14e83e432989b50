------------------------- MODULE LineageFenceProofs -------------------------
(***************************************************************************)
(* The fence of module LineageFence, for any number of schedulers, any     *)
(* lease length and any bounds.                                            *)
(***************************************************************************)
EXTENDS LineageFence, TLAPS

USE FenceConstants

(***************************************************************************)
(* A grant of acquire_lineage_fence keeps every scheduler's state typed.   *)
(***************************************************************************)
LEMMA GrantUpdate ==
  ASSUME NEW s \in Scheduler, sched \in [Scheduler -> SchedulerState],
         NEW p \in Phase, NEW g \in Nat
  PROVE  [sched EXCEPT ![s].phase = p, ![s].generation = g]
               \in [Scheduler -> SchedulerState]
  BY DEF SchedulerState

(***************************************************************************)
(* So does a wake-up of the heartbeat thread.                              *)
(***************************************************************************)
LEMMA HeartbeatUpdate ==
  ASSUME NEW s \in Scheduler, sched \in [Scheduler -> SchedulerState],
         NEW h \in Heartbeat, NEW e \in Nat
  PROVE  [sched EXCEPT ![s].heartbeat = h, ![s].expiry = e]
               \in [Scheduler -> SchedulerState]
  BY DEF SchedulerState

(***************************************************************************)
(* A Registry that has no row for the Lineage yet satisfies the invariant. *)
(***************************************************************************)
LEMMA FenceInit == Init => FenceInv
  BY DEF Init, FenceInv, TypeOK, FenceRow, SchedulerState, Idle, Phase, Heartbeat,
         GenerationsUnique, GenerationsPast, HeartbeatsLeased, TransactionOpen,
         OpenTransactionIsCurrent, Leased, OwnsRow

(***************************************************************************)
(* Every step of a scheduler, of an operator or of the clock preserves the *)
(* inductive invariant.                                                    *)
(***************************************************************************)
LEMMA FenceStep == FenceInv /\ [Next]_vars => FenceInv'
<1> SUFFICES ASSUME FenceInv, [Next]_vars PROVE FenceInv'
  OBVIOUS
<1> USE DEF FenceInv, TypeOK, FenceRow, SchedulerState, Idle, Phase, Heartbeat,
         GenerationsUnique, GenerationsPast, HeartbeatsLeased, TransactionOpen,
         OpenTransactionIsCurrent, Leased, OwnsRow
<1>1. ASSUME NEW s \in Scheduler, BeginAcquire(s) PROVE FenceInv'
  BY <1>1 DEF BeginAcquire
<1>2. ASSUME NEW s \in Scheduler, AcquireGranted(s) PROVE FenceInv'
  <2> USE <1>2 DEF AcquireGranted
  <2>0. sched[s].readAt \in Nat /\ fence.generation \in Nat
    OBVIOUS
  <2>1. TypeOK'
    <3>1. fence' \in FenceRow
      BY <2>0
    <3>2. sched' \in [Scheduler -> SchedulerState]
      <4>1. "acquired" \in Phase /\ fence.generation + 1 \in Nat
        BY <2>0
      <4> HIDE DEF SchedulerState, Phase, Heartbeat
      <4> QED  BY <4>1, GrantUpdate
    <3> QED
      BY <3>1, <3>2
  <2>2. \A t \in Scheduler : t # s => sched'[t] = sched[t]
    OBVIOUS
  <2>3. /\ sched'[s].phase = "acquired"
        /\ sched'[s].generation = fence.generation + 1
        /\ sched'[s].heartbeat = sched[s].heartbeat
        /\ fence'.generation = fence.generation + 1
    OBVIOUS
  <2>4. GenerationsUnique' /\ GenerationsPast'
    BY <2>2, <2>3
  <2>5. HeartbeatsLeased'
    BY <2>2, <2>3
  <2>6. TransactionOpen' /\ OpenTransactionIsCurrent'
    OBVIOUS
  <2> QED
    BY <2>1, <2>3, <2>4, <2>5, <2>6
<1>3. ASSUME NEW s \in Scheduler, AcquireRefused(s) PROVE FenceInv'
  BY <1>3 DEF AcquireRefused
<1>4. ASSUME NEW s \in Scheduler, Enter(s) PROVE FenceInv'
  BY <1>4 DEF Enter
<1>5. ASSUME NEW s \in Scheduler, HeartbeatWake(s) PROVE FenceInv'
  <2> USE <1>5 DEF HeartbeatWake
  <2>1. "sending" \in Heartbeat /\ clock + Lease \in Nat
    OBVIOUS
  <2>2. sched' \in [Scheduler -> SchedulerState]
    <3> HIDE DEF SchedulerState, Phase, Heartbeat
    <3> QED  BY <2>1, HeartbeatUpdate
  <2>3. \A t \in Scheduler : t # s => sched'[t] = sched[t]
    OBVIOUS
  <2>4. /\ sched'[s].phase = sched[s].phase
        /\ sched'[s].generation = sched[s].generation
    OBVIOUS
  <2> QED
    BY <2>2, <2>3, <2>4
<1>6. ASSUME NEW s \in Scheduler, HeartbeatRenew(s) PROVE FenceInv'
  BY <1>6 DEF HeartbeatRenew
<1>7. ASSUME NEW s \in Scheduler, HeartbeatFails(s) PROVE FenceInv'
  BY <1>7 DEF HeartbeatFails
<1>8. ASSUME NEW s \in Scheduler, BeginTransaction(s) PROVE FenceInv'
  BY <1>8 DEF BeginTransaction, ActiveFence
<1>9. ASSUME NEW s \in Scheduler, Commit(s) PROVE FenceInv'
  BY <1>9 DEF Commit
<1>10. ASSUME NEW s \in Scheduler, Rollback(s) PROVE FenceInv'
  BY <1>10 DEF Rollback
<1>11. ASSUME NEW s \in Scheduler, Exit(s) PROVE FenceInv'
  BY <1>11 DEF Exit
<1>12. ASSUME NEW s \in Scheduler, Crash(s) PROVE FenceInv'
  BY <1>12 DEF Crash
<1>13. CASE OperatorBump
  BY <1>13 DEF OperatorBump
<1>14. CASE Tick
  BY <1>14 DEF Tick
<1>15. CASE UNCHANGED vars
  BY <1>15 DEF vars
<1> QED
  BY <1>1, <1>2, <1>3, <1>4, <1>5, <1>6, <1>7, <1>8, <1>9, <1>10, <1>11, <1>12,
     <1>13, <1>14, <1>15 DEF Next, SchedulerStep

(***************************************************************************)
(* The inductive invariant holds in every reachable state, for any set of  *)
(* schedulers and any lease length; with it its conjunct                   *)
(* OpenTransactionIsCurrent: no takeover under an open transaction.        *)
(***************************************************************************)
THEOREM FenceSafety == Spec => []FenceInv
<1>1. Init => FenceInv
  BY FenceInit
<1>2. FenceInv /\ [Next]_vars => FenceInv'
  BY FenceStep
<1> QED
  BY <1>1, <1>2, PTL DEF Spec

(***************************************************************************)
(* Mutations commit in generation order and generations never go back.     *)
(***************************************************************************)
THEOREM FenceMonotone == Spec => FencingIsMonotone
<1>1. FenceInv /\ [Next]_vars =>
        [ /\ lastCommit' >= lastCommit
          /\ fence'.generation \in {fence.generation, fence.generation + 1} ]_vars
  <2> SUFFICES ASSUME FenceInv, Next
               PROVE  /\ lastCommit' >= lastCommit
                      /\ fence'.generation \in {fence.generation, fence.generation + 1}
    OBVIOUS
  <2> USE DEF FenceInv, TypeOK, FenceRow, SchedulerState
  <2>1. ASSUME NEW s \in Scheduler, Commit(s)
        PROVE  lastCommit' >= lastCommit /\ fence' = fence
    BY <2>1 DEF Commit, OpenTransactionIsCurrent, OwnsRow
  <2>2. ASSUME NEW s \in Scheduler, SchedulerStep(s), ~Commit(s)
        PROVE  /\ lastCommit' = lastCommit
               /\ fence'.generation \in {fence.generation, fence.generation + 1}
    BY <2>2 DEF SchedulerStep, BeginAcquire, AcquireGranted, AcquireRefused, Enter,
         HeartbeatWake, HeartbeatRenew, HeartbeatFails, BeginTransaction, Rollback,
         Exit, Crash
  <2>3. OperatorBump \/ Tick =>
          /\ lastCommit' = lastCommit
          /\ fence'.generation \in {fence.generation, fence.generation + 1}
    BY DEF OperatorBump, Tick
  <2> QED
    BY <2>1, <2>2, <2>3 DEF Next
<1> QED
  BY <1>1, FenceSafety, PTL DEF Spec, FencingIsMonotone

(***************************************************************************)
(* A scheduler moves the expiry of a row only while it owns the row.       *)
(***************************************************************************)
THEOREM FenceExpiry == Spec => OnlyOwnerMovesExpiry
<1> DEFINE A == \A s \in Scheduler :
                  /\ sched'[s] # sched[s]
                  /\ fence'.generation = fence.generation
                  /\ fence'.expires # fence.expires
                  => OwnsRow(s) /\ Leased(s)
<1>1. FenceInv /\ [Next]_vars => [A]_vars
  <2> SUFFICES ASSUME FenceInv, Next, NEW s \in Scheduler,
                      sched'[s] # sched[s],
                      fence'.generation = fence.generation,
                      fence'.expires # fence.expires
               PROVE  OwnsRow(s) /\ Leased(s)
    OBVIOUS
  <2> USE DEF FenceInv, TypeOK, FenceRow, SchedulerState
  <2>1. PICK t \in Scheduler : SchedulerStep(t)
    BY DEF Next, OperatorBump, Tick
  <2>2. HeartbeatRenew(t) \/ Exit(t)
    BY <2>1 DEF SchedulerStep, BeginAcquire, AcquireGranted, AcquireRefused, Enter,
         HeartbeatWake, HeartbeatFails, BeginTransaction, Commit, Rollback, Crash
  <2>3. t = s /\ OwnsRow(t)
    BY <2>2 DEF HeartbeatRenew, Exit
  <2> QED
    BY <2>2, <2>3 DEF HeartbeatRenew, Exit, HeartbeatsLeased, Leased
<1> QED
  BY <1>1, FenceSafety, PTL DEF Spec, OnlyOwnerMovesExpiry
=============================================================================
