---------------------------- MODULE LineageFence ----------------------------
(***************************************************************************)
(* The renewable fence that decides which scheduler may write to one       *)
(* Lineage: RegistryLineageLeaseManager and _RegistryLineageLease           *)
(* (controller/leases.py) over the row lineage_fences of SqliteRegistry    *)
(* (registry/sqlite.py).                                                   *)
(*                                                                         *)
(* What is kept: the clock read before acquire takes the database lock,    *)
(* the heartbeat thread that computes an expiry and writes it later, the   *)
(* fence check made at the start of a transaction and the COMMIT made      *)
(* later, the operator commands that bump the generation, and a process    *)
(* that dies at any point.                                                 *)
(* What is abstracted: a lease's owner is the scheduler's name.  The code  *)
(* draws a fresh random owner for every acquisition, so the model's owner  *)
(* test is weaker than the code's and the generation carries the proof.    *)
(***************************************************************************)
EXTENDS Naturals

CONSTANTS
  Scheduler,    \* scheduler processes that run epochs of this Lineage
  Operator,     \* the owner that stop_epoch / recover_failed_epoch write
  Free,         \* the value of dbLock when no transaction is open
  Lease,        \* lease_seconds, in clock ticks
  MaxClock,     \* bound on the clock
  MaxGeneration \* bound on the number of generations

ASSUME FenceConstants ==
  /\ Operator \notin Scheduler
  /\ Free \notin Scheduler
  /\ Lease \in Nat \ {0}
  /\ MaxClock \in Nat
  /\ MaxGeneration \in Nat

VARIABLES
  clock,      \* wall clock shared by every process of the host
  fence,      \* the row of lineage_fences; generation 0 is "no row"
  dbLock,     \* the process whose BEGIN IMMEDIATE holds the database, or Free
  sched,      \* local state of every scheduler process
  lastCommit  \* history: generation under which the last mutation committed

vars == <<clock, fence, dbLock, sched, lastCommit>>

Phase == {"idle", "acquiring", "acquired", "entered"}
Heartbeat == {"off", "waiting", "sending", "failed"}

SchedulerState ==
  [phase : Phase,
   readAt : Nat,        \* `now` of acquire, read before the lock is taken
   generation : Nat,    \* the generation this lease was granted
   heartbeat : Heartbeat,
   expiry : Nat]        \* the expiry the heartbeat thread is about to write

Idle == [phase |-> "idle", readAt |-> 0, generation |-> 0,
         heartbeat |-> "off", expiry |-> 0]

FenceRow == [generation : Nat, owner : Scheduler \cup {Operator}, expires : Nat]

TypeOK ==
  /\ clock \in Nat
  /\ fence \in FenceRow
  /\ dbLock \in Scheduler \cup {Free}
  /\ sched \in [Scheduler -> SchedulerState]
  /\ lastCommit \in Nat

Init ==
  /\ clock = 1
  /\ fence = [generation |-> 0, owner |-> Operator, expires |-> 0]
  /\ dbLock = Free
  /\ sched = [s \in Scheduler |-> Idle]
  /\ lastCommit = 0

(***************************************************************************)
(* The row test every UPDATE of a lease carries: WHERE generation = ? AND  *)
(* owner = ?.                                                              *)
(***************************************************************************)
OwnsRow(s) ==
  /\ fence.generation = sched[s].generation
  /\ fence.owner = s

\* _assert_active_fence: the token is active, the row is ours and unexpired.
ActiveFence(s) ==
  /\ sched[s].phase = "entered"
  /\ OwnsRow(s)
  /\ fence.expires > clock

(***************************************************************************)
(* acquire reads the clock, then opens BEGIN IMMEDIATE.                    *)
(***************************************************************************)
BeginAcquire(s) ==
  /\ sched[s].phase = "idle"
  /\ sched' = [sched EXCEPT ![s] = [Idle EXCEPT !.phase = "acquiring", !.readAt = clock]]
  /\ UNCHANGED <<clock, fence, dbLock, lastCommit>>

\* Slip: a takeover keeps the generation of the expired row.
AcquireKeepsGeneration(s) ==
  /\ sched[s].phase = "acquiring"
  /\ dbLock = Free
  /\ fence.expires <= sched[s].readAt
  /\ LET g == IF fence.generation = 0 THEN 1 ELSE fence.generation IN
       /\ fence' = [generation |-> g, owner |-> s, expires |-> sched[s].readAt + Lease]
       /\ sched' = [sched EXCEPT ![s].phase = "acquired", ![s].generation = g]
  /\ UNCHANGED <<clock, dbLock, lastCommit>>

\* acquire_lineage_fence on a free or expired row: one more generation.
AcquireGranted(s) ==
  /\ sched[s].phase = "acquiring"
  /\ dbLock = Free
  /\ fence.generation < MaxGeneration
  /\ fence.expires <= sched[s].readAt
  /\ fence' = [generation |-> fence.generation + 1, owner |-> s,
               expires |-> sched[s].readAt + Lease]
  /\ sched' = [sched EXCEPT ![s].phase = "acquired",
                            ![s].generation = fence.generation + 1]
  /\ UNCHANGED <<clock, dbLock, lastCommit>>

\* LineageLeaseUnavailableError: the row is live at the time that was read.
AcquireRefused(s) ==
  /\ sched[s].phase = "acquiring"
  /\ dbLock = Free
  /\ fence.expires > sched[s].readAt
  /\ sched' = [sched EXCEPT ![s] = Idle]
  /\ UNCHANGED <<clock, fence, dbLock, lastCommit>>

\* __enter__: activate the token for this context and start the heartbeat.
Enter(s) ==
  /\ sched[s].phase = "acquired"
  /\ sched' = [sched EXCEPT ![s].phase = "entered", ![s].heartbeat = "waiting"]
  /\ UNCHANGED <<clock, fence, dbLock, lastCommit>>

(***************************************************************************)
(* The heartbeat thread: wake up, compute now + lease_seconds, UPDATE.     *)
(* The UPDATE tests generation and owner, not the current expiry.          *)
(***************************************************************************)
HeartbeatWake(s) ==
  /\ sched[s].heartbeat = "waiting"
  /\ sched' = [sched EXCEPT ![s].heartbeat = "sending", ![s].expiry = clock + Lease]
  /\ UNCHANGED <<clock, fence, dbLock, lastCommit>>

\* Slip: the UPDATE names the Lineage only.
HeartbeatRenewAnyRow(s) ==
  /\ sched[s].heartbeat = "sending"
  /\ dbLock = Free
  /\ fence' = [fence EXCEPT !.expires = sched[s].expiry]
  /\ sched' = [sched EXCEPT ![s].heartbeat = "waiting"]
  /\ UNCHANGED <<clock, dbLock, lastCommit>>

HeartbeatRenew(s) ==
  /\ sched[s].heartbeat = "sending"
  /\ dbLock = Free
  /\ OwnsRow(s)
  /\ fence' = [fence EXCEPT !.expires = sched[s].expiry]
  /\ sched' = [sched EXCEPT ![s].heartbeat = "waiting"]
  /\ UNCHANGED <<clock, dbLock, lastCommit>>

\* Superseded, or the busy timeout ran out behind another open transaction:
\* the thread stores the failure and ends; the scheduler is not told yet.
HeartbeatFails(s) ==
  /\ sched[s].heartbeat = "sending"
  /\ \/ dbLock = Free /\ ~OwnsRow(s)
     \/ dbLock \notin {Free, s}
  /\ sched' = [sched EXCEPT ![s].heartbeat = "failed"]
  /\ UNCHANGED <<clock, fence, dbLock, lastCommit>>

(***************************************************************************)
(* _transaction: BEGIN IMMEDIATE, the fence check, the body, COMMIT.  Time *)
(* passes between the check and the COMMIT.                                *)
(***************************************************************************)
\* Slip: the Registry is opened without require_fencing.
BeginTransactionUnfenced(s) ==
  /\ dbLock = Free
  /\ sched[s].phase = "entered"
  /\ dbLock' = s
  /\ UNCHANGED <<clock, fence, sched, lastCommit>>

BeginTransaction(s) ==
  /\ dbLock = Free
  /\ ActiveFence(s)
  /\ dbLock' = s
  /\ UNCHANGED <<clock, fence, sched, lastCommit>>

Commit(s) ==
  /\ dbLock = s
  /\ dbLock' = Free
  /\ lastCommit' = sched[s].generation
  /\ UNCHANGED <<clock, fence, sched>>

\* The body raised: ROLLBACK, the scheduler goes on and may leave.
Rollback(s) ==
  /\ dbLock = s
  /\ dbLock' = Free
  /\ UNCHANGED <<clock, fence, sched, lastCommit>>

(***************************************************************************)
(* __exit__: stop and join the heartbeat thread, release the row when it   *)
(* is still ours (expiry year 1, the generation stays), drop the token.    *)
(***************************************************************************)
Exit(s) ==
  /\ sched[s].phase = "entered"
  /\ sched[s].heartbeat # "sending"
  /\ dbLock = Free
  /\ fence' = IF OwnsRow(s) THEN [fence EXCEPT !.expires = 0] ELSE fence
  /\ sched' = [sched EXCEPT ![s] = Idle]
  /\ UNCHANGED <<clock, dbLock, lastCommit>>

\* The process dies; an open transaction is rolled back by SQLite.
Crash(s) ==
  /\ sched[s].phase # "idle"
  /\ sched' = [sched EXCEPT ![s] = Idle]
  /\ dbLock' = IF dbLock = s THEN Free ELSE dbLock
  /\ UNCHANGED <<clock, fence, lastCommit>>

\* stop_epoch and recover_failed_epoch, run by an unfenced operator process.
OperatorBump ==
  /\ dbLock = Free
  /\ fence.generation \in 1..(MaxGeneration - 1)
  /\ fence' = [generation |-> fence.generation + 1, owner |-> Operator, expires |-> 0]
  /\ UNCHANGED <<clock, dbLock, sched, lastCommit>>

Tick ==
  /\ clock < MaxClock
  /\ clock' = clock + 1
  /\ UNCHANGED <<fence, dbLock, sched, lastCommit>>

SchedulerStep(s) ==
  \/ BeginAcquire(s) \/ AcquireGranted(s) \/ AcquireRefused(s) \/ Enter(s)
  \/ HeartbeatWake(s) \/ HeartbeatRenew(s) \/ HeartbeatFails(s)
  \/ BeginTransaction(s) \/ Commit(s) \/ Rollback(s)
  \/ Exit(s) \/ Crash(s)

Next == (\E s \in Scheduler : SchedulerStep(s)) \/ OperatorBump \/ Tick

Spec == Init /\ [][Next]_vars

-----------------------------------------------------------------------------
Leased(s) == sched[s].phase \in {"acquired", "entered"}

(***************************************************************************)
(* "Renewable Lineage and Task fences prevent two schedulers from          *)
(* committing the same transition": an open transaction belongs to the     *)
(* current generation for as long as it is open, even when its lease       *)
(* expires between the fence check and the COMMIT.  Nobody can take over   *)
(* under an open BEGIN IMMEDIATE.                                          *)
(***************************************************************************)
OpenTransactionIsCurrent ==
  \A s \in Scheduler : dbLock = s => OwnsRow(s)

(***************************************************************************)
(* "A stale owner may finish local work but cannot commit a transition"    *)
(* (docs/protocols.md): Registry mutations commit in generation order, so  *)
(* once a later generation has committed, no mutation of an earlier one    *)
(* does.  The generation itself never decreases and a step raises it by    *)
(* one at most.                                                            *)
(***************************************************************************)
FencingIsMonotone ==
  [][ /\ lastCommit' >= lastCommit
      /\ fence'.generation \in {fence.generation, fence.generation + 1} ]_vars

(***************************************************************************)
(* A superseded scheduler never moves the expiry of a row it no longer     *)
(* owns: a late heartbeat cannot keep a foreign lease alive and a late     *)
(* release cannot end one.                                                 *)
(***************************************************************************)
OnlyOwnerMovesExpiry ==
  [][ \A s \in Scheduler :
        /\ sched'[s] # sched[s]
        /\ fence'.generation = fence.generation
        /\ fence'.expires # fence.expires
        => OwnsRow(s) /\ Leased(s) ]_vars

(***************************************************************************)
(* The inductive invariant: generations are handed out once, the row's     *)
(* owner is the holder of the row's generation, and the history never runs *)
(* ahead of the row.                                                       *)
(***************************************************************************)
GenerationsUnique ==
  \A s, t \in Scheduler :
    s # t /\ Leased(s) /\ Leased(t) => sched[s].generation # sched[t].generation

GenerationsPast ==
  \A s \in Scheduler :
    Leased(s) => sched[s].generation \in 1..fence.generation

HeartbeatsLeased ==
  \A s \in Scheduler : sched[s].heartbeat # "off" => sched[s].phase = "entered"

TransactionOpen ==
  \A s \in Scheduler : dbLock = s => sched[s].phase = "entered"

FenceInv ==
  /\ TypeOK
  /\ GenerationsUnique
  /\ GenerationsPast
  /\ HeartbeatsLeased
  /\ TransactionOpen
  /\ OpenTransactionIsCurrent
  /\ lastCommit <= fence.generation

=============================================================================
