--------------------------- MODULE CampaignScheduler ---------------------------
(***************************************************************************)
(* CampaignScheduler (controller/campaign.py): runs that drive the         *)
(* Lineages of their Campaign through a target Epoch, hand the Evidence of *)
(* each Epoch to the next, finish successor Evolutions, wait for the       *)
(* observer Lineage of another Campaign, and finalize.                     *)
(*                                                                         *)
(* A run is one call of run_registered_campaign_through in one process;    *)
(* its Lineages are coroutines of a task group, so the first exception     *)
(* ends all of them.  A Lineage is worked on by the holder of its fence    *)
(* only (module LineageFence), so one program counter per Lineage is       *)
(* enough.  An Epoch is the contract of module Epoch: it is open until     *)
(* complete_epoch moves the Lineage to awaiting_evidence.                  *)
(*                                                                         *)
(* An Evidence checkpoint is named by the last Epoch it covers, an Agent   *)
(* by the Epoch whose successor Evolution built it; 0 is the seed.         *)
(***************************************************************************)
EXTENDS Naturals, FiniteSets

CONSTANTS
  Campaign,
  Lineage,
  Run,         \* calls of the scheduler
  CampaignOf,  \* lineages.campaign_id
  Observer,    \* lineages.evolver_observer_lineage_id
  Evolves,     \* Lineages with max_challengers = 1
  Begin,       \* the Epoch each Lineage has been brought to before, by runs
               \* that waited for its observer
  Serves,      \* the Campaign of each Run
  Target,      \* its target_epoch_number
  Finalize,    \* its finalize flag
  None,        \* an absent row, Lineage or owner
  Dead,        \* the owner of a fence whose process died
  MaxEpoch,    \* bound on Epoch numbers
  MaxFaults    \* bound on crashes, errors and operator interventions

ASSUME SchedulerConstants ==
  /\ CampaignOf \in [Lineage -> Campaign]
  /\ Observer \in [Lineage -> Lineage \cup {None}]
  /\ Evolves \subseteq Lineage
  /\ Begin \in [Lineage -> 1..(MaxEpoch + 1)]
  /\ \A l \in Lineage : Observer[l] # None => Begin[l] <= Begin[Observer[l]] + 1
  /\ Serves \in [Run -> Campaign]
  /\ Target \in [Run -> 1..MaxEpoch]
  /\ Finalize \in [Run -> BOOLEAN]
  /\ \A r \in Run : \E l \in Lineage : CampaignOf[l] = Serves[r]
  /\ None \notin Lineage \cup Run
  /\ Dead \notin Run
  /\ MaxEpoch \in Nat \ {0}
  /\ MaxFaults \in Nat

VARIABLES
  campaign,  \* campaigns.status
  lineage,   \* lineages rows
  epochs,    \* epochs rows
  successor, \* epoch_successor_evolutions rows
  revisions, \* successors of each Lineage found by their creation key
  owner,     \* holder of each Lineage fence
  pc,        \* where the coroutine of each Lineage is
  seen,      \* the observer row it has read
  exposed,   \* Evidence the Evolver was shown: <<lineage, boundary, checkpoint>>
  run,       \* where each Run is
  todo,      \* Lineages whose fence the Run has yet to acquire
  returned,  \* Lineages that reached the target of the Run
  token,     \* the fence that guards the finalizing transaction
  faults

registry == <<campaign, lineage, epochs, successor, revisions>>
process == <<pc, seen, run, todo, returned, token>>
vars == <<registry, owner, process, exposed, faults>>

Number == 1..MaxEpoch
LineageStatus == {"ready", "running", "awaiting_evidence", "failed", "completed", "cancelled"}
LineageRow == [status : LineageStatus, next : 1..(MaxEpoch + 1),
               evidence : 0..MaxEpoch, agent : 0..MaxEpoch]
EpochRow == [status : {"open", "failed", "completed"}, evidence : 0..MaxEpoch,
             agent : 0..MaxEpoch, challenger : BOOLEAN]
\* An absent row is not a row.
ASSUME NoneIsNoRow == None \notin EpochRow

Station == {"idle", "loop", "observe_epoch", "evolve", "evolve_check", "evolving",
            "boundary", "observe", "epoch", "challenge_check", "challenging", "held"}

TypeOK ==
  /\ campaign \in [Campaign -> {"active", "completed", "cancelled", "failed"}]
  /\ lineage \in [Lineage -> LineageRow]
  /\ epochs \in [Lineage -> [Number -> EpochRow \cup {None}]]
  /\ successor \in [Lineage -> [Number -> {"none", "requested", "completed"}]]
  /\ revisions \in [Lineage -> SUBSET Number]
  /\ owner \in [Lineage -> Run \cup {None, Dead}]
  /\ pc \in [Lineage -> Station]
  /\ seen \in [Lineage -> LineageRow \cup {None}]
  /\ exposed \subseteq Lineage \X (1..(MaxEpoch + 1)) \X (0..MaxEpoch)
  /\ run \in [Run -> {"off", "running", "finalizing", "done"}]
  /\ todo \in [Run -> SUBSET Lineage]
  /\ returned \in [Run -> SUBSET Lineage]
  /\ token \in [Run -> Lineage \cup {None}]
  /\ faults \in Nat

\* Earlier runs have brought each Lineage to an Epoch boundary, and may have
\* left the successor Evolution of the last Epoch unfinished.
Init ==
  /\ campaign = [c \in Campaign |-> "active"]
  /\ lineage = [l \in Lineage |-> [status |-> "ready", next |-> Begin[l],
                                   evidence |-> Begin[l] - 1, agent |-> 0]]
  /\ epochs = [l \in Lineage |-> [n \in Number |->
       IF n < Begin[l] THEN [status |-> "completed", evidence |-> n - 1, agent |-> 0,
                            challenger |-> FALSE]
       ELSE None]]
  /\ \E pending \in SUBSET Evolves :
       successor = [l \in Lineage |-> [n \in Number |->
         IF l \in pending /\ n = Begin[l] - 1 THEN "requested" ELSE "none"]]
  /\ revisions = [l \in Lineage |-> {}]
  /\ owner = [l \in Lineage |-> None]
  /\ pc = [l \in Lineage |-> "idle"]
  /\ seen = [l \in Lineage |-> None]
  /\ exposed = {}
  /\ run = [r \in Run |-> "off"]
  /\ todo = [r \in Run |-> {}]
  /\ returned = [r \in Run |-> {}]
  /\ token = [r \in Run |-> None]
  /\ faults = 0

-----------------------------------------------------------------------------
Members(c) == {l \in Lineage : CampaignOf[l] = c}
Status(l) == lineage[l].status
NextNumber(l) == lineage[l].next
TargetOf(l) == Target[owner[l]]
Row(l, n) == IF n \in Number THEN epochs[l][n] ELSE None
Completed(l, n) == Row(l, n) # None /\ Row(l, n).status = "completed"
Unobserved(l) == Observer[l] = None \/ NextNumber(l) = 1
OpenEpoch(l) == Row(l, NextNumber(l)) # None /\ Row(l, NextNumber(l)).status = "open"

Disrupts == faults < MaxFaults /\ faults' = faults + 1
At(l, s) == owner[l] \in Run /\ pc[l] = s
Goto(l, s) == pc' = [pc EXCEPT ![l] = s]

\* An exception, or the end of the process, unwinds every coroutine of a run.
Unwind(r) ==
  /\ pc' = [l \in Lineage |-> IF owner[l] = r THEN "idle" ELSE pc[l]]
  /\ seen' = [l \in Lineage |-> IF owner[l] = r THEN None ELSE seen[l]]
  /\ run' = [run EXCEPT ![r] = "off"]
  /\ todo' = [todo EXCEPT ![r] = {}]
  /\ returned' = [returned EXCEPT ![r] = {}]
  /\ token' = [token EXCEPT ![r] = None]

\* Each coroutine leaves its fence on the way out.
Fails(r) ==
  /\ Unwind(r)
  /\ owner' = [l \in Lineage |-> IF owner[l] = r THEN None ELSE owner[l]]
  /\ UNCHANGED <<registry, exposed>>

-----------------------------------------------------------------------------
(* A run begins, and each of its coroutines takes its fence.               *)

Start(r) ==
  /\ run[r] = "off"
  /\ campaign[Serves[r]] = "active"
  /\ run' = [run EXCEPT ![r] = "running"]
  /\ todo' = [todo EXCEPT ![r] = Members(Serves[r])]
  /\ UNCHANGED <<registry, owner, pc, seen, returned, token, exposed, faults>>

Acquire(r, l) ==
  /\ run[r] = "running"
  /\ l \in todo[r]
  /\ owner[l] = None
  /\ owner' = [owner EXCEPT ![l] = r]
  /\ todo' = [todo EXCEPT ![r] = @ \ {l}]
  /\ Goto(l, "loop")
  /\ UNCHANGED <<registry, seen, run, returned, token, exposed, faults>>

\* LineageLeaseUnavailableError
AcquireRefused(r, l) ==
  /\ run[r] = "running"
  /\ l \in todo[r]
  /\ owner[l] # None
  /\ Fails(r)
  /\ UNCHANGED faults

-----------------------------------------------------------------------------
(* _run_owned_lineage_through                                              *)

\* Slip: the Lineage keeps its old checkpoint.
HandOffStatus(l) ==
  /\ At(l, "loop")
  /\ Status(l) = "awaiting_evidence"
  /\ lineage' = [lineage EXCEPT ![l].status = "ready"]
  /\ UNCHANGED <<campaign, epochs, successor, revisions, owner, process, exposed, faults>>

\* assemble_next refuses a checkpoint that is not the predecessor's, and
\* advance_lineage_evidence is a compare-and-swap.
HandOff(l) ==
  LET n == NextNumber(l) - 1
  IN /\ At(l, "loop")
     /\ Status(l) = "awaiting_evidence"
     /\ Completed(l, n)
     /\ epochs[l][n].evidence = lineage[l].evidence
     /\ lineage[l].evidence = n - 1
     /\ lineage' = [lineage EXCEPT ![l].status = "ready", ![l].evidence = n]
     /\ UNCHANGED <<campaign, epochs, successor, revisions, owner, process, exposed, faults>>

\* Slip: the request of the Epoch that is about to start is looked up.
PendingOfNext(l) ==
  /\ Completed(l, NextNumber(l))
  /\ successor[l][NextNumber(l)] = "requested"

\* _complete_pending_successor_evolution finds unfinished work of the Epoch
\* that ended last.
Pending(l) ==
  /\ Completed(l, NextNumber(l) - 1)
  /\ successor[l][NextNumber(l) - 1] = "requested"

FinishFirst(l) ==
  /\ At(l, "loop")
  /\ Status(l) = "ready"
  /\ Pending(l)
  /\ Goto(l, IF Unobserved(l) THEN "evolve" ELSE "observe_epoch")
  /\ UNCHANGED <<registry, owner, seen, run, todo, returned, token, exposed, faults>>

\* Nothing is pending, or it has just been published.
Decides(l) ==
  \/ At(l, "boundary")
  \/ /\ At(l, "loop")
     /\ Status(l) \in {"ready", "running", "completed"}
     /\ Status(l) = "ready" => ~Pending(l)

\* The target is reached: the coroutine returns and leaves its fence.
Return(l) ==
  /\ Decides(l)
  /\ Status(l) \in {"ready", "completed"}
  /\ NextNumber(l) > TargetOf(l)
  /\ returned' = [returned EXCEPT ![owner[l]] = @ \cup {l}]
  /\ owner' = [owner EXCEPT ![l] = None]
  /\ Goto(l, "idle")
  /\ UNCHANGED <<registry, seen, run, todo, token, exposed, faults>>

Continue(l) ==
  /\ Decides(l)
  /\ Status(l) # "completed"
  /\ NextNumber(l) <= TargetOf(l)
  /\ Goto(l, IF Unobserved(l) THEN "epoch" ELSE "observe")
  /\ UNCHANGED <<registry, owner, seen, run, todo, returned, token, exposed, faults>>

\* InvalidTransitionError: failed, cancelled, completed before the target, or
\* past the target and not ready.
LineageStopped(l) ==
  /\ \/ At(l, "loop") /\ Status(l) \in {"failed", "cancelled"}
     \/ Decides(l) /\ Status(l) = "completed" /\ NextNumber(l) <= TargetOf(l)
     \/ /\ Decides(l)
        /\ Status(l) \notin {"ready", "completed"}
        /\ NextNumber(l) > TargetOf(l)
  /\ Fails(owner[l])
  /\ UNCHANGED faults

-----------------------------------------------------------------------------
(* The observer.  Both waits poll; both ask about the boundary before the  *)
(* Lineage's next Epoch.                                                   *)

\* Slip: the observer must stand at the boundary.
PublishedExactly(o, n) ==
  /\ Completed(o, n - 1)
  /\ lineage[o].next = n /\ Status(o) \in {"ready", "completed"}

\* Slip: the completed Epoch is enough.
PublishedEarly(o, n) == Completed(o, n - 1)

\* The observer has completed Epoch n - 1 and published its Evidence: it has
\* started Epoch n, or stands at that boundary.  (The wait before an Evolution
\* asks for next >= n: a Lineage past n has started Epoch n.)
Published(o, n) ==
  /\ Completed(o, n - 1)
  /\ \/ Row(o, n) # None
     \/ lineage[o].next = n /\ Status(o) \in {"ready", "completed"}

Waits(l) == At(l, "observe_epoch") \/ At(l, "observe")

Observed(l) ==
  /\ Waits(l)
  /\ Status(Observer[l]) \notin {"failed", "cancelled"}
  /\ Published(Observer[l], NextNumber(l))
  /\ Goto(l, IF pc[l] = "observe" THEN "epoch" ELSE "evolve")
  /\ UNCHANGED <<registry, owner, seen, run, todo, returned, token, exposed, faults>>

\* The observer failed, was cancelled, or completed too early.
ObserverLost(l) ==
  /\ Waits(l)
  /\ \/ Status(Observer[l]) \in {"failed", "cancelled"}
     \/ Status(Observer[l]) = "completed" /\ ~Published(Observer[l], NextNumber(l))
  /\ Fails(owner[l])
  /\ UNCHANGED faults

-----------------------------------------------------------------------------
(* _build_agent_proposal, for a successor and for a Challenger.            *)

\* run_post_epoch_evolution needs a ready Lineage.  A revision that an
\* earlier run registered is found by its creation key.
Evolve(l) ==
  /\ At(l, "evolve")
  /\ Status(l) = "ready"
  /\ NextNumber(l) - 1 \notin revisions[l]
  /\ seen' = [seen EXCEPT ![l] = IF Observer[l] = None THEN None ELSE lineage[Observer[l]]]
  /\ Goto(l, "evolve_check")
  /\ UNCHANGED <<registry, owner, run, todo, returned, token, exposed, faults>>

EvolveFound(l) ==
  /\ At(l, "evolve")
  /\ Status(l) = "ready"
  /\ NextNumber(l) - 1 \in revisions[l]
  /\ Goto(l, "evolving")
  /\ UNCHANGED <<registry, owner, seen, run, todo, returned, token, exposed, faults>>

EvolveRefused(l) ==
  /\ At(l, "evolve")
  /\ Status(l) # "ready"
  /\ Fails(owner[l])
  /\ UNCHANGED faults

\* The Workflow of the open Epoch asks for its Challenger.
Challenge(l) ==
  /\ At(l, "epoch")
  /\ l \in Evolves
  /\ OpenEpoch(l)
  /\ ~Row(l, NextNumber(l)).challenger
  /\ seen' = [seen EXCEPT ![l] = IF Observer[l] = None THEN None ELSE lineage[Observer[l]]]
  /\ Goto(l, "challenge_check")
  /\ UNCHANGED <<registry, owner, run, todo, returned, token, exposed, faults>>

Checks(l) == At(l, "evolve_check") \/ At(l, "challenge_check")
Boundary(l) == Row(Observer[l], NextNumber(l))

\* The observer stands at the boundary: the preceding Epoch is completed, and
\* the boundary Epoch exists or the row read before was ready at it.
AtBoundary(l) ==
  ~Unobserved(l) =>
    /\ Completed(Observer[l], NextNumber(l) - 1)
    /\ Boundary(l) # None \/ (seen[l].next = NextNumber(l) /\ seen[l].status = "ready")

\* Slip: the checkpoint is always the one of the Lineage row.
ReferenceOfRow(l) == seen[l].evidence

\* A boundary Epoch freezes the checkpoint; otherwise it is the Lineage's.
Reference(l) == IF Boundary(l) # None THEN Boundary(l).evidence ELSE seen[l].evidence

Build(l) ==
  /\ Checks(l)
  /\ AtBoundary(l)
  /\ exposed' = IF Observer[l] = None THEN exposed
                ELSE exposed \cup {<<l, NextNumber(l), Reference(l)>>}
  /\ seen' = [seen EXCEPT ![l] = None]
  /\ Goto(l, IF pc[l] = "evolve_check" THEN "evolving" ELSE "challenging")
  /\ UNCHANGED <<registry, owner, run, todo, returned, token, faults>>

\* "Evolver observer has not published its preceding-Epoch checkpoint"
BuildRefused(l) ==
  /\ Checks(l)
  /\ ~AtBoundary(l)
  /\ Fails(owner[l])
  /\ UNCHANGED faults

\* attach_challenger, unless the Epoch was failed meanwhile.
Challenged(l) ==
  /\ At(l, "challenging")
  /\ epochs' = IF OpenEpoch(l)
               THEN [epochs EXCEPT ![l][NextNumber(l)].challenger = TRUE] ELSE epochs
  /\ Goto(l, "epoch")
  /\ UNCHANGED <<campaign, lineage, successor, revisions, owner, seen, run, todo, returned,
                 token, exposed, faults>>

\* register_kernel_agent_revision, a transaction of its own.
Register(l) ==
  /\ At(l, "evolving")
  /\ NextNumber(l) - 1 \notin revisions[l]
  /\ revisions' = [revisions EXCEPT ![l] = @ \cup {NextNumber(l) - 1}]
  /\ UNCHANGED <<campaign, lineage, epochs, successor, owner, process, exposed, faults>>

\* The Agent that a proposal names: the revision registered for this boundary,
\* the parent when nothing changes, or an earlier one that is reused.
Successors(l) ==
  LET n == NextNumber(l) - 1
  IN IF n \in revisions[l] THEN {n} ELSE {0, lineage[l].agent} \cup revisions[l]

\* complete_epoch_successor_evolution
Publish(l) ==
  LET n == NextNumber(l) - 1
  IN /\ At(l, "evolving")
     /\ Status(l) = "ready"
     /\ successor' = [successor EXCEPT ![l][n] = "completed"]
     /\ \E agent \in Successors(l) : lineage' = [lineage EXCEPT ![l].agent = agent]
     /\ Goto(l, "boundary")
     /\ UNCHANGED <<campaign, epochs, revisions, owner, seen, run, todo, returned, token,
                    exposed, faults>>

\* The Lineage is no longer ready.
PublishRefused(l) ==
  /\ At(l, "evolving")
  /\ Status(l) # "ready"
  /\ Fails(owner[l])
  /\ UNCHANGED faults

-----------------------------------------------------------------------------
(* run_epoch                                                               *)

\* insert_epoch freezes the Agent and the Evidence of the Lineage.
Insert(l) ==
  /\ At(l, "epoch")
  /\ Row(l, NextNumber(l)) = None
  /\ Status(l) = "ready"
  /\ epochs' = [epochs EXCEPT ![l][NextNumber(l)] =
       [status |-> "open", evidence |-> lineage[l].evidence, agent |-> lineage[l].agent,
        challenger |-> FALSE]]
  /\ lineage' = [lineage EXCEPT ![l].status = "running"]
  /\ UNCHANGED <<campaign, successor, revisions, owner, process, exposed, faults>>

\* insert_epoch finds the Lineage not ready, run_epoch finds the Epoch failed.
EpochRefused(l) ==
  /\ At(l, "epoch")
  /\ \/ Row(l, NextNumber(l)) = None /\ Status(l) # "ready"
     \/ Row(l, NextNumber(l)) # None /\ Row(l, NextNumber(l)).status = "failed"
  /\ Fails(owner[l])
  /\ UNCHANGED faults

RequestSuccessor(l) ==
  /\ At(l, "epoch")
  /\ OpenEpoch(l)
  /\ l \in Evolves
  /\ successor[l][NextNumber(l)] = "none"
  /\ successor' = [successor EXCEPT ![l][NextNumber(l)] = "requested"]
  /\ UNCHANGED <<campaign, lineage, epochs, revisions, owner, process, exposed, faults>>

\* complete_epoch; the loop goes on with the Lineage's new row.  (Which Branch
\* has won, and that its Agent becomes the active one, is left out.)
CompleteEpoch(l) ==
  /\ At(l, "epoch")
  /\ OpenEpoch(l)
  /\ epochs' = [epochs EXCEPT ![l][NextNumber(l)].status = "completed"]
  /\ lineage' = [lineage EXCEPT ![l].status = "awaiting_evidence", ![l].next = @ + 1]
  /\ Goto(l, "loop")
  /\ UNCHANGED <<campaign, successor, revisions, owner, seen, run, todo, returned, token,
                 exposed, faults>>

-----------------------------------------------------------------------------
(* The end of a run.                                                       *)

AllReturned(r) ==
  /\ run[r] = "running"
  /\ todo[r] = {}
  /\ returned[r] = Members(Serves[r])
  /\ run' = [run EXCEPT ![r] = IF Finalize[r] THEN "finalizing" ELSE "done"]
  /\ returned' = [returned EXCEPT ![r] = {}]
  /\ todo' = [todo EXCEPT ![r] = IF Finalize[r] THEN Members(Serves[r]) ELSE {}]
  /\ UNCHANGED <<registry, owner, pc, seen, token, exposed, faults>>

\* The fences of all Lineages, one after the other; the context of the last
\* one is the fence the transaction checks.
FinalizeAcquire(r, l) ==
  /\ run[r] = "finalizing"
  /\ l \in todo[r]
  /\ owner[l] = None
  /\ owner' = [owner EXCEPT ![l] = r]
  /\ todo' = [todo EXCEPT ![r] = @ \ {l}]
  /\ token' = [token EXCEPT ![r] = l]
  /\ Goto(l, "held")
  /\ UNCHANGED <<registry, seen, run, returned, exposed, faults>>

FinalizeRefused(r, l) ==
  /\ run[r] = "finalizing"
  /\ l \in todo[r]
  /\ owner[l] # None
  /\ Fails(r)
  /\ UNCHANGED faults

\* Slip: the Lineages are not looked at again.
QuiescentBefore(c, target) == campaign[c] = "active"

\* complete_campaign needs ready Lineages past the target.
Quiescent(c, target) ==
  /\ campaign[c] = "active"
  /\ \A l \in Members(c) : Status(l) = "ready" /\ NextNumber(l) > target

FinalizeCampaign(r) ==
  /\ run[r] = "finalizing"
  /\ todo[r] = {}
  /\ owner[token[r]] = r
  /\ Quiescent(Serves[r], Target[r])
  /\ campaign' = [campaign EXCEPT ![Serves[r]] = "completed"]
  /\ lineage' = [l \in Lineage |-> IF CampaignOf[l] = Serves[r]
                                   THEN [lineage[l] EXCEPT !.status = "completed"]
                                   ELSE lineage[l]]
  /\ owner' = [l \in Lineage |-> IF owner[l] = r THEN None ELSE owner[l]]
  /\ pc' = [l \in Lineage |-> IF owner[l] = r THEN "idle" ELSE pc[l]]
  /\ run' = [run EXCEPT ![r] = "done"]
  /\ token' = [token EXCEPT ![r] = None]
  /\ UNCHANGED <<epochs, successor, revisions, seen, todo, returned, exposed, faults>>

FinalizeFails(r) ==
  /\ run[r] = "finalizing"
  /\ todo[r] = {}
  /\ owner[token[r]] # r \/ ~Quiescent(Serves[r], Target[r])
  /\ Fails(r)
  /\ UNCHANGED faults

-----------------------------------------------------------------------------
(* Faults and operators.                                                   *)

\* The process dies.  Its fences stay until they expire.
Crash(r) ==
  /\ Disrupts
  /\ run[r] \in {"running", "finalizing"}
  /\ Unwind(r)
  /\ owner' = [l \in Lineage |-> IF owner[l] = r THEN Dead ELSE owner[l]]
  /\ UNCHANGED <<registry, exposed>>

\* The fence of a dead process expires.
Expire(l) ==
  /\ owner[l] = Dead
  /\ owner' = [owner EXCEPT ![l] = None]
  /\ UNCHANGED <<registry, process, exposed, faults>>

\* A finalizing process stalls and one of its fences expires.
Lapse(l) ==
  /\ Disrupts
  /\ At(l, "held")
  /\ owner' = [owner EXCEPT ![l] = None]
  /\ Goto(l, "idle")
  /\ UNCHANGED <<registry, seen, run, todo, returned, token, exposed>>

\* A Session of the Evolver, or the Workflow of the Epoch, ends in an error.
SessionFails(l) ==
  /\ Disrupts
  /\ \E s \in {"evolving", "challenging", "epoch"} : At(l, s)
  /\ Fails(owner[l])

\* cancel_campaign
Cancel(c) ==
  /\ Disrupts
  /\ campaign[c] = "active"
  /\ \A l \in Members(c) : Status(l) \notin {"running", "awaiting_evidence"}
  /\ campaign' = [campaign EXCEPT ![c] = "cancelled"]
  /\ lineage' = [l \in Lineage |-> IF CampaignOf[l] = c /\ Status(l) = "ready"
                                   THEN [lineage[l] EXCEPT !.status = "cancelled"]
                                   ELSE lineage[l]]
  /\ UNCHANGED <<epochs, successor, revisions, owner, process, exposed>>

\* fail_epoch
FailEpoch(l) ==
  /\ Disrupts
  /\ OpenEpoch(l)
  /\ epochs' = [epochs EXCEPT ![l][NextNumber(l)].status = "failed"]
  /\ lineage' = [lineage EXCEPT ![l].status = "failed"]
  /\ campaign' = [campaign EXCEPT ![CampaignOf[l]] = IF @ = "active" THEN "failed" ELSE @]
  /\ UNCHANGED <<successor, revisions, owner, process, exposed>>

\* recover_failed_epoch: the Epoch is open again under a new fence, and the
\* Campaign when no Lineage of it is left failed.
RecoverEpoch(l) ==
  /\ Status(l) = "failed"
  /\ epochs' = [epochs EXCEPT ![l][NextNumber(l)].status = "open"]
  /\ lineage' = [lineage EXCEPT ![l].status = "running"]
  /\ campaign' = [campaign EXCEPT ![CampaignOf[l]] =
       IF @ = "failed" /\ \A o \in Members(CampaignOf[l]) \ {l} : Status(o) # "failed"
       THEN "active" ELSE @]
  /\ \/ /\ owner[l] \in Run
        /\ Unwind(owner[l])
        /\ owner' = [o \in Lineage |-> IF owner[o] = owner[l] THEN None ELSE owner[o]]
     \/ /\ owner[l] \notin Run
        /\ owner' = [owner EXCEPT ![l] = None]
        /\ UNCHANGED process
  /\ UNCHANGED <<successor, revisions, exposed, faults>>

-----------------------------------------------------------------------------
Coroutine(l) ==
  \/ HandOff(l) \/ FinishFirst(l) \/ Return(l) \/ Continue(l) \/ LineageStopped(l)
  \/ Observed(l) \/ ObserverLost(l)
  \/ Evolve(l) \/ EvolveFound(l) \/ EvolveRefused(l) \/ Build(l) \/ BuildRefused(l)
  \/ Challenged(l) \/ Publish(l) \/ PublishRefused(l)
  \/ Insert(l) \/ EpochRefused(l) \/ CompleteEpoch(l)

\* What the Workflow and the Evolver decide.
Choice(l) == Challenge(l) \/ Register(l) \/ RequestSuccessor(l)

Driver(r) ==
  \/ Start(r) \/ AllReturned(r) \/ FinalizeCampaign(r) \/ FinalizeFails(r)
  \/ \E l \in Lineage : \/ Acquire(r, l) \/ AcquireRefused(r, l)
                        \/ FinalizeAcquire(r, l) \/ FinalizeRefused(r, l)

Next ==
  \/ \E l \in Lineage : \/ Coroutine(l) \/ Choice(l)
                        \/ Expire(l) \/ Lapse(l) \/ SessionFails(l)
                        \/ FailEpoch(l) \/ RecoverEpoch(l)
  \/ \E r \in Run : Driver(r) \/ Crash(r)
  \/ \E c \in Campaign : Cancel(c)

(***************************************************************************)
(* The event loop of a live process runs its coroutines, pollers included; *)
(* a Workflow makes finitely many calls and then completes its Epoch; the  *)
(* fence of a dead process expires.  A run that ended without a result is  *)
(* started again by the operator or the Task worker: the code does not do  *)
(* that by itself, it makes doing it safe.                                 *)
(***************************************************************************)
Process(r) == Driver(r) \/ \E l \in Lineage : owner[l] = r /\ Coroutine(l)
Fairness ==
  /\ \A r \in Run : WF_vars(Process(r))
  /\ WF_vars(\E l \in Lineage : Expire(l))

Spec == Init /\ [][Next]_vars
FairSpec == Spec /\ Fairness

-----------------------------------------------------------------------------
(***************************************************************************)
(* "Runtime waits for the observer to publish Epoch N-1, then exposes      *)
(* exactly that read-only Evidence prefix": whatever the observer does     *)
(* between the wait, the two reads and the Session, the Evolver that works *)
(* for Epoch N sees the observer through Epoch N-1, no more and no less.   *)
(***************************************************************************)
ReferenceIsExactPrefix == \A e \in exposed : e[3] = e[2] - 1

(***************************************************************************)
(* An Epoch N of an observing Lineage exists only when the observer has    *)
(* published the Evidence of Epoch N-1 (_wait_for_observer_checkpoint),    *)
(* also when the Epoch was started by a run that has died since.           *)
(***************************************************************************)
ObserverLeads ==
  \A l \in Lineage, n \in Number :
    Observer[l] # None /\ epochs[l][n] # None => lineage[Observer[l]].evidence >= n - 1

(***************************************************************************)
(* "Finish a durable post-Epoch Evolver request before another Epoch       *)
(* starts": an Epoch that follows one with a successor request runs the    *)
(* Agent that the request published, through crashes at any point, runs    *)
(* with other targets and concurrent runs.                                 *)
(***************************************************************************)
SuccessorRunsNext ==
  \A l \in Lineage : \A n \in Number \ {MaxEpoch} :
    epochs[l][n + 1] # None /\ successor[l][n] # "none" =>
      /\ successor[l][n] = "completed"
      /\ n \in revisions[l] => epochs[l][n + 1].agent = n

(***************************************************************************)
(* "Mark a quiescent Campaign and every target-complete lineage terminal": *)
(* a completed Campaign has no open Epoch and no handoff left, although    *)
(* its fences are taken one after the other and only the last is checked.  *)
(***************************************************************************)
CompletedIsQuiescent ==
  \A l \in Lineage : campaign[CampaignOf[l]] = "completed" =>
    /\ Status(l) = "completed"
    /\ lineage[l].evidence = NextNumber(l) - 1
    /\ \A n \in Number : epochs[l][n] # None => epochs[l][n].status = "completed"

(***************************************************************************)
(* Evidence is cumulative: every Epoch starts from the checkpoint through  *)
(* its predecessor, and the checkpoint of the Lineage is behind its last   *)
(* Epoch exactly while the handoff is pending, so that assemble_next never *)
(* refuses the handoff.                                                    *)
(***************************************************************************)
EvidenceIsCumulative ==
  \A l \in Lineage :
    /\ \A n \in Number : epochs[l][n] # None => epochs[l][n].evidence = n - 1
    /\ lineage[l].evidence + (IF Status(l) = "awaiting_evidence" THEN 1 ELSE 0)
         = NextNumber(l) - 1

(***************************************************************************)
(* Nobody polls for ever: a Lineage that waits for its observer goes on or *)
(* fails, also when the observer is far ahead, is finalized, fails or is   *)
(* cancelled, or its run dies and is started again.                        *)
(***************************************************************************)
PollsEnd ==
  \A l \in {o \in Lineage : Observer[o] # None} : Waits(l) ~> ~Waits(l)

(***************************************************************************)
(* "Runtime waits for the observer to publish Epoch N-1, then exposes      *)
(* exactly that read-only Evidence prefix": once the wait is over, the     *)
(* build is not refused for a missing checkpoint.                          *)
(***************************************************************************)
WaitIsEnough == \A l \in Lineage : Checks(l) => AtBoundary(l)

-----------------------------------------------------------------------------
(***************************************************************************)
(* The inductive invariant.                                                *)
(***************************************************************************)

\* The Epochs before the next one are completed; the next one exists exactly
\* while the Lineage runs it or has failed in it.
RowsAgree ==
  \A l \in Lineage, n \in Number :
    /\ n < NextNumber(l) => Completed(l, n)
    /\ n > NextNumber(l) => epochs[l][n] = None
    /\ n = NextNumber(l) => /\ Status(l) = "running" <=> OpenEpoch(l)
                            /\ Status(l) = "failed" <=> /\ epochs[l][n] # None
                                                        /\ epochs[l][n].status = "failed"
                            /\ ~Completed(l, n)

\* Only a Lineage with a next Epoch in bounds runs one.
RunsInBounds ==
  \A l \in Lineage : Status(l) \in {"running", "failed"} => NextNumber(l) \in Number

\* An unfinished successor request belongs to the last Epoch, and no Epoch
\* runs after it.
RequestsAreRecent ==
  \A l \in Lineage :
    /\ \A n \in Number :
         /\ successor[l][n] # "none" => epochs[l][n] # None
         /\ successor[l][n] = "requested" => n >= NextNumber(l) - 1
    /\ Pending(l) => ~OpenEpoch(l) /\ Status(l) # "failed"

\* A published successor is the Agent of the Lineage until its Epoch starts.
SuccessorIsActive ==
  \A l \in Lineage, n \in Number :
    /\ n \in revisions[l] => n < NextNumber(l) /\ successor[l][n] # "none"
    /\ /\ n + 1 = NextNumber(l)
       /\ successor[l][n] = "completed"
       /\ n \in revisions[l]
       /\ Row(l, n + 1) = None
       => lineage[l].agent = n

\* What the rows of the Registry say to each other.
RegistryInv ==
  /\ EvidenceIsCumulative
  /\ RowsAgree
  /\ RunsInBounds
  /\ RequestsAreRecent
  /\ SuccessorIsActive
  /\ SuccessorRunsNext
  /\ ObserverLeads
  /\ CompletedIsQuiescent

\* What a coroutine has established about the rows stays true while it goes
\* on: the successor request is finished or not, the next Epoch is in bounds,
\* the observer is ahead, and the row read before the check is an earlier
\* state of the observer.
Before == {"observe_epoch", "evolve", "evolve_check", "evolving"}
Past == {"observe", "epoch", "challenge_check", "challenging"}

Knows(l) ==
  /\ pc[l] \in Before => Pending(l)
  /\ pc[l] \in Past \cup {"boundary"} => ~Pending(l)
  /\ pc[l] \in Past => NextNumber(l) \in Number
  /\ Observer[l] # None /\ pc[l] \in Past \ {"observe"} =>
       lineage[Observer[l]].evidence >= NextNumber(l) - 1
  /\ Observer[l] # None /\ pc[l] \in {"evolve_check", "challenge_check"} =>
       /\ seen[l] \in LineageRow
       /\ seen[l].evidence <= lineage[Observer[l]].evidence
       /\ seen[l].status = "ready" => seen[l].evidence = seen[l].next - 1

CoroutineInv == \A l \in Lineage : owner[l] \in Run => Knows(l)

SchedulerInv == TypeOK /\ RegistryInv /\ CoroutineInv /\ ReferenceIsExactPrefix

=============================================================================
