------------------------ MODULE CampaignSchedulerProofs ------------------------
(***************************************************************************)
(* TLAPS proofs about CampaignScheduler, for any Campaigns, Lineages, runs *)
(* with their targets, observers (cycles included), Epoch numbers and      *)
(* disruptions.                                                            *)
(***************************************************************************)
EXTENDS CampaignScheduler, TLAPS

(* What a step that writes the row of one Lineage, or the row of its next   *)
(* Epoch, leaves there.                                                     *)
LineageBecomes(l, status, next, evidence, agent) ==
  /\ lineage' \in [Lineage -> LineageRow]
  /\ lineage'[l].status = status
  /\ lineage'[l].next = next
  /\ lineage'[l].evidence = evidence
  /\ lineage'[l].agent = agent
  /\ \A o \in Lineage \ {l} : lineage'[o] = lineage[o]

Replaces(E, F, n, status, evidence, agent) ==
  /\ F[n] # None
  /\ F[n].status = status
  /\ F[n].evidence = evidence
  /\ F[n].agent = agent
  /\ \A m \in Number \ {n} : F[m] = E[m]

EpochBecomes(l, status, evidence, agent) ==
  /\ NextNumber(l) \in Number
  /\ epochs' \in [Lineage -> [Number -> EpochRow \cup {None}]]
  /\ Replaces(epochs[l], epochs'[l], NextNumber(l), status, evidence, agent)
  /\ \A o \in Lineage \ {l} : epochs'[o] = epochs[o]

SuccessorBecomes(l, n, state) ==
  /\ n \in Number
  /\ successor' \in [Lineage -> [Number -> {"none", "requested", "completed"}]]
  /\ successor'[l][n] = state
  /\ \A m \in Number \ {n} : successor'[l][m] = successor[l][m]
  /\ \A o \in Lineage \ {l} : successor'[o] = successor[o]

StatusesBecome(S, status) ==
  /\ lineage' \in [Lineage -> LineageRow]
  /\ \A o \in Lineage :
       /\ lineage'[o].next = lineage[o].next
       /\ lineage'[o].evidence = lineage[o].evidence
       /\ lineage'[o].agent = lineage[o].agent
       /\ lineage'[o].status = IF o \in S THEN status ELSE lineage[o].status

(* There is an Epoch number.                                                  *)
LEMMA EpochBound == MaxEpoch \in Nat \ {0}
BY SchedulerConstants

(* The Lineage rows, without the rest of the type invariant.                  *)
LEMMA LineageType == ASSUME TypeOK PROVE lineage \in [Lineage -> LineageRow]
BY DEF TypeOK

(* An update of the status leaves the other fields of the row.                *)
LEMMA StatusUpdate ==
  ASSUME TypeOK, NEW l \in Lineage, NEW status \in LineageStatus,
         lineage' = [lineage EXCEPT ![l].status = status]
  PROVE  LineageBecomes(l, status, lineage[l].next, lineage[l].evidence, lineage[l].agent)
BY LineageType DEF LineageRow, LineageBecomes

(* The same, for the rows of a set of Lineages.                               *)
LEMMA StatusesUpdate ==
  ASSUME TypeOK, NEW S, NEW status \in LineageStatus,
         lineage' = [l \in Lineage |-> IF l \in S THEN [lineage[l] EXCEPT !.status = status]
                                       ELSE lineage[l]]
  PROVE  StatusesBecome(S, status)
BY LineageType DEF LineageRow, StatusesBecome

(* An Epoch that is found is a row within the bound.                          *)
LEMMA OpenIsRow ==
  ASSUME TypeOK, NEW l \in Lineage, Row(l, NextNumber(l)) # None
  PROVE  NextNumber(l) \in Number /\ epochs[l][NextNumber(l)] \in EpochRow
BY DEF Row, TypeOK

(* An update of the status of the next Epoch leaves its other fields.         *)
LEMMA EpochUpdate ==
  ASSUME TypeOK, NEW l \in Lineage, Row(l, NextNumber(l)) # None,
         NEW status \in {"open", "failed", "completed"},
         epochs' = [epochs EXCEPT ![l][NextNumber(l)].status = status]
  PROVE  EpochBecomes(l, status, epochs[l][NextNumber(l)].evidence, epochs[l][NextNumber(l)].agent)
BY OpenIsRow, NoneIsNoRow DEF TypeOK, EpochRow, EpochBecomes, Replaces

(* advance_lineage_evidence moves the checkpoint on by one Epoch.             *)
LEMMA HandOffEffect ==
  ASSUME TypeOK, NEW l \in Lineage, HandOff(l)
  PROVE  /\ LineageBecomes(l, "ready", lineage[l].next, lineage[l].next - 1, lineage[l].agent)
         /\ lineage[l].evidence + 1 = lineage[l].next - 1
<1>1. NextNumber(l) - 1 \in Number
  BY DEF HandOff, Completed, Row, TypeOK, LineageRow
<1>2. /\ lineage' = [lineage EXCEPT ![l].status = "ready", ![l].evidence = NextNumber(l) - 1]
      /\ lineage[l].evidence = NextNumber(l) - 1 - 1
  BY DEF HandOff
<1> QED  BY <1>1, <1>2, LineageType, SchedulerConstants
         DEF LineageRow, LineageStatus, NextNumber, Number, LineageBecomes

(* attach_challenger writes the flag and nothing else.                        *)
LEMMA ChallengedEffect ==
  ASSUME TypeOK, NEW l \in Lineage, Challenged(l)
  PROVE  /\ epochs' \in [Lineage -> [Number -> EpochRow \cup {None}]]
         /\ \A o \in Lineage, n \in Number :
              /\ epochs'[o][n] = None <=> epochs[o][n] = None
              /\ epochs'[o][n].status = epochs[o][n].status
              /\ epochs'[o][n].evidence = epochs[o][n].evidence
              /\ epochs'[o][n].agent = epochs[o][n].agent
<1>1. CASE OpenEpoch(l)
  BY <1>1, OpenIsRow, NoneIsNoRow DEF Challenged, TypeOK, EpochRow, OpenEpoch
<1>2. CASE ~OpenEpoch(l)
  BY <1>2 DEF Challenged, TypeOK
<1> QED  BY <1>1, <1>2

(* The successor becomes the active Agent, the registered one if there is one. *)
LEMMA PublishEffect ==
  ASSUME TypeOK, NEW l \in Lineage, NEW n \in Number, n = NextNumber(l) - 1, Publish(l)
  PROVE  /\ \E agent \in 0..MaxEpoch :
              /\ n \in revisions[l] => agent = n
              /\ LineageBecomes(l, "ready", lineage[l].next, lineage[l].evidence, agent)
         /\ SuccessorBecomes(l, n, "completed")
<1>0. PICK agent \in Successors(l) : lineage' = [lineage EXCEPT ![l].agent = agent]
  BY DEF Publish
<1>1. /\ lineage[l].status = "ready"
      /\ successor' = [successor EXCEPT ![l][n] = "completed"]
      /\ successor \in [Lineage -> [Number -> {"none", "requested", "completed"}]]
  BY DEF Publish, Status, TypeOK
<1>2. agent \in 0..MaxEpoch /\ (n \in revisions[l] => agent = n)
  <2>1. revisions[l] \subseteq Number /\ lineage[l].agent \in 0..MaxEpoch
    BY LineageType DEF TypeOK, LineageRow
  <2>2. Number \subseteq 0..MaxEpoch /\ 0 \in 0..MaxEpoch
    BY EpochBound DEF Number
  <2>3. agent \in {n, 0, lineage[l].agent} \cup revisions[l] /\ (n \in revisions[l] => agent = n)
    BY DEF Successors
  <2> QED  BY <2>1, <2>2, <2>3
<1>3. SuccessorBecomes(l, n, "completed")
  BY <1>1 DEF SuccessorBecomes
<1>4. LineageBecomes(l, "ready", lineage[l].next, lineage[l].evidence, agent)
  BY <1>0, <1>1, <1>2, LineageType DEF LineageRow, LineageBecomes
<1> QED  BY <1>2, <1>3, <1>4

(* insert_epoch freezes the checkpoint and the Agent of the Lineage.          *)
LEMMA InsertEffect ==
  ASSUME TypeOK, NEW l \in Lineage, NextNumber(l) \in Number, Insert(l)
  PROVE  /\ LineageBecomes(l, "running", lineage[l].next, lineage[l].evidence, lineage[l].agent)
         /\ EpochBecomes(l, "open", lineage[l].evidence, lineage[l].agent)
<1> DEFINE new == [status |-> "open", evidence |-> lineage[l].evidence,
                   agent |-> lineage[l].agent, challenger |-> FALSE]
<1>1. new \in EpochRow
  BY DEF EpochRow, TypeOK, LineageRow
<1>2. epochs' = [epochs EXCEPT ![l][NextNumber(l)] = new]
  BY DEF Insert
<1>3. epochs \in [Lineage -> [Number -> EpochRow \cup {None}]]
  BY DEF TypeOK
<1>4. EpochBecomes(l, "open", lineage[l].evidence, lineage[l].agent)
  BY <1>1, <1>2, <1>3, NoneIsNoRow DEF EpochBecomes, Replaces
<1> QED  BY <1>4, StatusUpdate DEF Insert, LineageStatus

(* complete_epoch moves the Lineage to the boundary of the next Epoch.        *)
LEMMA CompleteEffect ==
  ASSUME TypeOK, NEW l \in Lineage, CompleteEpoch(l)
  PROVE  /\ LineageBecomes(l, "awaiting_evidence", lineage[l].next + 1,
                           lineage[l].evidence, lineage[l].agent)
         /\ EpochBecomes(l, "completed", epochs[l][NextNumber(l)].evidence,
                         epochs[l][NextNumber(l)].agent)
<1>1. EpochBecomes(l, "completed", epochs[l][NextNumber(l)].evidence,
                   epochs[l][NextNumber(l)].agent)
  BY EpochUpdate DEF CompleteEpoch, OpenEpoch
<1>2. NextNumber(l) + 1 \in 1..(MaxEpoch + 1)
  BY <1>1, SchedulerConstants DEF Number, EpochBecomes
<1>3. lineage' = [lineage EXCEPT ![l].status = "awaiting_evidence", ![l].next = @ + 1]
  BY DEF CompleteEpoch
<1> QED  BY <1>1, <1>2, <1>3, LineageType
         DEF LineageRow, LineageStatus, NextNumber, LineageBecomes

(* complete_campaign completes every Lineage of the Campaign.                 *)
LEMMA FinalizeEffect ==
  ASSUME TypeOK, NEW r \in Run, FinalizeCampaign(r)
  PROVE  StatusesBecome(Members(Serves[r]), "completed")
<1> DEFINE S == Members(Serves[r])
<1>1. lineage' = [l \in Lineage |-> IF l \in S THEN [lineage[l] EXCEPT !.status = "completed"]
                                   ELSE lineage[l]]
  BY DEF FinalizeCampaign, Members
<1> HIDE DEF S
<1>2. StatusesBecome(S, "completed")
  BY <1>1, StatusesUpdate DEF LineageStatus
<1> QED  BY <1>2 DEF S

(* cancel_campaign cancels the ready Lineages of the Campaign.                *)
LEMMA CancelEffect ==
  ASSUME TypeOK, NEW c \in Campaign, Cancel(c)
  PROVE  StatusesBecome({l \in Members(c) : Status(l) = "ready"}, "cancelled")
<1> DEFINE S == {l \in Members(c) : Status(l) = "ready"}
<1>1. lineage' = [l \in Lineage |-> IF l \in S THEN [lineage[l] EXCEPT !.status = "cancelled"]
                                   ELSE lineage[l]]
  BY DEF Cancel, Members
<1> HIDE DEF S
<1>2. StatusesBecome(S, "cancelled")
  BY <1>1, StatusesUpdate DEF LineageStatus
<1> QED  BY <1>2 DEF S

(* fail_epoch fails the Epoch and its Lineage.                                *)
LEMMA FailEffect ==
  ASSUME TypeOK, NEW l \in Lineage, FailEpoch(l)
  PROVE  /\ LineageBecomes(l, "failed", lineage[l].next, lineage[l].evidence, lineage[l].agent)
         /\ EpochBecomes(l, "failed", epochs[l][NextNumber(l)].evidence,
                         epochs[l][NextNumber(l)].agent)
<1>1. EpochBecomes(l, "failed", epochs[l][NextNumber(l)].evidence, epochs[l][NextNumber(l)].agent)
  BY EpochUpdate DEF FailEpoch, OpenEpoch
<1> QED  BY <1>1, StatusUpdate DEF FailEpoch, LineageStatus

(* recover_failed_epoch opens them again.                                     *)
LEMMA RecoverEffect ==
  ASSUME TypeOK, NEW l \in Lineage, Row(l, NextNumber(l)) # None, RecoverEpoch(l)
  PROVE  /\ LineageBecomes(l, "running", lineage[l].next, lineage[l].evidence, lineage[l].agent)
         /\ EpochBecomes(l, "open", epochs[l][NextNumber(l)].evidence,
                         epochs[l][NextNumber(l)].agent)
<1>1. EpochBecomes(l, "open", epochs[l][NextNumber(l)].evidence, epochs[l][NextNumber(l)].agent)
  BY EpochUpdate DEF RecoverEpoch
<1> QED  BY <1>1, StatusUpdate DEF RecoverEpoch, LineageStatus

-----------------------------------------------------------------------------
(* An exception, or the end of a process, keeps the types.                  *)
LEMMA UnwindType ==
  ASSUME TypeOK, NEW r \in Run, Unwind(r)
  PROVE  /\ pc' \in [Lineage -> Station]
         /\ seen' \in [Lineage -> LineageRow \cup {None}]
         /\ run' \in [Run -> {"off", "running", "finalizing", "done"}]
         /\ todo' \in [Run -> SUBSET Lineage]
         /\ returned' \in [Run -> SUBSET Lineage]
         /\ token' \in [Run -> Lineage \cup {None}]
BY DEF TypeOK, Unwind, Station

(* So does a run that leaves its fences on the way out.                       *)
LEMMA FailsType ==
  ASSUME TypeOK, NEW r \in Run, Fails(r), faults' \in Nat
  PROVE  TypeOK'
BY UnwindType DEF TypeOK, Fails, registry

(* A coroutine before its successor is published has a last Epoch.          *)
LEMMA BeforeHasLast ==
  ASSUME SchedulerInv, NEW l \in Lineage, owner[l] \in Run, pc[l] \in Before
  PROVE  NextNumber(l) - 1 \in Number /\ successor[l][NextNumber(l) - 1] = "requested"
BY DEF SchedulerInv, CoroutineInv, Knows, Pending, Completed, Row

(* A failed Lineage has a row for its Epoch.                                *)
LEMMA FailedHasRow ==
  ASSUME SchedulerInv, NEW l \in Lineage, Status(l) = "failed"
  PROVE  Row(l, NextNumber(l)) # None
BY DEF SchedulerInv, RegistryInv, RowsAgree, RunsInBounds, Row

(* Every step keeps the type invariant.                                     *)
LEMMA SchedulerTypeStep == SchedulerInv /\ [Next]_vars => TypeOK'
<1> SUFFICES ASSUME SchedulerInv, [Next]_vars PROVE TypeOK'
  OBVIOUS
<1>0. TypeOK
  BY DEF SchedulerInv
<1> USE <1>0, SchedulerConstants DEF registry, process, At, Goto, Disrupts
<1>1. ASSUME NEW l \in Lineage, HandOff(l) PROVE TypeOK'
  BY <1>1, HandOffEffect DEF TypeOK, HandOff, LineageBecomes
<1>2. ASSUME NEW l \in Lineage, FinishFirst(l) PROVE TypeOK'
  BY <1>2 DEF TypeOK, FinishFirst, Station
<1>3. ASSUME NEW l \in Lineage, Return(l) PROVE TypeOK'
  BY <1>3 DEF TypeOK, Return, Decides, Station
<1>4. ASSUME NEW l \in Lineage, Continue(l) PROVE TypeOK'
  BY <1>4 DEF TypeOK, Continue, Station
<1>5. ASSUME NEW l \in Lineage, LineageStopped(l) PROVE TypeOK'
  BY <1>5, FailsType DEF TypeOK, LineageStopped, Decides
<1>6. ASSUME NEW l \in Lineage, Observed(l) PROVE TypeOK'
  BY <1>6 DEF TypeOK, Observed, Station
<1>7. ASSUME NEW l \in Lineage, ObserverLost(l) PROVE TypeOK'
  BY <1>7, FailsType DEF TypeOK, ObserverLost, Waits
<1>8. ASSUME NEW l \in Lineage, Evolve(l) PROVE TypeOK'
  BY <1>8 DEF TypeOK, Evolve, Station
<1>9. ASSUME NEW l \in Lineage, EvolveFound(l) PROVE TypeOK'
  BY <1>9 DEF TypeOK, EvolveFound, Station
<1>10. ASSUME NEW l \in Lineage, EvolveRefused(l) PROVE TypeOK'
  BY <1>10, FailsType DEF TypeOK, EvolveRefused
<1>11. ASSUME NEW l \in Lineage, Build(l) PROVE TypeOK'
  <2>1. Observer[l] # None => Reference(l) \in 0..MaxEpoch
    BY <1>11 DEF TypeOK, Build, Checks, Reference, Boundary, Row, EpochRow, LineageRow,
              SchedulerInv, CoroutineInv, Knows
  <2>2. NextNumber(l) \in 1..(MaxEpoch + 1)
    BY DEF TypeOK, LineageRow, NextNumber
  <2> QED  BY <1>11, <2>1, <2>2 DEF TypeOK, Build, Station
<1>12. ASSUME NEW l \in Lineage, BuildRefused(l) PROVE TypeOK'
  BY <1>12, FailsType DEF TypeOK, BuildRefused, Checks
<1>13. ASSUME NEW l \in Lineage, Challenged(l) PROVE TypeOK'
  BY <1>13, ChallengedEffect DEF TypeOK, Challenged, Station
<1>14. ASSUME NEW l \in Lineage, Publish(l) PROVE TypeOK'
  <2>1. NextNumber(l) - 1 \in Number
    BY <1>14, BeforeHasLast DEF Publish, Before
  <2> QED  BY <1>14, <2>1, PublishEffect
           DEF TypeOK, Publish, Station, LineageBecomes, SuccessorBecomes
<1>15. ASSUME NEW l \in Lineage, PublishRefused(l) PROVE TypeOK'
  BY <1>15, FailsType DEF TypeOK, PublishRefused
<1>16. ASSUME NEW l \in Lineage, Insert(l) PROVE TypeOK'
  <2>1. NextNumber(l) \in Number
    BY <1>16 DEF Insert, SchedulerInv, CoroutineInv, Knows, Past
  <2> QED  BY <1>16, <2>1, InsertEffect DEF TypeOK, Insert, LineageBecomes, EpochBecomes
<1>17. ASSUME NEW l \in Lineage, EpochRefused(l) PROVE TypeOK'
  BY <1>17, FailsType DEF TypeOK, EpochRefused
<1>18. ASSUME NEW l \in Lineage, CompleteEpoch(l) PROVE TypeOK'
  BY <1>18, CompleteEffect DEF TypeOK, CompleteEpoch, LineageBecomes, EpochBecomes, Station
<1>19. ASSUME NEW l \in Lineage, Challenge(l) PROVE TypeOK'
  BY <1>19 DEF TypeOK, Challenge, Station
<1>20. ASSUME NEW l \in Lineage, Register(l) PROVE TypeOK'
  <2>1. NextNumber(l) - 1 \in Number
    BY <1>20, BeforeHasLast DEF Register, Before
  <2> QED  BY <1>20, <2>1 DEF TypeOK, Register
<1>21. ASSUME NEW l \in Lineage, RequestSuccessor(l) PROVE TypeOK'
  BY <1>21, OpenIsRow DEF TypeOK, RequestSuccessor, OpenEpoch
<1>22. ASSUME NEW l \in Lineage, Expire(l) PROVE TypeOK'
  BY <1>22 DEF TypeOK, Expire
<1>23. ASSUME NEW l \in Lineage, Lapse(l) PROVE TypeOK'
  BY <1>23 DEF TypeOK, Lapse, Station
<1>24. ASSUME NEW l \in Lineage, SessionFails(l) PROVE TypeOK'
  BY <1>24, FailsType DEF TypeOK, SessionFails
<1>25. ASSUME NEW l \in Lineage, FailEpoch(l) PROVE TypeOK'
  <2>1. /\ lineage' \in [Lineage -> LineageRow]
        /\ epochs' \in [Lineage -> [Number -> EpochRow \cup {None}]]
    BY <1>25, FailEffect DEF LineageBecomes, EpochBecomes
  <2>2. campaign' \in [Campaign -> {"active", "completed", "cancelled", "failed"}]
    BY <1>25 DEF FailEpoch, TypeOK
  <2> QED  BY <1>25, <2>1, <2>2 DEF TypeOK, FailEpoch
<1>26. ASSUME NEW l \in Lineage, RecoverEpoch(l) PROVE TypeOK'
  <2>1. /\ lineage' \in [Lineage -> LineageRow]
        /\ epochs' \in [Lineage -> [Number -> EpochRow \cup {None}]]
    BY <1>26, FailedHasRow, RecoverEffect DEF RecoverEpoch, LineageBecomes, EpochBecomes
  <2>2. campaign' \in [Campaign -> {"active", "completed", "cancelled", "failed"}]
    BY <1>26 DEF RecoverEpoch, TypeOK
  <2>3. CASE owner[l] \in Run
    <3>1. Unwind(owner[l])
      BY <1>26, <2>3 DEF RecoverEpoch
    <3> QED  BY <1>26, <2>1, <2>2, <2>3, <3>1, UnwindType DEF RecoverEpoch, TypeOK
  <2>4. CASE owner[l] \notin Run
    BY <1>26, <2>1, <2>2, <2>4 DEF RecoverEpoch, TypeOK
  <2> QED  BY <2>3, <2>4
<1>27. ASSUME NEW r \in Run, Start(r) PROVE TypeOK'
  BY <1>27 DEF TypeOK, Start, Members
<1>28. ASSUME NEW r \in Run, AllReturned(r) PROVE TypeOK'
  BY <1>28 DEF TypeOK, AllReturned, Members
<1>29. ASSUME NEW r \in Run, FinalizeCampaign(r) PROVE TypeOK'
  BY <1>29, FinalizeEffect DEF TypeOK, FinalizeCampaign, StatusesBecome, Station
<1>30. ASSUME NEW r \in Run, FinalizeFails(r) PROVE TypeOK'
  BY <1>30, FailsType DEF TypeOK, FinalizeFails
<1>31. ASSUME NEW r \in Run, NEW l \in Lineage, Acquire(r, l) PROVE TypeOK'
  BY <1>31 DEF TypeOK, Acquire, Station
<1>32. ASSUME NEW r \in Run, NEW l \in Lineage, AcquireRefused(r, l) PROVE TypeOK'
  BY <1>32, FailsType DEF TypeOK, AcquireRefused
<1>33. ASSUME NEW r \in Run, NEW l \in Lineage, FinalizeAcquire(r, l) PROVE TypeOK'
  BY <1>33 DEF TypeOK, FinalizeAcquire, Station
<1>34. ASSUME NEW r \in Run, NEW l \in Lineage, FinalizeRefused(r, l) PROVE TypeOK'
  BY <1>34, FailsType DEF TypeOK, FinalizeRefused
<1>35. ASSUME NEW r \in Run, Crash(r) PROVE TypeOK'
  BY <1>35, UnwindType DEF TypeOK, Crash
<1>36. ASSUME NEW c \in Campaign, Cancel(c) PROVE TypeOK'
  <2>1. lineage' \in [Lineage -> LineageRow]
    BY <1>36, CancelEffect DEF StatusesBecome
  <2> QED  BY <1>36, <2>1 DEF TypeOK, Cancel
<1>37. CASE UNCHANGED vars
  BY <1>37 DEF TypeOK, vars
<1> QED
  BY <1>1, <1>2, <1>3, <1>4, <1>5, <1>6, <1>7, <1>8, <1>9, <1>10, <1>11, <1>12, <1>13,
     <1>14, <1>15, <1>16, <1>17, <1>18, <1>19, <1>20, <1>21, <1>22, <1>23, <1>24, <1>25,
     <1>26, <1>27, <1>28, <1>29, <1>30, <1>31, <1>32, <1>33, <1>34, <1>35, <1>36, <1>37
  DEF Next, Coroutine, Choice, Driver

-----------------------------------------------------------------------------
(* The Registry invariant speaks of the Registry only.                      *)
LEMMA RegistryFrame ==
  ASSUME RegistryInv, UNCHANGED registry
  PROVE  RegistryInv'
BY DEF RegistryInv, registry, EvidenceIsCumulative, RowsAgree, RunsInBounds, RequestsAreRecent,
       SuccessorIsActive, SuccessorRunsNext, ObserverLeads, CompletedIsQuiescent, Status,
       NextNumber, Row, Completed, OpenEpoch, Pending

(* What a coroutine knows lasts while its own rows stay and the Evidence of  *)
(* its observer only grows.                                                 *)
LEMMA KnowsFrame ==
  ASSUME TypeOK, TypeOK', NEW l \in Lineage, Knows(l),
         pc'[l] = pc[l], seen'[l] = seen[l],
         Pending(l)' <=> Pending(l),
         lineage'[l].next = lineage[l].next,
         \A o \in Lineage : lineage'[o].evidence >= lineage[o].evidence
  PROVE  Knows(l)'
<1>1. \A o \in Lineage : /\ lineage[o].evidence \in Nat /\ lineage'[o].evidence \in Nat
                         /\ lineage[o].next \in Nat
  BY DEF TypeOK, LineageRow
<1>2. Observer[l] # None => Observer[l] \in Lineage
  BY SchedulerConstants
<1>3. seen[l] \in LineageRow => seen[l].evidence \in Nat
  BY DEF LineageRow
<1> QED  BY <1>1, <1>2, <1>3 DEF Knows, NextNumber

(* Steps that leave the Registry alone and end, start or keep coroutines.    *)
Resting == {"idle", "loop", "held"}
Quiet ==
  /\ UNCHANGED <<registry, exposed>>
  /\ \A l \in Lineage : owner'[l] \in Run /\ pc'[l] \notin Resting =>
       owner[l] \in Run /\ pc'[l] = pc[l] /\ seen'[l] = seen[l]

(* A step that writes no row and establishes nothing keeps the invariant.     *)
LEMMA QuietStep ==
  ASSUME SchedulerInv, TypeOK', Quiet
  PROVE  SchedulerInv'
<1>1. RegistryInv'
  BY RegistryFrame DEF SchedulerInv, Quiet
<1>2. ReferenceIsExactPrefix'
  BY DEF SchedulerInv, Quiet, ReferenceIsExactPrefix
<1>3. ASSUME NEW l \in Lineage, owner'[l] \in Run PROVE Knows(l)'
  <2>1. CASE pc'[l] \in Resting
    BY <2>1 DEF Knows, Resting, Before, Past
  <2>2. CASE pc'[l] \notin Resting
    <3>1. Pending(l)' <=> Pending(l)
      BY DEF Quiet, registry, Pending, Completed, Row, NextNumber
    <3>2. \A o \in Lineage : lineage'[o].evidence >= lineage[o].evidence
      BY DEF Quiet, registry, SchedulerInv, TypeOK, LineageRow
    <3> QED  BY <1>3, <2>2, <3>1, <3>2, KnowsFrame
             DEF SchedulerInv, CoroutineInv, Quiet, registry
  <2> QED  BY <2>1, <2>2
<1> QED  BY <1>1, <1>2, <1>3 DEF SchedulerInv, CoroutineInv

(* Steps of one coroutine that leave the Registry alone.                     *)
LEMMA MoveStep ==
  ASSUME SchedulerInv, TypeOK', NEW l \in Lineage, UNCHANGED <<registry, owner>>,
         \A o \in Lineage \ {l} : pc'[o] = pc[o] /\ seen'[o] = seen[o],
         Knows(l)', ReferenceIsExactPrefix'
  PROVE  SchedulerInv'
<1>1. RegistryInv'
  BY RegistryFrame DEF SchedulerInv
<1>2. ASSUME NEW o \in Lineage, owner'[o] \in Run, o # l PROVE Knows(o)'
  <2>1. Pending(o)' <=> Pending(o)
    BY DEF registry, Pending, Completed, Row, NextNumber
  <2>2. \A m \in Lineage : lineage'[m].evidence >= lineage[m].evidence
    BY DEF registry, SchedulerInv, TypeOK, LineageRow
  <2> QED  BY <1>2, <2>1, <2>2, KnowsFrame DEF SchedulerInv, CoroutineInv, registry
<1> QED  BY <1>1, <1>2 DEF SchedulerInv, CoroutineInv

(* A failing run is such a step.                                              *)
LEMMA FailsQuietly ==
  ASSUME TypeOK, NEW r \in Run, Fails(r)
  PROVE  Quiet
BY SchedulerConstants DEF TypeOK, Fails, Unwind, Quiet, Resting, registry

(* The checkpoint of a Lineage is behind its last Epoch while the handoff is  *)
(* pending, and at it otherwise.                                             *)
LEMMA EvidenceOf ==
  ASSUME TypeOK, RegistryInv, NEW o \in Lineage
  PROVE  /\ lineage[o].evidence \in Nat /\ lineage[o].next \in 1..(MaxEpoch + 1)
         /\ lineage[o].evidence + (IF lineage[o].status = "awaiting_evidence" THEN 1 ELSE 0)
              = lineage[o].next - 1
BY DEF TypeOK, LineageRow, RegistryInv, EvidenceIsCumulative, Status, NextNumber

(* An observer that has published the Evidence of Epoch n - 1 is past it.     *)
LEMMA PublishedIsAhead ==
  ASSUME TypeOK, RegistryInv, NEW o \in Lineage, NEW n \in 1..(MaxEpoch + 1), Published(o, n)
  PROVE  lineage[o].evidence >= n - 1
<1>1. /\ lineage[o].evidence \in Nat /\ lineage[o].next \in 1..(MaxEpoch + 1)
      /\ lineage[o].evidence + (IF lineage[o].status = "awaiting_evidence" THEN 1 ELSE 0)
           = lineage[o].next - 1
  BY EvidenceOf
<1>2. CASE lineage[o].next = n /\ lineage[o].status \in {"ready", "completed"}
  BY <1>1, <1>2
<1>3. CASE Row(o, n) # None
  <2>1. n \in Number /\ epochs[o][n] \in EpochRow
    BY <1>3 DEF Row, TypeOK
  <2>2. n <= lineage[o].next
    BY <1>1, <2>1, <1>3 DEF RegistryInv, RowsAgree, NextNumber, Row, Number
  <2>3. CASE n = lineage[o].next
    <3>1. lineage[o].status \in {"running", "failed"}
      BY <2>1, <2>3, <1>3
      DEF RegistryInv, RowsAgree, NextNumber, Row, Status, OpenEpoch, Completed,
         EpochRow
    <3> QED  BY <1>1, <2>3, <3>1
  <2> QED  BY <1>1, <2>2, <2>3
<1> QED  BY <1>2, <1>3 DEF Published, Status

(* The Evolver of Epoch n is shown the observer through Epoch n - 1.          *)
LEMMA ReferenceIsExact ==
  ASSUME SchedulerInv, NEW l \in Lineage, Observer[l] # None, Build(l)
  PROVE  Reference(l) = NextNumber(l) - 1
<1> DEFINE o == Observer[l]
           n == NextNumber(l)
<1>1. o \in Lineage /\ n \in 1..(MaxEpoch + 1)
  BY SchedulerConstants DEF SchedulerInv, TypeOK, LineageRow, NextNumber
<1>2. CASE Boundary(l) # None
  BY <1>1, <1>2 DEF Boundary, Row, Reference, SchedulerInv, RegistryInv, EvidenceIsCumulative
<1>3. CASE Boundary(l) = None
  <2>1. /\ seen[l] \in LineageRow
        /\ seen[l].evidence <= lineage[o].evidence
        /\ seen[l].status = "ready" => seen[l].evidence = seen[l].next - 1
    BY DEF Build, Checks, At, SchedulerInv, CoroutineInv, Knows
  <2>2. CASE Unobserved(l)
    <3>1. n = 1
      BY <2>2 DEF Unobserved
    <3>2. epochs[o][1] = None /\ 1 \in Number
      BY <1>1, <1>3, <3>1, SchedulerConstants DEF Boundary, Row, Number
    <3>3. lineage[o].next = 1
      <4>1. lineage[o].next \in 1..(MaxEpoch + 1)
        BY <1>1 DEF SchedulerInv, TypeOK, LineageRow
      <4>2. ~(1 < lineage[o].next)
        BY <1>1, <3>2 DEF SchedulerInv, RegistryInv, RowsAgree, Completed, Row, NextNumber
      <4> QED  BY <4>1, <4>2
    <3>4. lineage[o].evidence = 0
      BY <1>1, <3>3, EvidenceOf DEF SchedulerInv
    <3> QED  BY <1>3, <2>1, <3>1, <3>4 DEF Reference, LineageRow
  <2>3. CASE ~Unobserved(l)
    BY <1>3, <2>1, <2>3 DEF Build, AtBoundary, Reference
  <2> QED  BY <2>2, <2>3
<1> QED  BY <1>2, <1>3

-----------------------------------------------------------------------------
(* The Registry invariant, for the rows of one Lineage: apart from           *)
(* ObserverLeads it relates no two Lineages, so that a step has to be looked *)
(* at for the Lineage whose rows it writes only.                             *)
PendingIn(row, E, S) ==
  /\ row.next - 1 \in Number
  /\ E[row.next - 1] # None /\ E[row.next - 1].status = "completed"
  /\ S[row.next - 1] = "requested"

RowsAgreeIn(row, E) ==
  /\ \A n \in Number : E[n] # None => E[n].evidence = n - 1
  /\ row.evidence + (IF row.status = "awaiting_evidence" THEN 1 ELSE 0) = row.next - 1
  /\ \A n \in Number : n < row.next => E[n] # None /\ E[n].status = "completed"
  /\ \A n \in Number : n > row.next => E[n] = None
  /\ row.next \in Number =>
       /\ row.status = "running" <=> (E[row.next] # None /\ E[row.next].status = "open")
       /\ row.status = "failed" <=> (E[row.next] # None /\ E[row.next].status = "failed")
       /\ ~(E[row.next] # None /\ E[row.next].status = "completed")
  /\ row.status \in {"running", "failed"} => row.next \in Number

SuccessorsIn(row, E, S, R) ==
  /\ \A n \in Number : S[n] # "none" => E[n] # None
  /\ \A n \in Number : S[n] = "requested" => n >= row.next - 1
  /\ PendingIn(row, E, S) => row.status \notin {"running", "failed"}
  /\ \A n \in Number : n \in R => n < row.next /\ S[n] # "none"
  /\ \A n \in Number :
       /\ n + 1 = row.next /\ S[n] = "completed" /\ n \in R
       /\ n + 1 \in Number => E[n + 1] = None
       => row.agent = n
  /\ \A n \in Number \ {MaxEpoch} : E[n + 1] # None /\ S[n] # "none" =>
       S[n] = "completed" /\ (n \in R => E[n + 1].agent = n)

QuietIn(row, E) ==
  /\ row.status = "completed"
  /\ row.evidence = row.next - 1
  /\ \A n \in Number : E[n] # None => E[n].status = "completed"

Sound(row, E, S, R, c) ==
  /\ RowsAgreeIn(row, E)
  /\ SuccessorsIn(row, E, S, R)
  /\ c = "completed" => QuietIn(row, E)

SoundRows(l) == Sound(lineage[l], epochs[l], successor[l], revisions[l], campaign[CampaignOf[l]])

AllSound == \A l \in Lineage : SoundRows(l)

(* Pending, read off the rows of the Lineage.                                 *)
LEMMA PendingIsIn ==
  ASSUME NEW l \in Lineage
  PROVE  Pending(l) <=> PendingIn(lineage[l], epochs[l], successor[l])
BY DEF Pending, PendingIn, Completed, Row, NextNumber

(* The invariant of the Registry is that of each Lineage and the barrier.     *)
LEMMA RegistryIsSound ==
  TypeOK => (RegistryInv <=> ObserverLeads /\ AllSound)
<1> SUFFICES ASSUME TypeOK
             PROVE  RegistryInv <=> ObserverLeads /\ AllSound
  OBVIOUS
<1> USE DEF RegistryInv, AllSound, SoundRows, Sound, RowsAgreeIn, SuccessorsIn, Status, NextNumber,
        Completed, Row, OpenEpoch
<1>1. ASSUME NEW l \in Lineage, RegistryInv PROVE RowsAgreeIn(lineage[l], epochs[l])
  BY <1>1 DEF EvidenceIsCumulative, RowsAgree, RunsInBounds, TypeOK, LineageRow
<1>2. ASSUME NEW l \in Lineage, RegistryInv
      PROVE  SuccessorsIn(lineage[l], epochs[l], successor[l], revisions[l])
  <2>1. PendingIn(lineage[l], epochs[l], successor[l]) => lineage[l].status \notin {"running", "failed"}
    BY <1>1, <1>2, PendingIsIn DEF RequestsAreRecent
  <2>2. \A n \in Number \ {MaxEpoch} : epochs[l][n + 1] # None /\ successor[l][n] # "none" =>
          successor[l][n] = "completed" /\ (n \in revisions[l] => epochs[l][n + 1].agent = n)
    BY <1>2 DEF SuccessorRunsNext
  <2> QED  BY <1>2, <2>1, <2>2 DEF RequestsAreRecent, SuccessorIsActive
<1>3. ASSUME NEW l \in Lineage, RegistryInv, campaign[CampaignOf[l]] = "completed"
      PROVE  QuietIn(lineage[l], epochs[l])
  BY <1>3 DEF CompletedIsQuiescent, QuietIn
<1>4. ASSUME ObserverLeads, \A l \in Lineage : SoundRows(l) PROVE RegistryInv
  <2>1. EvidenceIsCumulative /\ RunsInBounds
    BY <1>4 DEF EvidenceIsCumulative, RunsInBounds
  <2>2. RowsAgree
    BY <1>4 DEF RowsAgree
  <2>3. RequestsAreRecent
    BY <1>4, PendingIsIn DEF RequestsAreRecent
  <2>4. SuccessorIsActive
    BY <1>4 DEF SuccessorIsActive
  <2>5. SuccessorRunsNext
    BY <1>4 DEF SuccessorRunsNext
  <2>6. CompletedIsQuiescent
    BY <1>4 DEF CompletedIsQuiescent, QuietIn
  <2> QED  BY <1>4, <2>1, <2>2, <2>3, <2>4, <2>5, <2>6
<1> QED  BY <1>1, <1>2, <1>3, <1>4

RowsTyped(row, E) ==
  /\ row.status \in LineageStatus
  /\ row.next \in 1..(MaxEpoch + 1)
  /\ row.evidence \in 0..MaxEpoch
  /\ E \in [Number -> EpochRow \cup {None}]

(* The rows after insert_epoch.                                               *)
LEMMA RowsInsert ==
  ASSUME NEW row, NEW E, RowsTyped(row, E), RowsAgreeIn(row, E),
         row.next \in Number, row.status = "ready",
         NEW new, NEW F, Replaces(E, F, row.next, "open", row.evidence, row.agent),
         new.next = row.next, new.status = "running", new.evidence = row.evidence
   PROVE RowsAgreeIn(new, F)
<1> USE EpochBound DEF RowsTyped, Replaces, RowsAgreeIn, Number
<1>1. row.evidence = row.next - 1
  OBVIOUS
<1>2. \A n \in Number : F[n] # None => F[n].evidence = n - 1
  BY <1>1
<1>3. \A n \in Number : n < row.next => F[n] # None /\ F[n].status = "completed"
  OBVIOUS
<1>4. \A n \in Number : n > row.next => F[n] = None
  OBVIOUS
<1> QED  BY <1>1, <1>2, <1>3, <1>4

(* The rows after fail_epoch and recover_failed_epoch.                        *)
LEMMA RowsTurn ==
  ASSUME NEW row, NEW E, RowsTyped(row, E), RowsAgreeIn(row, E),
         row.next \in Number, E[row.next] # None,
         NEW status \in {"open", "failed"},
         NEW new, NEW F, Replaces(E, F, row.next, status, E[row.next].evidence, E[row.next].agent),
         new.next = row.next,
         new.status = (IF status = "open" THEN "running" ELSE "failed"),
         new.evidence = row.evidence
   PROVE RowsAgreeIn(new, F)
<1> USE EpochBound DEF RowsTyped, Replaces, RowsAgreeIn, Number
<1>1. row.evidence = row.next - 1
  BY DEF EpochRow
<1>2. \A n \in Number : F[n] # None => F[n].evidence = n - 1
  OBVIOUS
<1>3. \A n \in Number : n < row.next => F[n] # None /\ F[n].status = "completed"
  OBVIOUS
<1>4. \A n \in Number : n > row.next => F[n] = None
  OBVIOUS
<1> QED  BY <1>1, <1>2, <1>3, <1>4

(* The rows after complete_epoch.                                             *)
LEMMA RowsComplete ==
  ASSUME NEW row, NEW E, RowsTyped(row, E), RowsAgreeIn(row, E),
         row.next \in Number, E[row.next] # None, E[row.next].status = "open",
         NEW new, NEW F, Replaces(E, F, row.next, "completed", E[row.next].evidence, E[row.next].agent),
         new.next = row.next + 1, new.status = "awaiting_evidence", new.evidence = row.evidence
   PROVE RowsAgreeIn(new, F)
<1> USE EpochBound DEF RowsTyped, Replaces, RowsAgreeIn, Number
<1>1. row.evidence = row.next - 1
  OBVIOUS
<1>2. \A n \in Number : F[n] # None => F[n].evidence = n - 1
  OBVIOUS
<1>3. \A n \in Number : n < new.next => F[n] # None /\ F[n].status = "completed"
  OBVIOUS
<1>4. \A n \in Number : n > row.next => F[n] = None
  OBVIOUS
<1> QED  BY <1>1, <1>2, <1>3, <1>4

(* The successor rows after complete_epoch.                                   *)
LEMMA SuccComplete ==
  ASSUME NEW row, NEW E, RowsTyped(row, E), RowsAgreeIn(row, E),
         row.next \in Number, E[row.next] # None, E[row.next].status = "open",
         NEW S \in [Number -> {"none", "requested", "completed"}], NEW R \in SUBSET Number,
         SuccessorsIn(row, E, S, R), ~PendingIn(row, E, S),
         NEW new, NEW F, Replaces(E, F, row.next, "completed", E[row.next].evidence, E[row.next].agent),
         new.next = row.next + 1, new.status = "awaiting_evidence", new.evidence = row.evidence
   PROVE SuccessorsIn(new, F, S, R)
<1> USE EpochBound DEF RowsTyped, Replaces, Number
<1>1. \A n \in Number : (F[n] = None <=> E[n] = None) /\ F[n].agent = E[n].agent
  OBVIOUS
<1>2. \A n \in Number : S[n] = "requested" => n >= row.next
  BY DEF SuccessorsIn, PendingIn, RowsAgreeIn
<1>3. \A n \in Number : n \in R => n < row.next /\ S[n] # "none"
  BY DEF SuccessorsIn
<1>4. \A n \in Number \ {MaxEpoch} : F[n + 1] # None /\ S[n] # "none" =>
       S[n] = "completed" /\ (n \in R => F[n + 1].agent = n)
  BY <1>1 DEF SuccessorsIn
<1>5. \A n \in Number : S[n] # "none" => F[n] # None
  BY <1>1 DEF SuccessorsIn
<1> QED BY <1>2, <1>3, <1>4, <1>5 DEF SuccessorsIn

(* The successor rows after insert_epoch: the request is finished by then.    *)
LEMMA SuccInsert ==
  ASSUME NEW row, NEW E, RowsTyped(row, E), RowsAgreeIn(row, E),
         row.next \in Number,
         NEW S \in [Number -> {"none", "requested", "completed"}], NEW R \in SUBSET Number,
         SuccessorsIn(row, E, S, R), ~PendingIn(row, E, S), E[row.next] = None,
         NEW new, NEW F, Replaces(E, F, row.next, "open", row.evidence, row.agent),
         new.next = row.next, new.agent = row.agent
  PROVE  SuccessorsIn(new, F, S, R)
<1> USE DEF RowsTyped, Replaces
<1>1. ~PendingIn(new, F, S)
  BY DEF PendingIn
<1>2. \A n \in Number : S[n] # "none" => F[n] # None
  BY DEF SuccessorsIn
<1>3. ASSUME NEW n \in Number \ {MaxEpoch}, F[n + 1] # None, S[n] # "none"
      PROVE  S[n] = "completed" /\ (n \in R => F[n + 1].agent = n)
  <2>1. n \in Nat /\ n + 1 \in Number
    BY SchedulerConstants DEF Number
  <2>2. CASE n + 1 = row.next
    <3>1. E[n] # None /\ E[n].status = "completed" /\ row.next - 1 = n
      BY <2>1, <2>2 DEF RowsAgreeIn, Number
    <3>2. S[n] = "completed"
      BY <1>3, <3>1 DEF PendingIn
    <3> QED  BY <2>1, <2>2, <3>1, <3>2 DEF SuccessorsIn
  <2>3. CASE n + 1 # row.next
    BY <1>3, <2>1, <2>3 DEF SuccessorsIn
  <2> QED  BY <2>2, <2>3
<1> QED  BY <1>1, <1>2, <1>3 DEF SuccessorsIn, Number

(* The successor rows after fail_epoch and recover_failed_epoch.              *)
LEMMA SuccTurn ==
  ASSUME NEW row, NEW E, RowsTyped(row, E),
         row.next \in Number, E[row.next] # None, row.status \in {"running", "failed"},
         NEW S \in [Number -> {"none", "requested", "completed"}], NEW R \in SUBSET Number,
         SuccessorsIn(row, E, S, R),
         NEW status \in {"open", "failed"},
         NEW new, NEW F, Replaces(E, F, row.next, status, E[row.next].evidence, E[row.next].agent),
         new.next = row.next,
         new.status = (IF status = "open" THEN "running" ELSE "failed"),
         new.evidence = row.evidence, new.agent = row.agent
   PROVE SuccessorsIn(new, F, S, R)
<1> USE EpochBound DEF RowsTyped, Replaces, Number
<1>1. \A n \in Number : (F[n] = None <=> E[n] = None) /\ F[n].agent = E[n].agent
  OBVIOUS
<1>2. ~PendingIn(new, F, S)
  <2>1. ~PendingIn(row, E, S) /\ row.next - 1 # row.next
    BY DEF SuccessorsIn
  <2> QED  BY <2>1 DEF PendingIn
<1>3. ASSUME NEW n \in Number \ {MaxEpoch}, F[n + 1] # None, S[n] # "none"
      PROVE  S[n] = "completed" /\ (n \in R => F[n + 1].agent = n)
  <2>1. n + 1 \in Number
    OBVIOUS
  <2> QED  BY <1>1, <1>3, <2>1 DEF SuccessorsIn
<1>4. \A n \in Number : S[n] # "none" => F[n] # None
  BY <1>1 DEF SuccessorsIn
<1>5. \A n \in Number : n + 1 = row.next => n + 1 \in Number /\ F[n + 1] # None
  OBVIOUS
<1> QED  BY <1>2, <1>3, <1>4, <1>5 DEF SuccessorsIn

(* The successor rows after the successor is published.                       *)
LEMMA SuccPublish ==
  ASSUME NEW row, NEW E, RowsTyped(row, E), RowsAgreeIn(row, E), row.status = "ready",
         NEW S \in [Number -> {"none", "requested", "completed"}], NEW R \in SUBSET Number,
         SuccessorsIn(row, E, S, R),
   NEW n \in Number, n = row.next - 1, S[n] = "requested",
   NEW S2, S2[n] = "completed", \A m \in Number \ {n} : S2[m] = S[m],
         NEW new,
         new.next = row.next, new.status = "ready", n \in R => new.agent = n
   PROVE SuccessorsIn(new, E, S2, R)
<1> USE EpochBound DEF RowsTyped, Number
<1>1. \A m \in Number : S2[m] # "none" <=> S[m] # "none"
  OBVIOUS
<1>4. \A m \in Number \ {MaxEpoch} : E[m + 1] # None /\ S2[m] # "none" =>
       S2[m] = "completed" /\ (m \in R => E[m + 1].agent = m)
  BY <1>1 DEF SuccessorsIn
<1>2. ~PendingIn(new, E, S2)
  BY DEF PendingIn
<1> QED BY <1>1, <1>2, <1>4 DEF SuccessorsIn

(* The successor rows after a request of the open Epoch.                      *)
LEMMA SuccRequest ==
  ASSUME NEW row, NEW E, RowsTyped(row, E), RowsAgreeIn(row, E),
         NEW S \in [Number -> {"none", "requested", "completed"}], NEW R \in SUBSET Number,
         SuccessorsIn(row, E, S, R),
   row.next \in Number, E[row.next] # None,
   NEW S2, S2[row.next] = "requested", \A m \in Number \ {row.next} : S2[m] = S[m]
   PROVE SuccessorsIn(row, E, S2, R)
<1> USE EpochBound DEF RowsTyped, Number
<1>1. PendingIn(row, E, S2) => PendingIn(row, E, S)
  BY DEF PendingIn
<1>2. E[row.next].status # "completed"
  BY DEF RowsAgreeIn
<1>4. \A m \in Number \ {MaxEpoch} : E[m + 1] # None /\ S2[m] # "none" =>
       S2[m] = "completed" /\ (m \in R => E[m + 1].agent = m)
  BY DEF SuccessorsIn, RowsAgreeIn
<1> QED BY <1>1, <1>2, <1>4 DEF SuccessorsIn

(* The successor rows after register_kernel_agent_revision.                   *)
LEMMA SuccRegister ==
  ASSUME NEW row, NEW E, RowsTyped(row, E), RowsAgreeIn(row, E),
         NEW S \in [Number -> {"none", "requested", "completed"}], NEW R \in SUBSET Number,
         SuccessorsIn(row, E, S, R),
   NEW n \in Number, n = row.next - 1, S[n] = "requested", PendingIn(row, E, S)
   PROVE SuccessorsIn(row, E, S, R \cup {n})
<1> USE EpochBound DEF RowsTyped, Number
<1>1. n + 1 = row.next /\ (n + 1 \in Number => E[n + 1] = None)
  BY DEF SuccessorsIn, RowsAgreeIn, EpochRow
<1>4. \A m \in Number \ {MaxEpoch} : E[m + 1] # None /\ S[m] # "none" =>
       S[m] = "completed" /\ (m \in R \cup {n} => E[m + 1].agent = m)
  BY <1>1 DEF SuccessorsIn, RowsAgreeIn
<1> QED BY <1>1, <1>4 DEF SuccessorsIn

(* A step that writes the rows of one Lineage: what remains to be shown.      *)
OthersKept(l) ==
  /\ exposed' = exposed
  /\ \A o \in Lineage \ {l} :
       /\ lineage'[o] = lineage[o] /\ epochs'[o] = epochs[o]
       /\ successor'[o] = successor[o] /\ revisions'[o] = revisions[o]
       /\ campaign'[CampaignOf[o]] = "completed" => campaign[CampaignOf[o]] = "completed"
       /\ owner'[o] \in Run /\ pc'[o] \notin Resting =>
            owner[o] \in Run /\ pc'[o] = pc[o] /\ seen'[o] = seen[o]

(* What is left to show of a step that writes the rows of one Lineage.        *)
LEMMA WriteStep ==
  ASSUME SchedulerInv, TypeOK', NEW l \in Lineage, OthersKept(l),
         lineage'[l].evidence >= lineage[l].evidence,
         \A n \in Number : epochs'[l][n] # None /\ epochs[l][n] = None /\ Observer[l] # None =>
           lineage[Observer[l]].evidence >= n - 1,
         SoundRows(l)',
         owner'[l] \in Run => Knows(l)'
  PROVE  SchedulerInv'
<1> USE DEF OthersKept
<1>1. \A o \in Lineage : /\ lineage[o].evidence \in Nat /\ lineage'[o].evidence \in Nat
                         /\ lineage'[o].evidence >= lineage[o].evidence
  <2>1. lineage \in [Lineage -> LineageRow] /\ lineage' \in [Lineage -> LineageRow]
    BY DEF SchedulerInv, TypeOK
  <2> QED  BY <2>1 DEF LineageRow
<1>2. ObserverLeads /\ \A o \in Lineage : SoundRows(o)
  BY RegistryIsSound DEF SchedulerInv, AllSound
<1>3. ASSUME NEW o \in Lineage PROVE SoundRows(o)'
  BY <1>2 DEF SoundRows, Sound
<1>4. ObserverLeads'
  BY <1>1, <1>2, SchedulerConstants DEF ObserverLeads, Number
<1>5. RegistryInv'
  <2>1. (TypeOK => (RegistryInv <=> ObserverLeads /\ AllSound))'
    BY RegistryIsSound, PTL
  <2> QED  BY <1>3, <1>4, <2>1 DEF AllSound
<1>6. ASSUME NEW o \in Lineage, owner'[o] \in Run, o # l PROVE Knows(o)'
  <2>1. CASE pc'[o] \in Resting
    BY <2>1 DEF Knows, Resting, Before, Past
  <2>2. CASE pc'[o] \notin Resting
    <3>1. Pending(o)' <=> Pending(o)
      BY <1>6 DEF Pending, Completed, Row, NextNumber
    <3> QED  BY <1>1, <1>6, <2>2, <3>1, KnowsFrame DEF SchedulerInv, CoroutineInv
  <2> QED  BY <2>1, <2>2
<1>7. ReferenceIsExactPrefix'
  BY DEF SchedulerInv, ReferenceIsExactPrefix
<1> QED  BY <1>5, <1>6, <1>7 DEF SchedulerInv, CoroutineInv

(* The rows of a Lineage, with their types.                                   *)
LEMMA RowsOf ==
  ASSUME SchedulerInv, NEW l \in Lineage
  PROVE  /\ SoundRows(l)
         /\ lineage[l].evidence \in Nat /\ lineage[l].next \in Nat
         /\ RowsAgreeIn(lineage[l], epochs[l]) /\ RowsTyped(lineage[l], epochs[l])
         /\ SuccessorsIn(lineage[l], epochs[l], successor[l], revisions[l])
         /\ successor[l] \in [Number -> {"none", "requested", "completed"}]
         /\ revisions[l] \in SUBSET Number
BY RegistryIsSound DEF SchedulerInv, AllSound, SoundRows, Sound, RowsTyped, TypeOK, LineageRow

(* The handoff of Evidence keeps the invariant.                               *)
LEMMA HandOffStep ==
  ASSUME SchedulerInv, TypeOK', NEW l \in Lineage, HandOff(l)
  PROVE  SchedulerInv'
<1>1. /\ LineageBecomes(l, "ready", lineage[l].next, lineage[l].next - 1, lineage[l].agent)
      /\ lineage[l].evidence + 1 = lineage[l].next - 1
      /\ lineage[l].status = "awaiting_evidence"
  BY HandOffEffect DEF SchedulerInv, HandOff, Status
<1>2. /\ UNCHANGED <<campaign, epochs, successor, revisions, owner, pc, seen, exposed>>
      /\ pc[l] = "loop"
  BY DEF HandOff, process, At
<1>3. SoundRows(l)'
  <2>1. RowsAgreeIn(lineage[l], epochs[l])'
    BY <1>1, <1>2, RowsOf DEF RowsAgreeIn, LineageBecomes
  <2>2. SuccessorsIn(lineage[l], epochs[l], successor[l], revisions[l])'
    BY <1>1, <1>2, RowsOf DEF SuccessorsIn, PendingIn, LineageBecomes
  <2>3. campaign[CampaignOf[l]] # "completed"
    BY <1>1, RowsOf DEF SoundRows, Sound, QuietIn
  <2> QED  BY <1>2, <2>1, <2>2, <2>3 DEF SoundRows, Sound
<1>4. Knows(l)'
  BY <1>2 DEF Knows, Before, Past
<1>5. OthersKept(l)
  BY <1>1, <1>2 DEF OthersKept, LineageBecomes
<1>6. lineage'[l].evidence >= lineage[l].evidence
  BY <1>1, RowsOf DEF LineageBecomes
<1> QED  BY <1>2, <1>3, <1>4, <1>5, <1>6, WriteStep

(* So does the publication of the successor,                                  *)
LEMMA PublishStep ==
  ASSUME SchedulerInv, TypeOK', NEW l \in Lineage, Publish(l)
  PROVE  SchedulerInv'
<1> DEFINE n == NextNumber(l) - 1
<1>1. /\ n \in Number /\ successor[l][n] = "requested"
      /\ owner[l] \in Run /\ pc[l] = "evolving"
  BY BeforeHasLast DEF Publish, At, Before
<1>0. PICK agent \in 0..MaxEpoch :
        /\ n \in revisions[l] => agent = n
        /\ LineageBecomes(l, "ready", lineage[l].next, lineage[l].evidence, agent)
  BY <1>1, PublishEffect DEF SchedulerInv
<1>2. /\ LineageBecomes(l, "ready", lineage[l].next, lineage[l].evidence, agent)
      /\ SuccessorBecomes(l, n, "completed")
      /\ lineage[l].status = "ready"
  BY <1>0, <1>1, PublishEffect DEF SchedulerInv, Publish, Status
<1>3. /\ UNCHANGED <<campaign, epochs, revisions, owner, seen, exposed>>
      /\ pc' = [pc EXCEPT ![l] = "boundary"]
  BY DEF Publish, Goto
<1>4. SoundRows(l)'
  <2>1. RowsAgreeIn(lineage[l], epochs[l])'
    BY <1>2, <1>3, RowsOf DEF RowsAgreeIn, LineageBecomes
  <2>2. SuccessorsIn(lineage[l], epochs[l], successor[l], revisions[l])'
    <3>1. /\ lineage'[l].next = lineage[l].next /\ lineage'[l].status = "ready"
          /\ n \in revisions[l] => lineage'[l].agent = n
          /\ successor'[l][n] = "completed"
          /\ \A m \in Number \ {n} : successor'[l][m] = successor[l][m]
      BY <1>0, <1>2 DEF LineageBecomes, SuccessorBecomes
    <3>2. n = lineage[l].next - 1
      BY DEF NextNumber
    <3> QED  BY <1>1, <1>2, <1>3, <3>1, <3>2, RowsOf, SuccPublish
  <2>3. campaign[CampaignOf[l]] # "completed"
    BY <1>2, RowsOf DEF SoundRows, Sound, QuietIn
  <2> QED  BY <1>3, <2>1, <2>2, <2>3 DEF SoundRows, Sound
<1>5. Knows(l)'
  BY <1>1, <1>2, <1>3 DEF Knows, Before, Past, Pending, SuccessorBecomes, LineageBecomes,
                              NextNumber, SchedulerInv, TypeOK
<1>6. OthersKept(l)
  BY <1>2, <1>3 DEF OthersKept, LineageBecomes, SuccessorBecomes, SchedulerInv, TypeOK
<1>7. lineage'[l].evidence >= lineage[l].evidence
  BY <1>2, RowsOf DEF LineageBecomes
<1> QED  BY <1>3, <1>4, <1>5, <1>6, <1>7, WriteStep

(* the start of the next Epoch,                                               *)
LEMMA InsertStep ==
  ASSUME SchedulerInv, TypeOK', NEW l \in Lineage, Insert(l)
  PROVE  SchedulerInv'
<1> DEFINE n == NextNumber(l)
<1>1. /\ n \in Number /\ ~Pending(l)
      /\ Observer[l] # None => lineage[Observer[l]].evidence >= n - 1
      /\ owner[l] \in Run /\ pc[l] = "epoch"
  BY DEF Insert, At, SchedulerInv, CoroutineInv, Knows, Past
<1>2. /\ LineageBecomes(l, "running", lineage[l].next, lineage[l].evidence, lineage[l].agent)
      /\ EpochBecomes(l, "open", lineage[l].evidence, lineage[l].agent)
      /\ lineage[l].status = "ready" /\ epochs[l][n] = None
  BY <1>1, InsertEffect DEF SchedulerInv, Insert, Status, Row
<1>3. UNCHANGED <<campaign, successor, revisions, owner, pc, seen, exposed>>
  BY DEF Insert, process
<1>4. SoundRows(l)'
  <2>1. RowsAgreeIn(lineage[l], epochs[l])'
    BY <1>1, <1>2, RowsOf, RowsInsert DEF LineageBecomes, EpochBecomes, NextNumber
  <2>2. SuccessorsIn(lineage[l], epochs[l], successor[l], revisions[l])'
    BY <1>1, <1>2, <1>3, RowsOf, PendingIsIn, SuccInsert
    DEF LineageBecomes, EpochBecomes, NextNumber
  <2>3. campaign[CampaignOf[l]] # "completed"
    BY <1>1, <1>2, RowsOf DEF SoundRows, Sound, QuietIn
  <2> QED  BY <1>3, <2>1, <2>2, <2>3 DEF SoundRows, Sound
<1>5. Pending(l)' <=> Pending(l)
  BY <1>2, <1>3 DEF Pending, Completed, Row, LineageBecomes, EpochBecomes, Replaces, NextNumber
<1>6. \A o \in Lineage : lineage'[o].evidence >= lineage[o].evidence
  <2>1. \A o \in Lineage : lineage'[o].evidence = lineage[o].evidence
    BY <1>2 DEF LineageBecomes
  <2> QED  BY <2>1, RowsOf
<1>7. Knows(l)'
  BY <1>1, <1>2, <1>3, <1>5, <1>6, KnowsFrame DEF SchedulerInv, CoroutineInv, LineageBecomes
<1>8. OthersKept(l)
  BY <1>2, <1>3 DEF OthersKept, LineageBecomes, EpochBecomes
<1>9. \A m \in Number : epochs'[l][m] # None /\ epochs[l][m] = None /\ Observer[l] # None =>
        lineage[Observer[l]].evidence >= m - 1
  BY <1>1, <1>2 DEF EpochBecomes, Replaces
<1> QED  BY <1>4, <1>6, <1>7, <1>8, <1>9, WriteStep

(* its completion,                                                            *)
LEMMA CompleteStep ==
  ASSUME SchedulerInv, TypeOK', NEW l \in Lineage, CompleteEpoch(l)
  PROVE  SchedulerInv'
<1> DEFINE n == NextNumber(l)
<1>1. /\ n \in Number /\ ~Pending(l) /\ epochs[l][n] # None /\ epochs[l][n].status = "open"
      /\ owner[l] \in Run /\ pc[l] = "epoch"
  BY DEF CompleteEpoch, At, OpenEpoch, Row, SchedulerInv, CoroutineInv, Knows, Past
<1>2. /\ LineageBecomes(l, "awaiting_evidence", lineage[l].next + 1,
                        lineage[l].evidence, lineage[l].agent)
      /\ EpochBecomes(l, "completed", epochs[l][n].evidence, epochs[l][n].agent)
  BY CompleteEffect DEF SchedulerInv
<1>3. /\ UNCHANGED <<campaign, successor, revisions, owner, seen, exposed>>
      /\ pc' = [pc EXCEPT ![l] = "loop"]
  BY DEF CompleteEpoch, Goto
<1>4. SoundRows(l)'
  <2>1. RowsAgreeIn(lineage[l], epochs[l])'
    BY <1>1, <1>2, RowsOf, RowsComplete DEF LineageBecomes, EpochBecomes, NextNumber
  <2>2. SuccessorsIn(lineage[l], epochs[l], successor[l], revisions[l])'
    BY <1>1, <1>2, <1>3, RowsOf, PendingIsIn, SuccComplete
    DEF LineageBecomes, EpochBecomes, NextNumber
  <2>3. campaign[CampaignOf[l]] # "completed"
    BY <1>1, RowsOf DEF SoundRows, Sound, QuietIn, NextNumber
  <2> QED  BY <1>3, <2>1, <2>2, <2>3 DEF SoundRows, Sound
<1>5. Knows(l)'
  BY <1>3 DEF Knows, Before, Past, SchedulerInv, TypeOK
<1>6. OthersKept(l)
  BY <1>2, <1>3 DEF OthersKept, LineageBecomes, EpochBecomes, SchedulerInv, TypeOK
<1>7. lineage'[l].evidence >= lineage[l].evidence
  BY <1>2, RowsOf DEF LineageBecomes
<1>8. \A m \in Number : epochs'[l][m] # None => epochs[l][m] # None
  BY <1>1, <1>2 DEF EpochBecomes, Replaces
<1> QED  BY <1>4, <1>5, <1>6, <1>7, <1>8, WriteStep

(* fail_epoch and recover_failed_epoch turn the next Epoch over.              *)
LEMMA TurnStep ==
  ASSUME SchedulerInv, TypeOK', NEW l \in Lineage, NEW status \in {"open", "failed"},
         lineage[l].status \in {"running", "failed"}, Row(l, NextNumber(l)) # None,
         LineageBecomes(l, IF status = "open" THEN "running" ELSE "failed", lineage[l].next,
                        lineage[l].evidence, lineage[l].agent),
         EpochBecomes(l, status, epochs[l][NextNumber(l)].evidence,
                      epochs[l][NextNumber(l)].agent),
         UNCHANGED <<successor, revisions, exposed>>,
         \A c \in Campaign : campaign'[c] = "completed" => campaign[c] = "completed",
         \A o \in Lineage : owner'[o] \in Run /\ pc'[o] \notin Resting =>
           owner[o] \in Run /\ pc'[o] = pc[o] /\ seen'[o] = seen[o]
  PROVE  SchedulerInv'
<1> DEFINE n == NextNumber(l)
<1>1. n \in Number /\ epochs[l][n] # None /\ n = lineage[l].next
  BY DEF Row, NextNumber
<1>2. SoundRows(l)'
  <2>1. RowsAgreeIn(lineage[l], epochs[l])'
    BY <1>1, RowsOf, RowsTurn DEF LineageBecomes, EpochBecomes
  <2>2. SuccessorsIn(lineage[l], epochs[l], successor[l], revisions[l])'
    <3>1. /\ lineage'[l].next = lineage[l].next
          /\ lineage'[l].status = IF status = "open" THEN "running" ELSE "failed"
          /\ lineage'[l].evidence = lineage[l].evidence /\ lineage'[l].agent = lineage[l].agent
          /\ Replaces(epochs[l], epochs'[l], lineage[l].next, status,
                      epochs[l][lineage[l].next].evidence, epochs[l][lineage[l].next].agent)
      BY <1>1 DEF LineageBecomes, EpochBecomes
    <3>2. SuccessorsIn(lineage'[l], epochs'[l], successor[l], revisions[l])
      BY <1>1, <3>1, RowsOf, SuccTurn
    <3> QED  BY <3>2
  <2>3. campaign[CampaignOf[l]] # "completed"
    BY RowsOf DEF SoundRows, Sound, QuietIn
  <2> QED  BY <2>1, <2>2, <2>3, SchedulerConstants DEF SoundRows, Sound
<1>3. OthersKept(l)
  BY SchedulerConstants DEF OthersKept, LineageBecomes, EpochBecomes
<1>4. \A o \in Lineage : lineage'[o].evidence >= lineage[o].evidence
  <2>1. \A o \in Lineage : lineage'[o].evidence = lineage[o].evidence
    BY DEF LineageBecomes
  <2> QED  BY <2>1, RowsOf
<1>5. \A m \in Number : epochs'[l][m] # None => epochs[l][m] # None
  BY <1>1 DEF EpochBecomes, Replaces
<1>6. ASSUME owner'[l] \in Run PROVE Knows(l)'
  <2>1. CASE pc'[l] \in Resting
    BY <2>1 DEF Knows, Resting, Before, Past
  <2>2. CASE pc'[l] \notin Resting
    <3>1. ~Pending(l) /\ ~Pending(l)'
      <4>1. ~PendingIn(lineage[l], epochs[l], successor[l])
        BY RowsOf DEF SuccessorsIn
      <4>2. ~PendingIn(lineage[l], epochs[l], successor[l])'
        BY <1>2 DEF SoundRows, Sound, SuccessorsIn, LineageBecomes
      <4>3. Pending(l)' => PendingIn(lineage[l], epochs[l], successor[l])'
        BY DEF Pending, PendingIn, Completed, Row, NextNumber
      <4> QED  BY <4>1, <4>2, <4>3, PendingIsIn
    <3> QED  BY <1>4, <1>6, <2>2, <3>1, KnowsFrame
             DEF SchedulerInv, CoroutineInv, LineageBecomes
  <2> QED  BY <2>1, <2>2
<1> QED  BY <1>2, <1>3, <1>4, <1>5, <1>6, WriteStep

(* its failure,                                                               *)
LEMMA FailStep ==
  ASSUME SchedulerInv, TypeOK', NEW l \in Lineage, FailEpoch(l)
  PROVE  SchedulerInv'
<1>1. /\ LineageBecomes(l, "failed", lineage[l].next, lineage[l].evidence, lineage[l].agent)
      /\ EpochBecomes(l, "failed", epochs[l][NextNumber(l)].evidence,
                      epochs[l][NextNumber(l)].agent)
  BY FailEffect DEF SchedulerInv
<1>2. Row(l, NextNumber(l)) # None /\ lineage[l].status = "running"
  BY RowsOf DEF FailEpoch, OpenEpoch, Row, NextNumber, RowsAgreeIn
<1>3. /\ UNCHANGED <<successor, revisions, exposed, owner, pc, seen>>
      /\ \A c \in Campaign : campaign'[c] = "completed" => campaign[c] = "completed"
  BY DEF FailEpoch, process, SchedulerInv, TypeOK
<1> QED  BY <1>1, <1>2, <1>3, TurnStep

(* the recovery from it, which also stops the run that was at work,           *)
LEMMA RecoverStep ==
  ASSUME SchedulerInv, TypeOK', NEW l \in Lineage, RecoverEpoch(l)
  PROVE  SchedulerInv'
<1>1. Row(l, NextNumber(l)) # None /\ lineage[l].status = "failed"
  BY FailedHasRow DEF RecoverEpoch, Status
<1>2. /\ LineageBecomes(l, "running", lineage[l].next, lineage[l].evidence, lineage[l].agent)
      /\ EpochBecomes(l, "open", epochs[l][NextNumber(l)].evidence,
                      epochs[l][NextNumber(l)].agent)
  BY <1>1, RecoverEffect DEF SchedulerInv
<1>3. /\ UNCHANGED <<successor, revisions, exposed>>
      /\ \A c \in Campaign : campaign'[c] = "completed" => campaign[c] = "completed"
  BY DEF RecoverEpoch, SchedulerInv, TypeOK
<1>4. \A o \in Lineage : owner'[o] \in Run /\ pc'[o] \notin Resting =>
        owner[o] \in Run /\ pc'[o] = pc[o] /\ seen'[o] = seen[o]
  <2>1. CASE owner[l] \in Run
    BY <2>1, SchedulerConstants DEF RecoverEpoch, Unwind, Resting, SchedulerInv, TypeOK
  <2>2. CASE owner[l] \notin Run
    <3>1. owner \in [Lineage -> Run \cup {None, Dead}] /\ owner' = [owner EXCEPT ![l] = None]
      BY <2>2 DEF RecoverEpoch, SchedulerInv, TypeOK
    <3>2. pc' = pc /\ seen' = seen
      BY <2>2 DEF RecoverEpoch, process
    <3> QED  BY <3>1, <3>2, SchedulerConstants
  <2> QED  BY <2>1, <2>2
<1> QED  BY <1>1, <1>2, <1>3, <1>4, TurnStep

(* attach_challenger sets a flag that no invariant reads.                     *)
LEMMA ChallengedStep ==
  ASSUME SchedulerInv, TypeOK', NEW l \in Lineage, Challenged(l)
  PROVE  SchedulerInv'
<1>1. \A o \in Lineage, n \in Number :
        /\ epochs'[o][n] = None <=> epochs[o][n] = None
        /\ epochs'[o][n].status = epochs[o][n].status
        /\ epochs'[o][n].evidence = epochs[o][n].evidence
        /\ epochs'[o][n].agent = epochs[o][n].agent
  BY ChallengedEffect DEF SchedulerInv
<1>2. /\ UNCHANGED <<campaign, lineage, successor, revisions, owner, seen, exposed>>
      /\ pc[l] = "challenging" /\ owner[l] \in Run /\ pc' = [pc EXCEPT ![l] = "epoch"]
  BY DEF Challenged, Goto, At
<1>3. OthersKept(l)
  <2>1. \A o \in Lineage \ {l} : epochs'[o] = epochs[o]
    BY DEF Challenged, SchedulerInv, TypeOK
  <2> QED  BY <1>2, <2>1 DEF OthersKept, SchedulerInv, TypeOK
<1>4. SoundRows(l)'
  <2>1. RowsAgreeIn(lineage[l], epochs[l])'
    BY <1>1, <1>2, RowsOf DEF RowsAgreeIn
  <2>2. SuccessorsIn(lineage[l], epochs[l], successor[l], revisions[l])'
    <3>1. \A n \in Number \ {MaxEpoch} : n + 1 \in Number
      BY SchedulerConstants DEF Number
    <3> QED  BY <1>1, <1>2, <3>1, RowsOf DEF SuccessorsIn, PendingIn
  <2>3. campaign[CampaignOf[l]] = "completed" => QuietIn(lineage[l], epochs[l])'
    BY <1>1, <1>2, RowsOf DEF SoundRows, Sound, QuietIn
  <2> QED  BY <1>2, <2>1, <2>2, <2>3 DEF SoundRows, Sound
<1>5. Knows(l)'
  <2>1. Pending(l)' <=> Pending(l)
    BY <1>1, <1>2 DEF Pending, Completed, Row, NextNumber
  <2> QED  BY <1>2, <2>1 DEF Knows, Before, Past, NextNumber, SchedulerInv, CoroutineInv, TypeOK
<1> QED  BY <1>1, <1>2, <1>3, <1>4, <1>5, RowsOf, WriteStep

(* the registration of a revision,                                            *)
LEMMA RegisterStep ==
  ASSUME SchedulerInv, TypeOK', NEW l \in Lineage, Register(l)
  PROVE  SchedulerInv'
<1> DEFINE n == NextNumber(l) - 1
<1>1. /\ n \in Number /\ successor[l][n] = "requested" /\ Pending(l)
      /\ owner[l] \in Run /\ pc[l] = "evolving"
  BY BeforeHasLast DEF Register, At, Before, SchedulerInv, CoroutineInv, Knows
<1>2. /\ UNCHANGED <<campaign, lineage, epochs, successor, owner, pc, seen, exposed>>
      /\ revisions'[l] = revisions[l] \cup {n}
      /\ \A o \in Lineage \ {l} : revisions'[o] = revisions[o]
  BY DEF Register, process, SchedulerInv, TypeOK
<1>3. OthersKept(l)
  BY <1>2 DEF OthersKept
<1>4. SoundRows(l)'
  <2>1. SuccessorsIn(lineage[l], epochs[l], successor[l], revisions[l])'
    BY <1>1, <1>2, RowsOf, PendingIsIn, SuccRegister DEF NextNumber
  <2> QED  BY <1>2, <2>1, RowsOf DEF SoundRows, Sound
<1>5. Knows(l)'
  BY <1>1, <1>2 DEF Knows, Pending, Completed, Row, NextNumber, SchedulerInv, CoroutineInv
<1> QED  BY <1>2, <1>3, <1>4, <1>5, RowsOf, WriteStep

(* and the request for a successor.                                           *)
LEMMA RequestStep ==
  ASSUME SchedulerInv, TypeOK', NEW l \in Lineage, RequestSuccessor(l)
  PROVE  SchedulerInv'
<1> DEFINE n == NextNumber(l)
<1>1. /\ n \in Number /\ epochs[l][n] # None /\ owner[l] \in Run /\ pc[l] = "epoch"
  BY DEF RequestSuccessor, At, OpenEpoch, Row
<1>2. /\ UNCHANGED <<campaign, lineage, epochs, revisions, owner, pc, seen, exposed>>
      /\ successor'[l][n] = "requested"
      /\ \A m \in Number \ {n} : successor'[l][m] = successor[l][m]
      /\ \A o \in Lineage \ {l} : successor'[o] = successor[o]
  BY <1>1 DEF RequestSuccessor, process, SchedulerInv, TypeOK
<1>3. OthersKept(l)
  BY <1>2 DEF OthersKept
<1>4. SoundRows(l)'
  <2>1. SuccessorsIn(lineage[l], epochs[l], successor[l], revisions[l])'
    BY <1>1, <1>2, RowsOf, SuccRequest DEF NextNumber
  <2> QED  BY <1>2, <2>1, RowsOf DEF SoundRows, Sound
<1>5. Pending(l)' <=> Pending(l)
  <2>1. n - 1 # n
    BY <1>1 DEF Number
  <2> QED  BY <1>2, <2>1 DEF Pending, Completed, Row, NextNumber
<1>6. Knows(l)'
  BY <1>1, <1>2, <1>5 DEF Knows, NextNumber, SchedulerInv, CoroutineInv
<1> QED  BY <1>2, <1>3, <1>4, <1>6, RowsOf, WriteStep

(* Steps that move several Lineages to a final status.                        *)
LEMMA StatusesStep ==
  ASSUME SchedulerInv, TypeOK', NEW S \in SUBSET Lineage, NEW status \in {"completed", "cancelled"},
         StatusesBecome(S, status), \A l \in S : lineage[l].status = "ready",
         UNCHANGED <<epochs, successor, revisions, seen, exposed>>,
         \A l \in Lineage : campaign'[CampaignOf[l]] = "completed" =>
           campaign[CampaignOf[l]] = "completed" \/ (l \in S /\ status = "completed"),
         \A l \in Lineage : owner'[l] \in Run /\ pc'[l] \notin Resting =>
           owner[l] \in Run /\ pc'[l] = pc[l]
  PROVE  SchedulerInv'
<1>1. ASSUME NEW l \in Lineage PROVE SoundRows(l)'
  <2>1. /\ lineage'[l].next = lineage[l].next /\ lineage'[l].evidence = lineage[l].evidence
        /\ lineage'[l].agent = lineage[l].agent
        /\ lineage'[l].status = IF l \in S THEN status ELSE lineage[l].status
    BY DEF StatusesBecome
  <2>2. RowsAgreeIn(lineage[l], epochs[l])'
    BY <2>1, RowsOf DEF RowsAgreeIn
  <2>3. SuccessorsIn(lineage[l], epochs[l], successor[l], revisions[l])'
    BY <2>1, RowsOf DEF SuccessorsIn, PendingIn
  <2>4. (campaign[CampaignOf[l]] = "completed" => QuietIn(lineage[l], epochs[l]))'
    <3>1. CASE l \in S
      <4>1. campaign[CampaignOf[l]] # "completed"
        BY <3>1, RowsOf DEF SoundRows, Sound, QuietIn
      <4>2. \A n \in Number : epochs[l][n] # None => epochs[l][n].status = "completed"
        <5> SUFFICES ASSUME NEW n \in Number, epochs[l][n] # None
                     PROVE  epochs[l][n].status = "completed"
          OBVIOUS
        <5>0. epochs[l] \in [Number -> EpochRow \cup {None}] /\ lineage[l].next \in Nat
          BY RowsOf DEF RowsTyped
        <5>1. epochs[l][n] \in EpochRow /\ n \in Nat
          BY <5>0, SchedulerConstants DEF Number
        <5>2. CASE n = lineage[l].next
          BY <3>1, <5>0, <5>1, <5>2, RowsOf DEF RowsAgreeIn, EpochRow
        <5>3. CASE n # lineage[l].next
          BY <5>0, <5>1, <5>3, RowsOf DEF RowsAgreeIn
        <5> QED  BY <5>2, <5>3
      <4> QED  BY <2>1, <3>1, <4>1, <4>2, RowsOf DEF QuietIn, RowsAgreeIn
    <3>2. CASE l \notin S
      BY <2>1, <3>2, RowsOf DEF SoundRows, Sound, QuietIn
    <3> QED  BY <3>1, <3>2
  <2> QED  BY <2>2, <2>3, <2>4 DEF SoundRows, Sound
<1>2. \A l \in Lineage : lineage'[l].evidence >= lineage[l].evidence
  BY RowsOf DEF StatusesBecome
<1>3. ObserverLeads'
  BY RegistryIsSound, SchedulerConstants DEF SchedulerInv, ObserverLeads, StatusesBecome
<1>4. RegistryInv'
  <2>1. (TypeOK => (RegistryInv <=> ObserverLeads /\ AllSound))'
    BY RegistryIsSound, PTL
  <2> QED  BY <1>1, <1>3, <2>1 DEF AllSound
<1>5. ASSUME NEW l \in Lineage, owner'[l] \in Run PROVE Knows(l)'
  <2>1. CASE pc'[l] \in Resting
    BY <2>1 DEF Knows, Resting, Before, Past
  <2>2. CASE pc'[l] \notin Resting
    <3>1. Pending(l)' <=> Pending(l)
      BY DEF Pending, Completed, Row, NextNumber, StatusesBecome
    <3> QED  BY <1>2, <1>5, <2>2, <3>1, KnowsFrame
             DEF SchedulerInv, CoroutineInv, StatusesBecome
  <2> QED  BY <2>1, <2>2
<1> QED  BY <1>4, <1>5 DEF SchedulerInv, CoroutineInv, ReferenceIsExactPrefix

-----------------------------------------------------------------------------
(* Steps of one coroutine that change what it knows.                          *)
LEMMA WaitStep ==
  ASSUME SchedulerInv, TypeOK', NEW l \in Lineage, FinishFirst(l) \/ Continue(l) \/ Observed(l)
  PROVE  SchedulerInv'
<1>1. /\ UNCHANGED <<registry, owner, seen, exposed>>
      /\ owner[l] \in Run
      /\ \A o \in Lineage \ {l} : pc'[o] = pc[o]
  BY DEF FinishFirst, Continue, Observed, Decides, Waits, At, Goto, SchedulerInv, TypeOK
<1>2. /\ NextNumber(l) \in 1..(MaxEpoch + 1) /\ NextNumber(l)' = NextNumber(l)
      /\ Pending(l)' <=> Pending(l)
      /\ lineage' = lineage
  BY <1>1 DEF SchedulerInv, TypeOK, LineageRow, registry, Pending, Completed, Row, NextNumber
<1>3. Observer[l] # None => Observer[l] \in Lineage /\ lineage[Observer[l]].evidence \in Nat
  BY RowsOf, SchedulerConstants
<1>4. ASSUME FinishFirst(l) PROVE Knows(l)'
  <2>1. pc'[l] \in {"evolve", "observe_epoch"} /\ Pending(l)
    BY <1>4 DEF FinishFirst, Goto, SchedulerInv, TypeOK
  <2> QED  BY <1>2, <2>1 DEF Knows, Before, Past
<1>5. ASSUME Continue(l) PROVE Knows(l)'
  <2>1. /\ pc'[l] = IF Unobserved(l) THEN "epoch" ELSE "observe"
        /\ NextNumber(l) <= TargetOf(l)
    BY <1>5 DEF Continue, Goto, SchedulerInv, TypeOK
  <2>2. NextNumber(l) \in Number
    BY <1>1, <1>2, <2>1, SchedulerConstants DEF TargetOf, Number
  <2>3. ~Pending(l)
    <3>1. CASE At(l, "boundary")
      BY <3>1 DEF At, SchedulerInv, CoroutineInv, Knows
    <3>2. CASE Status(l) = "running"
      BY <3>2, RowsOf, PendingIsIn DEF Status, SuccessorsIn
    <3> QED  BY <1>5, <3>1, <3>2 DEF Continue, Decides
  <2>4. Observer[l] # None /\ pc'[l] = "epoch" => lineage[Observer[l]].evidence >= NextNumber(l) - 1
    BY <1>2, <1>3, <2>1 DEF Unobserved
  <2> QED  BY <1>2, <2>1, <2>2, <2>3, <2>4 DEF Knows, Before, Past
<1>6. ASSUME Observed(l) PROVE Knows(l)'
  <2>1. CASE pc[l] = "observe"
    <3>1. pc'[l] = "epoch" /\ ~Pending(l) /\ NextNumber(l) \in Number
      BY <1>1, <1>6, <2>1 DEF Observed, Goto, SchedulerInv, CoroutineInv, Knows, Past, TypeOK
    <3>2. Observer[l] # None => lineage[Observer[l]].evidence >= NextNumber(l) - 1
      BY <1>2, <1>3, <1>6, PublishedIsAhead DEF Observed, SchedulerInv
    <3> QED  BY <1>2, <3>1, <3>2 DEF Knows, Before, Past
  <2>2. CASE pc[l] = "observe_epoch"
    <3>1. pc'[l] = "evolve" /\ Pending(l)
      BY <1>1, <1>6, <2>2 DEF Observed, Goto, SchedulerInv, CoroutineInv, Knows, Before, TypeOK
    <3> QED  BY <1>2, <3>1 DEF Knows, Before, Past
  <2> QED  BY <1>6, <2>1, <2>2 DEF Observed, Waits, At
<1>7. Knows(l)'
  BY <1>4, <1>5, <1>6
<1>8. ReferenceIsExactPrefix'
  BY <1>1 DEF SchedulerInv, ReferenceIsExactPrefix
<1> QED  BY <1>1, <1>7, <1>8, MoveStep

(* The Evolver's two reads of the observer, and what it is shown.             *)
LEMMA EvolverStep ==
  ASSUME SchedulerInv, TypeOK', NEW l \in Lineage,
         Evolve(l) \/ EvolveFound(l) \/ Challenge(l) \/ Build(l)
  PROVE  SchedulerInv'
<1>1. /\ UNCHANGED <<registry, owner>>
      /\ owner[l] \in Run
      /\ \A o \in Lineage \ {l} : pc'[o] = pc[o] /\ seen'[o] = seen[o]
  BY DEF Evolve, EvolveFound, Challenge, Build, Checks, At, Goto, SchedulerInv, TypeOK
<1>2. /\ NextNumber(l)' = NextNumber(l)
      /\ Pending(l)' <=> Pending(l)
      /\ lineage' = lineage
      /\ Knows(l)
  BY <1>1 DEF registry, Pending, Completed, Row, NextNumber, SchedulerInv, CoroutineInv
<1>3. Observer[l] # None =>
        /\ Observer[l] \in Lineage /\ lineage[Observer[l]] \in LineageRow
        /\ lineage[Observer[l]].evidence <= lineage[Observer[l]].evidence
        /\ lineage[Observer[l]].status = "ready" =>
             lineage[Observer[l]].evidence = lineage[Observer[l]].next - 1
  <2> SUFFICES ASSUME Observer[l] # None
               PROVE  /\ Observer[l] \in Lineage /\ lineage[Observer[l]] \in LineageRow
                      /\ lineage[Observer[l]].evidence <= lineage[Observer[l]].evidence
                      /\ lineage[Observer[l]].status = "ready" =>
                           lineage[Observer[l]].evidence = lineage[Observer[l]].next - 1
    OBVIOUS
  <2>1. Observer[l] \in Lineage
    BY SchedulerConstants
  <2>2. lineage[Observer[l]] \in LineageRow
    BY <2>1, LineageType DEF SchedulerInv
  <2> QED  BY <2>1, <2>2, EvidenceOf DEF SchedulerInv
<1>4. ASSUME Evolve(l) \/ Challenge(l) PROVE Knows(l)' /\ ReferenceIsExactPrefix'
  <2>1. /\ \/ pc[l] = "evolve" /\ pc'[l] = "evolve_check"
           \/ pc[l] = "epoch" /\ pc'[l] = "challenge_check"
        /\ Observer[l] # None => seen'[l] = lineage[Observer[l]]
        /\ exposed' = exposed
    BY <1>4 DEF Evolve, Challenge, Goto, At, SchedulerInv, TypeOK
  <2> QED  BY <1>2, <1>3, <2>1 DEF Knows, Before, Past, ReferenceIsExactPrefix, SchedulerInv
<1>5. ASSUME EvolveFound(l) PROVE Knows(l)' /\ ReferenceIsExactPrefix'
  <2>1. pc[l] = "evolve" /\ pc'[l] = "evolving" /\ exposed' = exposed
    BY <1>5 DEF EvolveFound, Goto, At, SchedulerInv, TypeOK
  <2> QED  BY <1>2, <2>1 DEF Knows, Before, Past, ReferenceIsExactPrefix, SchedulerInv
<1>6. ASSUME Build(l) PROVE Knows(l)' /\ ReferenceIsExactPrefix'
  <2>1. \/ pc[l] = "evolve_check" /\ pc'[l] = "evolving"
        \/ pc[l] = "challenge_check" /\ pc'[l] = "challenging"
    BY <1>6 DEF Build, Checks, Goto, At, SchedulerInv, TypeOK
  <2>2. Knows(l)'
    BY <1>2, <2>1 DEF Knows, Before, Past
  <2>3. \A e \in exposed' : e \in exposed \/ e = <<l, NextNumber(l), NextNumber(l) - 1>>
    BY <1>6, ReferenceIsExact DEF Build
  <2>4. ReferenceIsExactPrefix'
    BY <2>3 DEF ReferenceIsExactPrefix, SchedulerInv
  <2> QED  BY <2>2, <2>4
<1> QED  BY <1>1, <1>4, <1>5, <1>6, MoveStep

-----------------------------------------------------------------------------
(* Every step keeps the inductive invariant, one step per action.             *)
LEMMA SchedulerStep == SchedulerInv /\ [Next]_vars => SchedulerInv'
<1> SUFFICES ASSUME SchedulerInv, [Next]_vars, TypeOK' PROVE SchedulerInv'
  BY SchedulerTypeStep
<1>0. TypeOK
  BY DEF SchedulerInv
<1> USE DEF At
<1>1. ASSUME NEW l \in Lineage, HandOff(l) PROVE SchedulerInv'
  BY <1>1, HandOffStep
<1>2. ASSUME NEW l \in Lineage, FinishFirst(l) \/ Continue(l) \/ Observed(l) PROVE SchedulerInv'
  BY <1>2, WaitStep
<1>3. ASSUME NEW l \in Lineage, Return(l) PROVE SchedulerInv'
  <2>1. Quiet
    BY <1>0, <1>3, SchedulerConstants DEF Quiet, Return, Goto, TypeOK, registry
  <2> QED  BY <2>1, QuietStep
<1>4. ASSUME NEW l \in Lineage, LineageStopped(l) PROVE SchedulerInv'
  BY <1>0, <1>4, FailsQuietly, QuietStep DEF LineageStopped, Decides
<1>5. ASSUME NEW l \in Lineage, ObserverLost(l) PROVE SchedulerInv'
  BY <1>0, <1>5, FailsQuietly, QuietStep DEF ObserverLost, Waits
<1>6. ASSUME NEW l \in Lineage, Evolve(l) \/ EvolveFound(l) \/ Challenge(l) \/ Build(l)
      PROVE  SchedulerInv'
  BY <1>6, EvolverStep
<1>7. ASSUME NEW l \in Lineage, EvolveRefused(l) \/ PublishRefused(l) \/ EpochRefused(l)
      PROVE  SchedulerInv'
  BY <1>0, <1>7, FailsQuietly, QuietStep DEF EvolveRefused, PublishRefused, EpochRefused
<1>8. ASSUME NEW l \in Lineage, BuildRefused(l) \/ SessionFails(l) PROVE SchedulerInv'
  BY <1>0, <1>8, FailsQuietly, QuietStep DEF BuildRefused, SessionFails, Checks
<1>9. ASSUME NEW l \in Lineage, Challenged(l) PROVE SchedulerInv'
  BY <1>9, ChallengedStep
<1>10. ASSUME NEW l \in Lineage, Publish(l) PROVE SchedulerInv'
  BY <1>10, PublishStep
<1>11. ASSUME NEW l \in Lineage, Insert(l) PROVE SchedulerInv'
  BY <1>11, InsertStep
<1>12. ASSUME NEW l \in Lineage, CompleteEpoch(l) PROVE SchedulerInv'
  BY <1>12, CompleteStep
<1>13. ASSUME NEW l \in Lineage, Register(l) PROVE SchedulerInv'
  BY <1>13, RegisterStep
<1>14. ASSUME NEW l \in Lineage, RequestSuccessor(l) PROVE SchedulerInv'
  BY <1>14, RequestStep
<1>15. ASSUME NEW l \in Lineage, Expire(l) \/ Lapse(l) PROVE SchedulerInv'
  <2>1. Quiet
    <3>1. UNCHANGED <<registry, exposed>> /\ seen' = seen
      BY <1>15 DEF Expire, Lapse, process
    <3>2. owner' = [owner EXCEPT ![l] = None] /\ None \notin Run
      BY <1>15, SchedulerConstants DEF Expire, Lapse
    <3>3. \A o \in Lineage \ {l} : pc'[o] = pc[o]
      BY <1>0, <1>15 DEF Expire, Lapse, process, Goto, TypeOK
    <3>4. owner \in [Lineage -> Run \cup {None, Dead}]
      BY <1>0 DEF TypeOK
    <3> QED  BY <3>1, <3>2, <3>3, <3>4 DEF Quiet
  <2> QED  BY <2>1, QuietStep
<1>16. ASSUME NEW l \in Lineage, FailEpoch(l) PROVE SchedulerInv'
  BY <1>16, FailStep
<1>17. ASSUME NEW l \in Lineage, RecoverEpoch(l) PROVE SchedulerInv'
  BY <1>17, RecoverStep
<1>18. ASSUME NEW r \in Run, Start(r) \/ AllReturned(r) PROVE SchedulerInv'
  <2>1. Quiet
    BY <1>18 DEF Quiet, Start, AllReturned, registry
  <2> QED  BY <2>1, QuietStep
<1>19. ASSUME NEW r \in Run, FinalizeCampaign(r) PROVE SchedulerInv'
  <2> DEFINE S == Members(Serves[r])
  <2>1. S \in SUBSET Lineage /\ \A l \in S : lineage[l].status = "ready"
    BY <1>19 DEF FinalizeCampaign, Quiescent, Members, Status
  <2>2. StatusesBecome(S, "completed")
    BY <1>0, <1>19, FinalizeEffect
  <2>3. \A l \in Lineage : campaign'[CampaignOf[l]] = "completed" =>
          campaign[CampaignOf[l]] = "completed" \/ l \in S
    BY <1>0, <1>19, SchedulerConstants DEF FinalizeCampaign, Members, TypeOK
  <2>4. \A l \in Lineage : owner'[l] \in Run /\ pc'[l] \notin Resting =>
          owner[l] \in Run /\ pc'[l] = pc[l]
    BY <1>0, <1>19, SchedulerConstants DEF FinalizeCampaign, Resting, TypeOK
  <2>5. UNCHANGED <<epochs, successor, revisions, seen, exposed>>
    BY <1>19 DEF FinalizeCampaign
  <2> QED  BY <2>1, <2>2, <2>3, <2>4, <2>5, StatusesStep
<1>20. ASSUME NEW r \in Run, FinalizeFails(r) PROVE SchedulerInv'
  BY <1>0, <1>20, FailsQuietly, QuietStep DEF FinalizeFails
<1>21. ASSUME NEW r \in Run, NEW l \in Lineage, Acquire(r, l) \/ FinalizeAcquire(r, l)
       PROVE  SchedulerInv'
  <2>1. Quiet
    BY <1>0, <1>21 DEF Quiet, Resting, Acquire, FinalizeAcquire, Goto, TypeOK, registry
  <2> QED  BY <2>1, QuietStep
<1>22. ASSUME NEW r \in Run, NEW l \in Lineage, AcquireRefused(r, l) \/ FinalizeRefused(r, l)
       PROVE  SchedulerInv'
  BY <1>0, <1>22, FailsQuietly, QuietStep DEF AcquireRefused, FinalizeRefused
<1>23. ASSUME NEW r \in Run, Crash(r) PROVE SchedulerInv'
  <2>1. Quiet
    BY <1>0, <1>23, SchedulerConstants DEF Quiet, Resting, Crash, Unwind, TypeOK, registry
  <2> QED  BY <2>1, QuietStep
<1>24. ASSUME NEW c \in Campaign, Cancel(c) PROVE SchedulerInv'
  <2> DEFINE S == {l \in Members(c) : Status(l) = "ready"}
  <2>1. S \in SUBSET Lineage /\ \A l \in S : lineage[l].status = "ready"
    BY DEF Members, Status
  <2>2. StatusesBecome(S, "cancelled")
    BY <1>0, <1>24, CancelEffect
  <2>3. \A l \in Lineage : campaign'[CampaignOf[l]] = "completed" =>
          campaign[CampaignOf[l]] = "completed"
    BY <1>0, <1>24, SchedulerConstants DEF Cancel, TypeOK
  <2>4. UNCHANGED <<epochs, successor, revisions, seen, exposed, owner, pc>>
    BY <1>24 DEF Cancel, process
  <2> QED  BY <2>1, <2>2, <2>3, <2>4, StatusesStep
<1>25. CASE UNCHANGED vars
  <2>1. Quiet
    BY <1>25 DEF Quiet, vars, registry, process
  <2> QED  BY <2>1, QuietStep
<1> QED
  BY <1>1, <1>2, <1>3, <1>4, <1>5, <1>6, <1>7, <1>8, <1>9, <1>10, <1>11, <1>12, <1>13,
     <1>14, <1>15, <1>16, <1>17, <1>18, <1>19, <1>20, <1>21, <1>22, <1>23, <1>24, <1>25

  DEF Next, Coroutine, Choice, Driver

(* The initial states satisfy the invariant.                                  *)
LEMMA SchedulerInit == Init => SchedulerInv
<1> SUFFICES ASSUME Init PROVE SchedulerInv
  OBVIOUS
<1>0. PICK pending \in SUBSET Evolves :
        successor = [l \in Lineage |-> [n \in Number |->
          IF l \in pending /\ n = Begin[l] - 1 THEN "requested" ELSE "none"]]
  BY DEF Init
<1> DEFINE Ended(n) == [status |-> "completed", evidence |-> n - 1, agent |-> 0,
                        challenger |-> FALSE]
<1>a. /\ Begin \in [Lineage -> 1..(MaxEpoch + 1)] /\ MaxEpoch \in Nat \ {0}
      /\ CampaignOf \in [Lineage -> Campaign] /\ None \notin Run
  BY SchedulerConstants
<1>b. ASSUME NEW l \in Lineage
      PROVE  /\ lineage[l].status = "ready" /\ lineage[l].next = Begin[l]
             /\ lineage[l].evidence = Begin[l] - 1
             /\ epochs[l] = [n \in Number |-> IF n < Begin[l] THEN Ended(n) ELSE None]
             /\ successor[l] = [n \in Number |->
                  IF l \in pending /\ n = Begin[l] - 1 THEN "requested" ELSE "none"]
             /\ revisions[l] = {}
             /\ campaign[CampaignOf[l]] = "active"
  BY <1>0, <1>a DEF Init
<1>c. ASSUME NEW n \in Number PROVE Ended(n) \in EpochRow
  BY <1>a DEF EpochRow, Number
<1>1. TypeOK
  <2>1. lineage \in [Lineage -> LineageRow]
    BY <1>a DEF Init, LineageRow, LineageStatus
  <2>2. epochs \in [Lineage -> [Number -> EpochRow \cup {None}]]
    <3>1. epochs = [l \in Lineage |-> [n \in Number |->
                      IF n < Begin[l] THEN Ended(n) ELSE None]]
      BY DEF Init
    <3> QED  BY <1>c, <3>1
  <2>3. successor \in [Lineage -> [Number -> {"none", "requested", "completed"}]]
    BY <1>0
  <2> QED  BY <2>1, <2>2, <2>3 DEF Init, TypeOK, Station
<1>2. ASSUME NEW l \in Lineage PROVE SoundRows(l)
  <2> DEFINE row == lineage[l]  E == epochs[l]  S == successor[l]
  <2>0. /\ row.next \in Nat /\ row.status = "ready" /\ row.evidence = row.next - 1
        /\ revisions[l] = {}
    <3>1. /\ lineage[l].status = "ready" /\ lineage[l].next = Begin[l]
          /\ lineage[l].evidence = Begin[l] - 1 /\ revisions[l] = {}
      BY <1>b
    <3>2. Begin[l] \in Nat
      BY <1>a
    <3> QED  BY <3>1, <3>2
  <2>a. \A n \in Number : n \in Nat
    BY EpochBound DEF Number
  <2>1. \A n \in Number : /\ E[n] # None <=> n < row.next
                          /\ n < row.next => E[n].status = "completed" /\ E[n].evidence = n - 1
    <3>1. /\ row.next = Begin[l]
          /\ E = [n \in Number |-> IF n < Begin[l] THEN Ended(n) ELSE None]
      BY <1>b
    <3>2. \A n \in Number : /\ Ended(n) # None
                            /\ Ended(n).status = "completed" /\ Ended(n).evidence = n - 1
      BY <1>c, NoneIsNoRow
    <3> HIDE DEF Ended, row, E
    <3> QED  BY <3>1, <3>2
  <2>2. RowsAgreeIn(row, E)
    <3> HIDE DEF row, E
    <3> QED  BY <2>0, <2>a, <2>1 DEF RowsAgreeIn
  <2>3. \A n \in Number : S[n] \in {"none", "requested"} /\ (S[n] # "none" => n = row.next - 1)
    <3>1. /\ row.next = Begin[l]
          /\ S = [n \in Number |->
               IF l \in pending /\ n = Begin[l] - 1 THEN "requested" ELSE "none"]
      BY <1>b
    <3> HIDE DEF row, S
    <3> QED  BY <3>1
  <2>4. SuccessorsIn(row, E, S, revisions[l])
    <3> HIDE DEF row, E, S
    <3>1. \A n \in Number \ {MaxEpoch} : n + 1 \in Number
      BY EpochBound DEF Number
    <3> QED  BY <2>0, <2>a, <2>1, <2>3, <3>1 DEF SuccessorsIn
  <2> QED  BY <1>b, <1>2, <2>2, <2>4 DEF SoundRows, Sound
<1>3. ObserverLeads
  <2> SUFFICES ASSUME NEW l \in Lineage, NEW n \in Number, Observer[l] # None, epochs[l][n] # None
               PROVE  lineage[Observer[l]].evidence >= n - 1
    BY DEF ObserverLeads
  <2>1. Observer[l] \in Lineage /\ Begin[l] <= Begin[Observer[l]] + 1
    BY SchedulerConstants
  <2>2. n \in Nat /\ Begin[l] \in Nat /\ Begin[Observer[l]] \in Nat
    BY <1>a, <2>1, EpochBound DEF Number
  <2>3. epochs[l] = [m \in Number |-> IF m < Begin[l] THEN Ended(m) ELSE None]
    BY <1>b
  <2>4. n < Begin[l]
    <3> HIDE DEF Ended
    <3> QED  BY <2>3
  <2>5. lineage[Observer[l]].evidence = Begin[Observer[l]] - 1
    BY <1>b, <2>1
  <2> QED  BY <2>1, <2>2, <2>4, <2>5
<1>4. RegistryInv
  BY <1>1, <1>2, <1>3, RegistryIsSound DEF AllSound
<1>5. CoroutineInv /\ ReferenceIsExactPrefix
  BY <1>a DEF Init, CoroutineInv, ReferenceIsExactPrefix
<1> QED  BY <1>1, <1>4, <1>5 DEF SchedulerInv

-----------------------------------------------------------------------------
(* The invariant of the scheduler holds in every reachable state of any       *)
(* Campaigns, runs, crashes and operator interventions.                       *)
THEOREM SchedulerSafety == Spec => []SchedulerInv
BY SchedulerInit, SchedulerStep, PTL DEF Spec

(* The rows of every table keep their types, and Epoch numbers their bound.   *)
THEOREM SchedulerTypes == Spec => []TypeOK
<1>1. SchedulerInv => TypeOK
  BY DEF SchedulerInv
<1> QED  BY <1>1, SchedulerSafety, PTL

(* _build_agent_proposal shows the Evolver that works for Epoch N exactly     *)
(* the observer's Evidence through Epoch N-1, wherever the observer has gone  *)
(* between the wait and the two reads.                                        *)
THEOREM SchedulerReference == Spec => []ReferenceIsExactPrefix
<1>1. SchedulerInv => ReferenceIsExactPrefix
  BY DEF SchedulerInv
<1> QED  BY <1>1, SchedulerSafety, PTL

(* _wait_for_observer_checkpoint: no Epoch N of an observing Lineage exists   *)
(* before the observer has published the Evidence of Epoch N-1.               *)
THEOREM SchedulerObserver == Spec => []ObserverLeads
<1>1. SchedulerInv => ObserverLeads
  BY DEF SchedulerInv, RegistryInv
<1> QED  BY <1>1, SchedulerSafety, PTL

(* _complete_pending_successor_evolution: the Epoch after a successor request *)
(* starts once the request is finished, and with the Agent it published.      *)
THEOREM SchedulerSuccessor == Spec => []SuccessorRunsNext
<1>1. SchedulerInv => SuccessorRunsNext
  BY DEF SchedulerInv, RegistryInv
<1> QED  BY <1>1, SchedulerSafety, PTL

(* complete_campaign leaves no open Epoch and no pending handoff, although    *)
(* only the last of the fences is checked by its transaction.                 *)
THEOREM SchedulerQuiescence == Spec => []CompletedIsQuiescent
<1>1. SchedulerInv => CompletedIsQuiescent
  BY DEF SchedulerInv, RegistryInv
<1> QED  BY <1>1, SchedulerSafety, PTL

(* assemble_next and advance_lineage_evidence: every Epoch starts from the    *)
(* checkpoint through its predecessor, and the handoff is never refused.      *)
THEOREM SchedulerEvidence == Spec => []EvidenceIsCumulative
<1>1. SchedulerInv => EvidenceIsCumulative
  BY DEF SchedulerInv, RegistryInv
<1> QED  BY <1>1, SchedulerSafety, PTL

=============================================================================
