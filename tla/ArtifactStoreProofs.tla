-------------------------- MODULE ArtifactStoreProofs --------------------------
(***************************************************************************)
(* TLAPS proofs about ArtifactStore, for any Artifacts with any digests in *)
(* them, any number of processes, starts, passes and deaths of a pass.     *)
(***************************************************************************)
EXTENDS ArtifactStore, TLAPS

Closed(next, s) == s \subseteq Digest /\ \A d \in s : next[d] \subseteq s

(* Reachable is a closed set that holds where it started from.              *)
LEMMA ReachableIsClosed ==
  ASSUME NEW next \in [Digest -> SUBSET Digest], NEW from \in SUBSET Digest
  PROVE  Closed(next, Reachable(next, from)) /\ from \subseteq Reachable(next, from)
<1>1. from \subseteq Reachable(next, from)
  BY DEF Reachable
<1>2. ASSUME NEW d \in Reachable(next, from), NEW e \in next[d]
      PROVE  e \in Reachable(next, from)
  <2>1. d \in Digest /\ e \in Digest
    BY <1>2 DEF Reachable
  <2>2. ASSUME NEW s \in ClosedSets(next), from \subseteq s PROVE e \in s
    BY <1>2, <2>2 DEF Reachable, ClosedSets
  <2> QED  BY <2>1, <2>2 DEF Reachable
<1>3. Reachable(next, from) \subseteq Digest
  BY DEF Reachable
<1> QED  BY <1>1, <1>2, <1>3 DEF Closed

(* It is the least one.                                                     *)
LEMMA ReachableIsLeast ==
  ASSUME NEW next, NEW from, NEW s, Closed(next, s), from \subseteq s
  PROVE  Reachable(next, from) \subseteq s
<1>1. s \in ClosedSets(next)
  BY DEF Closed, ClosedSets
<1> QED  BY <1>1 DEF Reachable

LEMMA ReachableIsMonotone ==
  ASSUME NEW next \in [Digest -> SUBSET Digest],
         NEW from \in SUBSET Digest, NEW more \in SUBSET Digest, from \subseteq more
  PROVE  Reachable(next, from) \subseteq Reachable(next, more)
BY ReachableIsClosed, ReachableIsLeast

(* Two closed sets together are closed; states and things that are no       *)
(* Artifacts name nothing.                                                  *)
LEMMA ClosedUnion ==
  ASSUME NEW next, NEW s, NEW t, Closed(next, s), Closed(next, t)
  PROVE  Closed(next, s \cup t)
BY DEF Closed

LEMMA OthersAreClosed == Closed(Names, Digest \ Durable)
BY StoreConstants DEF Closed, Durable

LEMMA NothingIsReached == \A next : Reachable(next, {}) = {}
<1> TAKE next
<1>1. Closed(next, {})
  BY DEF Closed
<1> QED  BY <1>1, ReachableIsLeast

(* What the two databases list of the Runtime's own references.              *)
Core == registryRefs \cup gatewayRefs

(* A pass runs alone, and nobody knows an Artifact while it does.           *)
LEMMA NobodyKnows ==
  ASSUME RunsAlone, pass # "off" PROVE Known = {}
BY DEF RunsAlone, Known

(* What the pass has retained after the expansion holds everything that a   *)
(* listed digest leads to: by name, and over the objects that are there.    *)
LEMMA RetainedCovers ==
  ASSUME StoreInv, pass \in {"sweep", "remove"}
  PROVE  /\ Reachable(Names, Core) \cap Durable \subseteq retained
         /\ InUse \subseteq retained
<1>1. Core \in SUBSET Digest /\ Listed \subseteq retained /\ retained \subseteq Digest
  BY StoreConstants DEF StoreInv, TypeOK, SnapshotIsComplete, Core, Listed
<1>2. Reachable(Names, Core) \cap Durable \subseteq retained
  <2> DEFINE reached == Reachable(Names, Core)
             s == reached \cap (retained \cup (Digest \ Durable))
  <2>1. Closed(Names, reached) /\ Core \subseteq reached
    BY <1>1, StoreConstants, ReachableIsClosed
  <2>2. reached \cap Durable \subseteq Whole
    BY DEF StoreInv, ListedResolve, Core
  <2> HIDE DEF reached
  <2>3. ASSUME NEW d \in s, NEW e \in Names[d] PROVE e \in s
    <3>1. e \in reached /\ e \in Digest /\ d \in Digest
      BY <2>1, <2>3 DEF Closed
    <3>2. CASE d \in retained
      BY <2>2, <2>3, <3>1, <3>2, StoreConstants DEF StoreInv, RetainedIsClosed
    <3>3. CASE d \in Digest \ Durable
      BY <2>3, <3>3, StoreConstants DEF Durable
    <3> QED  BY <2>3, <3>2, <3>3
  <2>4. Closed(Names, s) /\ Core \subseteq s
    BY <1>1, <2>1, <2>3 DEF Closed, Core, Listed
  <2> HIDE DEF s
  <2>5. Reachable(Names, Core) \subseteq s
    BY <2>4, ReachableIsLeast
  <2> QED  BY <2>5 DEF s
<1>3. InUse \subseteq retained
  <2> DEFINE s == retained \cup (Digest \ Whole)
  <2>1. Closed(Follows, s)
    BY <1>1, StoreConstants DEF Closed, Follows, Whole, StoreInv, RetainedIsClosed
  <2>2. Listed \cup Known \subseteq s
    BY <1>1, NobodyKnows DEF StoreInv
  <2> HIDE DEF s
  <2>3. Reachable(Follows, Listed \cup Known) \subseteq s
    BY <2>1, <2>2, ReachableIsLeast
  <2> QED  BY <2>3 DEF s, InUse
<1> QED  BY <1>2, <1>3

LEMMA StoreTypeStep == TypeOK /\ [Next]_vars => TypeOK'
<1> SUFFICES ASSUME TypeOK, [Next]_vars PROVE TypeOK'
  OBVIOUS
<1> USE StoreConstants DEF TypeOK, references, store, runtime, collector
<1>1. ASSUME NEW p \in Process, Begin(p) \/ Stop(p) PROVE TypeOK'
  BY <1>1 DEF Begin, Stop
<1>2. ASSUME NEW p \in Process, NEW d \in Digest,
             Seal(p, d) \/ SealRefused(p, d) \/ Reference(p, d) \/ Quote(p, d)
      PROVE  TypeOK'
  BY <1>2 DEF Seal, SealRefused, Reference, Quote
<1>3. ASSUME NEW d \in Digest, Age(d) PROVE TypeOK'
  BY <1>3 DEF Age
<1>4. CASE Collect \/ ReadGateway \/ Expanded
  BY <1>4 DEF Collect, ReadGateway, Expanded
<1>5. CASE Removed
  BY <1>5 DEF Removed
<1>6. CASE Finish \/ Die
  BY <1>6 DEF Finish, Die, EndPass
<1>7. ASSUME NEW d \in Digest, Expand(d) \/ ExpandMissing(d) \/ ExpandRefused(d) PROVE TypeOK'
  BY <1>7 DEF Expand, ExpandMissing, ExpandRefused, EndPass
<1>8. ASSUME NEW d \in Digest, Spare(d) \/ Remove(d) \/ RemoveRefused(d) PROVE TypeOK'
  BY <1>8 DEF Spare, Remove, RemoveRefused, EndPass
<1>9. CASE UNCHANGED vars
  BY <1>9 DEF vars
<1> QED  BY <1>1, <1>2, <1>3, <1>4, <1>5, <1>6, <1>7, <1>8, <1>9 DEF Next, Pass

(* The two properties survive a step that keeps every whole object and only  *)
(* forgets.                                                                 *)
LEMMA StoreKept ==
  ASSUME StoreInv, UNCHANGED <<registryRefs, gatewayRefs>>,
         Whole \subseteq Whole', Known' \subseteq Known
  PROVE  ListedResolve' /\ SealedResolves'
<1>1. ListedResolve'
  BY DEF StoreInv, ListedResolve
<1>2. Known \in SUBSET Digest
  BY StoreConstants DEF StoreInv, TypeOK, Known
<1>3. Reachable(Names, Known') \subseteq Reachable(Names, Known)
  BY <1>2, StoreConstants, ReachableIsMonotone
<1>4. SealedResolves'
  BY <1>3 DEF StoreInv, SealedResolves
<1> QED  BY <1>1, <1>4

(* Nor does the pass that changes no object disturb them.                   *)
LEMMA StoreSame ==
  ASSUME StoreInv, UNCHANGED <<object, registryRefs, gatewayRefs, held>>
  PROVE  ListedResolve' /\ SealedResolves'
<1>1. Whole' = Whole /\ Known' = Known
  BY DEF Whole, Known
<1> QED  BY <1>1, StoreKept

(* What the pass takes apart is not in use.                                 *)
LEMMA StoreRemoval ==
  ASSUME StoreInv, pass \in {"sweep", "remove"},
         NEW d \in Digest \ retained, Whole \ {d} \subseteq Whole',
         UNCHANGED <<registryRefs, gatewayRefs, held>>
  PROVE  ListedResolve' /\ SealedResolves'
<1>1. Known' = Known
  BY DEF Known
<1>2. Reachable(Names, Core) \cap Durable \subseteq retained
  BY RetainedCovers
<1>3. ListedResolve'
  BY <1>2 DEF StoreInv, ListedResolve, Core
<1>4. Known = {}
  BY NobodyKnows DEF StoreInv
<1>5. SealedResolves'
  BY <1>1, <1>4, NothingIsReached DEF SealedResolves
<1> QED  BY <1>3, <1>5

(* Every step preserves the inductive invariant.                            *)
LEMMA StoreStep == StoreInv /\ [Next]_vars => StoreInv'
<1> SUFFICES ASSUME StoreInv, [Next]_vars, TypeOK' PROVE StoreInv'
  BY StoreTypeStep DEF StoreInv
<1> DEFINE Scan == RunsAlone /\ SnapshotIsComplete /\ RetainedIsClosed /\ VictimIsUnused
<1> USE DEF store, references
<1>0. Known \in SUBSET Digest /\ Core \in SUBSET Digest
  BY StoreConstants DEF StoreInv, TypeOK, Known, Core
<1>1. ASSUME NEW p \in Process, Begin(p) PROVE StoreInv'
  <2>1. ListedResolve' /\ SealedResolves'
    BY <1>1, StoreSame DEF Begin
  <2>2. Scan'
    BY <1>1 DEF StoreInv, TypeOK, Begin, collector, RunsAlone, SnapshotIsComplete,
         RetainedIsClosed, VictimIsUnused
  <2> QED  BY <2>1, <2>2 DEF StoreInv
<1>2. ASSUME NEW p \in Process, Stop(p) PROVE StoreInv'
  <2>1. Whole' = Whole /\ Known' \subseteq Known
    BY <1>2 DEF Stop, StoreInv, TypeOK, Whole, Known
  <2>2. ListedResolve' /\ SealedResolves'
    BY <1>2, <2>1, StoreKept DEF Stop
  <2>3. Scan'
    BY <1>2, <2>1 DEF StoreInv, TypeOK, Stop, collector, RunsAlone, SnapshotIsComplete,
         RetainedIsClosed, VictimIsUnused, Listed
  <2> QED  BY <2>2, <2>3 DEF StoreInv
<1>3. ASSUME NEW p \in Process, NEW d \in Digest, Seal(p, d) PROVE StoreInv'
  <2> USE <1>3 DEF Seal
  <2>1. pass = "off"
    BY DEF StoreInv, RunsAlone
  <2>2. Scan'
    BY <2>1 DEF StoreInv, TypeOK, collector, RunsAlone, SnapshotIsComplete, RetainedIsClosed,
         VictimIsUnused
  <2>3. Whole' = Whole \cup {d} /\ Known' \subseteq Known \cup {d}
    BY DEF StoreInv, TypeOK, Whole, Known
  <2>4. ListedResolve'
    BY <2>3 DEF StoreInv, ListedResolve
  <2> DEFINE used == Reachable(Names, Known) \cup Reachable(Names, Core) \cup (Digest \ Durable)
  <2>5. Closed(Names, used)
    BY <1>0, StoreConstants, ReachableIsClosed, OthersAreClosed, ClosedUnion
  <2>6. References \subseteq used /\ Known \subseteq used
    BY <1>0, StoreConstants, ReachableIsClosed DEF References, Core, StoreInv, TypeOK, Durable
  <2>7. Names[d] \subseteq used
    <3>1. Reachable(Names, References) \subseteq used
      BY <2>5, <2>6, ReachableIsLeast
    <3> QED  BY <2>6, <3>1, StoreConstants DEF Writable, Known, Durable
  <2>8. used \cap Durable \subseteq Whole
    BY DEF StoreInv, ListedResolve, SealedResolves, Core
  <2> HIDE DEF used
  <2>9. Closed(Names, used \cup {d}) /\ Known' \subseteq used \cup {d}
    BY <2>3, <2>5, <2>6, <2>7 DEF Closed
  <2>10. Reachable(Names, Known') \subseteq used \cup {d}
    BY <2>9, ReachableIsLeast
  <2>11. Known' \subseteq Whole'
    BY <2>3 DEF StoreInv, SealedResolves
  <2>12. SealedResolves'
    BY <2>3, <2>8, <2>10, <2>11 DEF SealedResolves
  <2> QED  BY <2>2, <2>4, <2>12 DEF StoreInv
<1>4. ASSUME NEW p \in Process, NEW d \in Digest, SealRefused(p, d) PROVE StoreInv'
  <2>1. Whole' = Whole /\ Known' \subseteq Known
    BY <1>4 DEF SealRefused, StoreInv, TypeOK, Whole, Known
  <2>2. ListedResolve' /\ SealedResolves'
    BY <1>4, <2>1, StoreKept DEF SealRefused
  <2>3. Scan'
    BY <1>4, <2>1 DEF StoreInv, TypeOK, SealRefused, collector, RunsAlone, SnapshotIsComplete,
         RetainedIsClosed, VictimIsUnused, Listed
  <2> QED  BY <2>2, <2>3 DEF StoreInv
<1>5. ASSUME NEW p \in Process, NEW d \in Digest, Reference(p, d) PROVE StoreInv'
  <2> USE <1>5 DEF Reference
  <2>1. pass = "off"
    BY DEF StoreInv, RunsAlone
  <2>2. Scan'
    BY <2>1 DEF StoreInv, TypeOK, runtime, collector, RunsAlone, SnapshotIsComplete,
         RetainedIsClosed, VictimIsUnused
  <2>3. /\ Core' \subseteq Core \cup Known
        /\ Known' = Known
        /\ Whole' = Whole
    BY DEF Core, Known, Whole, runtime
  <2> DEFINE used == Reachable(Names, Known) \cup Reachable(Names, Core)
  <2>4. Closed(Names, used) /\ Core' \subseteq used
    BY <1>0, <2>3, StoreConstants, ReachableIsClosed, ClosedUnion
  <2>5. used \cap Durable \subseteq Whole
    BY DEF StoreInv, ListedResolve, SealedResolves, Core
  <2> HIDE DEF used
  <2>6. Reachable(Names, Core') \subseteq used
    BY <2>4, ReachableIsLeast
  <2>7. ListedResolve' /\ SealedResolves'
    BY <2>3, <2>5, <2>6 DEF StoreInv, ListedResolve, SealedResolves, Core
  <2> QED  BY <2>2, <2>7 DEF StoreInv
<1>6. ASSUME NEW p \in Process, NEW d \in Digest, Quote(p, d) PROVE StoreInv'
  <2>1. ListedResolve' /\ SealedResolves'
    BY <1>6, StoreSame DEF Quote, runtime
  <2>2. pass = "off"
    BY <1>6 DEF StoreInv, RunsAlone, Quote
  <2>3. Scan'
    BY <1>6, <2>2 DEF StoreInv, TypeOK, Quote, runtime, collector, RunsAlone,
         SnapshotIsComplete, RetainedIsClosed, VictimIsUnused
  <2> QED  BY <2>1, <2>3 DEF StoreInv
<1>7. ASSUME NEW d \in Digest, Age(d) PROVE StoreInv'
  <2>1. ListedResolve' /\ SealedResolves'
    BY <1>7, StoreSame DEF Age, runtime
  <2>2. Scan'
    BY <1>7 DEF StoreInv, TypeOK, Age, runtime, collector, RunsAlone, SnapshotIsComplete,
         RetainedIsClosed, VictimIsUnused, Listed, Whole
  <2> QED  BY <2>1, <2>2 DEF StoreInv
<1>8. CASE Collect
  <2>1. ListedResolve' /\ SealedResolves'
    BY <1>8, StoreSame DEF Collect, runtime
  <2>2. Scan'
    BY <1>8 DEF StoreInv, TypeOK, Collect, runtime, RunsAlone, SnapshotIsComplete,
         RetainedIsClosed, VictimIsUnused
  <2> QED  BY <2>1, <2>2 DEF StoreInv
<1>9. CASE ReadGateway
  <2>1. ListedResolve' /\ SealedResolves'
    BY <1>9, StoreSame DEF ReadGateway, runtime
  <2>2. /\ Listed' = Listed
        /\ roots' = Listed
        /\ pending' = Listed
        /\ retained' = {}
        /\ pass' = "expand"
    BY <1>9 DEF ReadGateway, StoreInv, SnapshotIsComplete, Listed
  <2>3. SnapshotIsComplete' /\ RetainedIsClosed'
    BY <2>2 DEF SnapshotIsComplete, RetainedIsClosed
  <2>4. RunsAlone' /\ VictimIsUnused'
    BY <1>9 DEF StoreInv, ReadGateway, runtime, RunsAlone, VictimIsUnused
  <2> QED  BY <2>1, <2>3, <2>4 DEF StoreInv
<1>10. ASSUME NEW d \in Digest, Expand(d) \/ ExpandMissing(d) PROVE StoreInv'
  <2> USE <1>10 DEF Expand, ExpandMissing, runtime
  <2>1. ListedResolve' /\ SealedResolves'
    BY StoreSame
  <2>2. Listed' = Listed /\ Whole' = Whole
    BY DEF Listed, Whole
  <2>3. SnapshotIsComplete'
    BY <2>2 DEF StoreInv, SnapshotIsComplete
  <2>4. RetainedIsClosed'
    BY <2>2 DEF StoreInv, RetainedIsClosed, Whole
  <2>5. RunsAlone' /\ VictimIsUnused'
    BY DEF StoreInv, RunsAlone, VictimIsUnused
  <2> QED  BY <2>1, <2>3, <2>4, <2>5 DEF StoreInv
<1>11. CASE Expanded
  <2>1. ListedResolve' /\ SealedResolves'
    BY <1>11, StoreSame DEF Expanded, runtime
  <2>2. Scan'
    BY <1>11 DEF StoreInv, TypeOK, Expanded, runtime, RunsAlone, SnapshotIsComplete,
         RetainedIsClosed, VictimIsUnused, Listed, Whole
  <2> QED  BY <2>1, <2>2 DEF StoreInv
<1>12. ASSUME NEW d \in Digest, Spare(d) PROVE StoreInv'
  <2>1. ListedResolve' /\ SealedResolves'
    BY <1>12, StoreSame DEF Spare, runtime
  <2>2. Scan'
    BY <1>12 DEF StoreInv, TypeOK, Spare, Scans, runtime, RunsAlone, SnapshotIsComplete,
         RetainedIsClosed, VictimIsUnused, Listed, Whole
  <2> QED  BY <2>1, <2>2 DEF StoreInv
<1>13. ASSUME NEW d \in Digest, Remove(d) PROVE StoreInv'
  <2> USE <1>13 DEF Remove, Scans, Spared, runtime
  <2>1. Whole' = Whole \ {d}
    BY DEF StoreInv, TypeOK, Whole
  <2>2. ListedResolve' /\ SealedResolves'
    BY <2>1, StoreRemoval
  <2>3. Scan'
    BY <2>1 DEF StoreInv, TypeOK, RunsAlone, SnapshotIsComplete, RetainedIsClosed,
         VictimIsUnused, Listed
  <2> QED  BY <2>2, <2>3 DEF StoreInv
<1>14. CASE Removed
  <2> USE <1>14 DEF Removed, runtime
  <2>1. victim \in Digest \ retained /\ Whole' = Whole \ {victim}
    BY DEF StoreInv, TypeOK, VictimIsUnused, Whole
  <2>2. ListedResolve' /\ SealedResolves'
    BY <2>1, StoreRemoval
  <2>3. Scan'
    BY <2>1 DEF StoreInv, TypeOK, RunsAlone, SnapshotIsComplete, RetainedIsClosed,
         VictimIsUnused, Listed
  <2> QED  BY <2>2, <2>3 DEF StoreInv
<1>15. ASSUME EndPass, UNCHANGED <<store, runtime>> PROVE StoreInv'
  <2>1. ListedResolve' /\ SealedResolves'
    BY <1>15, StoreSame DEF runtime
  <2>2. Scan'
    BY <1>15 DEF StoreInv, TypeOK, EndPass, runtime, RunsAlone, SnapshotIsComplete,
         RetainedIsClosed, VictimIsUnused
  <2> QED  BY <2>1, <2>2 DEF StoreInv
<1>16. CASE UNCHANGED vars
  <2>1. ListedResolve' /\ SealedResolves'
    BY <1>16, StoreSame DEF vars, runtime
  <2>2. Scan'
    BY <1>16 DEF StoreInv, vars, runtime, collector, RunsAlone, SnapshotIsComplete,
         RetainedIsClosed, VictimIsUnused, Listed, Whole
  <2> QED  BY <2>1, <2>2 DEF StoreInv
<1>17. ASSUME \/ Finish \/ Die \/ \E d \in Digest : RemoveRefused(d) \/ ExpandRefused(d)
       PROVE  StoreInv'
  BY <1>15, <1>17 DEF Finish, Die, RemoveRefused, ExpandRefused
<1> QED
  BY <1>1, <1>2, <1>3, <1>4, <1>5, <1>6, <1>7, <1>8, <1>9, <1>10, <1>11, <1>12, <1>13, <1>14,
     <1>16, <1>17 DEF Next, Pass

(***************************************************************************)
(* The inductive invariant of the store and its collector.  The snapshot   *)
(* it speaks of is what the two databases list, not what they store.       *)
(***************************************************************************)
THEOREM StoreSafety == Spec => []StoreInv
<1>1. Init => StoreInv
  <2> SUFFICES ASSUME Init PROVE StoreInv
    OBVIOUS
  <2>1. registryRefs \cup gatewayRefs = {} /\ Known = {}
    BY DEF Init, Known
  <2>2. ListedResolve /\ SealedResolves
    BY <2>1, NothingIsReached DEF ListedResolve, SealedResolves
  <2>3. TypeOK
    BY StoreConstants DEF Init, TypeOK
  <2> QED
    BY <2>2, <2>3 DEF Init, StoreInv, RunsAlone, SnapshotIsComplete, RetainedIsClosed,
         VictimIsUnused
<1>2. StoreInv /\ [Next]_vars => StoreInv'
  BY StoreStep
<1> QED  BY <1>1, <1>2, PTL DEF Spec

(***************************************************************************)
(* No Artifact that a durable reference leads to is ever collected, but    *)
(* for the Runtime states of Agents.                                       *)
(***************************************************************************)
THEOREM StoreListedResolve == Spec => []ListedResolve
<1>1. StoreInv => ListedResolve
  BY DEF StoreInv
<1> QED  BY <1>1, StoreSafety, PTL

(***************************************************************************)
(* No Artifact that a process has sealed and may still reference is, a     *)
(* state included.                                                         *)
(***************************************************************************)
THEOREM StoreSealedResolves == Spec => []SealedResolves
<1>1. StoreInv => SealedResolves
  BY DEF StoreInv
<1> QED  BY <1>1, StoreSafety, PTL

(***************************************************************************)
(* No step takes an object apart that the listed digests lead to over the  *)
(* objects that are there.                                                 *)
(***************************************************************************)
THEOREM StoreCollectorSpares == Spec => CollectorSpares
<1>1. StoreInv /\ [Next]_vars => [\A d \in Whole \ Whole' : d \notin InUse]_vars
  <2> SUFFICES ASSUME StoreInv, Next, NEW d \in Whole \ Whole' PROVE d \notin InUse
    OBVIOUS
  <2> USE DEF store, references
  <2>1. (\E e \in Digest : Remove(e)) \/ Removed
    BY DEF Next, Pass, Begin, Stop, Seal, SealRefused, Reference, Quote, Age, Collect,
         ReadGateway, Expand, ExpandMissing, ExpandRefused, Expanded, Spare, Finish,
         RemoveRefused, Die, Whole, StoreInv, TypeOK
  <2>2. pass \in {"sweep", "remove"} /\ d \notin retained
    BY <2>1 DEF Remove, Removed, Scans, Spared, Whole, StoreInv, TypeOK, VictimIsUnused
  <2> QED  BY <2>2, RetainedCovers
<1> QED  BY <1>1, StoreSafety, PTL DEF Spec, CollectorSpares

=============================================================================
