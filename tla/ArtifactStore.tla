----------------------------- MODULE ArtifactStore -----------------------------
(***************************************************************************)
(* The content-addressed Artifact store and its offline collector:         *)
(* LocalArtifactStore (artifacts/local.py) and ArtifactGarbageCollector    *)
(* (maintenance.py).                                                       *)
(*                                                                         *)
(* A Runtime process seals an object and references it in one of two       *)
(* databases later, or never; sealed objects may name others.  A pass of   *)
(* the collector takes the digests that the two databases list one after   *)
(* the other, follows the digests inside the objects, and removes old      *)
(* objects that it did not reach.  Sealing is a rename, hence one step;    *)
(* removing is not, and a pass that dies inside it leaves a wreck.         *)
(*                                                                         *)
(* What is stored and what is listed differ, both ways.  The Registry does *)
(* not list the three columns that hold the Runtime state of an Agent      *)
(* (`stateRefs`); the Gateway lists every Experiment text that looks like  *)
(* a digest, an Artifact or not (`quoted`).                                *)
(*                                                                         *)
(* "--confirm-runtime-stopped" is the operator's word: in this model it is *)
(* true (`Collect` and `Begin` exclude each other).                        *)
(***************************************************************************)
EXTENDS Naturals, FiniteSets

CONSTANTS
  Digest,     \* digests that occur in Artifacts
  Sealable,   \* those of them that are Artifacts of this store
  State,      \* the Runtime states of Agents among them
  Names,      \* the Artifacts that the Runtime names in each Artifact
  Embeds,     \* every digest in its payload, those an Agent wrote included
  Quotable,   \* digests that an Agent may write into its Experiments
  Process,    \* Runtime, Worker, Bootstrap and scheduler processes
  None,       \* no object is being removed
  Limit,      \* --limit of a pass
  MaxStarts,  \* bound on process starts
  MaxFaults   \* bound on passes that die

ASSUME StoreConstants ==
  /\ Sealable \subseteq Digest
  /\ State \subseteq Sealable
  /\ Quotable \subseteq Digest
  /\ Embeds \in [Digest -> SUBSET Digest]
  /\ Names \in [Digest -> SUBSET Digest]
  /\ \A d \in Digest : Names[d] \subseteq Embeds[d]
  /\ \A d \in State \cup (Digest \ Sealable) : Names[d] = {}
  /\ None \notin Digest
  /\ Limit \in Nat \ {0}
  /\ MaxStarts \in Nat
  /\ MaxFaults \in Nat

VARIABLES
  object,       \* directory of each digest: absent, whole or a wreck
  old,          \* objects past the minimum age
  registryRefs, \* digests in the columns and Events that the Registry lists
  stateRefs,    \* digests in its runtime_state columns, which it does not
  gatewayRefs,  \* digests that the Gateway's operations and outcomes hold
  quoted,       \* digests in the texts of recorded Experiments
  live,         \* processes that run
  held,         \* digests that a process has sealed and knows
  starts,       \* process starts so far
  pass,         \* where the collector is
  roots,        \* its reference snapshot
  pending,      \* digests expand_reference_closure has yet to visit
  retained,     \* objects it has reached
  unscanned,    \* objects collect_garbage has yet to visit
  eligible,     \* old unreferenced objects found by this pass
  victim,       \* the object being removed
  faults

references == <<registryRefs, stateRefs, gatewayRefs, quoted>>
store == <<object, old, references>>
runtime == <<live, held, starts>>
collector == <<pass, roots, pending, retained, unscanned, eligible, victim>>
vars == <<store, runtime, collector, faults>>

TypeOK ==
  /\ object \in [Digest -> {"absent", "whole", "wreck"}]
  /\ old \subseteq Digest
  /\ registryRefs \subseteq Sealable \ State
  /\ stateRefs \subseteq State
  /\ gatewayRefs \subseteq Sealable \ State
  /\ quoted \subseteq Digest
  /\ live \subseteq Process
  /\ held \in [Process -> SUBSET Sealable]
  /\ starts \in Nat
  /\ pass \in {"off", "gateway", "expand", "sweep", "remove"}
  /\ roots \subseteq Digest
  /\ pending \subseteq Digest
  /\ retained \subseteq Digest
  /\ unscanned \subseteq Digest
  /\ eligible \in Nat
  /\ victim \in Digest \cup {None}
  /\ faults \in Nat

Init ==
  /\ object = [d \in Digest |-> "absent"]
  /\ old = {}
  /\ registryRefs = {}
  /\ stateRefs = {}
  /\ gatewayRefs = {}
  /\ quoted = {}
  /\ live = {}
  /\ held = [p \in Process |-> {}]
  /\ starts = 0
  /\ pass = "off"
  /\ roots = {}
  /\ pending = {}
  /\ retained = {}
  /\ unscanned = {}
  /\ eligible = 0
  /\ victim = None
  /\ faults = 0

-----------------------------------------------------------------------------
Whole == {d \in Digest : object[d] = "whole"}
Known == UNION {held[p] : p \in Process}

\* SqliteRegistry and SqliteGatewayControl.list_referenced_artifact_digests.
Listed == registryRefs \cup gatewayRefs \cup quoted
\* What the Runtime will read again.
References == registryRefs \cup gatewayRefs \cup stateRefs

\* The least set that holds the digests of `from` and is closed under `next`.
ClosedSets(next) == {s \in SUBSET Digest : \A d \in s : next[d] \subseteq s}
Reachable(next, from) ==
  LET closed == ClosedSets(next)
  IN {d \in Digest : \A s \in closed : from \subseteq s => d \in s}

-----------------------------------------------------------------------------
(* Runtime processes.                                                      *)

Begin(p) ==
  /\ pass = "off"
  /\ p \notin live
  /\ starts < MaxStarts
  /\ live' = live \cup {p}
  /\ starts' = starts + 1
  /\ UNCHANGED <<store, held, collector, faults>>

\* What a process names in an Artifact: digests it has sealed, digests it can
\* read (of a state it reads the column, the state may be gone), and digests of
\* other things than Artifacts.
Writable(p) ==
  held[p] \cup Reachable(Names, References) \cup (Digest \ Sealable)

\* Slip: an object that is found is not verified.
SealUnverified(p, d) ==
  /\ p \in live
  /\ d \in Sealable
  /\ Names[d] \subseteq Writable(p)
  /\ object' = [object EXCEPT ![d] = IF @ = "absent" THEN "whole" ELSE @]
  /\ old' = IF object[d] = "absent" THEN old \ {d} ELSE old
  /\ held' = [held EXCEPT ![p] = @ \cup {d}]
  /\ UNCHANGED <<references, live, starts, collector, faults>>

\* put_directory: the rename creates the object, or finds it and verifies it.
\* (It also replaces a wreck of which only the empty directory is left.)
Seal(p, d) ==
  /\ p \in live
  /\ d \in Sealable
  /\ Names[d] \subseteq Writable(p)
  /\ object' = [object EXCEPT ![d] = "whole"]
  /\ old' = IF object[d] = "whole" THEN old ELSE old \ {d}
  /\ held' = [held EXCEPT ![p] = @ \cup {d}]
  /\ UNCHANGED <<references, live, starts, collector, faults>>

\* The rename fails on a directory that is there and does not verify: the
\* operation fails, and fails again when it is repeated.
SealRefused(p, d) ==
  /\ p \in live
  /\ d \in Sealable
  /\ Names[d] \subseteq Writable(p)
  /\ object[d] = "wreck"
  /\ held' = [held EXCEPT ![p] = {}]
  /\ UNCHANGED <<store, live, starts, collector, faults>>

\* The transaction that references a sealed object: the state of an Agent in
\* its own columns (record_attempt_runtime_state and its like), any other
\* object where one of the two databases lists it.
Reference(p, d) ==
  /\ p \in live
  /\ d \in held[p]
  /\ \/ d \in State /\ stateRefs' = stateRefs \cup {d} /\ UNCHANGED <<registryRefs, gatewayRefs>>
     \/ d \notin State /\ registryRefs' = registryRefs \cup {d} /\ UNCHANGED <<stateRefs, gatewayRefs>>
     \/ d \notin State /\ gatewayRefs' = gatewayRefs \cup {d} /\ UNCHANGED <<stateRefs, registryRefs>>
  /\ UNCHANGED <<object, old, quoted, runtime, collector, faults>>

\* An Agent records an Experiment with a digest of its choice in the text.
Quote(p, d) ==
  /\ p \in live
  /\ d \in Quotable
  /\ quoted' = quoted \cup {d}
  /\ UNCHANGED <<object, old, registryRefs, stateRefs, gatewayRefs, runtime, collector, faults>>

\* A process ends or dies; what it has not referenced is an orphan.
Stop(p) ==
  /\ p \in live
  /\ live' = live \ {p}
  /\ held' = [held EXCEPT ![p] = {}]
  /\ UNCHANGED <<store, starts, collector, faults>>

Age(d) ==
  /\ object[d] # "absent"
  /\ d \notin old
  /\ old' = old \cup {d}
  /\ UNCHANGED <<object, references, runtime, collector, faults>>

-----------------------------------------------------------------------------
(* An applying pass of the collector.                                      *)

\* ArtifactGarbageCollector.run: what the Registry lists ...
Collect ==
  /\ pass = "off"
  /\ live = {}
  /\ pass' = "gateway"
  /\ roots' = registryRefs
  /\ UNCHANGED <<store, runtime, pending, retained, unscanned, eligible, victim, faults>>

\* Slip: the texts of Experiments are not looked at.
ReadOutcomesOnly ==
  /\ pass = "gateway"
  /\ roots' = roots \cup gatewayRefs
  /\ pending' = roots \cup gatewayRefs
  /\ retained' = {}
  /\ pass' = "expand"
  /\ UNCHANGED <<store, runtime, unscanned, eligible, victim, faults>>

\* ... and what the Gateway does, which expand_reference_closure starts from.
ReadGateway ==
  /\ pass = "gateway"
  /\ roots' = roots \cup gatewayRefs \cup quoted
  /\ pending' = roots \cup gatewayRefs \cup quoted
  /\ retained' = {}
  /\ pass' = "expand"
  /\ UNCHANGED <<store, runtime, unscanned, eligible, victim, faults>>

\* Slip: what a retained object embeds is not followed.
ExpandRootsOnly(d) ==
  /\ pass = "expand"
  /\ d \in pending
  /\ object[d] = "whole"
  /\ retained' = retained \cup {d}
  /\ pending' = pending \ {d}
  /\ UNCHANGED <<store, runtime, pass, roots, unscanned, eligible, victim, faults>>

\* A verified object is retained and the digests in it are looked at.
Expand(d) ==
  /\ pass = "expand"
  /\ d \in pending
  /\ object[d] = "whole"
  /\ retained' = retained \cup {d}
  /\ pending' = (pending \cup Embeds[d]) \ retained'
  /\ UNCHANGED <<store, runtime, pass, roots, unscanned, eligible, victim, faults>>

\* A digest that is not a root need not be an object of the store, and what
\* is left of a wreck may look like none.
ExpandMissing(d) ==
  /\ pass = "expand"
  /\ d \in pending \ roots
  /\ object[d] # "whole"
  /\ pending' = pending \ {d}
  /\ UNCHANGED <<store, runtime, pass, roots, retained, unscanned, eligible, victim, faults>>

EndPass ==
  /\ pass' = "off"
  /\ roots' = {}
  /\ pending' = {}
  /\ retained' = {}
  /\ unscanned' = {}
  /\ eligible' = 0
  /\ victim' = None

\* A root that is missing ends the pass, and a wreck that does not verify.
ExpandRefused(d) ==
  /\ pass = "expand"
  /\ d \in pending
  /\ object[d] = "wreck" \/ (d \in roots /\ object[d] = "absent")
  /\ EndPass
  /\ UNCHANGED <<store, runtime, faults>>

Expanded ==
  /\ pass = "expand"
  /\ pending = {}
  /\ unscanned' = {d \in Digest : object[d] # "absent"}
  /\ eligible' = 0
  /\ pass' = "sweep"
  /\ UNCHANGED <<store, runtime, roots, pending, retained, victim, faults>>

Scans(d) == pass = "sweep" /\ eligible < Limit /\ d \in unscanned
Spared(d) == d \in retained \/ d \notin old

\* Slip: the limit counts visited objects.
SpareCounted(d) ==
  /\ Scans(d)
  /\ Spared(d)
  /\ unscanned' = unscanned \ {d}
  /\ eligible' = eligible + 1
  /\ UNCHANGED <<store, runtime, pass, roots, pending, retained, victim, faults>>

Spare(d) ==
  /\ Scans(d)
  /\ Spared(d)
  /\ unscanned' = unscanned \ {d}
  /\ UNCHANGED <<store, runtime, pass, roots, pending, retained, eligible, victim, faults>>

\* _discard_staging begins to take the verified object apart.
Remove(d) ==
  /\ Scans(d)
  /\ ~Spared(d)
  /\ object[d] = "whole"
  /\ object' = [object EXCEPT ![d] = "wreck"]
  /\ old' = old \ {d}
  /\ unscanned' = unscanned \ {d}
  /\ eligible' = eligible + 1
  /\ victim' = d
  /\ pass' = "remove"
  /\ UNCHANGED <<references, runtime, roots, pending, retained, faults>>

Removed ==
  /\ pass = "remove"
  /\ object' = [object EXCEPT ![victim] = "absent"]
  /\ victim' = None
  /\ pass' = "sweep"
  /\ UNCHANGED <<old, references, runtime, roots, pending, retained,
                 unscanned, eligible, faults>>

\* The limit is reached or every object was visited.
Rests == eligible >= Limit \/ unscanned = {}

Finish ==
  /\ pass = "sweep"
  /\ Rests
  /\ EndPass
  /\ UNCHANGED <<store, runtime, faults>>

\* An old wreck does not verify.  The pass ends there, and so will every
\* later one.
RemoveRefused(d) ==
  /\ Scans(d)
  /\ ~Spared(d)
  /\ object[d] = "wreck"
  /\ EndPass
  /\ UNCHANGED <<store, runtime, faults>>

\* The collector dies.
Die ==
  /\ pass # "off"
  /\ faults < MaxFaults
  /\ faults' = faults + 1
  /\ EndPass
  /\ UNCHANGED <<store, runtime>>

-----------------------------------------------------------------------------
Pass ==
  \/ Collect \/ ReadGateway \/ Expanded \/ Removed \/ Finish
  \/ \E d \in Digest : \/ Expand(d) \/ ExpandMissing(d) \/ ExpandRefused(d)
                       \/ Spare(d) \/ Remove(d) \/ RemoveRefused(d)

Next ==
  \/ \E p \in Process : \/ Begin(p) \/ Stop(p)
                        \/ \E d \in Digest : \/ Seal(p, d) \/ SealRefused(p, d)
                                              \/ Reference(p, d) \/ Quote(p, d)
  \/ \E d \in Digest : Age(d)
  \/ Pass
  \/ Die

\* Processes end, objects grow old, and the operator runs the collector
\* whenever the Runtime is stopped; a pass that runs goes on.
Fairness ==
  /\ WF_vars(\E p \in Process : Stop(p))
  /\ WF_vars(\E d \in Digest : Age(d))
  /\ WF_vars(Pass)

Spec == Init /\ [][Next]_vars
FairSpec == Spec /\ Fairness

-----------------------------------------------------------------------------
Durable == Sealable \ State

(***************************************************************************)
(* "Return every CAS digest retained by Registry state or unpruned         *)
(* Events": every Artifact that the Runtime will read again, over any      *)
(* number of objects, is there and complete.  (It is not: a pass takes the *)
(* state of an unfinished Attempt.)                                        *)
(***************************************************************************)
ReferencesResolve == Reachable(Names, References) \cap Sealable \subseteq Whole

(***************************************************************************)
(* The same without the states: every other Artifact that a durable        *)
(* reference leads to is there and complete, whatever orphans were         *)
(* removed, whatever died in between, and whatever was sealed again since. *)
(***************************************************************************)
ListedResolve == Reachable(Names, registryRefs \cup gatewayRefs) \cap Durable \subseteq Whole

(***************************************************************************)
(* A process that has sealed an Artifact can reference it: what it knows   *)
(* cannot be collected, a state or an orphan that it sealed a second time  *)
(* included, nor can what it has named in there.                           *)
(***************************************************************************)
SealedResolves == Known \cup (Reachable(Names, Known) \cap Durable) \subseteq Whole

(***************************************************************************)
(* Decision 0018: the collector "follows existing Digest tokens" to a      *)
(* transitive closure.  An object that the listed digests lead to over     *)
(* objects that are there stays whole, a state that Evidence names and an  *)
(* object that only an Agent's text mentions included.                     *)
(***************************************************************************)
Follows == [d \in Digest |-> IF object[d] = "whole" THEN Embeds[d] ELSE {}]
InUse == Reachable(Follows, Listed \cup Known) \cap Whole
CollectorSpares == [][ \A d \in Whole \ Whole' : d \notin InUse ]_vars

(***************************************************************************)
(* "Disk retention is bounded by an auditable, conservative maintenance    *)
(* operation": an old orphan is removed or comes into use, unless a pass   *)
(* has died inside a removal or an Experiment mentions what is no object.  *)
(***************************************************************************)
Orphan(d) == object[d] = "whole" /\ d \notin InUse
Blocked ==
  \/ \E d \in Digest : object[d] = "wreck" /\ d # victim
  \/ \E d \in quoted : object[d] # "whole"
OrphansGo == \A d \in Sealable : []<>(Blocked \/ ~Orphan(d))

-----------------------------------------------------------------------------
(***************************************************************************)
(* The inductive invariant.  The pass runs alone; what it has retained and *)
(* what it has yet to visit lead to every object in use.                   *)
(***************************************************************************)
RunsAlone ==
  /\ pass # "off" => live = {}
  /\ \A p \in Process : p \notin live => held[p] = {}

SnapshotIsComplete ==
  /\ pass = "gateway" => roots = registryRefs
  /\ pass \in {"expand", "sweep", "remove"} => roots = Listed
  /\ pass = "expand" => roots \subseteq retained \cup pending
  /\ pass \in {"sweep", "remove"} => roots \subseteq retained

RetainedIsClosed ==
  pass \in {"expand", "sweep", "remove"} =>
    \A d \in retained : Embeds[d] \cap Whole \subseteq
                          (IF pass = "expand" THEN retained \cup pending ELSE retained)

VictimIsUnused ==
  /\ pass = "remove" => victim \in Digest \ retained
  /\ pass # "remove" => victim = None

StoreInv ==
  /\ TypeOK
  /\ RunsAlone
  /\ SnapshotIsComplete
  /\ RetainedIsClosed
  /\ VictimIsUnused
  /\ ListedResolve
  /\ SealedResolves

=============================================================================
