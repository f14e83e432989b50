# A TLA+ model of the Atrex Kernel Agent Runtime

The Runtime (`src/src/atrex_runtime`, about 60,000 lines of Python) runs long
optimization campaigns: Agents write GPU kernels, the Runtime measures them,
keeps the better ones, and lets an Evolver propose better Agents.  Everything it
decides is a row of an SQLite Registry, and everything it does is supposed to
survive a crash, a stop, a lost lease or a second scheduler.  That is what this
project models, checks with TLC and proves with TLAPS.

## 1. The system

```
Campaign -> Lineages (one per DSL) -> Epochs -> Branches (Active, Challengers)
         -> Trajectories -> Attempts -> recovery generations (Worker Sessions)
```

| Component | State | Operations | Hard parts |
| --- | --- | --- | --- |
| Lineage fences (`controller/leases.py`, `registry/sqlite.py`) | `lineage_fences` row, heartbeat thread, active token | acquire, enter, renew, release, fenced transaction, operator bump | clock read before the lock, late heartbeats, expiry under an open transaction |
| Attempt (`controller/epoch.py` `_finish_attempt`, `workers/optimizer.py`, Gateway records) | `attempts`, `kernel_revisions`, report receipts, committed outcome | insert, retry, run Session, record report, register Kernel, compare, complete | two databases, several transactions per Attempt, superseded schedulers, generations |
| Epoch and Workflow services (`controller/epoch.py`) | `epochs`, `epoch_challengers`, `epoch_branch_workflows`, `attempts`, `lineages` | insert, attach/close/freeze Challengers, plan, launch, select, complete, stop, resume, fail, recover | untrusted Workflow, concurrent launches, two-transaction completion |
| Workflow programs (`workflow_templates/`) | none: they are replayed from their first line | service calls | idempotence of every call under replay |
| Campaign tasks (`controller/tasks.py`) | `campaign_tasks`, `campaigns`, `lineages` | enqueue, claim, renew, complete, fail, cancel, requeue | leases, reclaim of live work, cooperative cancellation |
| Campaign scheduler (`controller/campaign.py`) | `lineages`, `epochs`, `epoch_successor_evolutions`, Agent revisions | run Lineages to a target, hand Evidence over, finish successor Evolutions, wait for an observer, finalize | coroutines that unwind together, polls across Campaigns, several fences and one token |
| Selection (`selection.py`) | none | comparators, best Kernel, best Agent | uncertainty thresholds, rejected pairs |
| Gateway control (`gateway/control.py`, `gateway/proxy.py`) | capabilities, operations, active calls, Evaluate tasks, evaluations | authorize, lease, reserve, take over, reuse, bind, record, commit, complete | idempotency keys, stale generations, a service that dies between two transactions |
| Gateway evaluation and jobs (`gateway/agate.py`, `abba.py`, `bound_jobs.py`, `job_recovery.py`) | remote jobs, results | submit, wait, recover | a job outlives its submitter |
| Evidence (`controller/evidence.py`) | checkpoints | assemble, advance | two commits per Epoch |
| Evolver (`workers/evolution.py`) | proposals, successor requests | build, review, seal | continuation after a crash |
| Workers (`workers/launcher.py`, `workspace.py`) | processes, workspaces, Runtime State | launch, capture, route State | operating system |
| Artifacts and GC (`artifacts/local.py`, `maintenance.py`) | content-addressed store | publish, verify, collect | collection against publication |
| Bootstrap, seeding, ablation, knowledge proxy, administration, CLI | see `PROJECT.json` | | |

How they interact: a Task worker claims a Task and runs the scheduler; the
scheduler acquires a Lineage fence and runs Epochs; the Epoch controller starts
the Workflow process of the Agent under evaluation and answers its service calls
one at a time; `run_attempts_parallel` runs Attempts concurrently; an Attempt
starts a Worker Session, which talks to the Gateway; the result comes back
through the Registry.  Operators act from other processes: `stop_epochs.py`
(unfenced, bumps the generation), `recover-epoch`, `cancel-campaign`, Task
commands.

What must be true of each: at most one scheduler writes to a Lineage; a Kernel is
retained only when it was reported and measured better; a retry budget and an
Attempt budget mean what they say; no completed work is lost or redone by
recovery; the Kernel handed to the next Epoch is the best one; and whatever is
interrupted can be finished by a restart.  The hazards at their lines are listed
in `PROJECT.json` ("hazards").

## 2. Modules

| Module | Models | Checked by | Proofs |
| --- | --- | --- | --- |
| `LineageFence` | the fence of one Lineage | `MCLineageFence` | `LineageFenceProofs` |
| `AttemptContract` | what an Attempt promises its Epoch | `MCAttempt` (refinement) | `AttemptProofs` |
| `Attempt` | one Attempt under several schedulers | `MCAttempt` | `AttemptProofs` |
| `Epoch` | one Epoch under an arbitrary Workflow | `MCEpoch` | `EpochProofs` |
| `EpochReplay` | `EXTENDS Epoch`: the evolve-3 Workflow program, replayed | `MCEpochReplay` | `EpochReplayProofs` |
| `CampaignTasks` | the Task queue and the scheduler around one Lineage | `MCCampaignTasks` | `CampaignTasksProofs` |
| `CampaignScheduler` | several Lineages, runs and Campaigns | `MCCampaignScheduler` | `CampaignSchedulerProofs` |
| `GatewayOperations` | the Gateway's idempotent operations | `MCGatewayOperations` | `GatewayOperationsProofs` |
| `ArtifactStore` | the Artifact store and its collector | `MCArtifactStore` | `ArtifactStoreProofs` |

They form a tower of abstractions.  `LineageFence` shows that one scheduler
passes the fence check; `Attempt` takes that scheduler as `holder`, with the
superseded ones still at work.  `AttemptContract` is an Attempt as the layers
above it see it; `Attempt` implements it under a refinement mapping
(`Attempt!ContractIsKept`).  `Epoch` takes an Attempt as the status of its
row, with the transitions that `Attempt` makes to it, and one live scheduler.
`EpochReplay` conjoins Epoch's actions with a program counter, so that every
step of the program is a step of `Epoch` (`ReplayImplementsEpoch`).  `CampaignScheduler` takes an Epoch as
open, failed or completed, and a fence as its owner.  `CampaignTasks` takes the
scheduler as a station of its worker.  `GatewayOperations` is what the Sessions
of two Attempts talk to; the generation it reads is the one that `Attempt`
moves on.  `ArtifactStore` is below all of them: it is what a digest in a row
refers to.

Definitions after a comment "Slip:" are plausible mistakes in the
code; no action uses them.  They are the mutants that show that each property
can fail.

### LineageFence

`clock` is the wall clock; `fence` the row; `dbLock` the process inside `BEGIN
IMMEDIATE`; `sched` the local state of a lease and its heartbeat thread.
`acquire` reads the clock (`BeginAcquire`) and then takes the lock
(`AcquireGranted`, `AcquireRefused`); the heartbeat computes an expiry
(`HeartbeatWake`) and writes it later (`HeartbeatRenew`, `HeartbeatFails`); a
transaction checks the fence when it begins and commits later.  The code draws a
random owner for every acquisition and the model reuses the scheduler's name, so
the model's owner test is weaker.

### Attempt

Each scheduler has a station `pc` in `_finish_attempt`: `load` (head of the
loop), `launch`, `session`, `finalize`, `record`, `settle`, `compare`, `verdict`,
`fail`.  Every Registry transaction is one step guarded by the fence (`Holds`);
the two durable records of the Gateway are written without it.  A report is the
generation that wrote it and its status.  `independent`, free at the start and
never changed, selects between adopting the Agent's evaluation (ordinary
Lineages, `composition/campaign.py`) and a private final Evaluate (`dev_only` and
`raw` Lineages).  (A `raw` Lineage has no Gateway authority: its report is made up
by the worker, `raw_handoff`, and not submitted.  The model routes it through the
receipts like any other, which allows more.)

`AttemptContract` has three variables, the report, the Kernel and the decision.
The mapping takes the status of the recorded report, the registered Kernel, and
`open`, `retained` or `rejected` from the row: schedulers, Sessions, generations,
receipts and retries are hidden.  A retained Kernel was measured after its report
was recorded and before the decision, and nothing moves after the decision.

### Epoch

An Attempt is its slot `<<branch, trajectory, ordinal>>`, and a Kernel is the
slot that produced it, with a latency given by the constant `Latency`.  The
Workflow may issue every service call at any time (`Serving`); refused calls
change nothing, except that a refused `create_trajectory` marks the plan as
started and a refused batch has already made the Epoch running.
`create_trajectory` and `complete_epoch` are two transactions each and can be
cut between them.  A program that exits with an error between two calls
(`WorkflowRaises`) takes its scheduler's volatile state with it, as a crash does,
and spends no disruption.  `compare_agents` is a free choice among the Branches that
ran.

### EpochReplay

`line` and `i` are the program counter and loop variable of
`workflow_templates/evolve_3.py`; `first` is `epoch_number = 1`, free at the
start.  The template has three rounds per Branch of a budget of six; `Rounds` is
half of `Budget` so that small budgets keep that shape.  `RoundBatch` is how the Workflow SDK, which is not part of the
repository, turns pools and routes into launches.  A refused call ends the
program, and the next scheduler starts it again.

### CampaignTasks

Rows of `campaign_tasks` with owner and lease; each worker has a station in
`run_once` and the scheduler below it.  The stations that await (`Awaiting`) are
the only ones at which the heartbeat may interrupt; finalization is synchronous,
but other processes act between its transactions.  A dead process leaves the
owner name `Gone`: its successor draws a new one.

### CampaignScheduler

A run is one call of `run_registered_campaign_through`.  Its Lineages are
coroutines of one task group: `pc` is where the coroutine of a Lineage is, and
the first exception unwinds all coroutines of its run (`Fails`), while the death
of the process leaves its fences until they expire (`Crash`, `Expire`).  An
Evidence checkpoint is named by the last Epoch it covers, an Agent by the Epoch
whose successor Evolution built it.  The two waits for an observer differ in one
comparison (`=` and `>=`), which makes no difference because a Lineage past a
boundary has started its Epoch; `Published` stands for both.  The observer row
that `_build_agent_proposal` reads is kept in `seen`, because the boundary Epoch
is looked up later.  Finalization takes the fences of all Lineages one after the
other, in any order; only the last one (`token`) guards the transaction.  A successor
Evolution publishes a new revision, the parent, or an earlier revision that it
reuses (`Successors`).  Left out: the promotion of an Epoch's winning Challenger to
the Lineage's active Agent, which no property here reads.

### GatewayOperations

A handler is a coroutine of one event loop; `loop` is the one that runs, and it
gives the loop up only for the measurement and in the poll, which is where the
code has an `await`.  The scheduler is another process and acts between any two
transactions.  The request lease is `Serving` (who is at a station that holds
it), the task leases are `locks`.  A call is an Attempt, a generation and a key;
`ops`, `active`, `tasks` and `evaluations` are the tables.  A key stands for the
content it is derived from.  The Evaluate task of a Kernel exists once for the
Lineage (`Shared`) and once per Trajectory that may not see the shared result.
Operations are of four kinds: a full Evaluate, a diagnostic (`probe`), and a
report that nominates a candidate or does not.

`lineage` holds the four settings that change what the handlers do, free at the
start and frozen: whether results can be read, whether there is an Experiment
Journal, whether Trials are broadcast, and `dev_only`.  `Sees` is whose Trials an
Attempt may see; `Earned` is `find_candidate_evaluation`: the newest row of the
generation decides, and without one an adopted Trial (with a Journal) or any
visible success (without).  Which Trials an Attempt has adopted is left open, so
that the model accepts every nomination the code can accept.  A dev-only Lineage
has no Evaluate and its nominations need none (`proxy.py:1502-1505`).  Raw
Lineages have no capability.  Left out: unfinished checkpoints of an older Runtime
(`retire_nonterminal_checkpoint`), which a fresh database does not hold.

### ArtifactStore

An object is absent, whole or a wreck: sealing is a rename, removal is
`rmtree`, so only removal has a middle.  `Names` is what the Runtime itself writes
into an object, `Embeds` every digest the collector finds there, and `Reachable`
the least set closed under either.  What is stored and what is listed are two
things: `stateRefs` are the digests of the `runtime_state` columns, which the
Registry stores and does not list, and `quoted` those in the texts of Experiments,
which the Gateway lists whatever they are.  The pass reads what the two
databases list one after the other, follows digests (`Expand`), and then sweeps in
any order of names.  `Collect` and `Begin` exclude each other: the operator's
`--confirm-runtime-stopped` is taken to be true, as decision 0018 demands.

## 3. Runs

The passing runs finish in at most four minutes each on two cores.

| Run | Instance | Shows |
| --- | --- | --- |
| `fence` | 2 schedulers, clock to its bound, several generations | an open transaction is of the current generation (the inductive invariant), commits come in generation order, foreign rows are left alone |
| `attempt` | 2 schedulers, 1 retry, 2 disruptions, either final evaluation, fair | the contract is kept (one report, measured before the decision, nothing moves after it); acceptance is earned, retry budget, no lost candidate in an ordinary Lineage; the Attempt settles or is orphaned |
| `epoch` | 1 Challenger, budget 2, parallelism 2, 2 disruptions | selection covers the budget, Trajectories run in order, inputs have a provenance, the best Kernel is handed on, the inductive invariant, work is kept |
| `replay` | budget 4 (two rounds), 2 disruptions; a first or a later Epoch | replayed calls are recognised; the Epoch completes unless cut at one of two points |
| `tasks` | 2 workers, 2 Tasks (targets 1 and 2, the second finalizes), 2 stalls, 1 crash, 1 command, fair | completed means done, the lease invariant, Tasks move forward; Tasks settle, cancellations take effect |
| `gateway` | 2 Attempts on sibling Trajectories of a Lineage with one of four settings, 2 handlers, 2 generations, 4 keys, quota 1, up to 3 requests and 2 faults | one execution per task, failures are no verdicts, answers are their own and immutable, one earned report, the barrier, the quota |
| `scheduler` | 2 Campaigns, 3 Lineages, 3 runs, 2 Epochs, 1 fault, fair | the Evolver sees exactly the preceding prefix, the observer leads, successors run next, Evidence is cumulative, a completed Campaign is at rest, polls end |
| `artifacts` | Evidence that names a trace and a state, a foreign digest, 2 processes, limit 1, 1 dying pass, fair | what listed references lead to is there (states apart), what was sealed can be referenced, the collector spares what its roots lead to, orphans go |

Four runs are expected to be violated; each is a disagreement between the code and
its documentation, quoted in `PROJECT.json` ("findings"):

1. `replay_selecting`: a cut between the two transactions of completion leaves an
   Epoch `selecting`, and the replayed `run_attempts_parallel` refuses it for ever.
2. `attempt_orphan`: a stop after `record_attempt_report` and before
   `register_kernel_revision` leaves an Attempt no generation can finish.
3. `artifacts_state`: the Registry's list of referenced digests leaves out the three
   `runtime_state` columns (`sqlite.py:442-480`), so that a pass while an Epoch is
   stopped removes the state of an unfinished Attempt, which its retry verifies
   (`workspace.py:418-419`).  Once Epoch Evidence names the state
   (`evidence.py:644-645`) it is found.
4. `scheduler_observer`: the wait accepts an observer that was finalized at the
   boundary, the check after it does not, so the Evolver never runs.

Other limits of the code that the models show, and that have no run of their own:

* With a private final Evaluate a crash after the outcome was committed loses the
  accepted report, and a good candidate is rejected (`interfaces.md:409` says an
  incomplete handoff is never a negative result).  `CandidateKeepsItsReport` is
  therefore stated for ordinary Lineages.
* After `no_change` a replayed `evolve_agent` is refused (`protocols.md:258`); it
  is the second cut of `CompletesOrIsCut`.
* A plan may leave out an attached Challenger (`interfaces.md:893`).
* A finalizing Task whose worker dies after `complete_campaign` is run again and
  recorded as failed (`operations.md:243`); `TasksSettle` counts it as settled.
* `recover-epoch` accepts only a failed Epoch, and nothing in the program calls
  `fail_epoch`, so an exhausted retry budget has no way out.
* `cancel_campaign` accepts a Campaign whose successor Evolver runs.
* The barrier row of a call whose service died stays until its key is sent again.
* When the service dies after a failed Evaluate result was bound
  (`proxy.py:1250`) and before its response was committed, the repeated request
  takes its own task over and replaces the failed job, and `bind` refuses the new
  result (`control.py:1370-1373`) for the rest of the generation, although
  `interfaces.md:65` calls the failure replayable for its request.  An Evaluate
  that an isolated Trajectory took over can end the same way.
  `ResultsAreImmutable` is the part that holds: what was bound stands.
* A collector that dies inside a removal leaves a wreck; sealing that content
  (unless only the empty directory is left) and later passes raise.  `OrphansGo`
  excludes it by name.
* Every text of an Experiment that begins with `sha256:` is a root of the
  collector (`control.py:345-350`); one that is no object ends every pass.
  `OrphansGo` excludes that too.

The passing runs say that, within the model, these are the only ways for an Epoch
(`CompletesOrIsCut`) and for an Attempt (`AttemptSettlesOrOrphans`) to get stuck,
an exhausted retry budget apart.

Bounds.  Counters are bounded by guards, each by a named constant.  Two
schedulers, workers, handlers or launches are the smallest number that race; two
disruptions allow a disruption of a recovery; one Challenger and budget 2 give
two Branches with one slot each, or one Branch with two Trajectories or with two
ordinals; budget 4 gives the replayed program a second, routed round for each
Branch.  In `gateway` one request may be repeated by either handler, a second
generation makes the first one stale, and the second Attempt meets the first
one's task running, settled, orphaned or abandoned; a job may fail once before
it succeeds.  The bounds on requests and faults depend on the settings: two
faults where isolated Trajectories fall back on tasks of their own, three requests
(a measurement and both reports) without faults where results are readable, and
three with a fault in a dev-only Lineage, whose nominations need no Evaluate.  In `scheduler` the evolving Lineage is one Epoch ahead of its
observer at the start, so that it must wait, and a third run with a smaller
target finalizes beside it.  In `artifacts` the closure takes more than
one round, the state may be referenced, named by Evidence, quoted by an Experiment
or none of these, and the limit is smaller than the number
of orphans.  Larger instances are covered by the theorems where there are any.
Symmetry is used for the schedulers of `fence` and the handlers of `gateway`,
which check no liveness.

Fairness.  `Attempt.FairSpec` and `EpochReplay.FairReplaySpec`: a live scheduler
goes on (Sessions have wall-clock limits) and a dead one is started again by its
Task or operator; disruptions are finite.  Nothing makes a Session succeed or a
comparison accept.  `CampaignTasks.FairSpec`: a live worker goes on, its
heartbeat included, and the lease of a dead one lapses; nothing is assumed of
stalls, crashes, commands or failures.  `CampaignScheduler.FairSpec`: the event
loop of each run goes on, a run that ended without a result is started again (by
the operator or the Task worker, not by the scheduler itself), and fences of dead
processes expire.  `ArtifactStore.FairSpec`: processes end, objects age, and the
operator runs the collector whenever the Runtime is stopped.  Deadlock is not
checked where the modelled part really ends: an Attempt, Epoch or Campaign
completes, a queue is empty, a bound is reached.

## 4. Theorems

Each proof module shows `Spec => []Inv` for an inductive invariant, and derives
the properties from it.  The constants are arbitrary; the assumptions are those
named in the modules (`FenceConstants`, `AttemptConstants`, `EpochConstants`,
`ReplayConstants`, `TaskConstants`, `SchedulerConstants`, `GatewayConstants`,
`StoreConstants`).  They give the constants their types, with three exceptions.
`ReplayConstants` asks for a Challenger and an even budget, which is what the
evolve-3 template is for.  `NoneIsNoRow`, in two modules, says that the value
for an absent row is not a row.  `SchedulerConstants` lets a Lineage begin at
most one Epoch after its observer: the runs before the modelled one waited for
the observer as well, and without it `ObserverLeads` would be false at the start.

* `LineageFence`, `FenceInv`.  An open transaction belongs to the current
  generation although its lease may have run out since it began; for that, a
  superseded lease must be known to have an older generation, so `FenceInv` adds
  that generations are handed out once and lie in the past.
* `Attempt`, `AttemptInv`.  The heart is `HolderIsCurrent`: what the fence holder
  read before a Session or a comparison is still true when it writes, because
  every transition away from it passes the fence.  `CandidateTravelsWithReport`
  holds for ordinary Lineages only and gives `AttemptKeepsReport`.
* `Attempt` implements `AttemptContract` (`AttemptKeepsContract`).  Every step of
  an Attempt that satisfies `AttemptInv` is a step of the contract or leaves its
  three variables alone; the proof goes action by action.  Registering needs
  that the holder has no Kernel yet, measuring and retaining need
  `HolderIsCurrent`.
* `Epoch`, `EpochInv`.  Readiness is decided by counting; from `WithinPlan`
  (every Attempt lies inside the plan) and finite cardinality, equal counts give
  equal sets, which is `SelectionSettled`.  `BestIsBest` uses that a finite
  nonempty set of Kernels has a fastest member.
* `EpochReplay`, `ReplayInv`.  `ReplayIsAccepted` speaks of the call at hand; the
  invariant says what earlier runs of the program can have left: plans of one
  capacity only, made after the Challenger was decided and complete before the
  Epoch runs (`PlansAreItsOwn`), and inputs that are what the program routes to
  that round (`RoundsInOrder`), for a route stands once the round before it is
  over.  The plan equals the budget by counting: one pool of `Budget` slots, or
  two disjoint ones of half of it.  `ReplayImplementsEpoch` is the composition:
  under `ReplayInv` every step of the program is one of `Epoch`'s, so that the
  theorems about an arbitrary Workflow hold of this one.
* `CampaignTasks`, `TaskInv`.  `ReturnIsEarned` links a scheduler that returned
  to the work of a Task it still owns, across takeovers and cancellations.
* `CampaignScheduler`, `SchedulerInv`.  `RegistryInv` relates the rows to each
  other: Epochs are dense, each starts from the checkpoint before it, the row of
  the Lineage counts them, a requested successor belongs to the last Epoch.
  `CoroutineInv` says what a coroutine that owns its fence may rely on between
  two of its awaits (`Knows`): whether a successor request is open, before and
  past the boundary; that the observer has published; and that the observer row
  it has read is an earlier state of that row, so that the Epoch it looks up
  later is the one the row meant.  The exact prefix, the lead of the observer and
  the order of successors follow from the two together.
* `GatewayOperations`, `GatewayInv`, in layers, each preserved with the help of
  the ones before it: handlers and their stations (`HandlersInv`), leases
  (`LeasesInv`), reservations and the quota they are counted by (`QuotaInv`), the
  task rows and who holds them (`TasksInv`), what may be bound, recorded and
  committed (`VerdictsInv`), the barrier rows (`BarrierInv`), and what stands
  behind an answer (`AnswersInv`).  The crux is `TasksAreHeld`: while a handler
  executes or settles a task it alone has the lease, the reservation is open and
  its own, or it was taken over by a newer generation of the same Attempt, and
  then the handler's next transaction is refused.  `CommitsAreSafe` adds that a
  failed execution has abandoned its task before it is committed.
  `OneEarnedReport` needs that evaluations only grow and that what an Attempt may
  see is frozen with its Lineage (`EvaluationsGrow`, `EarnedIsSupported`).
  `ResultsAreImmutable` and `ReportWaitsForCalls` are action properties proved
  from the same invariant.
* `ArtifactStore`, `StoreInv`.  Reachability is stated with closed sets and not by
  recursion, so that no induction over paths is needed: whatever closed set
  contains the references contains what they lead to.  When the closure is
  finished, what was retained contains the listed digests and every whole object
  that a retained one embeds, so a victim is not reachable over whole objects;
  and a pass runs alone, so nobody holds it either.  `ListedResolve` and
  `SealedResolves` leave the Runtime states out, `CollectorSpares` has no
  exception: what the collector lists it spares.

Only model-checked: everything about liveness and fairness (`AttemptSettlesOrOrphans`,
`CompletesOrIsCut`, `TasksSettle`, `CancellationTakesEffect`, `PollsEnd`,
`OrphansGo`), which is out of the prover's reach.  Every other property that a
passing run checks is stated by a theorem.  The four
violation runs are counterexamples and have nothing to prove.  Conversely three
action properties are proved and not run on their own, because a refinement or
an invariant that is checked says nearly the same on the instance:
`CompletedIsFinal`, `NoSessionAfterKernel` and `CompletedEpochIsFinal`.  The
inductive invariants `SchedulerInv`, `ReplayInv` and `StoreInv` were checked with
TLC on the instances of `scheduler`, `replay` and `artifacts` before they were
proved, and are not listed in those configurations.

## 5. Not modelled

The contents of reports, evidence, kernels and measurements; the arithmetic of
the comparators; sandboxing, processes and file systems; parsing, configuration,
HTTP and presentation; schema migrations; the Gateway's journals, normalized
measurements and Bootstrap subjects; the Evolver's continuation rounds.  The
kernels and analyses under `experiments/` are results of campaigns, and the
agent bundles are their input: neither is part of the Runtime.  `PROJECT.json`
gives the reason for each component.

## 6. Plan

In order:

1. `EvaluationJobs`: the resubmission loop of `job_recovery.py`, the Runtime's own
   finalization stages and ABBA batches.
2. `Selection`: comparators and Agent selection as operators, against reference
   definitions over bounded inputs.
3. An abstract Epoch, implemented by `Epoch` and used by `CampaignScheduler`.
4. The other Workflow templates and the routing of Runtime State.
5. Journals and their ordering rules, `Bootstrap` generations, the Wiki proxy's
   leases, the Evolver's continuation.
