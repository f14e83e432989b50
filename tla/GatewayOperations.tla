--------------------------- MODULE GatewayOperations ---------------------------
(***************************************************************************)
(* The Gateway's idempotent operations: SqliteGatewayControl               *)
(* (gateway/control.py) and the request handlers of GatewayProxyService    *)
(* (gateway/proxy.py), from authorize to the committed response.           *)
(*                                                                         *)
(* Handlers are coroutines of one event loop: a handler that is not        *)
(* awaiting keeps the loop (`loop`), and it awaits in two places only, for *)
(* the measurement and in the 0.25 s poll.  The scheduler is another       *)
(* process: it may move an Attempt to its next generation, interrupt it or *)
(* revoke its capability between any two transactions of a handler, and    *)
(* the service may die between any two of them.  Execution leases are      *)
(* flocks, so a dead process holds none; rows of gateway_active_calls      *)
(* outlive it.                                                             *)
(*                                                                         *)
(* The Attempts of the model are of one Branch of a Lineage, each on a     *)
(* Trajectory of its own: they share the semantic Evaluate tasks, and see  *)
(* each other's Trials when the Lineage broadcasts them.  (An Attempt that *)
(* sends nothing more stands for an earlier one.)  A key stands for the    *)
(* content it is the digest of, so reuse of a key for other content does   *)
(* not occur.  Raw Lineages have no capability and send nothing.           *)
(***************************************************************************)
EXTENDS Naturals, Sequences, FiniteSets

CONSTANTS
  Attempt,        \* running Attempts of one Branch
  Key,            \* idempotency keys
  Kind,           \* the operation of each key
  Candidate,      \* the sealed Kernel each key names
  Usable,         \* the <<attempt, key>> pairs the Sessions may send
  Arms,           \* settings the Lineage may have been registered with
  Handler,        \* coroutines serving HTTP requests
  None,           \* an absent row, result or job
  Dead,           \* the owner of an active call whose process died
  NoOne,          \* the event loop is idle
  Shared,         \* the scope of the Lineage-wide Evaluate task
  MaxGeneration,  \* bound on recovery generations
  MaxCalls,       \* capability quota of metered operations
  MaxRequests,    \* bound on distinct requests, for each setting
  MaxJobs,        \* bound on the jobs of one identity before one succeeds
  MaxFaults       \* bound on crashes, infrastructure errors and the scheduler's
                  \* interventions, for each setting

\* result_artifact_read_enabled, "experiments" in tool_modules, broadcast
\* trajectory visibility, dev_only.  Lineage.__post_init__ excludes the others.
Lineage == {l \in [read : BOOLEAN, experiments : BOOLEAN, broadcast : BOOLEAN, dev : BOOLEAN] :
              l.dev => ~l.read /\ ~l.experiments}

ASSUME GatewayConstants ==
  /\ Arms \subseteq Lineage
  /\ Kind \in [Key -> {"evaluate", "probe", "ready", "pivot"}]
  /\ Usable \subseteq Attempt \X Key
  /\ Dead \notin Handler
  /\ NoOne \notin Handler
  /\ Shared \notin Attempt
  /\ MaxGeneration \in Nat
  /\ MaxCalls \in Nat
  /\ MaxRequests \in [Arms -> Nat]
  /\ MaxJobs \in Nat \ {0}
  /\ MaxFaults \in [Arms -> Nat]

VARIABLES
  generation,  \* Registry: attempts.recovery_generation
  standing,    \* Registry: "running" or "interrupted"
  capability,  \* gateway_capabilities row of each Attempt
  ops,         \* gateway_operations rows
  active,      \* gateway_active_calls rows
  tasks,       \* gateway_evaluate_tasks rows
  evaluations, \* gateway_evaluations of each Attempt, oldest first
  jobs,        \* Agate: the job bound to each execution identity
  loop,        \* the handler the event loop is running
  pc,          \* where each handler is
  call,        \* the authorized call each handler serves
  work,        \* its task scope, execution identity and result
  locks,       \* the task leases each handler holds
  lineage,     \* the frozen settings of the Lineage
  faults       \* crashes, errors and interventions so far

registry == <<generation, standing>>
store == <<capability, ops, active, tasks, evaluations>>
handlers == <<loop, pc, call, work, locks>>
vars == <<registry, store, jobs, handlers, lineage, faults>>

Generation == 0..MaxGeneration
Call == {c \in [attempt : Attempt, generation : Generation, key : Key] :
           <<c.attempt, c.key>> \in Usable}
Task == {Candidate[k] : k \in Key} \X (Attempt \cup {Shared})
Verdict == {"correct", "incorrect", "failed"}
Job == [execution : Call, number : Nat, verdict : Verdict \cup {"running", "registered"}]
TaskRow == [owner : Call, execution : Call, answer : Job \cup {None}]
\* An absent row, result or job is none of them.
ASSUME NoneIsNoRow == None \notin Call \cup Job \cup TaskRow

Receipt(c) == [execution |-> c, number |-> 0, verdict |-> "registered"]

\* Stations at which the request lease is held, and those of them after the
\* task lease has been taken.
Publishing == {"bind", "record", "abandon", "commit", "complete"}
Leased == {"begin", "serve", "claim", "reuse", "submit", "measuring", "exit"} \cup Publishing
Station == {"idle", "lease", "sleeping"} \cup Leased

Work == [scope : Attempt \cup {Shared}, execution : Call \cup {None},
         recover : BOOLEAN, result : Job \cup {None}]
NoWork == [scope |-> Shared, execution |-> None, recover |-> FALSE, result |-> None]

TypeOK ==
  /\ generation \in [Attempt -> Generation]
  /\ standing \in [Attempt -> {"running", "interrupted"}]
  /\ capability \in [Attempt -> [generation : Generation, used : Nat, revoked : BOOLEAN]]
  /\ ops \in [Call -> [reserved : BOOLEAN, private : Job \cup {None}, answer : Job \cup {None}]]
  /\ active \subseteq [by : Handler \cup {Dead}, call : Call]
  /\ tasks \in [Task -> TaskRow \cup {None}]
  /\ evaluations \in [Attempt -> Seq([call : Call, job : Job])]
  /\ jobs \in [Call -> Job \cup {None}]
  /\ loop \in Handler \cup {NoOne}
  /\ pc \in [Handler -> Station]
  /\ call \in [Handler -> Call \cup {None}]
  /\ work \in [Handler -> Work]
  /\ locks \in [Handler -> SUBSET Task]
  /\ lineage \in Lineage
  /\ faults \in Nat

\* Every Attempt has been launched once: its first capability is issued.
Init ==
  /\ generation = [a \in Attempt |-> 0]
  /\ standing = [a \in Attempt |-> "running"]
  /\ capability = [a \in Attempt |-> [generation |-> 0, used |-> 0, revoked |-> FALSE]]
  /\ ops = [c \in Call |-> [reserved |-> FALSE, private |-> None, answer |-> None]]
  /\ active = {}
  /\ tasks = [t \in Task |-> None]
  /\ evaluations = [a \in Attempt |-> << >>]
  /\ jobs = [c \in Call |-> None]
  /\ loop = NoOne
  /\ pc = [h \in Handler |-> "idle"]
  /\ call = [h \in Handler |-> None]
  /\ work = [h \in Handler |-> NoWork]
  /\ locks = [h \in Handler |-> {}]
  /\ lineage \in Arms
  /\ faults = 0

-----------------------------------------------------------------------------
(* What a handler asks of the control store.                               *)

\* _subject_generation: the generation of the Registry at this moment, not
\* the one the request was authorized in.
Current(c) == [c EXCEPT !.generation = generation[c.attempt]]
Interrupted(c) == standing[c.attempt] = "interrupted"
IsCurrent(c) == ~Interrupted(c) /\ Current(c) = c

\* check_execution_authority
Authority(c) ==
  /\ IsCurrent(c)
  /\ capability[c.attempt].generation = c.generation
  /\ ~capability[c.attempt].revoked

IsReport(k) == Kind[k] \in {"ready", "pivot"}
\* The diagnostic of a dev-only Lineage is Dev, which is not metered.
Metered(k) == ~IsReport(k) /\ ~lineage.dev
\* A dev-only Lineage has no Evaluate.
Allowed(k) == lineage.dev => Kind[k] # "evaluate"
IsEvaluate(h) == Kind[call[h].key] = "evaluate"
MeteredCalls(a, g) ==
  {c \in Call : c.attempt = a /\ c.generation = g /\ ops[c].reserved /\ Metered(c.key)}

\* Stations after operation_execution has inserted the call.
Behind == Leased \ {"begin", "exit"}

TaskOf(h) == <<Candidate[call[h].key], work[h].scope>>

Running(h) == loop = h
Goto(h, s) == pc' = [pc EXCEPT ![h] = s]
GoOn(h, s) == Goto(h, s) /\ UNCHANGED loop
Await(h, s) == Goto(h, s) /\ loop' = NoOne

\* The rows of gateway_active_calls that a handler inserted itself.
OwnCalls(h) == {row \in active : row.by = h}

\* A handler that owns its Evaluate task and has not settled it.
Executes(h) ==
  /\ pc[h] \in {"submit", "measuring", "bind", "record", "abandon"}
  /\ IsEvaluate(h)

-----------------------------------------------------------------------------
(* Sessions and the scheduler.                                             *)

Disrupts == faults < MaxFaults[lineage] /\ faults' = faults + 1

\* An Attempt fails for infrastructure or resumes after a stop: the Registry
\* starts its next generation.
Recover(a) ==
  /\ Disrupts
  /\ generation[a] < MaxGeneration
  /\ generation' = [generation EXCEPT ![a] = @ + 1]
  /\ standing' = [standing EXCEPT ![a] = "running"]
  /\ UNCHANGED <<store, jobs, handlers, lineage>>

\* stop_epoch interrupts the running Attempts.
Interrupt(a) ==
  /\ Disrupts
  /\ standing[a] = "running"
  /\ standing' = [standing EXCEPT ![a] = "interrupted"]
  /\ UNCHANGED <<generation, store, jobs, handlers, lineage>>

\* _issue: a newer generation rotates the capability and starts a new quota.
Issue(a) ==
  /\ standing[a] = "running"
  /\ capability[a].generation < generation[a]
  /\ capability' = [capability EXCEPT
       ![a] = [generation |-> generation[a], used |-> 0, revoked |-> FALSE]]
  /\ UNCHANGED <<registry, ops, active, tasks, evaluations, jobs, handlers,
                 lineage, faults>>

Revoke(a) ==
  /\ Disrupts
  /\ ~capability[a].revoked
  /\ capability' = [capability EXCEPT ![a].revoked = TRUE]
  /\ UNCHANGED <<registry, ops, active, tasks, evaluations, jobs, handlers,
                 lineage>>

-----------------------------------------------------------------------------
(* authorize, the request lease and the report barrier.                    *)

\* Slip: every reconnect of a metered call is charged.
ArriveSpending(h, c) ==
  /\ loop = NoOne
  /\ pc[h] = "idle"
  /\ Authority(c)
  /\ Allowed(c.key)
  /\ \/ /\ ops[c].reserved
        /\ capability' = IF Metered(c.key)
                         THEN [capability EXCEPT ![c.attempt].used = @ + 1]
                         ELSE capability
        /\ UNCHANGED ops
     \/ /\ ~ops[c].reserved
        /\ Cardinality({d \in Call : ops[d].reserved}) < MaxRequests[lineage]
        /\ Metered(c.key) => capability[c.attempt].used < MaxCalls
        /\ ops' = [ops EXCEPT ![c].reserved = TRUE]
        /\ capability' = IF Metered(c.key)
                         THEN [capability EXCEPT ![c.attempt].used = @ + 1]
                         ELSE capability
  /\ loop' = h
  /\ Goto(h, "lease")
  /\ call' = [call EXCEPT ![h] = c]
  /\ work' = [work EXCEPT ![h] = NoWork]
  /\ UNCHANGED <<registry, active, tasks, evaluations, jobs, locks, lineage, faults>>

\* A Session sends a call, again after a lost or late answer.  authorize
\* reserves the key and spends quota only the first time.
Arrive(h, c) ==
  /\ loop = NoOne
  /\ pc[h] = "idle"
  /\ Authority(c)
  /\ Allowed(c.key)
  /\ \/ /\ ops[c].reserved
        /\ UNCHANGED <<capability, ops>>
     \/ /\ ~ops[c].reserved
        /\ Cardinality({d \in Call : ops[d].reserved}) < MaxRequests[lineage]
        /\ Metered(c.key) => capability[c.attempt].used < MaxCalls
        /\ ops' = [ops EXCEPT ![c].reserved = TRUE]
        /\ capability' = IF Metered(c.key)
                         THEN [capability EXCEPT ![c.attempt].used = @ + 1]
                         ELSE capability
  /\ loop' = h
  /\ Goto(h, "lease")
  /\ call' = [call EXCEPT ![h] = c]
  /\ work' = [work EXCEPT ![h] = NoWork]
  /\ UNCHANGED <<registry, active, tasks, evaluations, jobs, locks, lineage, faults>>

\* The poll of a waiting request re-authorizes it.
Wake(h) ==
  /\ loop = NoOne
  /\ pc[h] = "sleeping"
  /\ Authority(call[h])
  /\ loop' = h
  /\ Goto(h, "lease")
  /\ UNCHANGED <<registry, store, jobs, call, work, locks, lineage, faults>>

WakeRefused(h) ==
  /\ loop = NoOne
  /\ pc[h] = "sleeping"
  /\ ~Authority(call[h])
  /\ Goto(h, "idle")
  /\ call' = [call EXCEPT ![h] = None]
  /\ UNCHANGED <<registry, store, jobs, loop, work, locks, lineage, faults>>

Serving(c) == {o \in Handler : pc[o] \in Leased /\ call[o] = c}

\* Another handler executes the same request: wait for its response.
LeaseBusy(h) ==
  /\ Running(h) /\ pc[h] = "lease"
  /\ Serving(call[h]) # {}
  /\ Await(h, "sleeping")
  /\ UNCHANGED <<registry, store, jobs, call, work, locks, lineage, faults>>

\* request_execution: whoever holds the lease retires the barriers that dead
\* handlers of this request left behind.
Lease(h) ==
  /\ Running(h) /\ pc[h] = "lease"
  /\ Serving(call[h]) = {}
  /\ active' = {row \in active : row.call # call[h]}
  /\ GoOn(h, "begin")
  /\ UNCHANGED <<registry, capability, ops, tasks, evaluations, jobs, call, work,
                 locks, lineage, faults>>

\* Slip: a report waits for other reports only.
BarrierOfReports(c) ==
  {row \in active : /\ row.call.attempt = c.attempt
                    /\ row.call.generation = c.generation
                    /\ IsReport(row.call.key)}

\* operation_execution: a report is refused while any call of its generation
\* executes, any other call while a report does.
Barrier(c) ==
  {row \in active : /\ row.call.attempt = c.attempt
                    /\ row.call.generation = c.generation
                    /\ IsReport(c.key) \/ IsReport(row.call.key)}

Begin(h) ==
  /\ Running(h) /\ pc[h] = "begin"
  /\ IsCurrent(call[h])
  /\ Barrier(call[h]) = {}
  /\ active' = active \cup {[by |-> h, call |-> call[h]]}
  /\ GoOn(h, "serve")
  /\ UNCHANGED <<registry, capability, ops, tasks, evaluations, jobs, call, work,
                 locks, lineage, faults>>

BeginRefused(h) ==
  /\ Running(h) /\ pc[h] = "begin"
  /\ ~IsCurrent(call[h]) \/ Barrier(call[h]) # {}
  /\ GoOn(h, "exit")
  /\ UNCHANGED <<registry, store, jobs, call, work, locks, lineage, faults>>

-----------------------------------------------------------------------------
(* _execute_authorized up to the measurement.                              *)

Answered(c) == ops[c].answer # None
\* Slip: the task lease is never found taken.
LockedNever(t) == {}

Locked(t) == {o \in Handler : t \in locks[o]}

\* The evaluate barrier of a task's former owner goes with its ownership.
FormerOwner(h, t) == {row \in active : row.call = tasks[t].owner /\ row.by # h}

\* get_operation_artifact finds a committed response.  A full Evaluate first
\* finishes a crash between that commit and the completion of its task
\* (reconcile_evaluate_replay).
Replay(h) ==
  LET c == Current(call[h])
      owned == {t \in Task : tasks[t] # None /\ tasks[t].owner = c /\ Locked(t) = {}}
  IN /\ Running(h) /\ pc[h] = "serve"
     /\ ~Interrupted(c)
     /\ Answered(c)
     /\ Kind[c.key] = "probe" => Authority(call[h])
     /\ tasks' = [t \in Task |->
          IF IsEvaluate(h) /\ t \in owned /\ tasks[t].answer = None
          THEN [tasks[t] EXCEPT !.answer = ops[c].answer] ELSE tasks[t]]
     /\ active' = IF IsEvaluate(h) THEN active \ UNION {FormerOwner(h, t) : t \in owned}
                  ELSE active
     /\ GoOn(h, "exit")
     /\ UNCHANGED <<registry, capability, ops, evaluations, jobs, call, work, locks,
                    lineage, faults>>

\* bind_operation_candidate refuses a stale generation; the checkpoint read of
\* a diagnostic, which comes first, also a revoked capability.
ServeRefused(h) ==
  /\ Running(h) /\ pc[h] = "serve"
  /\ \/ Interrupted(call[h])
     \/ Kind[call[h].key] = "probe" /\ ~Authority(call[h])
     \/ ~Answered(Current(call[h])) /\ ~IsCurrent(call[h])
  /\ GoOn(h, "exit")
  /\ UNCHANGED <<registry, store, jobs, call, work, locks, lineage, faults>>

Serve(h, kinds) ==
  /\ Running(h) /\ pc[h] = "serve"
  /\ Kind[call[h].key] \in kinds
  /\ IsCurrent(call[h])
  /\ ~Answered(call[h])

ServeEvaluate(h) ==
  /\ Serve(h, {"evaluate"})
  /\ GoOn(h, "claim")
  /\ UNCHANGED <<registry, store, jobs, call, work, locks, lineage, faults>>

\* A diagnostic whose private result is bound resumes from that checkpoint.
\* (Results are bound when they are terminal; the unfinished ones that an
\* older Runtime left, and this one retires, are not modelled.)
ServeCheckpoint(h) ==
  /\ Serve(h, {"probe"})
  /\ Authority(call[h])
  /\ ops[call[h]].private # None
  /\ work' = [work EXCEPT ![h].result = ops[call[h]].private]
  /\ GoOn(h, "bind")
  /\ UNCHANGED <<registry, store, jobs, call, locks, lineage, faults>>

ServeProbe(h) ==
  /\ Serve(h, {"probe"})
  /\ Authority(call[h])
  /\ ops[call[h]].private = None
  /\ work' = [work EXCEPT ![h].execution = call[h]]
  /\ Await(h, "submit")
  /\ UNCHANGED <<registry, store, jobs, call, locks, lineage, faults>>

\* The Attempts whose Trials an Attempt may see.
Sees(a) == IF lineage.broadcast THEN Attempt ELSE {a}

\* find_agent_evaluation: the rows of one Kernel in some generations, and what
\* the newest of them says.
Rows(a, kernel, generations) ==
  {i \in 1..Len(evaluations[a]) : /\ Candidate[evaluations[a][i].call.key] = kernel
                                  /\ evaluations[a][i].call.generation \in generations}
NewestIsCorrect(a, rows) ==
  \E i \in rows : evaluations[a][i].job.verdict = "correct" /\ \A j \in rows : j <= i
\* _has_completed_evaluation_result: its response is committed, too.
NewestIsReusable(a, rows) ==
  \E i \in rows : /\ evaluations[a][i].job.verdict = "correct"
                  /\ Answered(evaluations[a][i].call)
                  /\ \A j \in rows : j <= i

\* A row of this generation decides alone.
Fresh(c) == Rows(c.attempt, Candidate[c.key], {c.generation})
\* An adopt Experiment names a visible Trial, which is of one generation.
\* (Whether the Attempt has recorded one is left open.)
Adoptable(c) ==
  \E a \in Sees(c.attempt), g \in Generation :
    NewestIsReusable(a, Rows(a, Candidate[c.key], {g}))
\* _find_visible_candidate_evaluation: without an Experiment Journal any
\* visible success will do, unless the Attempt's own newest row is a failure.
Historical(c) ==
  LET own == Rows(c.attempt, Candidate[c.key], Generation)
  IN /\ own = {} \/ NewestIsCorrect(c.attempt, own)
     /\ \E a \in Sees(c.attempt) : NewestIsReusable(a, Rows(a, Candidate[c.key], Generation))

\* Slip: any evaluation supports the nomination.
EarnedAnyhow(c) ==
  \E a \in Sees(c.attempt) : Rows(a, Candidate[c.key], Generation) # {}

\* find_candidate_evaluation finds a correct one.
Earned(c) ==
  IF Fresh(c) # {} THEN NewestIsCorrect(c.attempt, Fresh(c))
  ELSE IF lineage.experiments THEN Adoptable(c) ELSE Historical(c)

AcceptedReports(a, g) ==
  {c \in Call : c.attempt = a /\ c.generation = g /\ IsReport(c.key) /\ Answered(c)}

\* _register_attempt_report: the first report of the generation, and, but for
\* dev-only Lineages, a candidate_ready one only with a correct evaluation
\* behind it.  As for every result, the authority is checked before it is bound.
ServeReport(h) ==
  /\ Serve(h, {"ready", "pivot"})
  /\ Authority(call[h])
  /\ AcceptedReports(call[h].attempt, call[h].generation) = {}
  /\ Kind[call[h].key] = "ready" => lineage.dev \/ Earned(call[h])
  /\ work' = [work EXCEPT ![h].result = Receipt(call[h])]
  /\ GoOn(h, "bind")
  /\ UNCHANGED <<registry, store, jobs, call, locks, lineage, faults>>

ReportRefused(h) ==
  /\ Serve(h, {"ready", "pivot"})
  /\ \/ AcceptedReports(call[h].attempt, call[h].generation) # {}
     \/ /\ Kind[call[h].key] = "ready" /\ ~lineage.dev
        /\ ~Earned(call[h]) \/ (lineage.experiments /\ Fresh(call[h]) = {})
     \/ ~Authority(call[h])
  /\ GoOn(h, "exit")
  /\ UNCHANGED <<registry, store, jobs, call, work, locks, lineage, faults>>

\* evaluate_task_execution: a live handler holds the task.  Leave both
\* contexts and poll.
ClaimBusy(h) ==
  /\ Running(h) /\ pc[h] = "claim"
  /\ Locked(TaskOf(h)) # {}
  /\ active' = active \ OwnCalls(h)
  /\ locks' = [locks EXCEPT ![h] = {}]
  /\ work' = [work EXCEPT ![h] = NoWork]
  /\ Await(h, "sleeping")
  /\ UNCHANGED <<registry, capability, ops, tasks, evaluations, jobs, call,
                 lineage, faults>>

\* reserve_evaluate_task under the task lease.
Claim(h) ==
  /\ Running(h) /\ pc[h] = "claim"
  /\ Locked(TaskOf(h)) = {}
  /\ ~Interrupted(call[h])
  /\ locks' = [locks EXCEPT ![h] = @ \cup {TaskOf(h)}]

ClaimNew(h) ==
  /\ Claim(h)
  /\ tasks[TaskOf(h)] = None
  /\ tasks' = [tasks EXCEPT ![TaskOf(h)] =
       [owner |-> Current(call[h]), execution |-> Current(call[h]), answer |-> None]]
  /\ work' = [work EXCEPT ![h].execution = call[h]]
  /\ Await(h, "submit")
  /\ UNCHANGED <<registry, capability, ops, active, evaluations, jobs, call,
                 lineage, faults>>

\* The result of a reserved task: its own, or its owner's response.
Outcome(row) == IF row.answer # None THEN row.answer ELSE ops[row.owner].answer

ClaimSettled(h) ==
  LET row == tasks[TaskOf(h)]
  IN /\ Claim(h)
     /\ row # None
     /\ Outcome(row) # None
     /\ tasks' = [tasks EXCEPT ![TaskOf(h)].answer = Outcome(row)]
     /\ active' = active \ FormerOwner(h, TaskOf(h))
     /\ work' = [work EXCEPT ![h].result = Outcome(row)]
     /\ GoOn(h, "reuse")
     /\ UNCHANGED <<registry, capability, ops, evaluations, jobs, call,
                    lineage, faults>>

\* The former owner is gone: take the task over, with the identity its
\* physical jobs were submitted under.
ClaimOrphan(h) ==
  LET row == tasks[TaskOf(h)]
  IN /\ Claim(h)
     /\ row # None
     /\ Outcome(row) = None
     /\ tasks' = [tasks EXCEPT ![TaskOf(h)].owner = Current(call[h])]
     /\ active' = active \ FormerOwner(h, TaskOf(h))
     /\ work' = [work EXCEPT ![h].execution = row.execution, ![h].recover = TRUE]
     /\ Await(h, "submit")
     /\ UNCHANGED <<registry, capability, ops, evaluations, jobs, call,
                    lineage, faults>>

ClaimRefused(h) ==
  /\ Running(h) /\ pc[h] = "claim"
  /\ Locked(TaskOf(h)) = {}
  /\ Interrupted(call[h])
  /\ GoOn(h, "exit")
  /\ UNCHANGED <<registry, store, jobs, call, work, locks, lineage, faults>>

\* A Trial that this Attempt may see has the result.
Visible(h) ==
  \E c \in Call : c.attempt \in Sees(call[h].attempt) /\ ops[c].answer = work[h].result

\* _reuse_visible_evaluation: replay a result the Attempt may see.
Reuse(h) ==
  /\ Running(h) /\ pc[h] = "reuse"
  /\ ~lineage.read
  /\ Visible(h)
  /\ Authority(call[h])
  /\ GoOn(h, "commit")
  /\ UNCHANGED <<registry, store, jobs, call, work, locks, lineage, faults>>

\* The result belongs to an isolated sibling: this Trajectory gets a task of
\* its own, and keeps the lease of the shared one.
ReuseScoped(h) ==
  /\ Running(h) /\ pc[h] = "reuse"
  /\ ~lineage.read
  /\ ~Visible(h)
  /\ work[h].scope = Shared
  /\ work' = [work EXCEPT ![h].scope = call[h].attempt, ![h].result = None]
  /\ GoOn(h, "claim")
  /\ UNCHANGED <<registry, store, jobs, call, locks, lineage, faults>>

\* DuplicateGatewayTaskError names the previous result.
ReuseRefused(h) ==
  /\ Running(h) /\ pc[h] = "reuse"
  /\ \/ lineage.read
     \/ Visible(h) /\ ~Authority(call[h])
     \/ ~Visible(h) /\ work[h].scope # Shared
  /\ GoOn(h, "exit")
  /\ UNCHANGED <<registry, store, jobs, call, work, locks, lineage, faults>>

-----------------------------------------------------------------------------
(* The measurement, and the publication of its result.                     *)

Succeeded(j) == j.verdict \in {"correct", "incorrect"}

\* execute_bound_job: reuse the bound job, or submit one.  A recovering
\* handler keeps a job only when it succeeded, and replaces any other.
Submit(h) ==
  LET e == work[h].execution
      keep == jobs[e] # None /\ (work[h].recover => Succeeded(jobs[e]))
      number == IF jobs[e] = None THEN 1 ELSE jobs[e].number + 1
  IN /\ loop = NoOne
     /\ pc[h] = "submit"
     /\ Authority(call[h])
     /\ jobs' = IF keep THEN jobs
                ELSE [jobs EXCEPT ![e] =
                       [execution |-> e, number |-> number, verdict |-> "running"]]
     /\ Goto(h, "measuring")
     /\ UNCHANGED <<registry, store, loop, call, work, locks, lineage, faults>>

\* How the job of a diagnostic ends makes no difference to the Gateway.
Verdicts(k) == IF Kind[k] = "evaluate" THEN Verdict ELSE {"correct"}

\* Agate finishes a job, whether or not anybody waits for it.  (Handlers look
\* at jobs only at an await, so it may as well finish there.)
JobEnds(e) ==
  /\ loop = NoOne
  /\ jobs[e] # None
  /\ jobs[e].verdict = "running"
  /\ \E v \in Verdicts(e.key) :
       /\ v = "failed" => jobs[e].number < MaxJobs
       /\ jobs' = [jobs EXCEPT ![e].verdict = v]
  /\ UNCHANGED <<registry, store, handlers, lineage, faults>>

Measured(h) ==
  /\ loop = NoOne
  /\ pc[h] = "measuring"
  /\ jobs[work[h].execution].verdict # "running"
  /\ Authority(call[h])
  /\ work' = [work EXCEPT ![h].result = jobs[work[h].execution]]
  /\ loop' = h
  /\ Goto(h, "bind")
  /\ UNCHANGED <<registry, store, jobs, call, locks, lineage, faults>>

\* The check before every RPC and before the result is used fails.
Superseded(h) ==
  /\ loop = NoOne
  /\ pc[h] \in {"submit", "measuring"}
  /\ ~Authority(call[h])
  /\ loop' = h
  /\ Goto(h, "exit")
  /\ UNCHANGED <<registry, store, jobs, call, work, locks, lineage, faults>>

\* InfrastructureError: the task row stays, the next caller recovers it.
MeasureFails(h) ==
  /\ Disrupts
  /\ loop = NoOne
  /\ pc[h] = "measuring"
  /\ loop' = h
  /\ Goto(h, "exit")
  /\ UNCHANGED <<registry, store, jobs, call, work, locks, lineage>>

\* Slip: the newest result replaces the one bound before.
AgreesAlways(old, new) == TRUE

Agrees(old, new) == old \in {None, new}

\* bind_operation_gateway_result, for the generation that was authorized.
Bind(h) ==
  /\ Running(h) /\ pc[h] = "bind"
  /\ IsCurrent(call[h])
  /\ Agrees(ops[call[h]].private, work[h].result)
  /\ ops' = [ops EXCEPT ![call[h]].private = work[h].result]
  /\ GoOn(h, "record")
  /\ UNCHANGED <<registry, capability, active, tasks, evaluations, jobs, call, work,
                 locks, lineage, faults>>

\* A stale generation, or a result that differs from the one bound before.
BindRefused(h) ==
  /\ Running(h) /\ pc[h] = "bind"
  /\ ~IsCurrent(call[h]) \/ ~Agrees(ops[call[h]].private, work[h].result)
  /\ GoOn(h, "exit")
  /\ UNCHANGED <<registry, store, jobs, call, work, locks, lineage, faults>>

\* Slip: the reservation is kept when the execution failed.
RecordKeepingTask(h) ==
  LET row == [call |-> call[h], job |-> work[h].result]
      log == evaluations[call[h].attempt]
  IN /\ Running(h) /\ pc[h] = "record"
     /\ IsCurrent(call[h])
     /\ evaluations' =
          IF IsEvaluate(h) /\ Succeeded(work[h].result) /\ \A i \in 1..Len(log) : log[i] # row
          THEN [evaluations EXCEPT ![call[h].attempt] = Append(log, row)]
          ELSE evaluations
     /\ GoOn(h, "commit")
     /\ UNCHANGED <<registry, capability, ops, active, tasks, jobs, call, work,
                    locks, lineage, faults>>

\* record_evaluation: a completed Evaluate appends one row for its key.
Record(h) ==
  LET row == [call |-> call[h], job |-> work[h].result]
      log == evaluations[call[h].attempt]
  IN /\ Running(h) /\ pc[h] = "record"
     /\ IsCurrent(call[h])
     /\ evaluations' =
          IF IsEvaluate(h) /\ Succeeded(work[h].result) /\ \A i \in 1..Len(log) : log[i] # row
          THEN [evaluations EXCEPT ![call[h].attempt] = Append(log, row)]
          ELSE evaluations
     /\ GoOn(h, IF IsEvaluate(h) /\ ~Succeeded(work[h].result) THEN "abandon" ELSE "commit")
     /\ UNCHANGED <<registry, capability, ops, active, tasks, jobs, call, work,
                    locks, lineage, faults>>

RecordRefused(h) ==
  /\ Running(h) /\ pc[h] = "record"
  /\ ~IsCurrent(call[h])
  /\ GoOn(h, "exit")
  /\ UNCHANGED <<registry, store, jobs, call, work, locks, lineage, faults>>

\* abandon_evaluate_task: an execution that failed is no verdict.  Release the
\* reservation before the diagnostic is committed.
Abandon(h) ==
  /\ Running(h) /\ pc[h] = "abandon"
  /\ ~Interrupted(call[h])
  /\ tasks' = [tasks EXCEPT ![TaskOf(h)] =
       IF @ # None /\ @.owner = Current(call[h]) /\ @.answer = None THEN None ELSE @]
  /\ GoOn(h, "commit")
  /\ UNCHANGED <<registry, capability, ops, active, evaluations, jobs, call, work,
                 locks, lineage, faults>>

\* Slip: the row is written without a reservation.
CommitUnreserved(h) ==
  LET c == Current(call[h])
  IN /\ Running(h) /\ pc[h] = "commit"
     /\ ~Interrupted(c)
     /\ Agrees(ops[c].answer, work[h].result)
     /\ ops' = [ops EXCEPT ![c].answer = work[h].result]
     /\ GoOn(h, IF IsEvaluate(h) /\ work[h].execution # None /\ Succeeded(work[h].result)
                THEN "complete" ELSE "exit")
     /\ UNCHANGED <<registry, capability, active, tasks, evaluations, jobs, call, work,
                    locks, lineage, faults>>

\* commit_operation_artifact, into the row of the current generation.
Commit(h) ==
  LET c == Current(call[h])
  IN /\ Running(h) /\ pc[h] = "commit"
     /\ ~Interrupted(c)
     /\ ops[c].reserved
     /\ Agrees(ops[c].answer, work[h].result)
     /\ ops' = [ops EXCEPT ![c].answer = work[h].result]
     /\ GoOn(h, IF IsEvaluate(h) /\ work[h].execution # None /\ Succeeded(work[h].result)
                THEN "complete" ELSE "exit")
     /\ UNCHANGED <<registry, capability, active, tasks, evaluations, jobs, call, work,
                    locks, lineage, faults>>

\* complete_evaluate_task, for the owner of the reservation.
Complete(h) ==
  LET row == tasks[TaskOf(h)]
  IN /\ Running(h) /\ pc[h] = "complete"
     /\ ~Interrupted(call[h])
     /\ row # None
     /\ row.owner = Current(call[h])
     /\ tasks' = [tasks EXCEPT ![TaskOf(h)].answer = work[h].result]
     /\ GoOn(h, "exit")
     /\ UNCHANGED <<registry, capability, ops, active, evaluations, jobs, call, work,
                    locks, lineage, faults>>

\* PermissionError or InvalidTransitionError out of the last three: the
\* Attempt was interrupted or left its generation since the last check.
PublishRefused(h) ==
  LET c == Current(call[h])
  IN /\ Running(h)
     /\ \/ pc[h] \in {"abandon", "commit", "complete"} /\ Interrupted(c)
        \/ pc[h] = "commit" /\ (~ops[c].reserved \/ ~Agrees(ops[c].answer, work[h].result))
        \/ pc[h] = "complete" /\ tasks[TaskOf(h)].owner # c
     /\ GoOn(h, "exit")
     /\ UNCHANGED <<registry, store, jobs, call, work, locks, lineage, faults>>

\* Slip: the task lease outlives the request.
ExitHolding(h) ==
  /\ Running(h) /\ pc[h] = "exit"
  /\ active' = active \ OwnCalls(h)
  /\ call' = [call EXCEPT ![h] = None]
  /\ work' = [work EXCEPT ![h] = NoWork]
  /\ Await(h, "idle")
  /\ UNCHANGED <<registry, capability, ops, tasks, evaluations, jobs, locks, lineage,
                 faults>>

\* The response, or the error, leaves; the finally blocks end the active
\* call and both leases.
Exit(h) ==
  /\ Running(h) /\ pc[h] = "exit"
  /\ active' = active \ OwnCalls(h)
  /\ locks' = [locks EXCEPT ![h] = {}]
  /\ call' = [call EXCEPT ![h] = None]
  /\ work' = [work EXCEPT ![h] = NoWork]
  /\ Await(h, "idle")
  /\ UNCHANGED <<registry, capability, ops, tasks, evaluations, jobs, lineage, faults>>

\* The service dies and starts again.  The flocks go with the process, its
\* active calls stay; start-up recounts the metered calls.
Crash ==
  /\ Disrupts
  /\ active' = {[by |-> Dead, call |-> row.call] : row \in active}
  /\ capability' = [a \in Attempt |-> [capability[a] EXCEPT
       !.used = Cardinality(MeteredCalls(a, capability[a].generation))]]
  /\ loop' = NoOne
  /\ pc' = [h \in Handler |-> "idle"]
  /\ call' = [h \in Handler |-> None]
  /\ work' = [h \in Handler |-> NoWork]
  /\ locks' = [h \in Handler |-> {}]
  /\ UNCHANGED <<registry, ops, tasks, evaluations, jobs, lineage>>

-----------------------------------------------------------------------------
Scheduler(a) == Recover(a) \/ Interrupt(a) \/ Issue(a) \/ Revoke(a)

Admission(h) ==
  \/ Wake(h) \/ WakeRefused(h) \/ LeaseBusy(h) \/ Lease(h) \/ Begin(h) \/ BeginRefused(h)

Dispatch(h) ==
  \/ Replay(h) \/ ServeRefused(h) \/ ServeEvaluate(h) \/ ServeCheckpoint(h)
  \/ ServeProbe(h) \/ ServeReport(h) \/ ReportRefused(h)

Reservation(h) ==
  \/ ClaimBusy(h) \/ ClaimNew(h) \/ ClaimSettled(h) \/ ClaimOrphan(h) \/ ClaimRefused(h)
  \/ Reuse(h) \/ ReuseScoped(h) \/ ReuseRefused(h)

Publication(h) ==
  \/ Submit(h) \/ Measured(h) \/ Superseded(h)
  \/ Bind(h) \/ BindRefused(h) \/ Record(h) \/ RecordRefused(h)
  \/ Abandon(h) \/ Commit(h) \/ Complete(h) \/ PublishRefused(h) \/ Exit(h)

HandlerStep(h) == Admission(h) \/ Dispatch(h) \/ Reservation(h) \/ Publication(h)

Next ==
  \/ \E a \in Attempt : Scheduler(a)
  \/ \E h \in Handler, c \in Call : Arrive(h, c)
  \/ \E h \in Handler : HandlerStep(h) \/ MeasureFails(h)
  \/ \E e \in Call : JobEnds(e)
  \/ Crash

Spec == Init /\ [][Next]_vars

-----------------------------------------------------------------------------
(***************************************************************************)
(* "Claim orphaned work only when no live process owns its execution       *)
(* lease": one handler at most executes a semantic Evaluate task, its      *)
(* reservation is open and in its name, and it measures under the identity *)
(* the reservation records unless the Attempt has left its generation.     *)
(***************************************************************************)
OneExecution ==
  \A h \in Handler : Executes(h) =>
    /\ \A o \in Handler : TaskOf(h) \in locks[o] <=> o = h
    /\ tasks[TaskOf(h)] # None
    /\ tasks[TaskOf(h)].answer = None
    /\ tasks[TaskOf(h)].owner.attempt = call[h].attempt
    /\ tasks[TaskOf(h)].owner.key = call[h].key
    /\ \/ tasks[TaskOf(h)].owner = call[h]
          /\ tasks[TaskOf(h)].execution = work[h].execution
       \/ tasks[TaskOf(h)].owner.generation > call[h].generation

(***************************************************************************)
(* The report barrier covers every executing call: orphan recovery and     *)
(* reconnects retire the rows of dead handlers only.                       *)
(***************************************************************************)
BarrierCoversCalls ==
  \A h \in Handler : pc[h] \in Behind => [by |-> h, call |-> call[h]] \in active

(***************************************************************************)
(* A failed execution never becomes a verdict: the result of a settled     *)
(* task is a measurement that succeeded, and it is the committed response  *)
(* of the task's owner ("so a crash cannot turn it into a verdict").       *)
(***************************************************************************)
SettledIsVerdict ==
  \A t \in Task : tasks[t] # None /\ tasks[t].answer # None =>
    /\ Succeeded(tasks[t].answer)
    /\ ops[tasks[t].owner].answer = tasks[t].answer

(***************************************************************************)
(* "Recovered or revoked Sessions cannot ... publish late results": what a *)
(* request of a generation is answered with was bound to that request, in  *)
(* that generation, or is a replayed response of an Attempt it may see.    *)
(***************************************************************************)
AnswerIsItsOwn ==
  \A c \in Call : Answered(c) =>
    \/ ops[c].private = ops[c].answer
    \/ /\ Kind[c.key] = "evaluate"
       /\ \E d \in Call : /\ d.attempt \in Sees(c.attempt)
                           /\ ops[d].answer = ops[c].answer
                           /\ ops[d].private = ops[c].answer

(***************************************************************************)
(* Responses, private results and settled tasks are immutable, whatever    *)
(* crashes, reconnects and generations come between.                       *)
(***************************************************************************)
ResultsAreImmutable ==
  [][ /\ \A c \in Call :
           /\ ops[c].private # None => ops'[c].private = ops[c].private
           /\ Answered(c) => ops'[c].answer = ops[c].answer
      /\ \A t \in Task : tasks[t] # None /\ tasks[t].answer # None => tasks'[t] = tasks[t]
    ]_vars

(***************************************************************************)
(* "A second key cannot replace the first accepted handoff": a generation  *)
(* accepts one report, and a candidate_ready one has a correct evaluation  *)
(* of the Kernel it nominates behind it, the Attempt's own or a visible    *)
(* one.  A dev-only Lineage "accepts candidate_ready without a preceding   *)
(* Agent Evaluate".                                                        *)
(***************************************************************************)
Supported(c) ==
  \/ lineage.dev
  \/ \E a \in Sees(c.attempt) : \E i \in 1..Len(evaluations[a]) :
       /\ evaluations[a][i].job.verdict = "correct"
       /\ Candidate[evaluations[a][i].call.key] = Candidate[c.key]

OneEarnedReport ==
  \A c \in Call : IsReport(c.key) /\ Answered(c) =>
    /\ AcceptedReports(c.attempt, c.generation) = {c}
    /\ Kind[c.key] = "ready" => Supported(c)

(***************************************************************************)
(* "Atomically exclude terminal handoff from executing Gateway calls": at  *)
(* the moment a report is accepted no other call of its generation is      *)
(* being measured or published.                                            *)
(***************************************************************************)
ReportWaitsForCalls ==
  [][ \A c \in Call : IsReport(c.key) /\ ~Answered(c) /\ ops'[c].answer # None =>
        \A h \in Handler : pc[h] \in Behind /\ call[h].attempt = c.attempt
                               /\ call[h].generation = c.generation => call[h] = c ]_vars

(***************************************************************************)
(* "Consume quota only on first reservation": reconnects, crashes and the  *)
(* recount at start-up leave used_calls at the number of distinct metered  *)
(* requests of the generation, which the quota bounds.                     *)
(***************************************************************************)
QuotaCountsRequests ==
  \A a \in Attempt :
    /\ capability[a].used = Cardinality(MeteredCalls(a, capability[a].generation))
    /\ capability[a].used <= MaxCalls

-----------------------------------------------------------------------------
(***************************************************************************)
(* The inductive invariant, in layers: each rests on the ones before it.   *)
(***************************************************************************)

\* Only a handler that awaits shares the loop.
LoopIsExclusive ==
  \A h \in Handler : loop = h <=> pc[h] \notin {"idle", "sleeping", "submit", "measuring"}

\* What a handler has in hand at each station.
CallsAreKnown ==
  \A h \in Handler :
    /\ pc[h] = "idle" <=> call[h] = None
    /\ pc[h] \in {"claim", "reuse", "abandon", "complete"} => IsEvaluate(h)
    /\ pc[h] \in {"submit", "measuring"} => work[h].execution # None /\ ~IsReport(call[h].key)
    /\ pc[h] = "abandon" => ~Succeeded(work[h].result)
    /\ pc[h] = "measuring" => jobs[work[h].execution] # None
    /\ pc[h] \in {"reuse"} \cup Publishing => work[h].result # None
    /\ pc[h] \in {"claim", "reuse"} => work[h].execution = None
    /\ pc[h] \in {"idle", "lease", "sleeping", "begin", "serve"} => work[h] = NoWork

HandlersInv == TypeOK /\ LoopIsExclusive /\ CallsAreKnown

\* The request lease and the task leases are exclusive.
LeasesAreExclusive ==
  /\ \A h, o \in Handler :
       pc[h] \in Leased /\ pc[o] \in Leased /\ call[h] = call[o] => h = o
  /\ \A h, o \in Handler : \A t \in Task : t \in locks[h] /\ t \in locks[o] => h = o
  /\ \A h \in Handler : locks[h] # {} => pc[h] \in Leased \ {"begin", "serve"}

\* A scoped claim is the Attempt's own and keeps the lease of the shared task.
ScopesAreOwn ==
  \A h \in Handler :
    /\ pc[h] = "reuse" => TaskOf(h) \in locks[h]
    /\ work[h].scope # Shared => /\ work[h].scope = call[h].attempt
                                /\ <<Candidate[call[h].key], Shared>> \in locks[h]

LeasesInv == LeasesAreExclusive /\ ScopesAreOwn

\* start-up can count the requests.
RequestsAreFinite == IsFiniteSet({c \in Call : ops[c].reserved})

\* A request is reserved in the generation of the capability, which is never
\* ahead of the Registry, before it is served and answered.
ReservedInTime ==
  /\ \A c \in Call : ops[c].reserved => c.generation <= capability[c.attempt].generation
  /\ \A a \in Attempt : capability[a].generation <= generation[a]
  /\ \A c \in Call : Answered(c) => ops[c].reserved
  /\ \A h \in Handler : call[h] # None => ops[call[h]].reserved

\* The handler that runs is as new as any reservation of its Attempt.
NoNewerReservation ==
  \A h \in Handler : loop = h /\ pc[h] # "exit" =>
    \A c \in Call : c.attempt = call[h].attempt /\ ops[c].reserved
                       => c.generation <= call[h].generation

QuotaInv == RequestsAreFinite /\ ReservedInTime /\ NoNewerReservation /\ QuotaCountsRequests

\* A reservation names a full Evaluate of its Kernel, and a Trajectory has
\* one of its own only when the shared one is settled.
ReservationsAreOrdered ==
  \A t \in Task : tasks[t] # None =>
    /\ Kind[tasks[t].owner.key] = "evaluate"
    /\ Candidate[tasks[t].owner.key] = t[1]
    /\ tasks[t].owner.generation <= generation[tasks[t].owner.attempt]
    /\ t[2] # Shared => /\ tasks[t].owner.attempt = t[2]
                        /\ tasks[<<t[1], Shared>>] # None
                        /\ tasks[<<t[1], Shared>>].answer # None

\* A result is reused because its task is settled, and a scoped claim was made
\* because the shared task is.
ReuseIsSettled ==
  \A h \in Handler :
    /\ pc[h] = "reuse" => tasks[TaskOf(h)] # None /\ tasks[TaskOf(h)].answer # None
    /\ work[h].scope # Shared => /\ tasks[<<Candidate[call[h].key], Shared>>] # None
                                /\ tasks[<<Candidate[call[h].key], Shared>>].answer # None

\* A handler that measures, publishes or completes its task holds it.
Settles(h) ==
  \/ Executes(h)
  \/ pc[h] = "commit" /\ IsEvaluate(h) /\ work[h].execution # None /\ Succeeded(work[h].result)
  \/ pc[h] = "complete"

Holds(h) ==
  LET row == tasks[TaskOf(h)]
  IN /\ \A o \in Handler : TaskOf(h) \in locks[o] <=> o = h
     /\ row # None
     /\ row.answer = None
     /\ row.owner.attempt = call[h].attempt
     /\ row.owner.key = call[h].key
     /\ \/ row.owner = call[h] /\ row.execution = work[h].execution
        \/ row.owner.generation > call[h].generation

TasksAreHeld == \A h \in Handler : Settles(h) => Holds(h)

TasksInv == ReservationsAreOrdered /\ ReuseIsSettled /\ TasksAreHeld

\* A request is unanswered until its handler commits.
ServedIsUnanswered ==
  \A h \in Handler : pc[h] \in Behind \ {"serve", "complete"} => ~Answered(call[h])

\* The result of a reserved task, also one that is only its owner's response,
\* is a measurement that succeeded.
OutcomeIsVerdict ==
  \A t \in Task : tasks[t] # None /\ Outcome(tasks[t]) # None => Succeeded(Outcome(tasks[t]))

\* What is committed can settle no task wrongly: a failed execution has
\* abandoned its task, or its Attempt has left the generation.
CommitsAreSafe ==
  \A h \in Handler :
    /\ pc[h] = "reuse" => Succeeded(work[h].result)
    /\ pc[h] = "commit" /\ IsEvaluate(h) /\ ~Succeeded(work[h].result) =>
         \A t \in Task : tasks[t] # None /\ tasks[t].answer = None =>
           \/ tasks[t].owner # call[h]
           \/ call[h].generation < generation[call[h].attempt]
    /\ pc[h] = "complete" =>
         /\ tasks[TaskOf(h)].owner = call[h]
         /\ ops[call[h]].answer = work[h].result
         /\ Succeeded(work[h].result)

VerdictsInv == ServedIsUnanswered /\ OutcomeIsVerdict /\ CommitsAreSafe /\ SettledIsVerdict

\* A live handler's active call is its own, and a report executes alone.
ActiveCallsAreOwn ==
  \A row \in active : row.by # Dead =>
    row.call = call[row.by] /\ pc[row.by] \in Leased \ {"begin"}

ReportsAreAlone ==
  \A h, o \in Handler :
    /\ pc[h] \in Behind /\ pc[o] \in Behind
    /\ IsReport(call[h].key)
    /\ call[h].attempt = call[o].attempt /\ call[h].generation = call[o].generation
    => h = o

BarrierInv == ActiveCallsAreOwn /\ BarrierCoversCalls /\ ReportsAreAlone

\* What is about to be committed is the call's own result or a response that
\* its Attempt may see; a report is about to be the first one, and earned.
CommitsAreBacked ==
  \A h \in Handler :
    /\ pc[h] \in {"record", "abandon"} => ops[call[h]].private = work[h].result
    /\ pc[h] = "commit" =>
         \/ ops[call[h]].private = work[h].result
         \/ /\ IsEvaluate(h)
            /\ \E d \in Call : /\ d.attempt \in Sees(call[h].attempt)
                                /\ ops[d].answer = work[h].result
                                /\ ops[d].private = work[h].result

ReportsStand ==
  \A h \in Handler : pc[h] \in {"bind", "record", "commit"} /\ IsReport(call[h].key) =>
    /\ AcceptedReports(call[h].attempt, call[h].generation) = {}
    /\ Kind[call[h].key] = "ready" => Supported(call[h])

AnswersInv == AnswerIsItsOwn /\ CommitsAreBacked /\ OneEarnedReport /\ ReportsStand

GatewayInv ==
  /\ HandlersInv
  /\ LeasesInv
  /\ QuotaInv
  /\ TasksInv
  /\ VerdictsInv
  /\ BarrierInv
  /\ AnswersInv

=============================================================================
