------------------------ MODULE GatewayOperationsProofs ------------------------
(***************************************************************************)
(* TLAPS proofs about GatewayOperations, for any Attempts, keys, handlers, *)
(* generations, quotas and disruptions.                                    *)
(***************************************************************************)
EXTENDS GatewayOperations, FiniteSetTheorems, TLAPS

(* The two halves of the type invariant.                                      *)
StoreTyped ==
  /\ generation \in [Attempt -> Generation]
  /\ standing \in [Attempt -> {"running", "interrupted"}]
  /\ capability \in [Attempt -> [generation : Generation, used : Nat, revoked : BOOLEAN]]
  /\ ops \in [Call -> [reserved : BOOLEAN, private : Job \cup {None}, answer : Job \cup {None}]]
  /\ active \subseteq [by : Handler \cup {Dead}, call : Call]
  /\ tasks \in [Task -> TaskRow \cup {None}]
  /\ evaluations \in [Attempt -> Seq([call : Call, job : Job])]
  /\ jobs \in [Call -> Job \cup {None}]
  /\ lineage \in Lineage
  /\ faults \in Nat

(* And of the handlers.                                                       *)
HandlersTyped ==
  /\ loop \in Handler \cup {NoOne}
  /\ pc \in [Handler -> Station]
  /\ call \in [Handler -> Call \cup {None}]
  /\ work \in [Handler -> Work]
  /\ locks \in [Handler -> SUBSET Task]

(* The type invariant is the two halves.                                      *)
LEMMA TypeParts == TypeOK <=> StoreTyped /\ HandlersTyped
BY DEF TypeOK, StoreTyped, HandlersTyped

(* What a step of a handler does to its own variables.                        *)
Awaiting == {"idle", "sleeping", "submit", "measuring"}

(* Handler h goes to station s, with call c, work w and leases L.             *)
Moves(h, s, c, w, L) ==
  /\ pc' = [pc EXCEPT ![h] = s]
  /\ call' = [call EXCEPT ![h] = c]
  /\ work' = [work EXCEPT ![h] = w]
  /\ locks' = [locks EXCEPT ![h] = L]
  /\ loop \in {h, NoOne}
  /\ loop' = IF s \in Awaiting THEN NoOne ELSE h

(* No other handler is concerned.                                             *)
Others(h) ==
  \A o \in Handler \ {h} :
    pc'[o] = pc[o] /\ call'[o] = call[o] /\ work'[o] = work[o] /\ locks'[o] = locks[o]

(* A move, seen from the handler that takes it and from the others.           *)
LEMMA MovesAt ==
  ASSUME HandlersTyped, NEW h \in Handler, NEW s, NEW c, NEW w, NEW L, Moves(h, s, c, w, L)
  PROVE  /\ pc'[h] = s /\ call'[h] = c /\ work'[h] = w /\ locks'[h] = L
         /\ Others(h)
BY DEF HandlersTyped, Moves, Others

(* What a handler has in hand, by its station.                                *)
KnownAs(s, c, w) ==
  /\ s = "idle" <=> c = None
  /\ s \in {"claim", "reuse", "abandon", "complete"} => Kind[c.key] = "evaluate"
  /\ s \in {"submit", "measuring"} => w.execution # None /\ ~IsReport(c.key)
  /\ s = "abandon" => ~Succeeded(w.result)
  /\ s \in {"reuse"} \cup Publishing => w.result # None
  /\ s \in {"claim", "reuse"} => w.execution = None
  /\ s \in {"idle", "lease", "sleeping", "begin", "serve"} => w = NoWork

(* The same for every handler, with the job it waits for.                     *)
LEMMA KnownIs ==
  CallsAreKnown <=> \A h \in Handler : /\ KnownAs(pc[h], call[h], work[h])
                                       /\ pc[h] = "measuring" => jobs[work[h].execution] # None
BY DEF CallsAreKnown, KnownAs, IsEvaluate

(* The stations, enumerated.                                                  *)
LEMMA StationIs ==
  /\ Station = {"idle", "lease", "sleeping", "begin", "serve", "claim", "reuse", "submit",
                "measuring", "exit", "bind", "record", "abandon", "commit", "complete"}
  /\ Leased = Station \ {"idle", "lease", "sleeping"}
  /\ Behind = Leased \ {"begin", "exit"}
BY DEF Station, Leased, Publishing, Behind

(* The call of a handler that serves one.                                     *)
LEMMA CallOf ==
  ASSUME HandlersInv, NEW h \in Handler, pc[h] # "idle"
  PROVE  /\ call[h] \in Call
         /\ call[h].attempt \in Attempt /\ call[h].key \in Key
         /\ call[h].generation \in Generation
         /\ Current(call[h]) \in Call
         /\ Current(call[h]).attempt = call[h].attempt /\ Current(call[h]).key = call[h].key
         /\ Current(call[h]).generation = generation[call[h].attempt]
         /\ TaskOf(h) \in Task
<1>1. call[h] \in Call /\ generation \in [Attempt -> Generation] /\ work[h] \in Work
  BY KnownIs DEF HandlersInv, TypeOK, KnownAs
<1>2. /\ call[h] \in [attempt : Attempt, generation : Generation, key : Key]
      /\ <<call[h].attempt, call[h].key>> \in Usable
  BY <1>1 DEF Call
<1>3. generation[call[h].attempt] \in Generation
  BY <1>1, <1>2
<1>4. /\ Current(call[h]) \in [attempt : Attempt, generation : Generation, key : Key]
      /\ Current(call[h]).attempt = call[h].attempt /\ Current(call[h]).key = call[h].key
      /\ Current(call[h]).generation = generation[call[h].attempt]
  BY <1>2, <1>3 DEF Current
<1>5. Current(call[h]) \in Call
  BY <1>2, <1>4 DEF Call
<1>6. TaskOf(h) \in Task
  BY <1>1, <1>2 DEF TaskOf, Task, Work
<1> QED  BY <1>1, <1>2, <1>4, <1>5, <1>6

(* The fields of what a handler works on.                                     *)
LEMMA WorkOf ==
  ASSUME HandlersInv, NEW h \in Handler
  PROVE  /\ work[h] \in Work
         /\ work[h].scope \in Attempt \cup {Shared}
         /\ work[h].execution \in Call \cup {None}
         /\ work[h].recover \in BOOLEAN
         /\ work[h].result \in Job \cup {None}
<1>1. work[h] \in Work
  BY DEF HandlersInv, TypeOK
<1> QED  BY <1>1 DEF Work

(* Nothing in hand is a value of its type.                                    *)
LEMMA NoWorkIsWork == NoWork \in Work
BY DEF NoWork, Work

(* So is the receipt of a report.                                             *)
LEMMA ReceiptIsJob == ASSUME NEW c \in Call PROVE Receipt(c) \in Job
BY DEF Receipt, Job

-----------------------------------------------------------------------------
(* Layer 1: types, the loop and what a handler has in hand.                   *)

(* A move to a station whose demands are met keeps the layer.                 *)
LEMMA HandlersMove ==
  ASSUME HandlersInv, StoreTyped',
         \A e \in Call : jobs[e] # None => jobs'[e] # None,
         NEW h \in Handler, NEW s \in Station, NEW c \in Call \cup {None}, NEW w \in Work,
         NEW L \in SUBSET Task, Moves(h, s, c, w, L),
         KnownAs(s, c, w), s = "measuring" => jobs'[w.execution] # None
  PROVE  HandlersInv'
<1>1. HandlersTyped /\ HandlersTyped'
  BY TypeParts DEF HandlersInv, HandlersTyped, Moves
<1>2. /\ pc'[h] = s /\ call'[h] = c /\ work'[h] = w
      /\ Others(h)
  BY <1>1, MovesAt
<1>3. LoopIsExclusive'
  <2>1. NoOne \notin Handler
    BY GatewayConstants
  <2> QED  BY <1>2, <2>1 DEF HandlersInv, LoopIsExclusive, Moves, Others, Awaiting
<1>4. ASSUME NEW o \in Handler
      PROVE  /\ KnownAs(pc[o], call[o], work[o])'
             /\ (pc[o] = "measuring" => jobs[work[o].execution] # None)'
  <2>1. CASE o = h
    BY <1>2, <2>1
  <2>2. CASE o # h
    <3>1. /\ KnownAs(pc[o], call[o], work[o])
          /\ pc[o] = "measuring" => jobs[work[o].execution] # None /\ work[o].execution # None
      BY KnownIs DEF HandlersInv, KnownAs
    <3>2. work[o].execution \in Call \cup {None}
      BY WorkOf
    <3> QED  BY <1>2, <2>2, <3>1, <3>2 DEF Others
  <2> QED  BY <2>1, <2>2
<1>5. CallsAreKnown'
  BY <1>4 DEF CallsAreKnown, KnownAs, IsEvaluate
<1>6. TypeOK'
  BY <1>1 DEF TypeOK, StoreTyped, HandlersTyped
<1> QED  BY <1>3, <1>5, <1>6 DEF HandlersInv

-----------------------------------------------------------------------------
(* What each step does to the handler that takes it.                          *)
Refuses(h) ==
  \/ BeginRefused(h) \/ ServeRefused(h) \/ ReportRefused(h) \/ ClaimRefused(h)
  \/ ReuseRefused(h) \/ BindRefused(h) \/ RecordRefused(h) \/ PublishRefused(h)
  \/ Superseded(h) \/ MeasureFails(h)

(* The refusals: an error leaves through the finally blocks.                  *)
LEMMA RefuseMoves ==
  ASSUME HandlersTyped, NEW h \in Handler, Refuses(h)
  PROVE  /\ Moves(h, "exit", call[h], work[h], locks[h])
         /\ pc[h] \in Leased
         /\ UNCHANGED <<registry, store, jobs, lineage>>
BY DEF HandlersTyped, Moves, Awaiting, GoOn, Await, Goto, Running, registry, store, handlers,
   Refuses, Leased, Publishing, BeginRefused, ServeRefused, ReportRefused, Serve,
   ClaimRefused, ReuseRefused, BindRefused, RecordRefused, PublishRefused,
   Superseded, MeasureFails

(* A waiting request polls again.                                             *)
LEMMA WakeMoves ==
  ASSUME HandlersTyped, NEW h \in Handler, Wake(h)
  PROVE  /\ Moves(h, "lease", call[h], work[h], locks[h])
         /\ pc[h] = "sleeping"
         /\ UNCHANGED <<registry, store, jobs, lineage>>
BY DEF HandlersTyped, Moves, Awaiting, GoOn, Await, Goto, Running, registry, store, handlers,
   Wake

(* Or loses its authority.                                                    *)
LEMMA WakeRefusedMoves ==
  ASSUME HandlersTyped, NEW h \in Handler, WakeRefused(h)
  PROVE  /\ Moves(h, "idle", None, work[h], locks[h])
         /\ pc[h] = "sleeping"
         /\ UNCHANGED <<registry, store, jobs, lineage>>
BY DEF HandlersTyped, Moves, Awaiting, GoOn, Await, Goto, Running, registry, store, handlers,
   WakeRefused

(* Its request is being executed by another handler.                          *)
LEMMA LeaseBusyMoves ==
  ASSUME HandlersTyped, NEW h \in Handler, LeaseBusy(h)
  PROVE  /\ Moves(h, "sleeping", call[h], work[h], locks[h])
         /\ pc[h] = "lease"
         /\ UNCHANGED <<registry, store, jobs, lineage>>
BY DEF HandlersTyped, Moves, Awaiting, GoOn, Await, Goto, Running, registry, store, handlers,
   LeaseBusy

(* The request lease is free.                                                 *)
LEMMA LeaseMoves ==
  ASSUME HandlersTyped, NEW h \in Handler, Lease(h)
  PROVE  /\ Moves(h, "begin", call[h], work[h], locks[h])
         /\ pc[h] = "lease"
         /\ UNCHANGED <<registry, capability, ops, tasks, evaluations, jobs, lineage>>
BY DEF HandlersTyped, Moves, Awaiting, GoOn, Await, Goto, Running, registry, store, handlers,
   Lease

(* The call becomes active.                                                   *)
LEMMA BeginMoves ==
  ASSUME HandlersTyped, NEW h \in Handler, Begin(h)
  PROVE  /\ Moves(h, "serve", call[h], work[h], locks[h])
         /\ pc[h] = "begin"
         /\ UNCHANGED <<registry, capability, ops, tasks, evaluations, jobs, lineage>>
BY DEF HandlersTyped, Moves, Awaiting, GoOn, Await, Goto, Running, registry, store, handlers,
   Begin

(* A committed response is replayed.                                          *)
LEMMA ReplayMoves ==
  ASSUME HandlersTyped, NEW h \in Handler, Replay(h)
  PROVE  /\ Moves(h, "exit", call[h], work[h], locks[h])
         /\ pc[h] = "serve"
         /\ UNCHANGED <<registry, capability, ops, evaluations, jobs, lineage>>
BY DEF HandlersTyped, Moves, Awaiting, GoOn, Await, Goto, Running, registry, store, handlers,
   Replay

(* An Evaluate claims its task.                                               *)
LEMMA ServeEvaluateMoves ==
  ASSUME HandlersTyped, NEW h \in Handler, ServeEvaluate(h)
  PROVE  /\ Moves(h, "claim", call[h], work[h], locks[h])
         /\ pc[h] = "serve" /\ IsEvaluate(h)
         /\ UNCHANGED <<registry, store, jobs, lineage>>
BY DEF HandlersTyped, Moves, Awaiting, GoOn, Await, Goto, Running, registry, store, handlers,
   ServeEvaluate, Serve, IsEvaluate

(* A diagnostic resumes from its checkpoint.                                  *)
LEMMA ServeCheckpointMoves ==
  ASSUME HandlersTyped, NEW h \in Handler, ServeCheckpoint(h)
  PROVE  /\ Moves(h, "bind", call[h], [work[h] EXCEPT !.result = ops[call[h]].private], locks[h])
         /\ pc[h] = "serve" /\ ~IsEvaluate(h)
         /\ UNCHANGED <<registry, store, jobs, lineage>>
BY DEF HandlersTyped, Moves, Awaiting, GoOn, Await, Goto, Running, registry, store, handlers,
   ServeCheckpoint, Serve, IsEvaluate

(* Or is measured.                                                            *)
LEMMA ServeProbeMoves ==
  ASSUME HandlersTyped, NEW h \in Handler, ServeProbe(h)
  PROVE  /\ Moves(h, "submit", call[h], [work[h] EXCEPT !.execution = call[h]], locks[h])
         /\ pc[h] = "serve" /\ ~IsEvaluate(h)
         /\ UNCHANGED <<registry, store, jobs, lineage>>
BY DEF HandlersTyped, Moves, Awaiting, GoOn, Await, Goto, Running, registry, store, handlers,
   ServeProbe, Serve, IsEvaluate

(* A report is registered.                                                    *)
LEMMA ServeReportMoves ==
  ASSUME HandlersTyped, NEW h \in Handler, ServeReport(h)
  PROVE  /\ Moves(h, "bind", call[h], [work[h] EXCEPT !.result = Receipt(call[h])], locks[h])
         /\ pc[h] = "serve" /\ ~IsEvaluate(h)
         /\ UNCHANGED <<registry, store, jobs, lineage>>
BY DEF HandlersTyped, Moves, Awaiting, GoOn, Await, Goto, Running, registry, store, handlers,
   ServeReport, Serve, IsEvaluate

(* The task of an Evaluate is being executed by another handler.              *)
LEMMA ClaimBusyMoves ==
  ASSUME HandlersTyped, NEW h \in Handler, ClaimBusy(h)
  PROVE  /\ Moves(h, "sleeping", call[h], NoWork, {})
         /\ pc[h] = "claim"
         /\ UNCHANGED <<registry, capability, ops, tasks, evaluations, jobs, lineage>>
BY DEF HandlersTyped, Moves, Awaiting, GoOn, Await, Goto, Running, registry, store, handlers,
   ClaimBusy

(* It is reserved.                                                            *)
LEMMA ClaimNewMoves ==
  ASSUME HandlersTyped, NEW h \in Handler, ClaimNew(h)
  PROVE  /\ Moves(h, "submit", call[h], [work[h] EXCEPT !.execution = call[h]],
                  locks[h] \cup {TaskOf(h)})
         /\ pc[h] = "claim"
         /\ UNCHANGED <<registry, capability, ops, active, evaluations, jobs, lineage>>
BY DEF HandlersTyped, Moves, Awaiting, GoOn, Await, Goto, Running, registry, store, handlers,
   ClaimNew, Claim

(* It is found settled.                                                       *)
LEMMA ClaimSettledMoves ==
  ASSUME HandlersTyped, NEW h \in Handler, ClaimSettled(h)
  PROVE  /\ Moves(h, "reuse", call[h], [work[h] EXCEPT !.result = Outcome(tasks[TaskOf(h)])],
                  locks[h] \cup {TaskOf(h)})
         /\ pc[h] = "claim"
         /\ UNCHANGED <<registry, capability, ops, evaluations, jobs, lineage>>
BY DEF HandlersTyped, Moves, Awaiting, GoOn, Await, Goto, Running, registry, store, handlers,
   ClaimSettled, Claim

(* It is taken over from an owner that is gone.                               *)
LEMMA ClaimOrphanMoves ==
  ASSUME HandlersTyped, NEW h \in Handler, ClaimOrphan(h)
  PROVE  /\ Moves(h, "submit", call[h],
                  [work[h] EXCEPT !.execution = tasks[TaskOf(h)].execution, !.recover = TRUE],
                  locks[h] \cup {TaskOf(h)})
         /\ pc[h] = "claim"
         /\ UNCHANGED <<registry, capability, ops, evaluations, jobs, lineage>>
BY DEF HandlersTyped, Moves, Awaiting, GoOn, Await, Goto, Running, registry, store, handlers,
   ClaimOrphan, Claim

(* The result of a settled task is replayed.                                  *)
LEMMA ReuseMoves ==
  ASSUME HandlersTyped, NEW h \in Handler, Reuse(h)
  PROVE  /\ Moves(h, "commit", call[h], work[h], locks[h])
         /\ pc[h] = "reuse"
         /\ UNCHANGED <<registry, store, jobs, lineage>>
BY DEF HandlersTyped, Moves, Awaiting, GoOn, Await, Goto, Running, registry, store, handlers,
   Reuse

(* Or the Trajectory claims a task of its own.                                *)
LEMMA ReuseScopedMoves ==
  ASSUME HandlersTyped, NEW h \in Handler, ReuseScoped(h)
  PROVE  /\ Moves(h, "claim", call[h], [work[h] EXCEPT !.scope = call[h].attempt, !.result = None],
                  locks[h])
         /\ pc[h] = "reuse" /\ work[h].scope = Shared
         /\ UNCHANGED <<registry, store, jobs, lineage>>
BY DEF HandlersTyped, Moves, Awaiting, GoOn, Await, Goto, Running, registry, store, handlers,
   ReuseScoped

(* The job is submitted or found.                                             *)
LEMMA SubmitMoves ==
  ASSUME HandlersTyped, NEW h \in Handler, Submit(h)
  PROVE  /\ Moves(h, "measuring", call[h], work[h], locks[h])
         /\ pc[h] = "submit"
         /\ UNCHANGED <<registry, store, lineage>>
BY DEF HandlersTyped, Moves, Awaiting, GoOn, Await, Goto, Running, registry, store, handlers,
   Submit

(* Its result is taken.                                                       *)
LEMMA MeasuredMoves ==
  ASSUME HandlersTyped, NEW h \in Handler, Measured(h)
  PROVE  /\ Moves(h, "bind", call[h], [work[h] EXCEPT !.result = jobs[work[h].execution]], locks[h])
         /\ pc[h] = "measuring"
         /\ UNCHANGED <<registry, store, jobs, lineage>>
BY DEF HandlersTyped, Moves, Awaiting, GoOn, Await, Goto, Running, registry, store, handlers,
   Measured

(* The private result is bound.                                               *)
LEMMA BindMoves ==
  ASSUME HandlersTyped, NEW h \in Handler, Bind(h)
  PROVE  /\ Moves(h, "record", call[h], work[h], locks[h])
         /\ pc[h] = "bind"
         /\ UNCHANGED <<registry, capability, active, tasks, evaluations, jobs, lineage>>
BY DEF HandlersTyped, Moves, Awaiting, GoOn, Await, Goto, Running, registry, store, handlers,
   Bind

(* The evaluation is recorded.                                                *)
LEMMA RecordMoves ==
  ASSUME HandlersTyped, NEW h \in Handler, Record(h)
  PROVE  /\ Moves(h, IF IsEvaluate(h) /\ ~Succeeded(work[h].result) THEN "abandon" ELSE "commit",
                  call[h], work[h], locks[h])
         /\ pc[h] = "record"
         /\ UNCHANGED <<registry, capability, ops, active, tasks, jobs, lineage>>
BY DEF HandlersTyped, Moves, Awaiting, GoOn, Await, Goto, Running, registry, store, handlers,
   Record

(* The reservation of a failed execution is released.                         *)
LEMMA AbandonMoves ==
  ASSUME HandlersTyped, NEW h \in Handler, Abandon(h)
  PROVE  /\ Moves(h, "commit", call[h], work[h], locks[h])
         /\ pc[h] = "abandon"
         /\ UNCHANGED <<registry, capability, ops, active, evaluations, jobs, lineage>>
BY DEF HandlersTyped, Moves, Awaiting, GoOn, Await, Goto, Running, registry, store, handlers,
   Abandon

(* The response is committed.                                                 *)
LEMMA CommitMoves ==
  ASSUME HandlersTyped, NEW h \in Handler, Commit(h)
  PROVE  /\ Moves(h, IF IsEvaluate(h) /\ work[h].execution # None /\ Succeeded(work[h].result)
                   THEN "complete" ELSE "exit", call[h], work[h], locks[h])
         /\ pc[h] = "commit"
         /\ UNCHANGED <<registry, capability, active, tasks, evaluations, jobs, lineage>>
BY DEF HandlersTyped, Moves, Awaiting, GoOn, Await, Goto, Running, registry, store, handlers,
   Commit

(* The task is settled.                                                       *)
LEMMA CompleteMoves ==
  ASSUME HandlersTyped, NEW h \in Handler, Complete(h)
  PROVE  /\ Moves(h, "exit", call[h], work[h], locks[h])
         /\ pc[h] = "complete"
         /\ UNCHANGED <<registry, capability, ops, active, evaluations, jobs, lineage>>
BY DEF HandlersTyped, Moves, Awaiting, GoOn, Await, Goto, Running, registry, store, handlers,
   Complete

(* The answer leaves.                                                         *)
LEMMA ExitMoves ==
  ASSUME HandlersTyped, NEW h \in Handler, Exit(h)
  PROVE  /\ Moves(h, "idle", None, NoWork, {})
         /\ pc[h] = "exit"
         /\ UNCHANGED <<registry, capability, ops, tasks, evaluations, jobs, lineage>>
BY DEF HandlersTyped, Moves, Awaiting, GoOn, Await, Goto, Running, registry, store, handlers,
   Exit

(* A request arrives.                                                         *)
LEMMA ArriveMoves ==
  ASSUME HandlersTyped, NEW h \in Handler, NEW c \in Call, Arrive(h, c)
  PROVE  /\ Moves(h, "lease", c, NoWork, locks[h])
         /\ pc[h] = "idle"
         /\ UNCHANGED <<registry, active, tasks, evaluations, jobs, lineage>>
BY DEF HandlersTyped, Moves, Awaiting, GoOn, Await, Goto, Running, registry, store, handlers,
   Arrive

-----------------------------------------------------------------------------
(* A step that leaves the tables alone keeps their types.                     *)
LEMMA StoreKept ==
  ASSUME StoreTyped, UNCHANGED <<registry, store, jobs, lineage>>, faults' \in Nat
  PROVE  StoreTyped'
BY DEF StoreTyped, registry, store

(* The count of disruptions stays a number.                                   *)
LEMMA FaultsTyped == TypeOK /\ [Next]_vars => faults' \in Nat
<1> SUFFICES ASSUME TypeOK, [Next]_vars PROVE faults' \in Nat
  OBVIOUS
<1>1. faults \in Nat
  BY DEF TypeOK
<1> USE DEF Disrupts
<1>2. ASSUME NEW a \in Attempt, Scheduler(a) PROVE faults' \in {faults, faults + 1}
  BY <1>2 DEF Scheduler, Recover, Interrupt, Issue, Revoke
<1>3. ASSUME NEW h \in Handler, Admission(h) PROVE faults' = faults
  BY <1>3 DEF Admission, Wake, WakeRefused, LeaseBusy, Lease, Begin, BeginRefused
<1>4. ASSUME NEW h \in Handler, Dispatch(h) PROVE faults' = faults
  BY <1>4 DEF Dispatch, Replay, ServeRefused, ServeEvaluate, ServeCheckpoint, ServeProbe,
     ServeReport, ReportRefused
<1>5. ASSUME NEW h \in Handler, Reservation(h) PROVE faults' = faults
  BY <1>5 DEF Reservation, ClaimBusy, ClaimNew, ClaimSettled, ClaimOrphan, ClaimRefused, Reuse,
     ReuseScoped, ReuseRefused
<1>6. ASSUME NEW h \in Handler, Publication(h) PROVE faults' = faults
  BY <1>6 DEF Publication, Submit, Measured, Superseded, Bind, BindRefused, Record, RecordRefused,
     Abandon, Commit, Complete, PublishRefused, Exit
<1>7. ASSUME NEW h \in Handler, MeasureFails(h) PROVE faults' = faults + 1
  BY <1>7 DEF MeasureFails
<1>8. ASSUME NEW h \in Handler, NEW c \in Call, Arrive(h, c) PROVE faults' = faults
  BY <1>8 DEF Arrive
<1>9. ASSUME NEW e \in Call, JobEnds(e) PROVE faults' = faults
  BY <1>9 DEF JobEnds
<1>10. ASSUME Crash PROVE faults' = faults + 1
  BY <1>10 DEF Crash
<1>11. ASSUME UNCHANGED vars PROVE faults' = faults
  BY <1>11 DEF vars
<1>12. faults' \in {faults, faults + 1}
  BY <1>2, <1>3, <1>4, <1>5, <1>6, <1>7, <1>8, <1>9, <1>10, <1>11 DEF Next, HandlerStep
<1> QED  BY <1>1, <1>12

(* The rows that a step writes are rows.                                      *)
LEMMA OpsTyped ==
  ASSUME HandlersInv, NEW h \in Handler, Bind(h) \/ Commit(h)
  PROVE  ops' \in [Call -> [reserved : BOOLEAN, private : Job \cup {None}, answer : Job \cup {None}]]
<1>1. ops \in [Call -> [reserved : BOOLEAN, private : Job \cup {None}, answer : Job \cup {None}]]
  BY DEF HandlersInv, TypeOK
<1>2. work[h].result \in Job \cup {None}
  BY WorkOf
<1>3. CASE Bind(h)
  BY <1>1, <1>2, <1>3 DEF Bind
<1>4. CASE Commit(h)
  BY <1>1, <1>2, <1>4 DEF Commit
<1> QED  BY <1>3, <1>4

(* The fields of a reserved task.                                             *)
LEMMA TaskRowOf ==
  ASSUME HandlersInv, NEW t \in Task, tasks[t] # None
  PROVE  /\ tasks[t] \in TaskRow
         /\ tasks[t].owner \in Call /\ tasks[t].execution \in Call
         /\ tasks[t].answer \in Job \cup {None}
         /\ Outcome(tasks[t]) \in Job \cup {None}
<1>1. tasks[t] \in TaskRow
  BY DEF HandlersInv, TypeOK
<1>2. ops \in [Call -> [reserved : BOOLEAN, private : Job \cup {None}, answer : Job \cup {None}]]
  BY DEF HandlersInv, TypeOK
<1>3. /\ tasks[t].owner \in Call /\ tasks[t].execution \in Call
      /\ tasks[t].answer \in Job \cup {None}
  BY <1>1 DEF TaskRow
<1> QED  BY <1>1, <1>2, <1>3 DEF Outcome

(* The six steps that write gateway_evaluate_tasks write rows.                *)
LEMMA TasksTyped ==
  ASSUME HandlersInv, NEW h \in Handler,
         \/ Replay(h) \/ ClaimNew(h) \/ ClaimSettled(h) \/ ClaimOrphan(h)
         \/ Abandon(h) \/ Complete(h)
  PROVE  tasks' \in [Task -> TaskRow \cup {None}]
<1>1. tasks \in [Task -> TaskRow \cup {None}]
  BY DEF HandlersInv, TypeOK
<1>2. pc[h] # "idle"
  BY DEF Replay, ClaimNew, ClaimSettled, ClaimOrphan, Claim, Abandon, Complete
<1>3. /\ TaskOf(h) \in Task /\ Current(call[h]) \in Call
      /\ work[h].result \in Job \cup {None}
  BY <1>2, CallOf, WorkOf
<1>4. ops \in [Call -> [reserved : BOOLEAN, private : Job \cup {None}, answer : Job \cup {None}]]
  BY DEF HandlersInv, TypeOK
<1>5. CASE Replay(h)
  <2>1. ops[Current(call[h])].answer \in Job \cup {None}
    BY <1>3, <1>4
  <2>2. \A t \in Task :
          tasks'[t] \in {tasks[t], [tasks[t] EXCEPT !.answer = ops[Current(call[h])].answer]}
    BY <1>5 DEF Replay
  <2>3. \A t \in Task : tasks[t] = None => tasks'[t] = None
    BY <1>5 DEF Replay
  <2>4. ASSUME NEW t \in Task PROVE tasks'[t] \in TaskRow \cup {None}
    BY <1>1, <2>1, <2>2, <2>3 DEF TaskRow
  <2> QED  BY <1>5, <2>4 DEF Replay
<1>6. CASE ClaimNew(h)
  <2>1. tasks' = [tasks EXCEPT ![TaskOf(h)] = [owner |-> Current(call[h]),
                     execution |-> Current(call[h]), answer |-> None]]
    BY <1>6 DEF ClaimNew
  <2> QED  BY <1>1, <1>3, <2>1 DEF TaskRow
<1>7. CASE ClaimSettled(h)
  <2>1. /\ tasks' = [tasks EXCEPT ![TaskOf(h)].answer = Outcome(tasks[TaskOf(h)])]
        /\ tasks[TaskOf(h)] # None
    BY <1>7 DEF ClaimSettled
  <2>2. tasks[TaskOf(h)] \in TaskRow /\ Outcome(tasks[TaskOf(h)]) \in Job \cup {None}
    BY <1>3, <2>1, TaskRowOf
  <2> QED  BY <1>1, <2>1, <2>2 DEF TaskRow
<1>8. CASE ClaimOrphan(h)
  <2>1. /\ tasks' = [tasks EXCEPT ![TaskOf(h)].owner = Current(call[h])]
        /\ tasks[TaskOf(h)] # None
    BY <1>8 DEF ClaimOrphan
  <2>2. tasks[TaskOf(h)] \in TaskRow
    BY <1>3, <2>1, TaskRowOf
  <2> QED  BY <1>1, <1>3, <2>1, <2>2 DEF TaskRow
<1>9. CASE Abandon(h)
  BY <1>1, <1>9 DEF Abandon
<1>10. CASE Complete(h)
  <2>1. /\ tasks' = [tasks EXCEPT ![TaskOf(h)].answer = work[h].result]
        /\ tasks[TaskOf(h)] # None
    BY <1>10 DEF Complete
  <2>2. tasks[TaskOf(h)] \in TaskRow
    BY <1>3, <2>1, TaskRowOf
  <2> QED  BY <1>1, <1>3, <2>1, <2>2 DEF TaskRow
<1> QED  BY <1>5, <1>6, <1>7, <1>8, <1>9, <1>10

(* A sequence that grows by a member keeps its type.                          *)
LEMMA AppendTyped ==
  ASSUME NEW S, NEW s \in Seq(S), NEW e \in S
  PROVE  Append(s, e) \in Seq(S)
OBVIOUS

(* record_evaluation appends an evaluation.                                   *)
LEMMA EvaluationsTyped ==
  ASSUME HandlersInv, NEW h \in Handler, Record(h)
  PROVE  evaluations' \in [Attempt -> Seq([call : Call, job : Job])]
<1>1. call[h] \in Call /\ call[h].attempt \in Attempt
  BY CallOf DEF Record
<1>2. work[h].result \in Job
  BY WorkOf, KnownIs DEF Record, KnownAs, Publishing, HandlersInv
<1>3. evaluations \in [Attempt -> Seq([call : Call, job : Job])]
  BY DEF HandlersInv, TypeOK
<1>4. [call |-> call[h], job |-> work[h].result] \in [call : Call, job : Job]
  BY <1>1, <1>2
<1>5. Append(evaluations[call[h].attempt], [call |-> call[h], job |-> work[h].result])
        \in Seq([call : Call, job : Job])
  <2>1. evaluations[call[h].attempt] \in Seq([call : Call, job : Job])
    BY <1>1, <1>3
  <2> QED  BY <1>4, <2>1, AppendTyped
<1>6. \/ evaluations' = evaluations
      \/ evaluations' = [evaluations EXCEPT ![call[h].attempt] =
           Append(evaluations[call[h].attempt], [call |-> call[h], job |-> work[h].result])]
  BY DEF Record
<1> QED  BY <1>3, <1>5, <1>6

(* execute_bound_job binds a job, and no job is forgotten.                    *)
LEMMA JobsTyped ==
  ASSUME HandlersInv, NEW h \in Handler, Submit(h)
  PROVE  /\ jobs' \in [Call -> Job \cup {None}]
         /\ \A e \in Call : jobs[e] # None => jobs'[e] # None
         /\ jobs'[work[h].execution] # None
<1> DEFINE e == work[h].execution
           new(n) == [execution |-> e, number |-> n, verdict |-> "running"]
<1>1. e \in Call
  BY WorkOf, KnownIs DEF Submit, KnownAs, HandlersInv
<1>2. jobs \in [Call -> Job \cup {None}]
  BY DEF HandlersInv, TypeOK
<1>3. ASSUME NEW n \in Nat PROVE new(n) \in Job /\ new(n) # None
  BY <1>1, NoneIsNoRow DEF Job
<1>4. jobs[e] # None => jobs[e].number + 1 \in Nat
  BY <1>1, <1>2 DEF Job
<1>5. \/ jobs' = jobs /\ jobs[e] # None
      \/ jobs' = [jobs EXCEPT ![e] = new(IF jobs[e] = None THEN 1 ELSE jobs[e].number + 1)]
  BY DEF Submit
<1>6. (IF jobs[e] = None THEN 1 ELSE jobs[e].number + 1) \in Nat
  BY <1>4
<1> HIDE DEF e, new
<1>7. \/ jobs' = jobs /\ jobs[e] # None
      \/ \E j \in Job \ {None} : jobs' = [jobs EXCEPT ![e] = j]
  BY <1>3, <1>5, <1>6
<1>8. /\ jobs' \in [Call -> Job \cup {None}]
      /\ \A d \in Call : jobs[d] # None => jobs'[d] # None
      /\ jobs'[e] # None
  BY <1>1, <1>2, <1>7
<1> QED  BY <1>8 DEF e

(* A handler step that writes no table.                                       *)
LEMMA HandlersMoveOnly ==
  ASSUME HandlersInv, faults' \in Nat, UNCHANGED <<registry, store, jobs, lineage>>,
         NEW h \in Handler, NEW s \in Station, s # "measuring",
         NEW c \in Call \cup {None}, NEW w \in Work, NEW L \in SUBSET Task,
         Moves(h, s, c, w, L), KnownAs(s, c, w)
  PROVE  HandlersInv'
<1>1. StoreTyped'
  BY StoreKept, TypeParts DEF HandlersInv
<1> QED  BY <1>1, HandlersMove

(* Every step of a handler, of the scheduler, of Agate or of the process      *)
(* keeps the types, the loop and what handlers have in hand.                  *)
LEMMA HandlersStep == HandlersInv /\ RequestsAreFinite /\ [Next]_vars => HandlersInv'
<1> SUFFICES ASSUME HandlersInv, RequestsAreFinite, [Next]_vars PROVE HandlersInv'
  OBVIOUS
<1>0. /\ StoreTyped /\ HandlersTyped /\ faults' \in Nat
      /\ \A h \in Handler : locks[h] \in SUBSET Task /\ work[h] \in Work
      /\ \A h \in Handler : KnownAs(pc[h], call[h], work[h])
  BY TypeParts, FaultsTyped, KnownIs DEF HandlersInv, HandlersTyped
<1> USE DEF KnownAs, Publishing
<1>1. ASSUME NEW h \in Handler, Refuses(h) PROVE HandlersInv'
  <2>1. /\ Moves(h, "exit", call[h], work[h], locks[h]) /\ pc[h] # "idle"
        /\ UNCHANGED <<registry, store, jobs, lineage>>
    BY <1>0, <1>1, RefuseMoves DEF Leased
  <2>2. KnownAs("exit", call[h], work[h])
    BY <1>0, <2>1
  <2> QED  BY <1>0, <2>1, <2>2, CallOf, HandlersMoveOnly, StationIs
<1>2. ASSUME NEW h \in Handler, Wake(h) PROVE HandlersInv'
  BY <1>0, <1>2, WakeMoves, CallOf, HandlersMoveOnly, StationIs
<1>3. ASSUME NEW h \in Handler, WakeRefused(h) PROVE HandlersInv'
  BY <1>0, <1>3, WakeRefusedMoves, HandlersMoveOnly, StationIs
<1>4. ASSUME NEW h \in Handler, LeaseBusy(h) PROVE HandlersInv'
  BY <1>0, <1>4, LeaseBusyMoves, CallOf, HandlersMoveOnly, StationIs
<1>5. ASSUME NEW h \in Handler, Lease(h) PROVE HandlersInv'
  <2>1. StoreTyped'
    BY <1>0, <1>5, LeaseMoves DEF Lease, StoreTyped, registry
  <2> QED  BY <1>0, <1>5, <2>1, LeaseMoves, CallOf, HandlersMove, StationIs
<1>6. ASSUME NEW h \in Handler, Begin(h) PROVE HandlersInv'
  <2>1. /\ Moves(h, "serve", call[h], work[h], locks[h]) /\ pc[h] = "begin"
        /\ UNCHANGED <<registry, capability, ops, tasks, evaluations, jobs, lineage>>
    BY <1>0, <1>6, BeginMoves
  <2>2. StoreTyped'
    <3>1. call[h] \in Call
      BY <2>1, CallOf
    <3>2. active' \subseteq [by : Handler \cup {Dead}, call : Call]
      BY <1>0, <1>6, <3>1 DEF Begin, StoreTyped
    <3> QED  BY <1>0, <2>1, <3>2 DEF StoreTyped, registry
  <2> QED  BY <1>0, <2>1, <2>2, CallOf, HandlersMove, StationIs
<1>7. ASSUME NEW h \in Handler, Replay(h) PROVE HandlersInv'
  <2>1. /\ Moves(h, "exit", call[h], work[h], locks[h]) /\ pc[h] = "serve"
        /\ UNCHANGED <<registry, capability, ops, evaluations, jobs, lineage>>
    BY <1>0, <1>7, ReplayMoves
  <2>2. active' \subseteq active
    BY <1>7 DEF Replay
  <2>3. StoreTyped'
    BY <1>0, <1>7, <2>1, <2>2, TasksTyped DEF StoreTyped, registry
  <2> QED  BY <1>0, <2>1, <2>3, CallOf, HandlersMove, StationIs
<1>8. ASSUME NEW h \in Handler, ServeEvaluate(h) PROVE HandlersInv'
  <2>1. /\ Moves(h, "claim", call[h], work[h], locks[h]) /\ pc[h] = "serve" /\ IsEvaluate(h)
        /\ UNCHANGED <<registry, store, jobs, lineage>>
    BY <1>0, <1>8, ServeEvaluateMoves
  <2>2. KnownAs("claim", call[h], work[h])
    BY <1>0, <2>1 DEF IsEvaluate, NoWork
  <2> QED  BY <1>0, <2>1, <2>2, CallOf, HandlersMoveOnly, StationIs
<1>9. ASSUME NEW h \in Handler, ServeCheckpoint(h) \/ ServeReport(h) PROVE HandlersInv'
  <2>1. PICK j \in Job : /\ Moves(h, "bind", call[h], [work[h] EXCEPT !.result = j], locks[h])
                         /\ pc[h] = "serve"
                         /\ UNCHANGED <<registry, store, jobs, lineage>>
    <3>1. CASE ServeCheckpoint(h)
      <4>1. pc[h] = "serve" /\ ops[call[h]].private # None
        BY <3>1 DEF ServeCheckpoint, Serve
      <4>2. ops[call[h]].private \in Job
        BY <1>0, <4>1, CallOf DEF StoreTyped
      <4> QED  BY <1>0, <3>1, <4>2, ServeCheckpointMoves
    <3>2. CASE ServeReport(h)
      BY <1>0, <3>2, ServeReportMoves, CallOf, ReceiptIsJob
    <3> QED  BY <1>9, <3>1, <3>2
  <2>2. /\ KnownAs("bind", call[h], [work[h] EXCEPT !.result = j])
        /\ [work[h] EXCEPT !.result = j] \in Work
    BY <1>0, <2>1, NoneIsNoRow DEF Work
  <2> QED  BY <1>0, <2>1, <2>2, CallOf, HandlersMoveOnly, StationIs
<1>10. ASSUME NEW h \in Handler, ServeProbe(h) PROVE HandlersInv'
  <2> DEFINE w == [work[h] EXCEPT !.execution = call[h]]
  <2>1. /\ Moves(h, "submit", call[h], w, locks[h]) /\ pc[h] = "serve"
        /\ UNCHANGED <<registry, store, jobs, lineage>>
    BY <1>0, <1>10, ServeProbeMoves
  <2>2. call[h] \in Call /\ call[h] # None
    BY <2>1, CallOf, NoneIsNoRow
  <2>3. KnownAs("submit", call[h], w) /\ w \in Work
    BY <1>0, <1>10, <2>2 DEF Work, ServeProbe, Serve, IsReport
  <2> HIDE DEF w, KnownAs
  <2> QED  BY <1>0, <2>1, <2>2, <2>3, HandlersMoveOnly, StationIs
<1>11. ASSUME NEW h \in Handler, ClaimBusy(h) PROVE HandlersInv'
  <2>1. /\ Moves(h, "sleeping", call[h], NoWork, {}) /\ pc[h] = "claim"
        /\ UNCHANGED <<registry, capability, ops, tasks, evaluations, jobs, lineage>>
    BY <1>0, <1>11, ClaimBusyMoves
  <2>2. active' \subseteq active
    BY <1>11 DEF ClaimBusy
  <2>3. StoreTyped'
    BY <1>0, <2>1, <2>2 DEF StoreTyped, registry
  <2> QED  BY <1>0, <2>1, <2>3, CallOf, NoWorkIsWork, HandlersMove, StationIs
<1>12. ASSUME NEW h \in Handler, ClaimNew(h) PROVE HandlersInv'
  <2> DEFINE w == [work[h] EXCEPT !.execution = call[h]]
  <2>1. /\ Moves(h, "submit", call[h], w, locks[h] \cup {TaskOf(h)}) /\ pc[h] = "claim"
        /\ UNCHANGED <<registry, capability, ops, active, evaluations, jobs, lineage>>
    BY <1>0, <1>12, ClaimNewMoves
  <2>2. call[h] \in Call /\ call[h] # None /\ TaskOf(h) \in Task
    BY <2>1, CallOf, NoneIsNoRow
  <2>3. KnownAs("submit", call[h], w) /\ w \in Work
    BY <1>0, <2>1, <2>2 DEF Work, IsReport
  <2>4. StoreTyped'
    BY <1>0, <1>12, <2>1, TasksTyped DEF StoreTyped, registry
  <2> HIDE DEF w, KnownAs
  <2> QED  BY <1>0, <2>1, <2>2, <2>3, <2>4, HandlersMove, StationIs
<1>13. ASSUME NEW h \in Handler, ClaimSettled(h) PROVE HandlersInv'
  <2> DEFINE w == [work[h] EXCEPT !.result = Outcome(tasks[TaskOf(h)])]
  <2>1. /\ Moves(h, "reuse", call[h], w, locks[h] \cup {TaskOf(h)}) /\ pc[h] = "claim"
        /\ UNCHANGED <<registry, capability, ops, evaluations, jobs, lineage>>
    BY <1>0, <1>13, ClaimSettledMoves
  <2>2. call[h] \in Call /\ call[h] # None /\ TaskOf(h) \in Task
    BY <2>1, CallOf, NoneIsNoRow
  <2>3. Outcome(tasks[TaskOf(h)]) \in Job /\ Outcome(tasks[TaskOf(h)]) # None
    BY <1>13, <2>2, TaskRowOf DEF ClaimSettled
  <2>4. KnownAs("reuse", call[h], w) /\ w \in Work
    BY <1>0, <2>1, <2>2, <2>3 DEF Work
  <2>5. active' \subseteq active
    BY <1>13 DEF ClaimSettled
  <2>6. StoreTyped'
    BY <1>0, <1>13, <2>1, <2>5, TasksTyped DEF StoreTyped, registry
  <2> HIDE DEF w, KnownAs
  <2> QED  BY <1>0, <2>1, <2>2, <2>4, <2>6, HandlersMove, StationIs
<1>14. ASSUME NEW h \in Handler, ClaimOrphan(h) PROVE HandlersInv'
  <2> DEFINE w == [work[h] EXCEPT !.execution = tasks[TaskOf(h)].execution, !.recover = TRUE]
  <2>1. /\ Moves(h, "submit", call[h], w, locks[h] \cup {TaskOf(h)}) /\ pc[h] = "claim"
        /\ UNCHANGED <<registry, capability, ops, evaluations, jobs, lineage>>
    BY <1>0, <1>14, ClaimOrphanMoves
  <2>2. call[h] \in Call /\ call[h] # None /\ TaskOf(h) \in Task
    BY <2>1, CallOf, NoneIsNoRow
  <2>3. tasks[TaskOf(h)].execution \in Call /\ tasks[TaskOf(h)].execution # None
    BY <1>14, <2>2, TaskRowOf, NoneIsNoRow DEF ClaimOrphan
  <2>4. KnownAs("submit", call[h], w) /\ w \in Work
    BY <1>0, <2>1, <2>2, <2>3 DEF Work, IsReport
  <2>5. active' \subseteq active
    BY <1>14 DEF ClaimOrphan
  <2>6. StoreTyped'
    BY <1>0, <1>14, <2>1, <2>5, TasksTyped DEF StoreTyped, registry
  <2> HIDE DEF w, KnownAs
  <2> QED  BY <1>0, <2>1, <2>2, <2>4, <2>6, HandlersMove, StationIs
<1>15. ASSUME NEW h \in Handler, Reuse(h) PROVE HandlersInv'
  BY <1>0, <1>15, ReuseMoves, CallOf, HandlersMoveOnly, StationIs
<1>16. ASSUME NEW h \in Handler, ReuseScoped(h) PROVE HandlersInv'
  <2> DEFINE w == [work[h] EXCEPT !.scope = call[h].attempt, !.result = None]
  <2>1. /\ Moves(h, "claim", call[h], w, locks[h]) /\ pc[h] = "reuse"
        /\ UNCHANGED <<registry, store, jobs, lineage>>
    BY <1>0, <1>16, ReuseScopedMoves
  <2>2. call[h] \in Call /\ call[h] # None /\ call[h].attempt \in Attempt
    BY <2>1, CallOf, NoneIsNoRow
  <2>3. KnownAs("claim", call[h], w) /\ w \in Work
    BY <1>0, <2>1, <2>2 DEF Work
  <2> HIDE DEF w, KnownAs
  <2> QED  BY <1>0, <2>1, <2>2, <2>3, HandlersMoveOnly, StationIs
<1>17. ASSUME NEW h \in Handler, Submit(h) PROVE HandlersInv'
  <2>1. /\ Moves(h, "measuring", call[h], work[h], locks[h]) /\ pc[h] = "submit"
        /\ UNCHANGED <<registry, store, lineage>>
    BY <1>0, <1>17, SubmitMoves
  <2>2. StoreTyped'
    BY <1>0, <1>17, <2>1, JobsTyped DEF StoreTyped, registry, store
  <2> QED  BY <1>0, <1>17, <2>1, <2>2, CallOf, JobsTyped, HandlersMove, StationIs
<1>18. ASSUME NEW h \in Handler, Measured(h) PROVE HandlersInv'
  <2> DEFINE w == [work[h] EXCEPT !.result = jobs[work[h].execution]]
  <2>1. /\ Moves(h, "bind", call[h], w, locks[h]) /\ pc[h] = "measuring"
        /\ UNCHANGED <<registry, store, jobs, lineage>>
    BY <1>0, <1>18, MeasuredMoves
  <2>2. jobs[work[h].execution] \in Job /\ jobs[work[h].execution] # None
    BY <1>0, <2>1, KnownIs, WorkOf DEF StoreTyped, HandlersInv
  <2>3. KnownAs("bind", call[h], w) /\ w \in Work
    BY <1>0, <2>1, <2>2 DEF Work
  <2> HIDE DEF w, KnownAs
  <2> QED  BY <1>0, <2>1, <2>3, CallOf, HandlersMoveOnly, StationIs
<1>19. ASSUME NEW h \in Handler, Bind(h) PROVE HandlersInv'
  <2>1. /\ Moves(h, "record", call[h], work[h], locks[h]) /\ pc[h] = "bind"
        /\ UNCHANGED <<registry, capability, active, tasks, evaluations, jobs, lineage>>
    BY <1>0, <1>19, BindMoves
  <2>2. StoreTyped'
    BY <1>0, <1>19, <2>1, OpsTyped DEF StoreTyped, registry
  <2> QED  BY <1>0, <2>1, <2>2, CallOf, HandlersMove, StationIs
<1>20. ASSUME NEW h \in Handler, Record(h) PROVE HandlersInv'
  <2> DEFINE s == IF IsEvaluate(h) /\ ~Succeeded(work[h].result) THEN "abandon" ELSE "commit"
  <2>1. /\ Moves(h, s, call[h], work[h], locks[h]) /\ pc[h] = "record"
        /\ UNCHANGED <<registry, capability, ops, active, tasks, jobs, lineage>>
    BY <1>0, <1>20, RecordMoves
  <2>2. StoreTyped'
    BY <1>0, <1>20, <2>1, EvaluationsTyped DEF StoreTyped, registry
  <2>3. KnownAs(s, call[h], work[h]) /\ s \in Station /\ s # "measuring"
    BY <1>0, <2>1, StationIs DEF IsEvaluate
  <2> QED  BY <1>0, <2>1, <2>2, <2>3, CallOf, HandlersMove
<1>21. ASSUME NEW h \in Handler, Abandon(h) PROVE HandlersInv'
  <2>1. /\ Moves(h, "commit", call[h], work[h], locks[h]) /\ pc[h] = "abandon"
        /\ UNCHANGED <<registry, capability, ops, active, evaluations, jobs, lineage>>
    BY <1>0, <1>21, AbandonMoves
  <2>2. StoreTyped'
    BY <1>0, <1>21, <2>1, TasksTyped DEF StoreTyped, registry
  <2> QED  BY <1>0, <2>1, <2>2, CallOf, HandlersMove, StationIs
<1>22. ASSUME NEW h \in Handler, Commit(h) PROVE HandlersInv'
  <2> DEFINE s == IF IsEvaluate(h) /\ work[h].execution # None /\ Succeeded(work[h].result)
                  THEN "complete" ELSE "exit"
  <2>1. /\ Moves(h, s, call[h], work[h], locks[h]) /\ pc[h] = "commit"
        /\ UNCHANGED <<registry, capability, active, tasks, evaluations, jobs, lineage>>
    BY <1>0, <1>22, CommitMoves
  <2>2. StoreTyped'
    BY <1>0, <1>22, <2>1, OpsTyped DEF StoreTyped, registry
  <2>3. KnownAs(s, call[h], work[h]) /\ s \in Station /\ s # "measuring"
    BY <1>0, <2>1, StationIs DEF IsEvaluate
  <2> QED  BY <1>0, <2>1, <2>2, <2>3, CallOf, HandlersMove
<1>23. ASSUME NEW h \in Handler, Complete(h) PROVE HandlersInv'
  <2>1. /\ Moves(h, "exit", call[h], work[h], locks[h]) /\ pc[h] = "complete"
        /\ UNCHANGED <<registry, capability, ops, active, evaluations, jobs, lineage>>
    BY <1>0, <1>23, CompleteMoves
  <2>2. StoreTyped'
    BY <1>0, <1>23, <2>1, TasksTyped DEF StoreTyped, registry
  <2> QED  BY <1>0, <2>1, <2>2, CallOf, HandlersMove, StationIs
<1>24. ASSUME NEW h \in Handler, Exit(h) PROVE HandlersInv'
  <2>1. /\ Moves(h, "idle", None, NoWork, {}) /\ pc[h] = "exit"
        /\ UNCHANGED <<registry, capability, ops, tasks, evaluations, jobs, lineage>>
    BY <1>0, <1>24, ExitMoves
  <2>2. active' \subseteq active
    BY <1>24 DEF Exit
  <2>3. StoreTyped'
    BY <1>0, <2>1, <2>2 DEF StoreTyped, registry
  <2> QED  BY <1>0, <2>1, <2>3, NoWorkIsWork, HandlersMove, StationIs
<1>25. ASSUME NEW h \in Handler, NEW c \in Call, Arrive(h, c) PROVE HandlersInv'
  <2>1. /\ Moves(h, "lease", c, NoWork, locks[h]) /\ pc[h] = "idle"
        /\ UNCHANGED <<registry, active, tasks, evaluations, jobs, lineage>>
    BY <1>0, <1>25, ArriveMoves
  <2>2. /\ capability' \in [Attempt -> [generation : Generation, used : Nat, revoked : BOOLEAN]]
        /\ ops' \in [Call -> [reserved : BOOLEAN, private : Job \cup {None}, answer : Job \cup {None}]]
    <3>1. /\ capability' \in {capability, [capability EXCEPT ![c.attempt].used = @ + 1]}
          /\ ops' \in {ops, [ops EXCEPT ![c].reserved = TRUE]}
      BY <1>25 DEF Arrive
    <3>2. c.attempt \in Attempt
      BY DEF Call
    <3>3. capability \in [Attempt -> [generation : Generation, used : Nat, revoked : BOOLEAN]]
      BY <1>0 DEF StoreTyped
    <3>4. capability' \in [Attempt -> [generation : Generation, used : Nat, revoked : BOOLEAN]]
      BY <3>1, <3>2, <3>3
    <3>5. ops \in [Call -> [reserved : BOOLEAN, private : Job \cup {None}, answer : Job \cup {None}]]
      BY <1>0 DEF StoreTyped
    <3> QED  BY <3>1, <3>4, <3>5
  <2>3. StoreTyped'
    BY <1>0, <2>1, <2>2 DEF StoreTyped, registry
  <2> QED  BY <1>0, <2>1, <2>3, NoWorkIsWork, NoneIsNoRow, HandlersMove, StationIs
<1>26. ASSUME UNCHANGED handlers, StoreTyped', \A e \in Call : jobs[e] # None => jobs'[e] # None
       PROVE  HandlersInv'
  <2>1. TypeOK' /\ LoopIsExclusive'
    BY <1>0, <1>26 DEF HandlersInv, TypeOK, StoreTyped, HandlersTyped, handlers, LoopIsExclusive
  <2>2. \A h \in Handler : pc[h] = "measuring" =>
          jobs[work[h].execution] # None /\ work[h].execution \in Call
    BY <1>0, KnownIs, WorkOf DEF HandlersInv
  <2>3. CallsAreKnown'
    BY <1>0, <1>26, <2>2 DEF CallsAreKnown, handlers, IsEvaluate
  <2> QED  BY <2>1, <2>3 DEF HandlersInv
<1>27. ASSUME NEW a \in Attempt, Scheduler(a) PROVE HandlersInv'
  <2>1. UNCHANGED <<ops, active, tasks, evaluations, jobs, handlers, lineage>>
    BY <1>27 DEF Scheduler, Recover, Interrupt, Issue, Revoke, store, registry
  <2>2. /\ generation' \in [Attempt -> Generation]
        /\ standing' \in [Attempt -> {"running", "interrupted"}]
        /\ capability' \in [Attempt -> [generation : Generation, used : Nat, revoked : BOOLEAN]]
    <3>1. CASE Recover(a)
      BY <1>0, <3>1, GatewayConstants DEF Recover, StoreTyped, store, Generation
    <3>2. CASE Interrupt(a)
      BY <1>0, <3>2 DEF Interrupt, StoreTyped, store
    <3>3. CASE Issue(a)
      BY <1>0, <3>3 DEF Issue, StoreTyped, registry
    <3>4. CASE Revoke(a)
      <4>1. capability' = [capability EXCEPT ![a].revoked = TRUE] /\ UNCHANGED registry
        BY <3>4 DEF Revoke
      <4>2. capability \in [Attempt -> [generation : Generation, used : Nat, revoked : BOOLEAN]]
        BY <1>0 DEF StoreTyped
      <4>3. capability' \in [Attempt -> [generation : Generation, used : Nat, revoked : BOOLEAN]]
        BY <4>1, <4>2
      <4> QED  BY <1>0, <4>1, <4>3 DEF StoreTyped, registry
    <3> QED  BY <1>27, <3>1, <3>2, <3>3, <3>4 DEF Scheduler
  <2>3. StoreTyped'
    BY <1>0, <2>1, <2>2 DEF StoreTyped
  <2> QED  BY <1>26, <2>1, <2>3
<1>28. ASSUME NEW e \in Call, JobEnds(e) PROVE HandlersInv'
  <2>1. PICK v \in Verdict : jobs' = [jobs EXCEPT ![e].verdict = v]
    BY <1>28 DEF JobEnds, Verdicts, Verdict
  <2>2. jobs \in [Call -> Job \cup {None}] /\ jobs[e] # None
    BY <1>0, <1>28 DEF StoreTyped, JobEnds
  <2>3. [jobs[e] EXCEPT !.verdict = v] \in Job
    BY <2>2 DEF Job
  <2>4. jobs' \in [Call -> Job \cup {None}] /\ \A d \in Call : jobs[d] # None => jobs'[d] # None
    BY <2>1, <2>2, <2>3, NoneIsNoRow
  <2>5. StoreTyped' /\ UNCHANGED handlers
    BY <1>0, <1>28, <2>4 DEF JobEnds, StoreTyped, registry, store
  <2> QED  BY <1>26, <2>4, <2>5
<1>30. CASE UNCHANGED vars
  <2>1. StoreTyped' /\ UNCHANGED <<handlers, jobs>>
    BY <1>0, <1>30 DEF vars, StoreTyped, registry, store
  <2> QED  BY <1>26, <2>1
<1>29. ASSUME Crash PROVE HandlersInv'
  <2>1. capability' \in [Attempt -> [generation : Generation, used : Nat, revoked : BOOLEAN]]
    <3>1. \A a \in Attempt, g \in Generation : Cardinality(MeteredCalls(a, g)) \in Nat
      <4>1. ASSUME NEW a \in Attempt, NEW g \in Generation
            PROVE  MeteredCalls(a, g) \in SUBSET {c \in Call : ops[c].reserved}
        BY DEF MeteredCalls
      <4> QED  BY <4>1, FS_Subset, FS_CardinalityType DEF RequestsAreFinite
    <3>2. capability \in [Attempt -> [generation : Generation, used : Nat, revoked : BOOLEAN]]
      BY <1>0 DEF StoreTyped
    <3>3. capability' = [a \in Attempt |-> [capability[a] EXCEPT
             !.used = Cardinality(MeteredCalls(a, capability[a].generation))]]
      BY <1>29 DEF Crash
    <3>4. ASSUME NEW a \in Attempt
          PROVE  [capability[a] EXCEPT
                    !.used = Cardinality(MeteredCalls(a, capability[a].generation))]
                 \in [generation : Generation, used : Nat, revoked : BOOLEAN]
      BY <3>1, <3>2
    <3> QED  BY <3>3, <3>4
  <2>2. active' \subseteq [by : Handler \cup {Dead}, call : Call]
    BY <1>0, <1>29 DEF Crash, StoreTyped
  <2>3. StoreTyped'
    BY <1>0, <1>29, <2>1, <2>2 DEF Crash, StoreTyped, registry
  <2>4. /\ loop' = NoOne
        /\ \A h \in Handler : pc'[h] = "idle" /\ call'[h] = None /\ work'[h] = NoWork
        /\ HandlersTyped'
    BY <1>29, NoWorkIsWork, StationIs DEF Crash, HandlersTyped
  <2>5. TypeOK'
    BY <2>3, <2>4 DEF TypeOK, StoreTyped, HandlersTyped
  <2>6. LoopIsExclusive' /\ CallsAreKnown'
    BY <2>4, GatewayConstants DEF LoopIsExclusive, CallsAreKnown
  <2> QED  BY <2>5, <2>6 DEF HandlersInv
<1> QED
  BY <1>1, <1>2, <1>3, <1>4, <1>5, <1>6, <1>7, <1>8, <1>9, <1>10, <1>11, <1>12, <1>13, <1>14,
     <1>15, <1>16, <1>17, <1>18, <1>19, <1>20, <1>21, <1>22, <1>23, <1>24, <1>25, <1>27, <1>28,
     <1>29, <1>30
  DEF Next, HandlerStep, Admission, Dispatch, Reservation, Publication, Refuses

(* The tables of the Gateway as every later layer sees a step: requests and   *)
(* their results are only added.                                              *)
OpsKept == \A c \in Call :
  /\ ops[c].reserved => ops'[c].reserved
  /\ ops[c].private # None => ops'[c].private = ops[c].private
  /\ ops[c].answer # None => ops'[c].answer = ops[c].answer

-----------------------------------------------------------------------------
(* Layer 2: the leases.                                                       *)

(* How a step may change the leases of the handler that takes it.             *)
Leases(h) ==
  /\ Others(h)
  /\ loop \in {h, NoOne}
  /\ pc'[h] \in Leased => call'[h] = call[h] /\ (pc[h] \in Leased \/ Serving(call[h]) = {})
  /\ \/ locks'[h] \subseteq locks[h]
     \/ Locked(TaskOf(h)) = {} /\ locks'[h] = locks[h] \cup {TaskOf(h)}
  /\ locks'[h] # {} => pc'[h] \in Leased \ {"begin", "serve"}
  /\ pc'[h] = "reuse" => <<Candidate[call'[h].key], work'[h].scope>> \in locks'[h]
  /\ work'[h].scope # Shared => /\ work'[h].scope = call'[h].attempt
                                /\ <<Candidate[call'[h].key], Shared>> \in locks'[h]

(* A step that respects the leases of others keeps them exclusive.            *)
LEMMA LeasesMove ==
  ASSUME LeasesInv, NEW h \in Handler, Leases(h)
  PROVE  LeasesInv'
<1>1. ASSUME NEW o \in Handler, NEW p \in Handler,
             pc'[o] \in Leased, pc'[p] \in Leased, call'[o] = call'[p]
      PROVE  o = p
  BY <1>1 DEF LeasesInv, LeasesAreExclusive, Leases, Others, Serving
<1>2. ASSUME NEW o \in Handler, NEW p \in Handler, NEW t \in Task, t \in locks'[o], t \in locks'[p]
      PROVE  o = p
  BY <1>2 DEF LeasesInv, LeasesAreExclusive, Leases, Others, Locked
<1>3. ASSUME NEW o \in Handler, locks'[o] # {} PROVE pc'[o] \in Leased \ {"begin", "serve"}
  BY <1>3 DEF LeasesInv, LeasesAreExclusive, Leases, Others
<1>4. LeasesAreExclusive'
  BY <1>1, <1>2, <1>3 DEF LeasesAreExclusive
<1>5. ScopesAreOwn'
  BY DEF LeasesInv, ScopesAreOwn, Leases, Others, TaskOf
<1> QED  BY <1>4, <1>5 DEF LeasesInv

(* A step of a handler that keeps its call, scope and leases.                 *)
LEMMA LeasesKept ==
  ASSUME HandlersInv, LeasesInv, NEW h \in Handler, NEW s \in Leased \ {"begin", "serve", "reuse"},
         NEW w, w.scope = work[h].scope, pc[h] \in Leased,
         Moves(h, s, call[h], w, locks[h])
  PROVE  Leases(h)
<1>1. /\ pc'[h] = s /\ call'[h] = call[h] /\ work'[h] = w /\ locks'[h] = locks[h]
      /\ Others(h)
  BY MovesAt, TypeParts DEF HandlersInv
<1> QED  BY <1>1 DEF Leases, Moves, LeasesInv, ScopesAreOwn

(* A handler outside its leases holds none.                                   *)
LEMMA LeasesFree ==
  ASSUME HandlersInv, LeasesInv, NEW h \in Handler,
         NEW s \in {"idle", "lease", "sleeping"}, NEW c, NEW w, NEW L, w = NoWork, L = {},
         Moves(h, s, c, w, L)
  PROVE  Leases(h)
<1>1. /\ pc'[h] = s /\ call'[h] = c /\ work'[h] = w /\ locks'[h] = L
      /\ Others(h)
  BY MovesAt, TypeParts DEF HandlersInv
<1>2. s \notin Leased /\ s # "reuse"
  BY StationIs
<1> QED  BY <1>1, <1>2 DEF Leases, Moves, NoWork

(* Every step of a handler respects them.                                     *)
LEMMA HandlerLeases ==
  ASSUME HandlersInv, LeasesInv, NEW h \in Handler, HandlerStep(h) \/ MeasureFails(h)
  PROVE  Leases(h)
<1>0. /\ HandlersTyped
      /\ KnownAs(pc[h], call[h], work[h])
      /\ pc[h] \in {"idle", "lease", "sleeping", "begin", "serve"} =>
           work[h] = NoWork /\ locks[h] = {}
      /\ work[h] \in Work
  <2>1. locks[h] # {} => pc[h] \in Leased \ {"begin", "serve"}
    BY DEF LeasesInv, LeasesAreExclusive
  <2> QED  BY <2>1, TypeParts, KnownIs, WorkOf, StationIs DEF HandlersInv, KnownAs
<1>1. CASE Refuses(h)
  BY <1>0, <1>1, RefuseMoves, LeasesKept, StationIs
<1>2. CASE Wake(h)
  BY <1>0, <1>2, WakeMoves, LeasesFree
<1>3. CASE WakeRefused(h)
  BY <1>0, <1>3, WakeRefusedMoves, LeasesFree
<1>4. CASE LeaseBusy(h)
  BY <1>0, <1>4, LeaseBusyMoves, LeasesFree
<1>5. CASE Lease(h)
  <2>1. Moves(h, "begin", call[h], work[h], locks[h]) /\ work[h] = NoWork /\ locks[h] = {}
    BY <1>0, <1>5, LeaseMoves
  <2>2. Serving(call[h]) = {}
    BY <1>5 DEF Lease
  <2>3. /\ pc'[h] = "begin" /\ call'[h] = call[h] /\ work'[h] = NoWork /\ locks'[h] = {}
        /\ Others(h) /\ loop \in {h, NoOne}
    BY <1>0, <2>1, MovesAt DEF Moves
  <2> QED  BY <2>2, <2>3 DEF Leases, NoWork
<1>6. CASE Begin(h)
  <2>1. /\ Moves(h, "serve", call[h], work[h], locks[h]) /\ work[h] = NoWork /\ locks[h] = {}
        /\ pc[h] \in Leased
    BY <1>0, <1>6, BeginMoves, StationIs
  <2>2. /\ pc'[h] = "serve" /\ call'[h] = call[h] /\ work'[h] = NoWork /\ locks'[h] = {}
        /\ Others(h) /\ loop \in {h, NoOne}
    BY <1>0, <2>1, MovesAt DEF Moves
  <2> QED  BY <2>1, <2>2 DEF Leases, NoWork
<1>7. CASE Replay(h)
  BY <1>0, <1>7, ReplayMoves, LeasesKept, StationIs
<1>8. CASE ServeEvaluate(h)
  BY <1>0, <1>8, ServeEvaluateMoves, LeasesKept, StationIs
<1>9. CASE ServeCheckpoint(h) \/ ServeReport(h)
  <2>1. ASSUME NEW j PROVE [work[h] EXCEPT !.result = j].scope = work[h].scope
    BY <1>0 DEF Work
  <2> QED  BY <1>0, <1>9, <2>1, ServeCheckpointMoves, ServeReportMoves, LeasesKept, StationIs
<1>10. CASE ServeProbe(h)
  <2>1. [work[h] EXCEPT !.execution = call[h]].scope = work[h].scope
    BY <1>0 DEF Work
  <2> QED  BY <1>0, <1>10, <2>1, ServeProbeMoves, LeasesKept, StationIs
<1>11. CASE ClaimBusy(h)
  BY <1>0, <1>11, ClaimBusyMoves, LeasesFree
<1>12. ASSUME NEW s \in {"submit", "reuse"}, NEW w, w.scope = work[h].scope, pc[h] = "claim",
              Claim(h), Moves(h, s, call[h], w, locks[h] \cup {TaskOf(h)})
       PROVE  Leases(h)
  <2>1. /\ pc'[h] = s /\ call'[h] = call[h] /\ work'[h] = w /\ locks'[h] = locks[h] \cup {TaskOf(h)}
        /\ Others(h)
    BY <1>0, <1>12, MovesAt
  <2>2. Locked(TaskOf(h)) = {} /\ s \in Leased \ {"begin", "serve"} /\ pc[h] \in Leased
    BY <1>12, StationIs DEF Claim
  <2> QED  BY <1>12, <2>1, <2>2 DEF Leases, Moves, LeasesInv, ScopesAreOwn, TaskOf
<1>13. CASE ClaimNew(h)
  <2>1. [work[h] EXCEPT !.execution = call[h]].scope = work[h].scope
    BY <1>0 DEF Work
  <2>2. Claim(h)
    BY <1>13 DEF ClaimNew
  <2> QED  BY <1>0, <1>12, <1>13, <2>1, <2>2, ClaimNewMoves
<1>14. CASE ClaimSettled(h)
  <2>1. [work[h] EXCEPT !.result = Outcome(tasks[TaskOf(h)])].scope = work[h].scope
    BY <1>0 DEF Work
  <2>2. Claim(h)
    BY <1>14 DEF ClaimSettled
  <2> QED  BY <1>0, <1>12, <1>14, <2>1, <2>2, ClaimSettledMoves
<1>15. CASE ClaimOrphan(h)
  <2>1. [work[h] EXCEPT !.execution = tasks[TaskOf(h)].execution, !.recover = TRUE].scope
          = work[h].scope
    BY <1>0 DEF Work
  <2>2. Claim(h)
    BY <1>15 DEF ClaimOrphan
  <2> QED  BY <1>0, <1>12, <1>15, <2>1, <2>2, ClaimOrphanMoves
<1>16. CASE Reuse(h)
  BY <1>0, <1>16, ReuseMoves, LeasesKept, StationIs
<1>17. CASE ReuseScoped(h)
  <2> DEFINE w == [work[h] EXCEPT !.scope = call[h].attempt, !.result = None]
  <2>1. Moves(h, "claim", call[h], w, locks[h]) /\ pc[h] = "reuse" /\ work[h].scope = Shared
    BY <1>0, <1>17, ReuseScopedMoves
  <2>2. w.scope = call[h].attempt
    BY <1>0 DEF Work
  <2>3. <<Candidate[call[h].key], Shared>> \in locks[h]
    BY <2>1 DEF LeasesInv, ScopesAreOwn, TaskOf
  <2> HIDE DEF w
  <2>4. /\ pc'[h] = "claim" /\ call'[h] = call[h] /\ work'[h] = w /\ locks'[h] = locks[h]
        /\ Others(h)
    BY <1>0, <2>1, MovesAt
  <2> QED  BY <2>1, <2>2, <2>3, <2>4, StationIs DEF Leases, Moves
<1>18. CASE Submit(h)
  BY <1>0, <1>18, SubmitMoves, LeasesKept, StationIs
<1>19. CASE Measured(h)
  <2>1. [work[h] EXCEPT !.result = jobs[work[h].execution]].scope = work[h].scope
    BY <1>0 DEF Work
  <2> QED  BY <1>0, <1>19, <2>1, MeasuredMoves, LeasesKept, StationIs
<1>20. CASE Bind(h)
  BY <1>0, <1>20, BindMoves, LeasesKept, StationIs
<1>21. CASE Record(h)
  BY <1>0, <1>21, RecordMoves, LeasesKept, StationIs
<1>22. CASE Abandon(h)
  BY <1>0, <1>22, AbandonMoves, LeasesKept, StationIs
<1>23. CASE Commit(h)
  BY <1>0, <1>23, CommitMoves, LeasesKept, StationIs
<1>24. CASE Complete(h)
  BY <1>0, <1>24, CompleteMoves, LeasesKept, StationIs
<1>25. CASE Exit(h)
  BY <1>0, <1>25, ExitMoves, LeasesFree
<1> QED
  BY <1>1, <1>2, <1>3, <1>4, <1>5, <1>6, <1>7, <1>8, <1>9, <1>10, <1>11, <1>13, <1>14, <1>15,
     <1>16, <1>17, <1>18, <1>19, <1>20, <1>21, <1>22, <1>23, <1>24, <1>25
  DEF HandlerStep, Admission, Dispatch, Reservation, Publication, Refuses

(* So does a request that arrives.                                            *)
LEMMA ArriveLeases ==
  ASSUME HandlersInv, LeasesInv, NEW h \in Handler, NEW c \in Call, Arrive(h, c)
  PROVE  Leases(h)
<1>1. Moves(h, "lease", c, NoWork, locks[h]) /\ pc[h] = "idle"
  BY ArriveMoves, TypeParts DEF HandlersInv
<1>2. locks[h] = {}
  BY <1>1, StationIs DEF LeasesInv, LeasesAreExclusive
<1> QED  BY <1>1, <1>2, LeasesFree

(* What a step does to the handlers: one of them moves, all of them are       *)
(* gone, or none is concerned.                                                *)
LEMMA StepIs ==
  ASSUME HandlersInv, LeasesInv, [Next]_vars
  PROVE  \/ UNCHANGED handlers
         \/ Crash
         \/ \E h \in Handler : Leases(h)
<1>1. ASSUME NEW a \in Attempt, Scheduler(a) PROVE UNCHANGED handlers
  BY <1>1 DEF Scheduler, Recover, Interrupt, Issue, Revoke
<1>2. ASSUME NEW e \in Call, JobEnds(e) PROVE UNCHANGED handlers
  BY <1>2 DEF JobEnds
<1>3. ASSUME UNCHANGED vars PROVE UNCHANGED handlers
  BY <1>3 DEF vars
<1> QED  BY <1>1, <1>2, <1>3, HandlerLeases, ArriveLeases DEF Next

(* The leases stay exclusive.                                                 *)
LEMMA LeasesStep == HandlersInv /\ LeasesInv /\ [Next]_vars => LeasesInv'
<1> SUFFICES ASSUME HandlersInv, LeasesInv, [Next]_vars PROVE LeasesInv'
  OBVIOUS
<1>1. CASE UNCHANGED handlers
  BY <1>1 DEF handlers, LeasesInv, LeasesAreExclusive, ScopesAreOwn, TaskOf
<1>2. CASE Crash
  BY <1>2 DEF Crash, LeasesInv, LeasesAreExclusive, ScopesAreOwn, NoWork, Leased, Publishing
<1> QED  BY <1>1, <1>2, StepIs, LeasesMove

(* Seen from a handler: it moves, it is gone, or it stays where it is.        *)
Stays(o) == pc'[o] = pc[o] /\ call'[o] = call[o] /\ work'[o] = work[o] /\ locks'[o] = locks[o]

(* Every step is one of these four for each handler.                          *)
LEMMA OneMoves ==
  ASSUME HandlersInv, LeasesInv, [Next]_vars, NEW o \in Handler
  PROVE  \/ HandlerStep(o) \/ MeasureFails(o)
         \/ \E c \in Call : Arrive(o, c)
         \/ Crash
         \/ Stays(o)
<1>1. ASSUME NEW h \in Handler, Leases(h), o # h PROVE Stays(o)
  BY <1>1 DEF Leases, Others, Stays
<1>2. ASSUME UNCHANGED handlers PROVE Stays(o)
  BY <1>2 DEF handlers, Stays
<1>3. ASSUME NEW a \in Attempt, Scheduler(a) PROVE UNCHANGED handlers
  BY <1>3 DEF Scheduler, Recover, Interrupt, Issue, Revoke
<1>4. ASSUME NEW e \in Call, JobEnds(e) PROVE UNCHANGED handlers
  BY <1>4 DEF JobEnds
<1>5. ASSUME UNCHANGED vars PROVE UNCHANGED handlers
  BY <1>5 DEF vars
<1>6. ASSUME NEW h \in Handler, o # h, HandlerStep(h) \/ MeasureFails(h) PROVE Stays(o)
  BY <1>1, <1>6, HandlerLeases
<1>7. ASSUME NEW h \in Handler, o # h, NEW c \in Call, Arrive(h, c) PROVE Stays(o)
  BY <1>1, <1>7, ArriveLeases
<1> QED  BY <1>2, <1>3, <1>4, <1>5, <1>6, <1>7 DEF Next

(* An arriving request waits for its lease.                                   *)
LEMMA Arrived ==
  ASSUME HandlersInv, NEW h \in Handler, NEW c \in Call, Arrive(h, c)
  PROVE  pc'[h] = "lease" /\ call'[h] = c /\ work'[h] = NoWork /\ loop = NoOne /\ loop' = h
<1>1. HandlersTyped /\ Moves(h, "lease", c, NoWork, locks[h])
  BY ArriveMoves, TypeParts DEF HandlersInv
<1>2. loop = NoOne /\ loop' = h
  BY DEF Arrive
<1> QED  BY <1>1, <1>2, MovesAt

(* The settings of the Lineage are frozen.                                    *)
LEMMA LineageFixed == ASSUME HandlersInv, [Next]_vars PROVE lineage' = lineage
<1>1. ASSUME NEW a \in Attempt, Scheduler(a) PROVE lineage' = lineage
  BY <1>1 DEF Scheduler, Recover, Interrupt, Issue, Revoke
<1>2. ASSUME NEW h \in Handler, NEW c \in Call, Arrive(h, c) PROVE lineage' = lineage
  BY <1>2 DEF Arrive
<1>3. ASSUME NEW h \in Handler, Admission(h) \/ Dispatch(h) PROVE lineage' = lineage
  BY <1>3 DEF Admission, Wake, WakeRefused, LeaseBusy, Lease, Begin, BeginRefused, Dispatch,
     Replay, ServeRefused, ServeEvaluate, ServeCheckpoint, ServeProbe, ServeReport, ReportRefused
<1>4. ASSUME NEW h \in Handler, Reservation(h) PROVE lineage' = lineage
  BY <1>4 DEF Reservation, ClaimBusy, ClaimNew, ClaimSettled, ClaimOrphan, ClaimRefused,
     Reuse, ReuseScoped, ReuseRefused
<1>5. ASSUME NEW h \in Handler, Publication(h) \/ MeasureFails(h) PROVE lineage' = lineage
  BY <1>5 DEF Publication, Submit, Measured, Superseded, Bind, BindRefused, Record,
     RecordRefused, Abandon, Commit, Complete, PublishRefused, Exit, MeasureFails
<1>6. ASSUME NEW e \in Call, JobEnds(e) PROVE lineage' = lineage
  BY <1>6 DEF JobEnds
<1>7. CASE Crash
  BY <1>7 DEF Crash
<1>8. CASE UNCHANGED vars
  BY <1>8 DEF vars
<1> QED  BY <1>1, <1>2, <1>3, <1>4, <1>5, <1>6, <1>7, <1>8 DEF Next, HandlerStep

-----------------------------------------------------------------------------
(* Layer 3: reservations and the quota.                                       *)

(* Which steps write which table.                                             *)
LEMMA Writers ==
  ASSUME [Next]_vars
  PROVE  /\ \/ ops' = ops
            \/ \E h \in Handler, c \in Call : Arrive(h, c)
            \/ \E h \in Handler : Bind(h) \/ Commit(h)
         /\ \/ tasks' = tasks
            \/ \E h \in Handler : \/ Replay(h) \/ ClaimNew(h) \/ ClaimSettled(h) \/ ClaimOrphan(h)
                                  \/ Abandon(h) \/ Complete(h)
         /\ generation' = generation \/ \E a \in Attempt : Recover(a)
         /\ \/ capability' = capability \/ Crash
            \/ \E a \in Attempt : Issue(a) \/ Revoke(a)
            \/ \E h \in Handler, c \in Call : Arrive(h, c)
         /\ evaluations' = evaluations \/ \E h \in Handler : Record(h)
         /\ \/ active' = active \/ Crash
            \/ \E h \in Handler : \/ Lease(h) \/ Begin(h) \/ Replay(h) \/ ClaimBusy(h)
                                  \/ ClaimSettled(h) \/ ClaimOrphan(h) \/ Exit(h)
<1> USE DEF registry, store
<1>1. ASSUME NEW a \in Attempt, Scheduler(a)
      PROVE  /\ UNCHANGED <<ops, tasks, evaluations, active>>
             /\ generation' = generation \/ Recover(a)
             /\ capability' = capability \/ Issue(a) \/ Revoke(a)
  BY <1>1 DEF Scheduler, Recover, Interrupt, Issue, Revoke
<1>2. ASSUME NEW h \in Handler, Admission(h)
      PROVE  /\ UNCHANGED <<ops, tasks, generation, capability, evaluations>>
             /\ active' = active \/ Lease(h) \/ Begin(h)
  BY <1>2 DEF Admission, Wake, WakeRefused, LeaseBusy, Lease, Begin, BeginRefused
<1>3. ASSUME NEW h \in Handler, Dispatch(h)
      PROVE  /\ UNCHANGED <<ops, generation, capability, evaluations>>
             /\ UNCHANGED <<active, tasks>> \/ Replay(h)
  BY <1>3 DEF Dispatch, ServeRefused, ServeEvaluate, ServeCheckpoint, ServeProbe,
     ServeReport, ReportRefused, Replay
<1>4. ASSUME NEW h \in Handler, Reservation(h)
      PROVE  /\ UNCHANGED <<ops, generation, capability, evaluations>>
             /\ tasks' = tasks \/ ClaimNew(h) \/ ClaimSettled(h) \/ ClaimOrphan(h)
             /\ active' = active \/ ClaimBusy(h) \/ ClaimSettled(h) \/ ClaimOrphan(h)
  BY <1>4 DEF Reservation, ClaimBusy, ClaimNew, ClaimSettled, ClaimOrphan, ClaimRefused, Reuse,
     ReuseScoped, ReuseRefused
<1>5. ASSUME NEW h \in Handler, Publication(h) \/ MeasureFails(h)
      PROVE  /\ UNCHANGED <<generation, capability>>
             /\ ops' = ops \/ Bind(h) \/ Commit(h)
             /\ tasks' = tasks \/ Abandon(h) \/ Complete(h)
             /\ evaluations' = evaluations \/ Record(h)
             /\ active' = active \/ Exit(h)
  BY <1>5 DEF Publication, Submit, Measured, Superseded, Bind, BindRefused,
     Record, RecordRefused, Abandon, Commit, Complete, PublishRefused, Exit, MeasureFails
<1>6. ASSUME NEW h \in Handler, NEW c \in Call, Arrive(h, c)
      PROVE  UNCHANGED <<tasks, generation, evaluations, active>>
  BY <1>6 DEF Arrive
<1>7. ASSUME NEW e \in Call, JobEnds(e) PROVE UNCHANGED <<registry, store>>
  BY <1>7 DEF JobEnds
<1>8. ASSUME Crash PROVE UNCHANGED <<ops, tasks, generation, evaluations>>
  BY <1>8 DEF Crash
<1>9. ASSUME UNCHANGED vars PROVE UNCHANGED <<registry, store>>
  BY <1>9 DEF vars
<1> QED  BY <1>1, <1>2, <1>3, <1>4, <1>5, <1>6, <1>7, <1>8, <1>9 DEF Next, HandlerStep

(* The type of gateway_operations.                                            *)
LEMMA OpsOf ==
  ASSUME HandlersInv
  PROVE  ops \in [Call -> [reserved : BOOLEAN, private : Job \cup {None}, answer : Job \cup {None}]]
BY DEF HandlersInv, TypeOK

(* authorize, bind and commit add to a row, once.                             *)
LEMMA ArriveOps ==
  ASSUME HandlersInv, NEW h \in Handler, NEW c \in Call, Arrive(h, c)
  PROVE  /\ OpsKept
         /\ \A d \in Call : ops'[d].private = ops[d].private /\ ops'[d].answer = ops[d].answer
         /\ \A d \in Call \ {c} : ops'[d] = ops[d]
         /\ ops'[c].reserved
<1>1. \/ ops' = ops /\ ops[c].reserved
      \/ ops' = [ops EXCEPT ![c].reserved = TRUE]
  BY DEF Arrive
<1> QED  BY <1>1, OpsOf DEF OpsKept

(* bind_operation_gateway_result writes the private result of its request.    *)
LEMMA BindOps ==
  ASSUME HandlersInv, NEW h \in Handler, Bind(h)
  PROVE  /\ OpsKept
         /\ \A d \in Call : ops'[d].reserved = ops[d].reserved /\ ops'[d].answer = ops[d].answer
         /\ \A d \in Call \ {call[h]} : ops'[d] = ops[d]
         /\ call[h] \in Call /\ ops'[call[h]].private = work[h].result
<1>1. /\ ops' = [ops EXCEPT ![call[h]].private = work[h].result] /\ pc[h] = "bind"
      /\ ops[call[h]].private \in {None, work[h].result}
  BY DEF Bind, Agrees
<1>2. call[h] \in Call
  BY <1>1, CallOf
<1> QED  BY <1>1, <1>2, OpsOf DEF OpsKept

(* commit_operation_artifact writes the response of the current generation.   *)
LEMMA CommitOps ==
  ASSUME HandlersInv, NEW h \in Handler, Commit(h)
  PROVE  /\ OpsKept
         /\ \A d \in Call : ops'[d].reserved = ops[d].reserved /\ ops'[d].private = ops[d].private
         /\ \A d \in Call \ {Current(call[h])} : ops'[d] = ops[d]
         /\ Current(call[h]) \in Call /\ ops[Current(call[h])].reserved
         /\ ops'[Current(call[h])].answer = work[h].result
<1>1. /\ ops' = [ops EXCEPT ![Current(call[h])].answer = work[h].result] /\ pc[h] = "commit"
      /\ ops[Current(call[h])].answer \in {None, work[h].result}
      /\ ops[Current(call[h])].reserved
  BY DEF Commit, Agrees
<1>2. Current(call[h]) \in Call
  BY <1>1, CallOf
<1> QED  BY <1>1, <1>2, OpsOf DEF OpsKept

(* So no step takes anything back.                                            *)
LEMMA OpsStep == ASSUME HandlersInv, [Next]_vars PROVE OpsKept
<1>1. CASE ops' = ops
  BY <1>1 DEF OpsKept
<1> QED  BY <1>1, Writers, ArriveOps, BindOps, CommitOps

(* The requests stay countable.                                               *)
LEMMA FiniteStep == HandlersInv /\ RequestsAreFinite /\ [Next]_vars => RequestsAreFinite'
<1> SUFFICES ASSUME HandlersInv, RequestsAreFinite, [Next]_vars PROVE RequestsAreFinite'
  OBVIOUS
<1> DEFINE S == {c \in Call : ops[c].reserved}
<1>1. CASE \A c \in Call : ops'[c].reserved = ops[c].reserved
  <2>1. S' = S
    BY <1>1
  <2> QED  BY <2>1 DEF RequestsAreFinite
<1>2. ASSUME NEW h \in Handler, NEW c \in Call, Arrive(h, c) PROVE RequestsAreFinite'
  <2>1. S' = S \cup {c}
    BY <1>2, ArriveOps
  <2>2. IsFiniteSet(S \cup {c})
    BY FS_AddElement DEF RequestsAreFinite
  <2> QED  BY <2>1, <2>2 DEF RequestsAreFinite
<1> QED  BY <1>1, <1>2, Writers, BindOps, CommitOps

(* A handler that runs on was running before, or has just been authorized.    *)
LEMMA Continues ==
  ASSUME HandlersInv, NEW h \in Handler, HandlerStep(h) \/ MeasureFails(h)
  PROVE  /\ loop \in {h, NoOne} /\ loop' \in {h, NoOne}
         /\ loop' = h /\ pc'[h] # "exit" => /\ call'[h] = call[h] /\ pc[h] # "idle"
                                            /\ \/ loop = h /\ pc[h] # "exit"
                                               \/ Authority(call[h])
<1>1. pc \in [Handler -> Station] /\ NoOne \notin Handler
  BY GatewayConstants DEF HandlersInv, TypeOK
<1> USE DEF GoOn, Await, Goto, Running
<1>2. CASE Admission(h)
  BY <1>1, <1>2 DEF Admission, Wake, WakeRefused, LeaseBusy, Lease, Begin, BeginRefused
<1>3. CASE Dispatch(h)
  BY <1>1, <1>3 DEF Dispatch, ServeRefused, ServeEvaluate, ServeCheckpoint, ServeProbe,
     ServeReport, ReportRefused, Replay, Serve
<1>4. CASE Reservation(h)
  BY <1>1, <1>4 DEF Reservation, ClaimBusy, ClaimNew, ClaimSettled, ClaimOrphan,
     ClaimRefused, Claim, Reuse, ReuseScoped, ReuseRefused
<1>5. CASE Publication(h) \/ MeasureFails(h)
  BY <1>1, <1>5 DEF Publication, Submit, Measured, Superseded, Bind, BindRefused,
     Record, RecordRefused, Abandon, Commit, Complete, PublishRefused, Exit, MeasureFails
<1> QED  BY <1>2, <1>3, <1>4, <1>5 DEF HandlerStep

(* The types of generations and capabilities.                                 *)
LEMMA CapabilityOf ==
  ASSUME HandlersInv
  PROVE  /\ generation \in [Attempt -> Generation]
         /\ capability \in [Attempt -> [generation : Generation, used : Nat, revoked : BOOLEAN]]
         /\ \A c \in Call : c.attempt \in Attempt /\ c.generation \in Nat
         /\ Generation \subseteq Nat
BY GatewayConstants DEF HandlersInv, TypeOK, Call, Generation

(* Generations only grow, and a capability is issued for the current one.     *)
LEMMA GenerationsGrow ==
  ASSUME HandlersInv, [Next]_vars
  PROVE  \A a \in Attempt : generation[a] \in Nat /\ generation'[a] \in Nat
                            /\ generation'[a] >= generation[a]
<1>1. generation \in [Attempt -> Generation] /\ \A a \in Attempt : generation[a] \in Nat
  BY CapabilityOf
<1>2. CASE generation' = generation
  BY <1>1, <1>2
<1>3. ASSUME NEW a \in Attempt, Recover(a)
      PROVE  generation' = [generation EXCEPT ![a] = @ + 1]
  BY <1>3 DEF Recover
<1> QED  BY <1>1, <1>2, <1>3, Writers

(* A capability moves forward and never passes the Registry.                  *)
LEMMA CapabilityStep ==
  ASSUME HandlersInv, ReservedInTime, [Next]_vars
  PROVE  \A a \in Attempt :
           /\ capability[a].generation \in Nat /\ capability'[a].generation \in Nat
           /\ capability'[a].generation >= capability[a].generation
           /\ capability'[a].generation <= generation'[a]
<1>1. /\ capability \in [Attempt -> [generation : Generation, used : Nat, revoked : BOOLEAN]]
      /\ \A a \in Attempt : capability[a].generation \in Nat
  BY CapabilityOf
<1>2. \A a \in Attempt : capability[a].generation <= generation[a]
  BY DEF ReservedInTime
<1>3. CASE \A a \in Attempt : capability'[a].generation = capability[a].generation
  BY <1>1, <1>2, <1>3, GenerationsGrow
<1>4. ASSUME NEW a \in Attempt, Issue(a)
      PROVE  /\ capability' = [capability EXCEPT
                  ![a] = [generation |-> generation[a], used |-> 0, revoked |-> FALSE]]
             /\ generation' = generation /\ capability[a].generation < generation[a]
  BY <1>4 DEF Issue, registry
<1>5. ASSUME NEW a \in Attempt, Issue(a)
      PROVE  \A b \in Attempt : /\ capability'[b].generation \in Nat
                                /\ capability'[b].generation >= capability[b].generation
                                /\ capability'[b].generation <= generation'[b]
  BY <1>1, <1>2, <1>4, <1>5, GenerationsGrow
<1>6. ASSUME NEW a \in Attempt, Revoke(a)
      PROVE  \A b \in Attempt : capability'[b].generation = capability[b].generation
  <2>1. capability' = [capability EXCEPT ![a].revoked = TRUE]
    BY <1>6 DEF Revoke
  <2> QED  BY <1>1, <2>1
<1>7. ASSUME NEW h \in Handler, NEW c \in Call, Arrive(h, c)
      PROVE  \A b \in Attempt : capability'[b].generation = capability[b].generation
  <2>1. capability' \in {capability, [capability EXCEPT ![c.attempt].used = @ + 1]}
    BY <1>7 DEF Arrive
  <2> QED  BY <1>1, <2>1
<1>8. ASSUME Crash PROVE \A b \in Attempt : capability'[b].generation = capability[b].generation
  <2>1. capability' = [a \in Attempt |-> [capability[a] EXCEPT
           !.used = Cardinality(MeteredCalls(a, capability[a].generation))]]
    BY <1>8 DEF Crash
  <2> QED  BY <1>1, <2>1
<1>9. CASE capability' = capability
  BY <1>3, <1>9
<1> QED  BY <1>1, <1>3, <1>5, <1>6, <1>7, <1>8, <1>9, Writers

(* A call changes hands only when it arrives.                                 *)
LEMMA CallsKept ==
  ASSUME HandlersInv, [Next]_vars, NEW o \in Handler, call'[o] # None
  PROVE  \/ call'[o] = call[o]
         \/ \E c \in Call : Arrive(o, c) /\ call'[o] = c
<1>0. call \in [Handler -> Call \cup {None}]
  BY DEF HandlersInv, TypeOK
<1> USE DEF handlers
<1>1. ASSUME NEW a \in Attempt, Scheduler(a) PROVE call' = call
  BY <1>1 DEF Scheduler, Recover, Interrupt, Issue, Revoke
<1>2. ASSUME NEW h \in Handler, Admission(h) PROVE call' \in {call, [call EXCEPT ![h] = None]}
  BY <1>2 DEF Admission, Wake, WakeRefused, LeaseBusy, Lease, Begin, BeginRefused
<1>3. ASSUME NEW h \in Handler, Dispatch(h) PROVE call' = call
  BY <1>3 DEF Dispatch, ServeRefused, ServeEvaluate, ServeCheckpoint, ServeProbe,
     ServeReport, ReportRefused, Replay
<1>4. ASSUME NEW h \in Handler, Reservation(h) PROVE call' = call
  BY <1>4 DEF Reservation, ClaimBusy, ClaimNew, ClaimSettled, ClaimOrphan, ClaimRefused, Reuse,
     ReuseScoped, ReuseRefused
<1>5. ASSUME NEW h \in Handler, Publication(h) \/ MeasureFails(h)
      PROVE  call' \in {call, [call EXCEPT ![h] = None]}
  BY <1>5 DEF Publication, Submit, Measured, Superseded, Bind, BindRefused,
     Record, RecordRefused, Abandon, Commit, Complete, PublishRefused, Exit, MeasureFails
<1>6. ASSUME NEW h \in Handler, NEW c \in Call, Arrive(h, c) PROVE call' = [call EXCEPT ![h] = c]
  BY <1>6 DEF Arrive
<1>7. ASSUME NEW e \in Call, JobEnds(e) PROVE call' = call
  BY <1>7 DEF JobEnds
<1>8. ~Crash
  BY DEF Crash
<1>9. ASSUME UNCHANGED vars PROVE call' = call
  BY <1>9 DEF vars
<1>10. \/ call' = call
       \/ \E h \in Handler : call' = [call EXCEPT ![h] = None]
       \/ \E h \in Handler, c \in Call : Arrive(h, c)
  BY <1>1, <1>2, <1>3, <1>4, <1>5, <1>7, <1>8, <1>9 DEF Next, HandlerStep
<1>11. ASSUME NEW h \in Handler, NEW c \in Call, Arrive(h, c)
       PROVE  call'[o] = call[o] \/ (Arrive(o, c) /\ call'[o] = c)
  BY <1>0, <1>6, <1>11
<1> QED  BY <1>0, <1>10, <1>11

(* Reservations stay within the generation of the capability.                 *)
LEMMA ReservedStep ==
  ASSUME HandlersInv, ReservedInTime, [Next]_vars
  PROVE  ReservedInTime'
<1>0. \A c \in Call : c.attempt \in Attempt /\ c.generation \in Nat
  BY CapabilityOf
<1>1. ASSUME NEW h \in Handler, NEW c \in Call, Arrive(h, c)
      PROVE  c.generation = capability[c.attempt].generation
  BY <1>1 DEF Arrive, Authority
<1>2. ASSUME NEW c \in Call, ops'[c].reserved
      PROVE  c.generation <= capability[c.attempt].generation
  <2>1. CASE ops[c].reserved
    BY <2>1 DEF ReservedInTime
  <2>2. CASE ~ops[c].reserved
    <3>1. PICK h \in Handler, d \in Call : Arrive(h, d)
      BY <1>2, <2>2, Writers, BindOps, CommitOps
    <3>2. c = d
      BY <1>2, <2>2, <3>1, ArriveOps
    <3> QED  BY <1>0, <1>1, <3>1, <3>2, CapabilityOf
  <2> QED  BY <2>1, <2>2
<1>3. ASSUME NEW c \in Call, ops'[c].reserved
      PROVE  c.generation <= capability'[c.attempt].generation
  BY <1>0, <1>2, <1>3, CapabilityStep
<1>4. ASSUME NEW c \in Call, ops'[c].answer # None PROVE ops'[c].reserved
  <2>1. CASE ops[c].answer # None
    BY <2>1, OpsStep DEF ReservedInTime, Answered, OpsKept
  <2>2. CASE ops[c].answer = None
    <3>1. PICK h \in Handler : Commit(h)
      BY <1>4, <2>2, Writers, ArriveOps, BindOps
    <3>2. c = Current(call[h]) /\ ops[c].reserved
      BY <1>4, <2>2, <3>1, CommitOps
    <3> QED  BY <3>2, OpsStep DEF OpsKept
  <2> QED  BY <2>1, <2>2
<1>5. ASSUME NEW h \in Handler, call'[h] # None PROVE ops'[call'[h]].reserved
  <2>1. CASE call'[h] = call[h]
    <3>1. call[h] \in Call /\ ops[call[h]].reserved
      BY <1>5, <2>1 DEF ReservedInTime, HandlersInv, TypeOK
    <3> QED  BY <2>1, <3>1, OpsStep DEF OpsKept
  <2>2. ASSUME NEW c \in Call, Arrive(h, c), call'[h] = c PROVE ops'[call'[h]].reserved
    BY <2>2, ArriveOps
  <2> QED  BY <1>5, <2>1, <2>2, CallsKept
<1> QED  BY <1>3, <1>4, <1>5, CapabilityStep DEF ReservedInTime, Answered

(* Only authorize reserves a request, with the loop idle, so nothing newer    *)
(* is reserved while a handler runs.                                          *)
LEMMA NoNewerStep ==
  ASSUME HandlersInv, HandlersInv', ReservedInTime, NoNewerReservation, [Next]_vars
  PROVE  NoNewerReservation'
<1>0. \A c \in Call : c.attempt \in Attempt /\ c.generation \in Nat
  BY CapabilityOf
<1> SUFFICES ASSUME NEW h \in Handler, loop' = h, pc'[h] # "exit",
                    NEW c \in Call, c.attempt = call'[h].attempt, ops'[c].reserved
             PROVE  c.generation <= call'[h].generation
  BY DEF NoNewerReservation
<1>1. ASSUME \A d \in Call : ops'[d].reserved = ops[d].reserved,
             call'[h] = call[h], loop = h /\ pc[h] # "exit"
      PROVE  c.generation <= call'[h].generation
  BY <1>1 DEF NoNewerReservation
<1>2. ASSUME NEW o \in Handler, HandlerStep(o) \/ MeasureFails(o)
      PROVE  c.generation <= call'[h].generation
  <2>1. o = h
    BY <1>2, Continues, GatewayConstants
  <2>2. \A d \in Call : ops'[d].reserved = ops[d].reserved
    <3>1. ASSUME NEW p \in Handler, NEW d \in Call PROVE ~Arrive(p, d)
      <4>1. SUFFICES ASSUME Arrive(p, d) PROVE FALSE
        OBVIOUS
      <4>2. loop = NoOne /\ loop' = p /\ pc'[p] = "lease" /\ pc[p] = "idle"
        <5>1. HandlersTyped /\ Moves(p, "lease", d, NoWork, locks[p]) /\ pc[p] = "idle"
          BY <4>1, ArriveMoves, TypeParts DEF HandlersInv
        <5>2. loop = NoOne /\ loop' = p
          BY <4>1 DEF Arrive
        <5> QED  BY <5>1, <5>2, MovesAt
      <4>3. p = h
        BY <4>2
      <4> QED  BY <1>2, <2>1, <4>2, <4>3, Continues, GatewayConstants
    <3> QED  BY <3>1, Writers, BindOps, CommitOps
  <2>3. /\ call'[h] = call[h] /\ pc[h] # "idle"
        /\ (loop = h /\ pc[h] # "exit") \/ Authority(call[h])
    BY <1>2, <2>1, Continues
  <2>4. CASE Authority(call[h])
    <3>1. call[h].generation = capability[call[h].attempt].generation
      BY <2>4 DEF Authority
    <3>2. c.generation <= capability[c.attempt].generation
      BY <2>2 DEF ReservedInTime
    <3> QED  BY <2>3, <3>1, <3>2
  <2> QED  BY <1>1, <2>2, <2>3, <2>4
<1>3. ASSUME NEW o \in Handler, NEW d \in Call, Arrive(o, d)
      PROVE  c.generation <= call'[h].generation
  <2>1. o = h /\ call'[h] = d
    <3>1. HandlersTyped /\ Moves(o, "lease", d, NoWork, locks[o])
      BY <1>3, ArriveMoves, TypeParts DEF HandlersInv
    <3>2. loop' = o
      BY <1>3 DEF Arrive
    <3> QED  BY <3>1, <3>2, MovesAt
  <2>2. d.generation = capability[d.attempt].generation
    BY <1>3 DEF Arrive, Authority
  <2>3. CASE c = d
    BY <1>0, <2>1, <2>3
  <2>4. CASE c # d
    <3>1. ops[c].reserved
      BY <1>3, <2>4, ArriveOps
    <3> QED  BY <2>1, <2>2, <3>1 DEF ReservedInTime
  <2> QED  BY <2>3, <2>4
<1>4. ASSUME UNCHANGED <<handlers, ops>> PROVE c.generation <= call'[h].generation
  BY <1>1, <1>4 DEF handlers
<1>5. ASSUME NEW a \in Attempt, Scheduler(a) PROVE UNCHANGED <<handlers, ops>>
  BY <1>5 DEF Scheduler, Recover, Interrupt, Issue, Revoke, store
<1>6. ASSUME NEW e \in Call, JobEnds(e) PROVE UNCHANGED <<handlers, ops>>
  BY <1>6 DEF JobEnds, store
<1>7. ASSUME UNCHANGED vars PROVE UNCHANGED <<handlers, ops>>
  BY <1>7 DEF vars, store
<1>8. ~Crash
  BY GatewayConstants DEF Crash
<1> QED  BY <1>2, <1>3, <1>4, <1>5, <1>6, <1>7, <1>8 DEF Next

(* The metered requests and the quota, as functions of the tables.            *)
MeteredIn(R, a, g) ==
  {c \in Call : c.attempt = a /\ c.generation = g /\ R[c].reserved /\ Metered(c.key)}

(* The quota, of capabilities C and requests R.                               *)
QuotaIn(C, R) ==
  \A a \in Attempt : /\ C[a].used = Cardinality(MeteredIn(R, a, C[a].generation))
                     /\ C[a].used <= MaxCalls

(* used_calls is the number of metered requests of the generation.            *)
LEMMA QuotaStep ==
  ASSUME HandlersInv, RequestsAreFinite, ReservedInTime, QuotaCountsRequests, [Next]_vars
  PROVE  QuotaCountsRequests'
<1> SUFFICES QuotaIn(capability', ops')
  BY LineageFixed DEF QuotaCountsRequests, MeteredCalls, QuotaIn, MeteredIn, Metered
<1>q. QuotaIn(capability, ops)
  BY DEF QuotaCountsRequests, MeteredCalls, QuotaIn, MeteredIn
<1>0. /\ capability \in [Attempt -> [generation : Generation, used : Nat, revoked : BOOLEAN]]
      /\ \A c \in Call : c.attempt \in Attempt /\ c.generation \in Nat
      /\ generation \in [Attempt -> Generation] /\ Generation \subseteq Nat
  BY CapabilityOf
<1>1. ASSUME NEW a \in Attempt, NEW g, \A c \in Call : ops'[c].reserved = ops[c].reserved
      PROVE  MeteredIn(ops', a, g) = MeteredIn(ops, a, g)
  BY <1>1 DEF MeteredIn
<1>2. ASSUME \A c \in Call : ops'[c].reserved = ops[c].reserved,
             \A a \in Attempt : /\ capability'[a].generation = capability[a].generation
                                /\ capability'[a].used = capability[a].used
      PROVE  QuotaIn(capability', ops')
  BY <1>q, <1>1, <1>2 DEF QuotaIn
<1>3. ASSUME NEW a \in Attempt, Issue(a) PROVE QuotaIn(capability', ops')
  <2>1. /\ capability' = [capability EXCEPT
             ![a] = [generation |-> generation[a], used |-> 0, revoked |-> FALSE]]
        /\ capability[a].generation < generation[a] /\ ops' = ops
    BY <1>3 DEF Issue
  <2>2. MeteredIn(ops, a, generation[a]) = {}
    <3> SUFFICES ASSUME NEW c \in MeteredIn(ops, a, generation[a]) PROVE FALSE
      OBVIOUS
    <3>1. c \in Call /\ c.attempt = a /\ c.generation = generation[a] /\ ops[c].reserved
      BY DEF MeteredIn
    <3>2. c.generation <= capability[a].generation
      BY <3>1 DEF ReservedInTime
    <3>3. capability[a].generation \in Nat /\ generation[a] \in Nat
      BY CapabilityOf
    <3> QED  BY <2>1, <3>1, <3>2, <3>3
  <2>3. Cardinality(MeteredIn(ops, a, generation[a])) = 0
    BY <2>2, FS_EmptySet
  <2>4. ASSUME NEW b \in Attempt, NEW g PROVE MeteredIn(ops', b, g) = MeteredIn(ops, b, g)
    BY <2>1 DEF MeteredIn
  <2>5. /\ capability'[a].generation = generation[a] /\ capability'[a].used = 0
        /\ \A b \in Attempt \ {a} : capability'[b] = capability[b]
    BY <1>0, <2>1
  <2>6. 0 <= MaxCalls
    BY GatewayConstants
  <2>7. ASSUME NEW b \in Attempt
        PROVE  /\ capability'[b].used = Cardinality(MeteredIn(ops', b, capability'[b].generation))
               /\ capability'[b].used <= MaxCalls
    <3>1. CASE b = a
      BY <2>3, <2>4, <2>5, <2>6, <3>1
    <3>2. CASE b # a
      BY <1>q, <2>4, <2>5, <3>2 DEF QuotaIn
    <3> QED  BY <3>1, <3>2
  <2> QED  BY <2>7 DEF QuotaIn
<1>4. ASSUME NEW a \in Attempt, Revoke(a) PROVE QuotaIn(capability', ops')
  <2>1. capability' = [capability EXCEPT ![a].revoked = TRUE] /\ ops' = ops
    BY <1>4 DEF Revoke
  <2> QED  BY <1>0, <1>2, <2>1
<1>5. ASSUME Crash PROVE QuotaIn(capability', ops')
  <2>1. /\ capability' = [a \in Attempt |-> [capability[a] EXCEPT
             !.used = Cardinality(MeteredIn(ops, a, capability[a].generation))]]
        /\ ops' = ops
    BY <1>5 DEF Crash, MeteredCalls, MeteredIn
  <2>2. \A a \in Attempt :
          capability[a].used = Cardinality(MeteredIn(ops, a, capability[a].generation))
    BY <1>q DEF QuotaIn
  <2>3. \A a \in Attempt : /\ capability'[a].generation = capability[a].generation
                           /\ capability'[a].used = capability[a].used
    BY <1>0, <2>1, <2>2
  <2> QED  BY <1>2, <2>1, <2>3
<1>6. ASSUME NEW h \in Handler, NEW c \in Call, Arrive(h, c) PROVE QuotaIn(capability', ops')
  <2>1. CASE ops[c].reserved
    <3>1. UNCHANGED <<capability, ops>>
      BY <1>6, <2>1 DEF Arrive
    <3> QED  BY <1>2, <3>1
  <2>2. CASE ~ops[c].reserved
    <3> DEFINE a == c.attempt  M == MeteredIn(ops, a, c.generation)
    <3>1. /\ ops' = [ops EXCEPT ![c].reserved = TRUE]
          /\ Metered(c.key) => capability[a].used < MaxCalls
          /\ capability' = IF Metered(c.key) THEN [capability EXCEPT ![a].used = @ + 1]
                           ELSE capability
          /\ capability[a].generation = c.generation
      BY <1>6, <2>2 DEF Arrive, Authority
    <3>2. ASSUME NEW b \in Attempt, NEW g, b # a
          PROVE  MeteredIn(ops', b, g) = MeteredIn(ops, b, g)
      BY <1>6, <3>2, ArriveOps DEF MeteredIn
    <3>3. CASE ~Metered(c.key)
      <4>1. ASSUME NEW b \in Attempt, NEW g PROVE MeteredIn(ops', b, g) = MeteredIn(ops, b, g)
        BY <1>6, <3>3, ArriveOps DEF MeteredIn
      <4>2. capability' = capability
        BY <3>1, <3>3
      <4> QED  BY <1>q, <4>1, <4>2 DEF QuotaIn
    <3>4. CASE Metered(c.key)
      <4>1. MeteredIn(ops', a, c.generation) = M \cup {c} /\ c \notin M
        BY <1>6, <2>2, <3>4, ArriveOps DEF MeteredIn
      <4>2. IsFiniteSet(M)
        <5>1. M \in SUBSET {d \in Call : ops[d].reserved}
          BY DEF MeteredIn
        <5> QED  BY <5>1, FS_Subset DEF RequestsAreFinite
      <4> HIDE DEF M
      <4>3. Cardinality(M \cup {c}) = Cardinality(M) + 1
        BY <4>1, <4>2, FS_AddElement
      <4>4. /\ capability'[a].generation = c.generation
            /\ capability'[a].used = capability[a].used + 1
            /\ \A b \in Attempt \ {a} : capability'[b] = capability[b]
            /\ capability[a].used \in Nat /\ a \in Attempt
        BY <1>0, <3>1, <3>4
      <4>5. capability[a].used = Cardinality(M)
        BY <1>q, <1>0, <3>1 DEF QuotaIn, M
      <4>6. capability'[a].used <= MaxCalls
        BY <3>1, <3>4, <4>4, GatewayConstants
      <4>7. ASSUME NEW b \in Attempt
            PROVE  /\ capability'[b].used = Cardinality(MeteredIn(ops', b, capability'[b].generation))
                   /\ capability'[b].used <= MaxCalls
        <5>1. CASE b = a
          BY <4>1, <4>3, <4>4, <4>5, <4>6, <5>1
        <5>2. CASE b # a
          BY <1>q, <3>2, <4>4, <5>2 DEF QuotaIn
        <5> QED  BY <5>1, <5>2
      <4> QED  BY <4>7 DEF QuotaIn
    <3> QED  BY <3>3, <3>4
  <2> QED  BY <2>1, <2>2
<1>7. CASE capability' = capability /\ ~(\E h \in Handler, c \in Call : Arrive(h, c))
  BY <1>2, <1>7, Writers, BindOps, CommitOps
<1> QED  BY <1>3, <1>4, <1>5, <1>6, <1>7, Writers

(* The layer as a whole.                                                      *)
LEMMA QuotaInvStep ==
  HandlersInv /\ HandlersInv' /\ QuotaInv /\ [Next]_vars => QuotaInv'
BY FiniteStep, ReservedStep, NoNewerStep, QuotaStep DEF QuotaInv

(* A handler that runs and finds its request reserved in the current          *)
(* generation is of that generation.                                          *)
LEMMA OwnGeneration ==
  ASSUME HandlersInv, QuotaInv, NEW h \in Handler, loop = h, pc[h] # "exit",
         ops[Current(call[h])].reserved
  PROVE  Current(call[h]) = call[h]
<1>0. pc[h] # "idle"
  BY DEF HandlersInv, LoopIsExclusive
<1>1. /\ call[h] \in Call /\ call[h] \in [attempt : Attempt, generation : Generation, key : Key]
      /\ Current(call[h]) \in Call
      /\ Current(call[h]).attempt = call[h].attempt
      /\ Current(call[h]).generation = generation[call[h].attempt]
  BY <1>0, CallOf DEF Call
<1>2. /\ call[h].generation \in Nat /\ generation[call[h].attempt] \in Nat
      /\ capability[call[h].attempt].generation \in Nat
  BY <1>1, CapabilityOf
<1>3. generation[call[h].attempt] <= call[h].generation
  BY <1>1 DEF QuotaInv, NoNewerReservation
<1>4. call[h].generation <= capability[call[h].attempt].generation
  BY <1>1, NoneIsNoRow DEF QuotaInv, ReservedInTime
<1>5. capability[call[h].attempt].generation <= generation[call[h].attempt]
  BY <1>1 DEF QuotaInv, ReservedInTime
<1>6. generation[call[h].attempt] = call[h].generation
  BY <1>2, <1>3, <1>4, <1>5
<1> QED  BY <1>1, <1>6 DEF Current

(* So is one that finds it answered.                                          *)
LEMMA AnsweredGeneration ==
  ASSUME HandlersInv, QuotaInv, NEW h \in Handler, loop = h, pc[h] # "exit",
         Answered(Current(call[h]))
  PROVE  Current(call[h]) = call[h]
<1>1. Current(call[h]) \in Call
  BY CallOf DEF HandlersInv, LoopIsExclusive
<1> QED  BY <1>1, OwnGeneration DEF QuotaInv, ReservedInTime

-----------------------------------------------------------------------------
(* Layer 4: the semantic Evaluate tasks.                                      *)

(* Which rows a handler may write: unlocked ones, or those it has locked.     *)
LEMMA TaskWrites ==
  ASSUME HandlersInv, LeasesInv, TasksInv, NEW h \in Handler, HandlerStep(h) \/ MeasureFails(h),
         NEW t \in Task, tasks'[t] # tasks[t]
  PROVE  Locked(t) = {} \/ t \in locks[h]
<1>0. tasks \in [Task -> TaskRow \cup {None}]
  BY DEF HandlersInv, TypeOK
<1>1. CASE Replay(h)
  BY <1>1 DEF Replay
<1>2. CASE ClaimNew(h) \/ ClaimSettled(h) \/ ClaimOrphan(h)
  <2>1. t = TaskOf(h)
    BY <1>0, <1>2 DEF ClaimNew, ClaimSettled, ClaimOrphan
  <2> QED  BY <1>2, <2>1 DEF ClaimNew, ClaimSettled, ClaimOrphan, Claim
<1>3. CASE Abandon(h) \/ Complete(h)
  <2>1. t = TaskOf(h)
    BY <1>0, <1>3 DEF Abandon, Complete
  <2>2. Settles(h)
    <3>1. pc[h] \in {"abandon", "complete"}
      BY <1>3 DEF Abandon, Complete
    <3>2. IsEvaluate(h)
      BY <3>1 DEF HandlersInv, CallsAreKnown
    <3> QED  BY <3>1, <3>2 DEF Settles, Executes
  <2> QED  BY <2>1, <2>2 DEF TasksInv, TasksAreHeld, Holds
<1>4. CASE tasks' = tasks
  BY <1>4
<1>5. ASSUME Admission(h) PROVE tasks' = tasks
  BY <1>5 DEF Admission, Wake, WakeRefused, LeaseBusy, Lease, Begin, BeginRefused, store
<1>6. ASSUME Dispatch(h) PROVE tasks' = tasks \/ Replay(h)
  BY <1>6 DEF Dispatch, ServeRefused, ServeEvaluate, ServeCheckpoint, ServeProbe,
     ServeReport, ReportRefused, store
<1>7. ASSUME Reservation(h)
      PROVE  tasks' = tasks \/ ClaimNew(h) \/ ClaimSettled(h) \/ ClaimOrphan(h)
  BY <1>7 DEF Reservation, ClaimBusy, ClaimRefused, Reuse, ReuseScoped, ReuseRefused, store
<1>8. ASSUME Publication(h) \/ MeasureFails(h)
      PROVE  tasks' = tasks \/ Abandon(h) \/ Complete(h)
  BY <1>8 DEF Publication, Submit, Measured, Superseded, Bind, BindRefused, Record, RecordRefused,
     Commit, PublishRefused, Exit, MeasureFails, store
<1> QED  BY <1>1, <1>2, <1>3, <1>4, <1>5, <1>6, <1>7, <1>8 DEF HandlerStep

(* A task is claimed, answered once, or released while it is open.            *)
Claimed(h, t) ==
  /\ ClaimNew(h) \/ ClaimOrphan(h)
  /\ t = TaskOf(h)
  /\ tasks[t] = None \/ (tasks[t] # None /\ Outcome(tasks[t]) = None)
  /\ tasks'[t].owner = Current(call[h])
  /\ tasks'[t].answer = None

(* A task gets its answer: its owner's response, or the result in hand.       *)
Settled(t) ==
  /\ tasks[t].answer = None
  /\ tasks'[t].answer # None
  /\ \/ tasks'[t].answer = ops[tasks[t].owner].answer
     \/ \E h \in Handler : Complete(h) /\ t = TaskOf(h) /\ tasks'[t].answer = work[h].result

(* Every step does one of these to a task.                                    *)
LEMMA TaskChange ==
  ASSUME HandlersInv, TasksInv, [Next]_vars, NEW t \in Task
  PROVE  /\ tasks[t] # None /\ tasks[t].answer # None => tasks'[t] = tasks[t]
         /\ tasks'[t] # None =>
              \/ \E h \in Handler : Claimed(h, t)
              \/ /\ tasks[t] # None
                 /\ tasks'[t].owner = tasks[t].owner
                 /\ tasks'[t].execution = tasks[t].execution
                 /\ tasks'[t].answer = tasks[t].answer \/ Settled(t)
<1> DEFINE Goal ==
         /\ tasks[t] # None /\ tasks[t].answer # None => tasks'[t] = tasks[t]
         /\ tasks'[t] # None =>
              \/ \E h \in Handler : Claimed(h, t)
              \/ /\ tasks[t] # None
                 /\ tasks'[t].owner = tasks[t].owner
                 /\ tasks'[t].execution = tasks[t].execution
                 /\ tasks'[t].answer = tasks[t].answer \/ Settled(t)
<1>0. /\ tasks \in [Task -> TaskRow \cup {None}]
      /\ tasks[t] # None => tasks[t] \in [owner : Call, execution : Call, answer : Job \cup {None}]
  BY DEF HandlersInv, TypeOK, TaskRow
<1>1. CASE tasks'[t] = tasks[t]
  BY <1>1
<1>2. ASSUME NEW h \in Handler, Replay(h), tasks'[t] # tasks[t] PROVE Goal
  <2>1. /\ tasks[t] # None /\ tasks[t].owner = Current(call[h]) /\ tasks[t].answer = None
        /\ tasks'[t] = [tasks[t] EXCEPT !.answer = ops[Current(call[h])].answer]
        /\ ops[Current(call[h])].answer # None
    BY <1>2 DEF Replay, Answered
  <2> QED  BY <1>0, <2>1 DEF Settled
<1>3. ASSUME NEW h \in Handler, ClaimNew(h), tasks'[t] # tasks[t] PROVE Goal
  <2>1. /\ tasks' = [tasks EXCEPT ![TaskOf(h)] =
             [owner |-> Current(call[h]), execution |-> Current(call[h]), answer |-> None]]
        /\ tasks[TaskOf(h)] = None
    BY <1>3 DEF ClaimNew
  <2>2. t = TaskOf(h)
    BY <1>0, <1>3, <2>1
  <2> QED  BY <1>0, <1>3, <2>1, <2>2 DEF Claimed
<1>4. ASSUME NEW h \in Handler, ClaimOrphan(h), tasks'[t] # tasks[t] PROVE Goal
  <2>1. /\ tasks' = [tasks EXCEPT ![TaskOf(h)].owner = Current(call[h])]
        /\ tasks[TaskOf(h)] # None /\ Outcome(tasks[TaskOf(h)]) = None
    BY <1>4 DEF ClaimOrphan
  <2>2. t = TaskOf(h)
    BY <1>0, <1>4, <2>1
  <2>3. tasks[t].answer = None
    BY <2>1, <2>2 DEF Outcome
  <2>4. tasks'[t] = [tasks[t] EXCEPT !.owner = Current(call[h])]
    BY <1>0, <2>1, <2>2
  <2> QED  BY <1>0, <1>4, <2>1, <2>2, <2>3, <2>4 DEF Claimed
<1>5. ASSUME NEW h \in Handler, ClaimSettled(h), tasks'[t] # tasks[t] PROVE Goal
  <2>1. /\ tasks' = [tasks EXCEPT ![TaskOf(h)].answer = Outcome(tasks[TaskOf(h)])]
        /\ tasks[TaskOf(h)] # None /\ Outcome(tasks[TaskOf(h)]) # None
    BY <1>5 DEF ClaimSettled
  <2>2. t = TaskOf(h)
    BY <1>0, <1>5, <2>1
  <2>3. tasks'[t] = [tasks[t] EXCEPT !.answer = Outcome(tasks[t])]
    BY <1>0, <2>1, <2>2
  <2>4. tasks[t].answer = None /\ Outcome(tasks[t]) = ops[tasks[t].owner].answer
    BY <1>0, <1>5, <2>1, <2>2, <2>3 DEF Outcome
  <2> QED  BY <1>0, <2>1, <2>2, <2>3, <2>4 DEF Settled
<1>6. ASSUME NEW h \in Handler, Abandon(h), tasks'[t] # tasks[t] PROVE Goal
  <2>1. tasks' = [tasks EXCEPT ![TaskOf(h)] =
          IF @ # None /\ @.owner = Current(call[h]) /\ @.answer = None THEN None ELSE @]
    BY <1>6 DEF Abandon
  <2> QED  BY <1>0, <1>6, <2>1
<1>7. ASSUME NEW h \in Handler, Complete(h), tasks'[t] # tasks[t] PROVE Goal
  <2>1. /\ tasks' = [tasks EXCEPT ![TaskOf(h)].answer = work[h].result]
        /\ tasks[TaskOf(h)] # None /\ pc[h] = "complete"
    BY <1>7 DEF Complete
  <2>2. t = TaskOf(h)
    BY <1>0, <1>7, <2>1
  <2>3. tasks[t].answer = None
    BY <2>1, <2>2 DEF TasksInv, TasksAreHeld, Holds, Settles
  <2>4. work[h].result # None
    BY <2>1, KnownIs DEF HandlersInv, KnownAs, Publishing
  <2>5. tasks'[t] = [tasks[t] EXCEPT !.answer = work[h].result]
    BY <1>0, <2>1, <2>2
  <2> QED  BY <1>0, <1>7, <2>1, <2>2, <2>3, <2>4, <2>5 DEF Settled
<1> QED  BY <1>1, <1>2, <1>3, <1>4, <1>5, <1>6, <1>7, Writers

(* A handler comes to hold a task by claiming it, and then keeps it.          *)
SettlesAs(s, c, w) ==
  \/ s \in {"submit", "measuring", "bind", "record", "abandon"} /\ Kind[c.key] = "evaluate"
  \/ s = "commit" /\ Kind[c.key] = "evaluate" /\ w.execution # None /\ Succeeded(w.result)
  \/ s = "complete"

(* The stations that settle a task, as a function of the handler.             *)
LEMMA SettlesIs == \A h \in Handler : Settles(h) <=> SettlesAs(pc[h], call[h], work[h])
BY DEF Settles, SettlesAs, Executes, IsEvaluate

(* Nothing that holding a task depends on changes.                            *)
Keeps(h) ==
  /\ tasks' = tasks
  /\ call'[h] = call[h]
  /\ work'[h].execution = work[h].execution
  /\ work'[h].scope = work[h].scope
  /\ locks'[h] = locks[h]

(* Every step of a handler either claims or keeps.                            *)
LEMMA SettlesMove ==
  ASSUME HandlersInv, NEW h \in Handler, HandlerStep(h) \/ MeasureFails(h),
         SettlesAs(pc'[h], call'[h], work'[h])
  PROVE  \/ ClaimNew(h) \/ ClaimOrphan(h)
         \/ SettlesAs(pc[h], call[h], work[h]) /\ Keeps(h)
<1>0. /\ HandlersTyped
      /\ KnownAs(pc[h], call[h], work[h])
      /\ work[h] \in Work
  BY TypeParts, KnownIs, WorkOf DEF HandlersInv
<1>1. ASSUME NEW s \in {"idle", "lease", "sleeping", "begin", "serve", "claim", "reuse", "exit"},
             NEW c, NEW w, NEW L, Moves(h, s, c, w, L)
      PROVE  FALSE
  BY <1>0, <1>1, MovesAt DEF SettlesAs
<1>2. ASSUME NEW s, SettlesAs(s, call[h], work[h]) => SettlesAs(pc[h], call[h], work[h]),
             Moves(h, s, call[h], work[h], locks[h]), tasks' = tasks
      PROVE  SettlesAs(pc[h], call[h], work[h]) /\ Keeps(h)
  <2>1. /\ pc'[h] = s /\ call'[h] = call[h] /\ work'[h] = work[h] /\ locks'[h] = locks[h]
    BY <1>0, <1>2, MovesAt
  <2> QED  BY <1>2, <2>1 DEF Keeps
<1>3. ASSUME NEW s \in {"submit", "bind"}, NEW w, ~IsEvaluate(h), Moves(h, s, call[h], w, locks[h])
      PROVE  FALSE
  BY <1>0, <1>3, MovesAt DEF SettlesAs, IsEvaluate
<1> USE DEF store
<1>4. CASE Refuses(h)
  BY <1>0, <1>1, <1>4, RefuseMoves
<1>5. CASE Admission(h)
  <2>1. CASE Wake(h)
    BY <1>0, <1>1, <2>1, WakeMoves
  <2>2. CASE WakeRefused(h)
    BY <1>0, <1>1, <2>2, WakeRefusedMoves
  <2>3. CASE LeaseBusy(h)
    BY <1>0, <1>1, <2>3, LeaseBusyMoves
  <2>4. CASE Lease(h)
    BY <1>0, <1>1, <2>4, LeaseMoves
  <2>5. CASE Begin(h)
    BY <1>0, <1>1, <2>5, BeginMoves
  <2> QED  BY <1>4, <1>5, <2>1, <2>2, <2>3, <2>4, <2>5 DEF Admission, Refuses
<1>6. CASE Dispatch(h)
  <2>1. CASE Replay(h)
    BY <1>0, <1>1, <2>1, ReplayMoves
  <2>2. CASE ServeEvaluate(h)
    BY <1>0, <1>1, <2>2, ServeEvaluateMoves
  <2>3. CASE ServeCheckpoint(h)
    BY <1>0, <1>3, <2>3, ServeCheckpointMoves
  <2>4. CASE ServeProbe(h)
    BY <1>0, <1>3, <2>4, ServeProbeMoves
  <2>5. CASE ServeReport(h)
    BY <1>0, <1>3, <2>5, ServeReportMoves
  <2> QED  BY <1>4, <1>6, <2>1, <2>2, <2>3, <2>4, <2>5 DEF Dispatch, Refuses
<1>7. CASE Reservation(h)
  <2>1. CASE ClaimBusy(h)
    BY <1>0, <1>1, <2>1, ClaimBusyMoves
  <2>2. CASE ClaimSettled(h)
    BY <1>0, <1>1, <2>2, ClaimSettledMoves
  <2>3. CASE Reuse(h)
    <3>1. Moves(h, "commit", call[h], work[h], locks[h]) /\ pc[h] = "reuse"
      BY <1>0, <2>3, ReuseMoves
    <3>2. work[h].execution = None
      BY <1>0, <3>1 DEF KnownAs
    <3> QED  BY <1>0, <3>1, <3>2, MovesAt DEF SettlesAs
  <2>4. CASE ReuseScoped(h)
    BY <1>0, <1>1, <2>4, ReuseScopedMoves
  <2> QED  BY <1>4, <1>7, <2>1, <2>2, <2>3, <2>4 DEF Reservation, Refuses
<1>8. CASE Publication(h) \/ MeasureFails(h)
  <2>1. CASE Submit(h)
    BY <1>0, <1>2, <2>1, SubmitMoves DEF SettlesAs
  <2>2. CASE Measured(h)
    <3> DEFINE w == [work[h] EXCEPT !.result = jobs[work[h].execution]]
    <3>1. Moves(h, "bind", call[h], w, locks[h]) /\ pc[h] = "measuring" /\ tasks' = tasks
      BY <1>0, <2>2, MeasuredMoves
    <3>2. w.execution = work[h].execution /\ w.scope = work[h].scope
      BY <1>0 DEF Work
    <3> HIDE DEF w
    <3>3. pc'[h] = "bind" /\ call'[h] = call[h] /\ work'[h] = w /\ locks'[h] = locks[h]
      BY <1>0, <3>1, MovesAt
    <3> QED  BY <3>1, <3>2, <3>3 DEF SettlesAs, Keeps
  <2>3. CASE Bind(h)
    BY <1>0, <1>2, <2>3, BindMoves DEF SettlesAs
  <2>4. CASE Record(h)
    BY <1>0, <1>2, <2>4, RecordMoves DEF SettlesAs
  <2>5. CASE Abandon(h)
    <3>1. Moves(h, "commit", call[h], work[h], locks[h]) /\ pc[h] = "abandon"
      BY <1>0, <2>5, AbandonMoves
    <3>2. ~Succeeded(work[h].result)
      BY <1>0, <3>1 DEF KnownAs
    <3> QED  BY <1>0, <3>1, <3>2, MovesAt DEF SettlesAs
  <2>6. CASE Commit(h)
    BY <1>0, <1>2, <2>6, CommitMoves DEF SettlesAs, IsEvaluate
  <2>7. CASE Complete(h)
    BY <1>0, <1>1, <2>7, CompleteMoves
  <2>8. CASE Exit(h)
    BY <1>0, <1>1, <2>8, ExitMoves
  <2> QED  BY <1>4, <1>8, <2>1, <2>2, <2>3, <2>4, <2>5, <2>6, <2>7, <2>8 DEF Publication, Refuses
<1> QED  BY <1>5, <1>6, <1>7, <1>8 DEF HandlerStep

(* Ownership as a function of the tables.                                     *)
HoldsRow(row, c, w) ==
  /\ row # None
  /\ row.answer = None
  /\ row.owner.attempt = c.attempt
  /\ row.owner.key = c.key
  /\ \/ row.owner = c /\ row.execution = w.execution
     \/ row.owner.generation > c.generation

(* Every handler that settles a task has its lease and its row.               *)
HoldsAll ==
  \A h \in Handler : SettlesAs(pc[h], call[h], work[h]) =>
    /\ <<Candidate[call[h].key], work[h].scope>> \in locks[h]
    /\ HoldsRow(tasks[<<Candidate[call[h].key], work[h].scope>>], call[h], work[h])

(* Under exclusive leases, holding is having the lease and the row.           *)
LEMMA HoldsIs == HandlersInv /\ LeasesInv => (TasksAreHeld <=> HoldsAll)
<1> SUFFICES ASSUME HandlersInv, LeasesInv PROVE TasksAreHeld <=> HoldsAll
  OBVIOUS
<1>1. ASSUME NEW h \in Handler, SettlesAs(pc[h], call[h], work[h])
      PROVE  Holds(h) <=> TaskOf(h) \in locks[h] /\ HoldsRow(tasks[TaskOf(h)], call[h], work[h])
  <2>1. pc[h] # "idle"
    BY <1>1 DEF SettlesAs
  <2>2. TaskOf(h) \in Task
    BY <2>1, CallOf
  <2>3. (\A o \in Handler : TaskOf(h) \in locks[o] <=> o = h) <=> TaskOf(h) \in locks[h]
    BY <2>2 DEF LeasesInv, LeasesAreExclusive
  <2> QED  BY <2>3 DEF Holds, HoldsRow
<1> QED  BY <1>1, SettlesIs DEF TasksAreHeld, HoldsAll, TaskOf

(* The generation of a call that is served is one the Registry has reached.   *)
LEMMA CallIsReached ==
  ASSUME HandlersInv, QuotaInv, NEW h \in Handler, pc[h] # "idle"
  PROVE  /\ call[h].generation \in Nat /\ generation[call[h].attempt] \in Nat
         /\ call[h].generation <= generation[call[h].attempt]
<1>1. call[h] \in Call /\ call[h].attempt \in Attempt /\ call[h] # None
  BY CallOf, NoneIsNoRow
<1>2. /\ call[h].generation <= capability[call[h].attempt].generation
      /\ capability[call[h].attempt].generation <= generation[call[h].attempt]
  BY <1>1 DEF QuotaInv, ReservedInTime
<1>3. /\ call[h].generation \in Nat /\ generation[call[h].attempt] \in Nat
      /\ capability[call[h].attempt].generation \in Nat
  BY <1>1, CapabilityOf
<1> QED  BY <1>2, <1>3

(* Whoever executes, publishes or completes holds its task.                   *)
LEMMA HeldStep ==
  ASSUME HandlersInv, HandlersInv', LeasesInv, LeasesInv', QuotaInv, TasksInv, [Next]_vars
  PROVE  TasksAreHeld'
<1> DEFINE T(o) == <<Candidate[call[o].key], work[o].scope>>
           Goal(o) == /\ <<Candidate[call'[o].key], work'[o].scope>> \in locks'[o]
                      /\ HoldsRow(tasks'[<<Candidate[call'[o].key], work'[o].scope>>],
                                  call'[o], work'[o])
<1>0. HoldsAll /\ HandlersTyped
  BY HoldsIs, TypeParts DEF TasksInv, HandlersInv
<1>1. SUFFICES HoldsAll'
  <2>1. (HandlersInv /\ LeasesInv => (TasksAreHeld <=> HoldsAll))'
    BY HoldsIs, PTL
  <2> QED  BY <1>1, <2>1
<1>2. SUFFICES ASSUME NEW o \in Handler, SettlesAs(pc'[o], call'[o], work'[o]) PROVE Goal(o)
  BY <1>2 DEF HoldsAll
<1>3. ASSUME pc'[o] = pc[o], call'[o] = call[o], work'[o] = work[o], locks'[o] = locks[o],
             tasks'[T(o)] = tasks[T(o)]
      PROVE  Goal(o)
  BY <1>0, <1>2, <1>3 DEF HoldsAll
<1>4. ASSUME NEW h \in Handler, HandlerStep(h) \/ MeasureFails(h), o # h PROVE Goal(o)
  <2>1. pc'[o] = pc[o] /\ call'[o] = call[o] /\ work'[o] = work[o] /\ locks'[o] = locks[o]
    BY <1>4, HandlerLeases DEF Leases, Others
  <2>2. T(o) \in locks[o] /\ pc[o] # "idle"
    BY <1>0, <1>2, <2>1 DEF HoldsAll, SettlesAs
  <2>3. T(o) \in Task /\ T(o) \notin locks[h] /\ Locked(T(o)) # {}
    BY <1>4, <2>2, CallOf DEF LeasesInv, LeasesAreExclusive, Locked, TaskOf
  <2>4. tasks'[T(o)] = tasks[T(o)]
    BY <1>4, <2>3, TaskWrites
  <2> QED  BY <1>3, <2>1, <2>4
<1>5. ASSUME ClaimNew(o) \/ ClaimOrphan(o) PROVE Goal(o)
  <2>1. pc[o] = "claim"
    BY <1>5 DEF ClaimNew, ClaimOrphan, Claim
  <2>2. /\ call[o] \in Call /\ Current(call[o]) \in Call /\ TaskOf(o) \in Task /\ work[o] \in Work
        /\ Current(call[o]).attempt = call[o].attempt /\ Current(call[o]).key = call[o].key
        /\ Current(call[o]).generation = generation[call[o].attempt]
        /\ call[o] \in [attempt : Attempt, generation : Generation, key : Key]
    BY <2>1, CallOf, WorkOf DEF Call
  <2>3. Current(call[o]) = call[o] \/ Current(call[o]).generation > call[o].generation
    <3>1. CASE generation[call[o].attempt] = call[o].generation
      BY <2>2, <3>1 DEF Current
    <3> QED  BY <2>1, <2>2, <3>1, CallIsReached
  <2>4. tasks \in [Task -> TaskRow \cup {None}]
    BY DEF HandlersInv, TypeOK
  <2>5. CASE ClaimNew(o)
    <3> DEFINE w == [work[o] EXCEPT !.execution = call[o]]
               row == [owner |-> Current(call[o]), execution |-> Current(call[o]), answer |-> None]
    <3>1. Moves(o, "submit", call[o], w, locks[o] \cup {TaskOf(o)})
      BY <1>0, <2>5, ClaimNewMoves
    <3>2. w.scope = work[o].scope /\ w.execution = call[o]
      BY <2>2 DEF Work
    <3>3. tasks' = [tasks EXCEPT ![TaskOf(o)] = row]
      BY <2>5 DEF ClaimNew
    <3>4. row # None
      BY <2>2, NoneIsNoRow DEF TaskRow
    <3>5. row.owner = Current(call[o]) /\ row.execution = Current(call[o]) /\ row.answer = None
      OBVIOUS
    <3> HIDE DEF w, row
    <3>6. call'[o] = call[o] /\ work'[o] = w /\ locks'[o] = locks[o] \cup {TaskOf(o)}
      BY <1>0, <3>1, MovesAt
    <3>7. tasks'[TaskOf(o)] = row
      BY <2>2, <2>4, <3>3
    <3>8. HoldsRow(row, call[o], w)
      BY <2>2, <2>3, <3>2, <3>4, <3>5 DEF HoldsRow
    <3> QED  BY <3>2, <3>6, <3>7, <3>8 DEF TaskOf
  <2>6. CASE ClaimOrphan(o)
    <3> DEFINE w == [work[o] EXCEPT !.execution = tasks[TaskOf(o)].execution, !.recover = TRUE]
               row == [tasks[TaskOf(o)] EXCEPT !.owner = Current(call[o])]
    <3>1. Moves(o, "submit", call[o], w, locks[o] \cup {TaskOf(o)})
      BY <1>0, <2>6, ClaimOrphanMoves
    <3>2. w.scope = work[o].scope /\ w.execution = tasks[TaskOf(o)].execution
      BY <2>2 DEF Work
    <3>3. /\ tasks' = [tasks EXCEPT ![TaskOf(o)].owner = Current(call[o])]
          /\ tasks[TaskOf(o)] # None /\ Outcome(tasks[TaskOf(o)]) = None
      BY <2>6 DEF ClaimOrphan
    <3>4. tasks[TaskOf(o)] \in TaskRow
      BY <2>2, <3>3, TaskRowOf
    <3>5. /\ row.owner = Current(call[o]) /\ row.execution = tasks[TaskOf(o)].execution
          /\ row.answer = tasks[TaskOf(o)].answer
          /\ row \in TaskRow
      BY <2>2, <3>4 DEF TaskRow
    <3>6. row.answer = None /\ row # None
      BY <3>3, <3>5, NoneIsNoRow DEF Outcome
    <3>7. tasks'[TaskOf(o)] = row
      BY <2>2, <2>4, <3>3
    <3> HIDE DEF w, row
    <3>8. call'[o] = call[o] /\ work'[o] = w /\ locks'[o] = locks[o] \cup {TaskOf(o)}
      BY <1>0, <3>1, MovesAt
    <3>9. HoldsRow(row, call[o], w)
      BY <2>2, <2>3, <3>2, <3>5, <3>6 DEF HoldsRow
    <3> QED  BY <3>2, <3>7, <3>8, <3>9 DEF TaskOf
  <2> QED  BY <1>5, <2>5, <2>6
<1>6. ASSUME HandlerStep(o) \/ MeasureFails(o) PROVE Goal(o)
  <2>1. CASE SettlesAs(pc[o], call[o], work[o]) /\ Keeps(o)
    BY <1>0, <2>1 DEF HoldsAll, Keeps, HoldsRow
  <2> QED  BY <1>2, <1>5, <1>6, <2>1, SettlesMove
<1>7. ASSUME NEW h \in Handler, NEW c \in Call, Arrive(h, c) PROVE Goal(o)
  <2>1. Moves(h, "lease", c, NoWork, locks[h]) /\ tasks' = tasks
    BY <1>0, <1>7, ArriveMoves
  <2>2. pc'[h] = "lease" /\ Others(h)
    BY <1>0, <2>1, MovesAt
  <2>3. o # h
    BY <1>2, <2>2 DEF SettlesAs
  <2> QED  BY <1>3, <2>1, <2>2, <2>3 DEF Others
<1>8. ASSUME UNCHANGED <<handlers, tasks>> PROVE Goal(o)
  BY <1>3, <1>8 DEF handlers
<1>9. ~Crash
  BY <1>2 DEF Crash, SettlesAs
<1>10. ASSUME NEW a \in Attempt, Scheduler(a) PROVE UNCHANGED <<handlers, tasks>>
  BY <1>10 DEF Scheduler, Recover, Interrupt, Issue, Revoke, store
<1>11. ASSUME NEW e \in Call, JobEnds(e) PROVE UNCHANGED <<handlers, tasks>>
  BY <1>11 DEF JobEnds, store
<1>12. ASSUME UNCHANGED vars PROVE UNCHANGED <<handlers, tasks>>
  BY <1>12 DEF vars, store
<1> HIDE DEF Goal
<1> QED  BY <1>4, <1>6, <1>7, <1>8, <1>9, <1>10, <1>11, <1>12 DEF Next

(* Reservations stay in order.                                                *)
LEMMA OrderStep ==
  ASSUME HandlersInv, LeasesInv, QuotaInv, TasksInv, [Next]_vars
  PROVE  ReservationsAreOrdered'
<1> SUFFICES ASSUME NEW t \in Task, tasks'[t] # None
             PROVE  /\ Kind[tasks'[t].owner.key] = "evaluate"
                    /\ Candidate[tasks'[t].owner.key] = t[1]
                    /\ tasks'[t].owner.generation <= generation'[tasks'[t].owner.attempt]
                    /\ t[2] # Shared => /\ tasks'[t].owner.attempt = t[2]
                                        /\ tasks'[<<t[1], Shared>>] # None
                                        /\ tasks'[<<t[1], Shared>>].answer # None
  BY DEF ReservationsAreOrdered
<1>0. <<t[1], Shared>> \in Task
  BY DEF Task
<1>1. ASSUME tasks[<<t[1], Shared>>] # None, tasks[<<t[1], Shared>>].answer # None
      PROVE  tasks'[<<t[1], Shared>>] # None /\ tasks'[<<t[1], Shared>>].answer # None
  BY <1>0, <1>1, TaskChange
<1>2. CASE tasks[t] # None /\ tasks'[t].owner = tasks[t].owner
  <2>1. /\ Kind[tasks[t].owner.key] = "evaluate"
        /\ Candidate[tasks[t].owner.key] = t[1]
        /\ tasks[t].owner.generation <= generation[tasks[t].owner.attempt]
        /\ t[2] # Shared => /\ tasks[t].owner.attempt = t[2]
                            /\ tasks[<<t[1], Shared>>] # None
                            /\ tasks[<<t[1], Shared>>].answer # None
    BY <1>2 DEF TasksInv, ReservationsAreOrdered
  <2>2. tasks[t].owner.generation \in Nat /\ tasks[t].owner.attempt \in Attempt
    BY <1>2, TaskRowOf, CapabilityOf
  <2>3. tasks[t].owner.generation <= generation'[tasks[t].owner.attempt]
    BY <2>1, <2>2, GenerationsGrow
  <2> QED  BY <1>1, <1>2, <2>1, <2>3
<1>3. ASSUME NEW h \in Handler, Claimed(h, t)
      PROVE  /\ Kind[tasks'[t].owner.key] = "evaluate"
             /\ Candidate[tasks'[t].owner.key] = t[1]
             /\ tasks'[t].owner.generation <= generation'[tasks'[t].owner.attempt]
             /\ t[2] # Shared => /\ tasks'[t].owner.attempt = t[2]
                                 /\ tasks'[<<t[1], Shared>>] # None
                                 /\ tasks'[<<t[1], Shared>>].answer # None
  <2>1. pc[h] = "claim" /\ t = TaskOf(h) /\ tasks'[t].owner = Current(call[h])
    BY <1>3 DEF Claimed, ClaimNew, ClaimOrphan, Claim
  <2>2. /\ call[h].attempt \in Attempt
        /\ Current(call[h]).attempt = call[h].attempt /\ Current(call[h]).key = call[h].key
        /\ Current(call[h]).generation = generation[call[h].attempt]
    BY <2>1, CallOf
  <2>3. Kind[call[h].key] = "evaluate"
    BY <2>1, KnownIs DEF HandlersInv, KnownAs
  <2>4. t[1] = Candidate[call[h].key] /\ t[2] = work[h].scope
    BY <2>1 DEF TaskOf
  <2>5. generation[call[h].attempt] <= generation'[call[h].attempt]
    BY <2>2, GenerationsGrow
  <2>6. t[2] # Shared => /\ call[h].attempt = t[2]
                         /\ tasks[<<t[1], Shared>>] # None
                         /\ tasks[<<t[1], Shared>>].answer # None
    BY <2>4 DEF LeasesInv, ScopesAreOwn, TasksInv, ReuseIsSettled
  <2> QED  BY <1>1, <2>1, <2>2, <2>3, <2>4, <2>5, <2>6
<1> QED  BY <1>2, <1>3, TaskChange

(* Only a settled task leads to its result, and only a result the Attempt may *)
(* not see to a scope of its own.                                             *)
Rescoped(h) ==
  /\ pc'[h] = "reuse" => ClaimSettled(h)
  /\ work'[h].scope # Shared =>
       /\ call'[h] = call[h]
       /\ \/ work'[h].scope = work[h].scope
          \/ pc[h] = "reuse" /\ work[h].scope = Shared

(* Every step of a handler keeps to that.                                     *)
LEMMA Rescopes ==
  ASSUME HandlersInv, NEW h \in Handler, HandlerStep(h) \/ MeasureFails(h)
  PROVE  Rescoped(h)
<1>0. HandlersTyped /\ work[h] \in Work /\ KnownAs(pc[h], call[h], work[h])
  BY TypeParts, WorkOf, KnownIs DEF HandlersInv
<1>1. ASSUME NEW s, s # "reuse", NEW c, NEW w, NEW L, Moves(h, s, c, w, L),
             w.scope # Shared => c = call[h] /\ w.scope = work[h].scope
      PROVE  Rescoped(h)
  BY <1>0, <1>1, MovesAt DEF Rescoped
<1>2. ASSUME NEW j PROVE /\ [work[h] EXCEPT !.result = j].scope = work[h].scope
                         /\ [work[h] EXCEPT !.execution = j].scope = work[h].scope
                         /\ [work[h] EXCEPT !.execution = j, !.recover = TRUE].scope = work[h].scope
  BY <1>0 DEF Work
<1>3. NoWork.scope = Shared
  BY DEF NoWork
<1>4. CASE Refuses(h)
  BY <1>0, <1>1, <1>4, RefuseMoves
<1>5. CASE Admission(h)
  <2>1. CASE Wake(h)
    BY <1>0, <1>1, <2>1, WakeMoves
  <2>2. CASE WakeRefused(h)
    BY <1>0, <1>1, <1>3, <2>2, WakeRefusedMoves DEF KnownAs
  <2>3. CASE LeaseBusy(h)
    BY <1>0, <1>1, <2>3, LeaseBusyMoves
  <2>4. CASE Lease(h)
    BY <1>0, <1>1, <2>4, LeaseMoves
  <2>5. CASE Begin(h)
    BY <1>0, <1>1, <2>5, BeginMoves
  <2> QED  BY <1>4, <1>5, <2>1, <2>2, <2>3, <2>4, <2>5 DEF Admission, Refuses
<1>6. CASE Dispatch(h)
  <2>1. CASE Replay(h)
    BY <1>0, <1>1, <2>1, ReplayMoves
  <2>2. CASE ServeEvaluate(h)
    BY <1>0, <1>1, <2>2, ServeEvaluateMoves
  <2>3. CASE ServeCheckpoint(h)
    BY <1>0, <1>1, <1>2, <2>3, ServeCheckpointMoves
  <2>4. CASE ServeProbe(h)
    BY <1>0, <1>1, <1>2, <2>4, ServeProbeMoves
  <2>5. CASE ServeReport(h)
    BY <1>0, <1>1, <1>2, <2>5, ServeReportMoves
  <2> QED  BY <1>4, <1>6, <2>1, <2>2, <2>3, <2>4, <2>5 DEF Dispatch, Refuses
<1>7. CASE Reservation(h)
  <2>1. CASE ClaimBusy(h)
    BY <1>0, <1>1, <1>3, <2>1, ClaimBusyMoves
  <2>2. CASE ClaimNew(h)
    BY <1>0, <1>1, <1>2, <2>2, ClaimNewMoves
  <2>3. CASE ClaimOrphan(h)
    BY <1>0, <1>1, <1>2, <2>3, ClaimOrphanMoves
  <2>4. CASE ClaimSettled(h)
    <3> DEFINE w == [work[h] EXCEPT !.result = Outcome(tasks[TaskOf(h)])]
    <3>1. Moves(h, "reuse", call[h], w, locks[h] \cup {TaskOf(h)}) /\ w.scope = work[h].scope
      BY <1>0, <1>2, <2>4, ClaimSettledMoves
    <3> HIDE DEF w
    <3>2. call'[h] = call[h] /\ work'[h] = w
      BY <1>0, <3>1, MovesAt
    <3> QED  BY <2>4, <3>1, <3>2 DEF Rescoped
  <2>5. CASE Reuse(h)
    BY <1>0, <1>1, <2>5, ReuseMoves
  <2>6. CASE ReuseScoped(h)
    <3> DEFINE w == [work[h] EXCEPT !.scope = call[h].attempt, !.result = None]
    <3>1. Moves(h, "claim", call[h], w, locks[h]) /\ pc[h] = "reuse" /\ work[h].scope = Shared
      BY <1>0, <2>6, ReuseScopedMoves
    <3> HIDE DEF w
    <3>2. pc'[h] = "claim" /\ call'[h] = call[h]
      BY <1>0, <3>1, MovesAt
    <3> QED  BY <3>1, <3>2 DEF Rescoped
  <2> QED  BY <1>4, <1>7, <2>1, <2>2, <2>3, <2>4, <2>5, <2>6 DEF Reservation, Refuses
<1>8. CASE Publication(h) \/ MeasureFails(h)
  <2>1. CASE Submit(h)
    BY <1>0, <1>1, <2>1, SubmitMoves
  <2>2. CASE Measured(h)
    BY <1>0, <1>1, <1>2, <2>2, MeasuredMoves
  <2>3. CASE Bind(h)
    BY <1>0, <1>1, <2>3, BindMoves
  <2>4. CASE Record(h)
    BY <1>0, <1>1, <2>4, RecordMoves
  <2>5. CASE Abandon(h)
    BY <1>0, <1>1, <2>5, AbandonMoves
  <2>6. CASE Commit(h)
    BY <1>0, <1>1, <2>6, CommitMoves
  <2>7. CASE Complete(h)
    BY <1>0, <1>1, <2>7, CompleteMoves
  <2>8. CASE Exit(h)
    BY <1>0, <1>1, <1>3, <2>8, ExitMoves
  <2> QED  BY <1>4, <1>8, <2>1, <2>2, <2>3, <2>4, <2>5, <2>6, <2>7, <2>8 DEF Publication, Refuses
<1> QED  BY <1>5, <1>6, <1>7, <1>8 DEF HandlerStep

(* What was settled stays settled.                                            *)
LEMMA ReuseStep ==
  ASSUME HandlersInv, LeasesInv, TasksInv, [Next]_vars
  PROVE  ReuseIsSettled'
<1> DEFINE IsSettled(t) == tasks[t] # None /\ tasks[t].answer # None
           StaysSettled(t) == tasks'[t] # None /\ tasks'[t].answer # None
<1>0. ASSUME NEW t \in Task, IsSettled(t) PROVE StaysSettled(t)
  BY <1>0, TaskChange
<1>1. SUFFICES ASSUME NEW o \in Handler
               PROVE  /\ pc'[o] = "reuse" =>
                           StaysSettled(<<Candidate[call'[o].key], work'[o].scope>>)
                      /\ work'[o].scope # Shared =>
                           StaysSettled(<<Candidate[call'[o].key], Shared>>)
  BY <1>1 DEF ReuseIsSettled, TaskOf
<1>2. /\ pc[o] = "reuse" => TaskOf(o) \in Task /\ IsSettled(TaskOf(o))
      /\ work[o].scope # Shared =>
           /\ <<Candidate[call[o].key], Shared>> \in Task
           /\ IsSettled(<<Candidate[call[o].key], Shared>>)
  <2>1. work[o].scope # Shared => pc[o] # "idle"
    BY KnownIs DEF HandlersInv, KnownAs, NoWork
  <2>2. pc[o] # "idle" => /\ TaskOf(o) \in Task
                          /\ <<Candidate[call[o].key], Shared>> \in Task
    BY CallOf DEF Task
  <2> QED  BY <2>1, <2>2 DEF TasksInv, ReuseIsSettled
<1>3. CASE pc'[o] = pc[o] /\ call'[o] = call[o] /\ work'[o] = work[o]
  BY <1>0, <1>2, <1>3 DEF TaskOf
<1>4. CASE HandlerStep(o) \/ MeasureFails(o)
  <2>1. ASSUME pc'[o] = "reuse" PROVE StaysSettled(<<Candidate[call'[o].key], work'[o].scope>>)
    <3>1. ClaimSettled(o)
      BY <1>4, <2>1, Rescopes DEF Rescoped
    <3>2. /\ pc[o] = "claim" /\ tasks[TaskOf(o)] # None /\ Outcome(tasks[TaskOf(o)]) # None
          /\ tasks' = [tasks EXCEPT ![TaskOf(o)].answer = Outcome(tasks[TaskOf(o)])]
      BY <3>1 DEF ClaimSettled, Claim
    <3>3. /\ TaskOf(o) \in Task /\ tasks \in [Task -> TaskRow \cup {None}]
          /\ tasks[TaskOf(o)] \in [owner : Call, execution : Call, answer : Job \cup {None}]
      BY <3>2, CallOf, TaskRowOf DEF TaskRow, HandlersInv, TypeOK
    <3>4. /\ tasks'[TaskOf(o)] = [tasks[TaskOf(o)] EXCEPT !.answer = Outcome(tasks[TaskOf(o)])]
      BY <3>2, <3>3
    <3>5. tasks'[TaskOf(o)].answer = Outcome(tasks[TaskOf(o)])
      BY <3>3, <3>4
    <3>6. tasks'[TaskOf(o)] # None
      <4>1. Outcome(tasks[TaskOf(o)]) \in Job \cup {None}
        BY <3>2, <3>3, TaskRowOf
      <4>2. [tasks[TaskOf(o)] EXCEPT !.answer = Outcome(tasks[TaskOf(o)])] \in TaskRow
        BY <3>3, <4>1 DEF TaskRow
      <4> QED  BY <3>4, <4>2, NoneIsNoRow
    <3>7. call'[o] = call[o] /\ work'[o].scope = work[o].scope
      <4> DEFINE w == [work[o] EXCEPT !.result = Outcome(tasks[TaskOf(o)])]
      <4>1. HandlersTyped /\ Moves(o, "reuse", call[o], w, locks[o] \cup {TaskOf(o)})
        BY <3>1, ClaimSettledMoves, TypeParts DEF HandlersInv
      <4>2. w.scope = work[o].scope
        BY WorkOf DEF Work
      <4> HIDE DEF w
      <4> QED  BY <4>1, <4>2, MovesAt
    <3> QED  BY <3>2, <3>5, <3>6, <3>7 DEF TaskOf
  <2>2. ASSUME work'[o].scope # Shared PROVE StaysSettled(<<Candidate[call'[o].key], Shared>>)
    <3>1. /\ call'[o] = call[o]
          /\ \/ work[o].scope # Shared
             \/ pc[o] = "reuse" /\ work[o].scope = Shared
      BY <1>4, <2>2, Rescopes DEF Rescoped
    <3> QED  BY <1>0, <1>2, <3>1 DEF TaskOf
  <2> QED  BY <2>1, <2>2
<1>5. CASE \E c \in Call : Arrive(o, c)
  BY <1>5, Arrived DEF NoWork
<1>6. CASE Crash
  BY <1>6 DEF Crash, NoWork
<1> HIDE DEF StaysSettled, IsSettled
<1> QED  BY <1>3, <1>4, <1>5, <1>6, OneMoves DEF Stays

(* The layer as a whole.                                                      *)
LEMMA TasksStep ==
  HandlersInv /\ HandlersInv' /\ LeasesInv /\ LeasesInv' /\ QuotaInv /\ TasksInv /\ [Next]_vars
    => TasksInv'
BY HeldStep, OrderStep, ReuseStep DEF TasksInv

-----------------------------------------------------------------------------
(* Layer 5: verdicts.                                                         *)

(* Where a handler comes from.                                                *)
LEMMA Origin ==
  ASSUME HandlersInv, NEW h \in Handler, HandlerStep(h) \/ MeasureFails(h)
  PROVE  /\ pc'[h] = "reuse" => ClaimSettled(h)
         /\ pc'[h] = "bind" => ServeCheckpoint(h) \/ ServeReport(h) \/ Measured(h)
         /\ pc'[h] = "record" => Bind(h)
         /\ pc'[h] = "abandon" => Record(h)
         /\ pc'[h] = "commit" => Reuse(h) \/ Record(h) \/ Abandon(h)
         /\ pc'[h] = "complete" => Commit(h)
         /\ pc'[h] \in Behind => pc[h] \in Behind \/ Begin(h)
         /\ pc'[h] \in Behind \ {"serve", "complete"} =>
              pc[h] \in Behind \ {"serve", "commit", "complete"} \/ ~Answered(call[h])
         /\ Begin(h) => pc'[h] = "serve"
<1>1. pc \in [Handler -> Station]
  BY DEF HandlersInv, TypeOK
<1> USE DEF GoOn, Await, Goto, Running
<1>2. CASE Admission(h)
  BY <1>1, <1>2, StationIs
  DEF Admission, Wake, WakeRefused, LeaseBusy, Lease, Begin, BeginRefused
<1>3. CASE Dispatch(h)
  BY <1>1, <1>3, StationIs
  DEF Dispatch, ServeRefused, ServeEvaluate, ServeCheckpoint, ServeProbe, ServeReport,
      ReportRefused, Replay, Serve, Begin
<1>4. CASE Reservation(h)
  <2>1. ASSUME Begin(h) PROVE FALSE
    BY <1>4, <2>1 DEF Reservation, Begin, ClaimBusy, ClaimNew, ClaimSettled, ClaimOrphan,
       ClaimRefused, Claim, Reuse, ReuseScoped, ReuseRefused
  <2>2. pc[h] \in {"claim", "reuse"}
    BY <1>4 DEF Reservation, ClaimBusy, ClaimNew, ClaimSettled, ClaimOrphan,
       ClaimRefused, Claim, Reuse, ReuseScoped, ReuseRefused
  <2>3. \/ pc'[h] \in {"sleeping", "submit", "exit", "claim"}
        \/ pc'[h] = "commit" /\ Reuse(h)
        \/ pc'[h] = "reuse" /\ ClaimSettled(h)
    BY <1>1, <1>4 DEF Reservation, ClaimBusy, ClaimNew, ClaimSettled, ClaimOrphan,
       ClaimRefused, Claim, Reuse, ReuseScoped, ReuseRefused
  <2> QED  BY <2>1, <2>2, <2>3, StationIs
<1>5. CASE Publication(h) \/ MeasureFails(h)
  <2>1. ASSUME Begin(h) PROVE FALSE
    BY <1>5, <2>1 DEF Publication, Begin, Submit, Measured, Superseded, Bind, BindRefused, Record,
       RecordRefused, Abandon, Commit, Complete, PublishRefused, Exit, MeasureFails
  <2>2. \/ pc'[h] \in {"exit", "idle"}
        \/ pc[h] = "submit" /\ pc'[h] = "measuring"
        \/ pc[h] = "measuring" /\ pc'[h] = "bind" /\ Measured(h)
        \/ pc[h] = "bind" /\ pc'[h] = "record" /\ Bind(h)
        \/ pc[h] = "record" /\ pc'[h] \in {"abandon", "commit"} /\ Record(h)
        \/ pc[h] = "abandon" /\ pc'[h] = "commit" /\ Abandon(h)
        \/ pc[h] = "commit" /\ pc'[h] = "complete" /\ Commit(h)
    BY <1>1, <1>5 DEF Publication, Submit, Measured, Superseded, Bind, BindRefused, Record,
       RecordRefused, Abandon, Commit, Complete, PublishRefused, Exit, MeasureFails
  <2> QED  BY <2>1, <2>2, StationIs
<1> QED  BY <1>2, <1>3, <1>4, <1>5 DEF HandlerStep

(* Nobody else moves, and no table is written, while a handler runs.          *)
Quiet == UNCHANGED <<handlers, ops, tasks, evaluations, active>>

(* A running handler moves itself, or nothing it reads is written.            *)
LEMMA Undisturbed ==
  ASSUME HandlersInv, HandlersInv', LeasesInv, [Next]_vars, NEW o \in Handler,
         pc'[o] \notin {"idle", "sleeping", "submit", "measuring", "lease"}
  PROVE  HandlerStep(o) \/ MeasureFails(o) \/ Quiet
<1>1. loop' = o
  BY DEF HandlersInv, LoopIsExclusive
<1>2. ASSUME NEW h \in Handler, HandlerStep(h) \/ MeasureFails(h) PROVE h = o
  BY <1>1, <1>2, Continues, GatewayConstants
<1>3. ASSUME NEW h \in Handler, NEW c \in Call, Arrive(h, c) PROVE FALSE
  BY <1>1, <1>3, Arrived
<1>4. ASSUME Crash PROVE FALSE
  BY <1>4 DEF Crash
<1>5. ASSUME NEW a \in Attempt, Scheduler(a) PROVE Quiet
  BY <1>5 DEF Scheduler, Recover, Interrupt, Issue, Revoke, store, Quiet
<1>6. ASSUME NEW e \in Call, JobEnds(e) PROVE Quiet
  BY <1>6 DEF JobEnds, store, Quiet
<1>7. ASSUME UNCHANGED vars PROVE Quiet
  BY <1>7 DEF vars, store, Quiet
<1> QED  BY <1>2, <1>3, <1>4, <1>5, <1>6, <1>7 DEF Next

(* A commit is into the row of its own request.                               *)
LEMMA CommitIsOwn ==
  ASSUME HandlersInv, QuotaInv, NEW h \in Handler, Commit(h)
  PROVE  /\ Current(call[h]) = call[h] /\ call[h] \in Call
         /\ pc[h] = "commit" /\ loop = h
         /\ OpsKept
         /\ \A d \in Call : ops'[d].private = ops[d].private
         /\ \A d \in Call \ {call[h]} : ops'[d] = ops[d]
         /\ ops'[call[h]].answer = work[h].result
         /\ work[h].result # None
<1>1. loop = h /\ pc[h] = "commit" /\ ops[Current(call[h])].reserved
  BY DEF Commit, Running
<1>2. Current(call[h]) = call[h]
  BY <1>1, OwnGeneration
<1>3. work[h].result # None
  BY <1>1, KnownIs DEF HandlersInv, KnownAs, Publishing
<1> QED  BY <1>1, <1>2, <1>3, CommitOps

(* Only a commit answers a request.                                           *)
LEMMA AnswersStep ==
  ASSUME HandlersInv, [Next]_vars
  PROVE  \/ \A d \in Call : ops'[d].answer = ops[d].answer
         \/ \E h \in Handler : Commit(h)
BY Writers, ArriveOps, BindOps

(* A request is unanswered until its handler commits.                         *)
LEMMA UnansweredStep ==
  ASSUME HandlersInv, HandlersInv', LeasesInv, LeasesInv', QuotaInv, ServedIsUnanswered, [Next]_vars
  PROVE  ServedIsUnanswered'
<1> SUFFICES ASSUME NEW o \in Handler, pc'[o] \in Behind \ {"serve", "complete"}
             PROVE  ops'[call'[o]].answer = None
  BY DEF ServedIsUnanswered, Answered
<1>1. pc'[o] \in Leased /\ pc'[o] # "idle"
  BY StationIs
<1>2. call'[o] \in Call
  BY <1>1 DEF HandlersInv, TypeOK, CallsAreKnown
<1>3. call'[o] = call[o] /\ ops[call[o]].answer = None
  <2>1. CASE HandlerStep(o) \/ MeasureFails(o)
    <3>1. call'[o] = call[o]
      BY <1>1, <2>1, HandlerLeases DEF Leases
    <3>2. pc[o] \in Behind \ {"serve", "commit", "complete"} \/ ~Answered(call[o])
      BY <2>1, Origin
    <3> QED  BY <3>1, <3>2 DEF ServedIsUnanswered, Answered
  <2>2. CASE pc'[o] = pc[o] /\ call'[o] = call[o]
    BY <2>2 DEF ServedIsUnanswered, Answered
  <2>3. ~(\E c \in Call : Arrive(o, c))
    BY Arrived, StationIs
  <2>4. ~Crash
    BY <1>1 DEF Crash
  <2> QED  BY <2>1, <2>2, <2>3, <2>4, OneMoves DEF Stays
<1>4. ASSUME NEW h \in Handler, Commit(h) PROVE call[o] # call[h]
  <2>1. SUFFICES ASSUME call[o] = call[h] PROVE FALSE
    OBVIOUS
  <2>2. /\ pc[h] = "commit"
        /\ Moves(h, IF IsEvaluate(h) /\ work[h].execution # None /\ Succeeded(work[h].result)
                    THEN "complete" ELSE "exit", call[h], work[h], locks[h])
        /\ HandlersTyped
    BY <1>4, CommitMoves, TypeParts DEF HandlersInv
  <2>3. pc'[h] \in {"complete", "exit"} /\ call'[h] = call[h]
    BY <2>2, MovesAt
  <2>4. pc'[h] \in Leased /\ pc'[h] \notin Behind \ {"serve", "complete"}
    BY <2>3, StationIs
  <2>5. o = h
    BY <1>1, <1>3, <2>1, <2>3, <2>4 DEF LeasesInv, LeasesAreExclusive
  <2> QED  BY <2>4, <2>5
<1>5. ASSUME NEW h \in Handler, Commit(h) PROVE ops'[call[o]] = ops[call[o]]
  BY <1>2, <1>3, <1>4, <1>5, CommitIsOwn
<1> QED  BY <1>2, <1>3, <1>5, AnswersStep

(* Whoever claims a task is not answered yet.                                 *)
LEMMA ClaimIsUnanswered ==
  ASSUME HandlersInv, QuotaInv, ServedIsUnanswered, NEW h \in Handler, loop = h, pc[h] = "claim"
  PROVE  ops[Current(call[h])].answer = None
<1>1. SUFFICES ASSUME Answered(Current(call[h])) PROVE FALSE
  BY DEF Answered
<1>2. Current(call[h]) = call[h]
  BY <1>1, AnsweredGeneration
<1> QED  BY <1>1, <1>2, StationIs DEF ServedIsUnanswered

(* The outcome of a reservation is a measurement that succeeded.              *)
LEMMA OutcomeStep ==
  ASSUME HandlersInv, LeasesInv, QuotaInv, TasksInv, VerdictsInv, [Next]_vars
  PROVE  OutcomeIsVerdict'
<1> DEFINE Result(t) == IF tasks'[t].answer # None THEN tasks'[t].answer
                        ELSE ops'[tasks'[t].owner].answer
<1>0. SUFFICES ASSUME NEW t \in Task, tasks'[t] # None, Result(t) # None
               PROVE  Succeeded(Result(t))
  BY <1>0 DEF OutcomeIsVerdict, Outcome
<1>1. CASE \E h \in Handler : Claimed(h, t)
  <2>1. PICK h \in Handler : Claimed(h, t)
    BY <1>1
  <2>2. /\ tasks'[t].owner = Current(call[h]) /\ tasks'[t].answer = None
        /\ pc[h] = "claim" /\ loop = h /\ ops' = ops
    BY <2>1 DEF Claimed, ClaimNew, ClaimOrphan, Claim, Running
  <2>3. ops[Current(call[h])].answer = None
    BY <2>2, ClaimIsUnanswered DEF VerdictsInv
  <2> QED  BY <1>0, <2>2, <2>3
<1>2. ASSUME tasks[t] # None, tasks'[t].owner = tasks[t].owner,
             tasks'[t].answer = tasks[t].answer \/ Settled(t)
      PROVE  Succeeded(Result(t))
  <2>0. tasks[t].owner \in Call
    BY <1>2, TaskRowOf
  <2>1. /\ Outcome(tasks[t]) # None => Succeeded(Outcome(tasks[t]))
        /\ Outcome(tasks[t]) = IF tasks[t].answer # None THEN tasks[t].answer
                               ELSE ops[tasks[t].owner].answer
    BY <1>2 DEF VerdictsInv, OutcomeIsVerdict, Outcome
  <2>2. ASSUME NEW h \in Handler, Complete(h), t = TaskOf(h), tasks'[t].answer = work[h].result
        PROVE  Succeeded(Result(t))
    <3>1. pc[h] = "complete"
      BY <2>2 DEF Complete
    <3>2. Succeeded(work[h].result)
      BY <3>1 DEF VerdictsInv, CommitsAreSafe
    <3>3. work[h].result # None
      BY <3>1, KnownIs DEF HandlersInv, KnownAs, Publishing
    <3> QED  BY <2>2, <3>2, <3>3
  <2>3. CASE Settled(t)
    BY <2>1, <2>2, <2>3 DEF Settled
  <2>4. ASSUME tasks'[t].answer = tasks[t].answer, NEW h \in Handler, Commit(h)
        PROVE  Succeeded(Result(t))
    <3>1. CASE tasks[t].answer # None \/ tasks[t].owner # call[h]
      BY <1>0, <1>2, <2>0, <2>1, <2>4, <3>1, CommitIsOwn
    <3>2. CASE tasks[t].answer = None /\ tasks[t].owner = call[h]
      <4>1. IsEvaluate(h)
        BY <1>2, <3>2 DEF TasksInv, ReservationsAreOrdered, IsEvaluate
      <4>2. /\ pc[h] = "commit" /\ Current(call[h]) = call[h]
            /\ ops'[call[h]].answer = work[h].result
        BY <2>4, CommitIsOwn
      <4>3. ~(call[h].generation < generation[call[h].attempt])
        <5>1. call[h].generation = generation[call[h].attempt] /\ call[h].generation \in Nat
          BY <4>2, CallOf, CallIsReached
        <5> QED  BY <5>1
      <4>4. Succeeded(work[h].result)
        BY <1>2, <3>2, <4>1, <4>2, <4>3 DEF VerdictsInv, CommitsAreSafe
      <4> QED  BY <1>2, <2>4, <3>2, <4>2, <4>4
    <3> QED  BY <3>1, <3>2
  <2>5. CASE tasks'[t].answer = tasks[t].answer /\ \A d \in Call : ops'[d].answer = ops[d].answer
    BY <1>0, <1>2, <2>0, <2>1, <2>5
  <2> QED  BY <1>2, <2>3, <2>4, <2>5, AnswersStep
<1> HIDE DEF Result
<1> QED  BY <1>0, <1>1, <1>2, TaskChange

(* A settled task keeps the response it was settled with.                     *)
LEMMA SettledStep ==
  ASSUME HandlersInv, LeasesInv, QuotaInv, TasksInv, VerdictsInv, OutcomeIsVerdict', [Next]_vars
  PROVE  SettledIsVerdict'
<1>0. SUFFICES ASSUME NEW t \in Task, tasks'[t] # None, tasks'[t].answer # None
               PROVE  /\ Succeeded(tasks'[t].answer)
                      /\ ops'[tasks'[t].owner].answer = tasks'[t].answer
  BY <1>0 DEF SettledIsVerdict
<1>1. Succeeded(tasks'[t].answer)
  BY <1>0 DEF OutcomeIsVerdict, Outcome
<1>2. OpsKept
  BY OpsStep
<1>3. ~(\E h \in Handler : Claimed(h, t))
  BY <1>0 DEF Claimed
<1>4. /\ tasks[t] # None /\ tasks'[t].owner = tasks[t].owner
      /\ tasks'[t].answer = tasks[t].answer \/ Settled(t)
  BY <1>0, <1>3, TaskChange
<1>5. tasks[t].owner \in Call
  BY <1>4, TaskRowOf
<1>6. ASSUME ops[tasks[t].owner].answer = tasks'[t].answer
      PROVE  ops'[tasks'[t].owner].answer = tasks'[t].answer
  BY <1>0, <1>2, <1>4, <1>5, <1>6 DEF OpsKept
<1>7. CASE tasks'[t].answer = tasks[t].answer
  BY <1>0, <1>1, <1>4, <1>6, <1>7 DEF VerdictsInv, SettledIsVerdict
<1>8. ASSUME NEW h \in Handler, Complete(h), t = TaskOf(h), tasks'[t].answer = work[h].result
      PROVE  ops[tasks[t].owner].answer = tasks'[t].answer
  BY <1>8 DEF VerdictsInv, CommitsAreSafe, Complete
<1>9. CASE Settled(t)
  BY <1>1, <1>6, <1>8, <1>9 DEF Settled
<1> QED  BY <1>4, <1>7, <1>9

(* An owner has one open task: the shared one, or its own once that is        *)
(* settled.                                                                   *)
LEMMA OneOpenTask ==
  ASSUME HandlersInv, LeasesInv, TasksInv, NEW h \in Handler, pc[h] # "idle", Holds(h),
         NEW t \in Task, tasks[t] # None, tasks[t].answer = None,
         tasks[t].owner.key = call[h].key, tasks[t].owner.attempt = call[h].attempt
  PROVE  t = TaskOf(h)
<1>1. TaskOf(h) \in Task /\ TaskOf(h)[1] = Candidate[call[h].key] /\ TaskOf(h)[2] = work[h].scope
  BY CallOf DEF TaskOf
<1>2. /\ t[1] = Candidate[call[h].key]
      /\ t[2] # Shared => /\ t[2] = call[h].attempt
                          /\ tasks[<<t[1], Shared>>].answer # None
  BY DEF TasksInv, ReservationsAreOrdered
<1>3. t = <<t[1], t[2]>>
  BY DEF Task
<1>4. work[h].scope # Shared => /\ work[h].scope = call[h].attempt
                                /\ tasks[<<Candidate[call[h].key], Shared>>].answer # None
  BY DEF LeasesInv, ScopesAreOwn, TasksInv, ReuseIsSettled
<1>5. tasks[TaskOf(h)].answer = None
  BY DEF Holds
<1>6. CASE t[2] = Shared
  BY <1>2, <1>3, <1>4, <1>6 DEF TaskOf
<1>7. CASE t[2] # Shared
  BY <1>2, <1>3, <1>4, <1>5, <1>7 DEF TaskOf
<1> QED  BY <1>6, <1>7

(* What is committed settles no task wrongly.                                 *)
LEMMA SafeStep ==
  ASSUME HandlersInv, HandlersInv', LeasesInv, QuotaInv, TasksInv, VerdictsInv, [Next]_vars
  PROVE  CommitsAreSafe'
<1>0. HandlersTyped
  BY TypeParts DEF HandlersInv
<1>1. ASSUME NEW o \in Handler, pc'[o] = "reuse" PROVE Succeeded(work'[o].result)
  <2>1. CASE Quiet
    BY <1>1, <2>1 DEF Quiet, handlers, VerdictsInv, CommitsAreSafe
  <2>2. CASE HandlerStep(o) \/ MeasureFails(o)
    <3> DEFINE w == [work[o] EXCEPT !.result = Outcome(tasks[TaskOf(o)])]
    <3>1. ClaimSettled(o)
      BY <1>1, <2>2, Origin
    <3>2. /\ Moves(o, "reuse", call[o], w, locks[o] \cup {TaskOf(o)}) /\ pc[o] = "claim"
          /\ tasks[TaskOf(o)] # None /\ Outcome(tasks[TaskOf(o)]) # None
      BY <1>0, <3>1, ClaimSettledMoves DEF ClaimSettled
    <3>3. w.result = Outcome(tasks[TaskOf(o)])
      BY WorkOf DEF Work
    <3> HIDE DEF w
    <3>4. work'[o] = w /\ TaskOf(o) \in Task
      BY <1>0, <3>2, MovesAt, CallOf
    <3> QED  BY <3>2, <3>3, <3>4 DEF VerdictsInv, OutcomeIsVerdict
  <2> QED  BY <1>1, <2>1, <2>2, Undisturbed
<1>2. ASSUME NEW o \in Handler, pc'[o] = "commit", Kind[call'[o].key] = "evaluate",
             ~Succeeded(work'[o].result), NEW t \in Task, tasks'[t] # None, tasks'[t].answer = None
      PROVE  \/ tasks'[t].owner # call'[o]
             \/ call'[o].generation < generation'[call'[o].attempt]
  <2>1. CASE Quiet
    <3>1. /\ pc[o] = "commit" /\ call'[o] = call[o] /\ work'[o] = work[o] /\ tasks' = tasks
      BY <1>2, <2>1 DEF Quiet, handlers
    <3>2. \/ tasks[t].owner # call[o]
          \/ call[o].generation < generation[call[o].attempt]
      BY <1>2, <3>1 DEF VerdictsInv, CommitsAreSafe, IsEvaluate
    <3>3. call[o].attempt \in Attempt /\ call[o].generation \in Nat
      BY <3>1, CallOf, CapabilityOf
    <3> QED  BY <3>1, <3>2, <3>3, GenerationsGrow
  <2>2. CASE Reuse(o)
    <3>1. Moves(o, "commit", call[o], work[o], locks[o]) /\ pc[o] = "reuse"
      BY <1>0, <2>2, ReuseMoves
    <3>2. work'[o] = work[o]
      BY <1>0, <3>1, MovesAt
    <3> QED  BY <1>2, <3>1, <3>2 DEF VerdictsInv, CommitsAreSafe
  <2>3. CASE Record(o)
    <3> DEFINE s == IF IsEvaluate(o) /\ ~Succeeded(work[o].result) THEN "abandon" ELSE "commit"
    <3>1. Moves(o, s, call[o], work[o], locks[o])
      BY <1>0, <2>3, RecordMoves
    <3>2. pc'[o] = s /\ call'[o] = call[o] /\ work'[o] = work[o]
      BY <1>0, <3>1, MovesAt
    <3> QED  BY <1>2, <3>2 DEF IsEvaluate
  <2>4. CASE Abandon(o)
    <3>1. /\ Moves(o, "commit", call[o], work[o], locks[o]) /\ pc[o] = "abandon"
          /\ UNCHANGED registry
      BY <1>0, <2>4, AbandonMoves
    <3>2. call'[o] = call[o] /\ work'[o] = work[o] /\ generation' = generation
      BY <1>0, <3>1, MovesAt DEF registry
    <3>3. SUFFICES ASSUME tasks'[t].owner = call[o],
                          ~(call[o].generation < generation[call[o].attempt])
                   PROVE  FALSE
      BY <3>2
    <3>4. Current(call[o]) = call[o]
      <4>1. call[o] \in [attempt : Attempt, generation : Generation, key : Key]
        BY <3>1, CallOf DEF Call
      <4>2. call[o].generation = generation[call[o].attempt]
        BY <3>1, <3>3, CallIsReached
      <4> QED  BY <4>1, <4>2 DEF Current
    <3>5. Holds(o)
      <4>1. IsEvaluate(o)
        BY <3>1 DEF HandlersInv, CallsAreKnown
      <4> QED  BY <3>1, <4>1 DEF TasksInv, TasksAreHeld, Settles, Executes
    <3>6. /\ tasks' = [tasks EXCEPT ![TaskOf(o)] =
               IF @ # None /\ @.owner = Current(call[o]) /\ @.answer = None THEN None ELSE @]
          /\ tasks \in [Task -> TaskRow \cup {None}] /\ TaskOf(o) \in Task
      BY <2>4, <3>1, CallOf DEF Abandon, HandlersInv, TypeOK
    <3>7. t # TaskOf(o)
      BY <1>2, <3>3, <3>4, <3>6
    <3>8. tasks'[t] = tasks[t]
      BY <3>6, <3>7
    <3> QED  BY <1>2, <3>1, <3>3, <3>5, <3>7, <3>8, OneOpenTask
  <2> QED  BY <1>2, <2>1, <2>2, <2>3, <2>4, Undisturbed, Origin
<1>3. ASSUME NEW o \in Handler, pc'[o] = "complete"
      PROVE  /\ tasks'[<<Candidate[call'[o].key], work'[o].scope>>].owner = call'[o]
             /\ ops'[call'[o]].answer = work'[o].result
             /\ Succeeded(work'[o].result)
  <2>1. CASE Quiet
    <3>1. /\ pc[o] = "complete" /\ call'[o] = call[o] /\ work'[o] = work[o] /\ tasks' = tasks
          /\ ops' = ops
      BY <1>3, <2>1 DEF Quiet, handlers
    <3> QED  BY <3>1 DEF VerdictsInv, CommitsAreSafe, TaskOf
  <2>2. CASE Commit(o)
    <3> DEFINE s == IF IsEvaluate(o) /\ work[o].execution # None /\ Succeeded(work[o].result)
                    THEN "complete" ELSE "exit"
    <3>1. /\ Moves(o, s, call[o], work[o], locks[o]) /\ pc[o] = "commit" /\ tasks' = tasks
      BY <1>0, <2>2, CommitMoves
    <3>2. pc'[o] = s /\ call'[o] = call[o] /\ work'[o] = work[o]
      BY <1>0, <3>1, MovesAt
    <3>3. IsEvaluate(o) /\ work[o].execution # None /\ Succeeded(work[o].result)
      BY <1>3, <3>2
    <3>4. Holds(o)
      BY <3>1, <3>3 DEF TasksInv, TasksAreHeld, Settles
    <3>5. Current(call[o]) = call[o] /\ ops'[call[o]].answer = work[o].result
      BY <2>2, CommitIsOwn
    <3>6. ~(tasks[TaskOf(o)].owner.generation > call[o].generation)
      <4>1. tasks[TaskOf(o)].owner.generation <= generation[call[o].attempt]
        BY <3>1, <3>4, CallOf DEF TasksInv, ReservationsAreOrdered, Holds
      <4>2. generation[call[o].attempt] = call[o].generation /\ call[o].generation \in Nat
        BY <3>1, <3>5, CallOf, CallIsReached
      <4>3. tasks[TaskOf(o)].owner.generation \in Nat
        BY <3>1, <3>4, CallOf, TaskRowOf, CapabilityOf DEF Holds
      <4> QED  BY <4>1, <4>2, <4>3
    <3> QED  BY <3>1, <3>2, <3>3, <3>4, <3>5, <3>6 DEF Holds, TaskOf
  <2> QED  BY <1>3, <2>1, <2>2, Undisturbed, Origin
<1> QED  BY <1>1, <1>2, <1>3 DEF CommitsAreSafe, IsEvaluate, TaskOf

(* The layer as a whole.                                                      *)
LEMMA VerdictsStep ==
  /\ HandlersInv /\ HandlersInv' /\ LeasesInv /\ LeasesInv' /\ QuotaInv /\ TasksInv
  /\ VerdictsInv /\ [Next]_vars
  => VerdictsInv'
BY UnansweredStep, OutcomeStep, SafeStep, SettledStep DEF VerdictsInv

-----------------------------------------------------------------------------
(* Layer 6: the report barrier.                                               *)

(* The rows of the former owner of a task are not those of a live call: a     *)
(* live owner would hold the task's lease.                                    *)
LEMMA FormerOwnerIsGone ==
  ASSUME HandlersInv, LeasesInv, TasksInv, NEW h \in Handler,
         ClaimSettled(h) \/ ClaimOrphan(h),
         NEW o \in Handler, o # h, pc[o] \in Behind
  PROVE  call[o] # tasks[TaskOf(h)].owner
<1>1. SUFFICES ASSUME call[o] = tasks[TaskOf(h)].owner PROVE FALSE
  OBVIOUS
<1>2. loop = h /\ pc[h] = "claim" /\ tasks[TaskOf(h)] # None /\ Locked(TaskOf(h)) = {}
  BY DEF ClaimSettled, ClaimOrphan, Claim, Running
<1>3. TaskOf(h) \in Task
  BY <1>2, CallOf
<1>4. pc[o] \in {"submit", "measuring"}
  BY <1>2, StationIs DEF HandlersInv, LoopIsExclusive
<1>5. /\ Kind[call[o].key] = "evaluate"
      /\ TaskOf(h)[1] = Candidate[call[o].key]
      /\ TaskOf(h)[2] # Shared => /\ call[o].attempt = TaskOf(h)[2]
                                  /\ tasks[<<TaskOf(h)[1], Shared>>].answer # None
  BY <1>1, <1>2, <1>3 DEF TasksInv, ReservationsAreOrdered
<1>6. Holds(o)
  BY <1>4, <1>5 DEF TasksInv, TasksAreHeld, Settles, Executes, IsEvaluate
<1>7. TaskOf(o) \in locks[o] /\ tasks[TaskOf(o)].answer = None
  BY <1>6 DEF Holds
<1>8. TaskOf(h) \notin locks[o]
  BY <1>2 DEF Locked
<1>9. work[o].scope # Shared => /\ work[o].scope = call[o].attempt
                                /\ <<Candidate[call[o].key], Shared>> \in locks[o]
  BY DEF LeasesInv, ScopesAreOwn
<1>10. TaskOf(h) = <<TaskOf(h)[1], TaskOf(h)[2]>>
  BY DEF TaskOf
<1>11. TaskOf(o) = <<Candidate[call[o].key], work[o].scope>>
  BY DEF TaskOf
<1> QED  BY <1>5, <1>7, <1>8, <1>9, <1>10, <1>11

(* An executing call was executing before, or begins.                         *)
LEMMA BehindFrom ==
  ASSUME HandlersInv, LeasesInv, [Next]_vars, NEW o \in Handler, pc'[o] \in Behind
  PROVE  call'[o] = call[o] /\ (pc[o] \in Behind \/ Begin(o))
<1>1. pc'[o] \in Leased
  BY StationIs
<1>2. CASE HandlerStep(o) \/ MeasureFails(o)
  BY <1>1, <1>2, HandlerLeases, Origin DEF Leases
<1>3. ~(\E c \in Call : Arrive(o, c))
  BY Arrived, StationIs
<1>4. ~Crash
  BY StationIs DEF Crash
<1> QED  BY <1>2, <1>3, <1>4, OneMoves DEF Stays

(* A handler stays at its stations until it drops its active call.            *)
LEMMA LeavesActive ==
  ASSUME HandlersInv, NEW h \in Handler, HandlerStep(h) \/ MeasureFails(h),
         pc[h] \in Leased \ {"begin"}
  PROVE  \/ pc'[h] \in Leased \ {"begin"} /\ call'[h] = call[h]
         \/ active' = active \ OwnCalls(h)
<1>1. pc \in [Handler -> Station]
  BY DEF HandlersInv, TypeOK
<1> USE DEF GoOn, Await, Goto, Running
<1>2. CASE Admission(h)
  BY <1>1, <1>2, StationIs
  DEF Admission, Wake, WakeRefused, LeaseBusy, Lease, Begin, BeginRefused
<1>3. CASE Dispatch(h)
  BY <1>1, <1>3, StationIs
  DEF Dispatch, ServeRefused, ServeEvaluate, ServeCheckpoint, ServeProbe, ServeReport,
      ReportRefused, Replay, Serve
<1>4. CASE Reservation(h)
  BY <1>1, <1>4, StationIs
  DEF Reservation, ClaimBusy, ClaimNew, ClaimSettled, ClaimOrphan, ClaimRefused, Claim,
      Reuse, ReuseScoped, ReuseRefused
<1>5. CASE Publication(h) \/ MeasureFails(h)
  BY <1>1, <1>5, StationIs
  DEF Publication, Submit, Measured, Superseded, Bind, BindRefused, Record, RecordRefused,
      Abandon, Commit, Complete, PublishRefused, Exit, MeasureFails
<1> QED  BY <1>2, <1>3, <1>4, <1>5 DEF HandlerStep

(* Rows of live handlers are written by operation_execution.                  *)
LEMMA ActiveFrom ==
  ASSUME HandlersInv, [Next]_vars, NEW row \in active', row.by # Dead
  PROVE  row \in active \/ \E h \in Handler : Begin(h) /\ row = [by |-> h, call |-> call[h]]
<1>1. ~Crash
  BY DEF Crash
<1>2. ASSUME NEW h \in Handler, Lease(h) \/ Replay(h) \/ ClaimBusy(h) \/ ClaimSettled(h)
                                \/ ClaimOrphan(h) \/ Exit(h)
      PROVE  active' \subseteq active
  BY <1>2 DEF Lease, Replay, ClaimBusy, ClaimSettled, ClaimOrphan, Exit
<1>3. ASSUME NEW h \in Handler, Begin(h) PROVE active' = active \cup {[by |-> h, call |-> call[h]]}
  BY <1>3 DEF Begin
<1> QED  BY <1>1, <1>2, <1>3, Writers

(* A live row belongs to the call its handler serves.                         *)
LEMMA OwnStep ==
  ASSUME HandlersInv, LeasesInv, ActiveCallsAreOwn, [Next]_vars
  PROVE  ActiveCallsAreOwn'
<1>0. SUFFICES ASSUME NEW row \in active', row.by # Dead
               PROVE  row.call = call'[row.by] /\ pc'[row.by] \in Leased \ {"begin"}
  BY <1>0 DEF ActiveCallsAreOwn
<1>1. ASSUME NEW h \in Handler, Begin(h), row = [by |-> h, call |-> call[h]]
      PROVE  row.call = call'[row.by] /\ pc'[row.by] \in Leased \ {"begin"}
  <2>1. HandlersTyped /\ Moves(h, "serve", call[h], work[h], locks[h])
    BY <1>1, BeginMoves, TypeParts DEF HandlersInv
  <2>2. pc'[h] = "serve" /\ call'[h] = call[h]
    BY <2>1, MovesAt
  <2> QED  BY <1>1, <2>2, StationIs
<1>2. ASSUME row \in active PROVE row.call = call'[row.by] /\ pc'[row.by] \in Leased \ {"begin"}
  <2> DEFINE o == row.by
  <2>1. o \in Handler
    BY <1>0, <1>2 DEF HandlersInv, TypeOK
  <2>2. row.call = call[o] /\ pc[o] \in Leased \ {"begin"}
    BY <1>0, <1>2 DEF ActiveCallsAreOwn
  <2>3. CASE HandlerStep(o) \/ MeasureFails(o)
    <3>1. active' # active \ OwnCalls(o)
      BY <1>0, <1>2 DEF OwnCalls
    <3> QED  BY <2>1, <2>2, <2>3, <3>1, LeavesActive
  <2>4. ~(\E c \in Call : Arrive(o, c))
    BY <2>2, StationIs DEF Arrive
  <2>5. ~Crash
    BY <1>0 DEF Crash
  <2>6. CASE Stays(o)
    BY <2>2, <2>6 DEF Stays
  <2> QED  BY <2>1, <2>3, <2>4, <2>5, <2>6, OneMoves
<1> QED  BY <1>0, <1>1, <1>2, ActiveFrom

(* No step removes the row of a call that executes.                           *)
LEMMA CoverStep ==
  ASSUME HandlersInv, LeasesInv, QuotaInv, TasksInv, BarrierCoversCalls, [Next]_vars
  PROVE  BarrierCoversCalls'
<1>0. SUFFICES ASSUME NEW o \in Handler, pc'[o] \in Behind
               PROVE  [by |-> o, call |-> call'[o]] \in active'
  BY <1>0 DEF BarrierCoversCalls
<1> DEFINE row == [by |-> o, call |-> call[o]]
<1>1. call'[o] = call[o] /\ (pc[o] \in Behind \/ Begin(o))
  BY <1>0, BehindFrom
<1>2. CASE Begin(o)
  BY <1>1, <1>2 DEF Begin
<1>3. ASSUME pc[o] \in Behind PROVE row \in active'
  <2>1. row \in active /\ pc[o] \in Leased /\ pc[o] # "lease"
    BY <1>3, StationIs DEF BarrierCoversCalls
  <2>2. row.by = o /\ row.call = call[o]
    OBVIOUS
  <2> HIDE DEF row
  <2>3. ASSUME NEW h \in Handler, Lease(h) PROVE row \in active'
    <3>1. call[o] # call[h]
      BY <2>1, <2>3 DEF Lease, Serving
    <3> QED  BY <2>1, <2>2, <2>3, <3>1 DEF Lease
  <2>4. ASSUME NEW h \in Handler, Begin(h) PROVE row \in active'
    BY <2>1, <2>4 DEF Begin
  <2>5. ASSUME NEW h \in Handler, Replay(h) PROVE row \in active'
    <3>1. loop = h /\ pc[h] = "serve" /\ Answered(Current(call[h]))
      BY <2>5 DEF Replay, Running
    <3>2. Current(call[h]) = call[h]
      BY <3>1, AnsweredGeneration
    <3>3. o = h \/ call[o] # call[h]
      BY <2>1, <3>1, StationIs DEF LeasesInv, LeasesAreExclusive
    <3>4. \A t \in Task : tasks[t].owner = Current(call[h]) => row \notin FormerOwner(h, t)
      BY <2>2, <3>2, <3>3 DEF FormerOwner
    <3> QED  BY <2>1, <2>5, <3>4 DEF Replay
  <2>6. ASSUME NEW h \in Handler, ClaimSettled(h) \/ ClaimOrphan(h) PROVE row \in active'
    <3>1. row \notin FormerOwner(h, TaskOf(h))
      BY <1>3, <2>2, <2>6, FormerOwnerIsGone DEF FormerOwner
    <3> QED  BY <2>1, <2>6, <3>1 DEF ClaimSettled, ClaimOrphan
  <2>7. ASSUME NEW h \in Handler, ClaimBusy(h) PROVE row \in active'
    <3>1. HandlersTyped /\ Moves(h, "sleeping", call[h], NoWork, {})
      BY <2>7, ClaimBusyMoves, TypeParts DEF HandlersInv
    <3>2. o # h
      BY <1>0, <3>1, MovesAt, StationIs
    <3> QED  BY <2>1, <2>2, <2>7, <3>2 DEF ClaimBusy, OwnCalls
  <2>8. ASSUME NEW h \in Handler, Exit(h) PROVE row \in active'
    <3>1. HandlersTyped /\ Moves(h, "idle", None, NoWork, {})
      BY <2>8, ExitMoves, TypeParts DEF HandlersInv
    <3>2. o # h
      BY <1>0, <3>1, MovesAt, StationIs
    <3> QED  BY <2>1, <2>2, <2>8, <3>2 DEF Exit, OwnCalls
  <2>9. ~Crash
    BY <1>0, StationIs DEF Crash
  <2> QED  BY <2>1, <2>3, <2>4, <2>5, <2>6, <2>7, <2>8, <2>9, Writers
<1> QED  BY <1>1, <1>2, <1>3

(* operation_execution lets a report in only when nothing else executes, and  *)
(* nothing else while it does.                                                *)
LEMMA AloneStep ==
  ASSUME HandlersInv, LeasesInv, BarrierCoversCalls, ReportsAreAlone, [Next]_vars
  PROVE  ReportsAreAlone'
<1>0. SUFFICES ASSUME NEW h \in Handler, NEW o \in Handler, pc'[h] \in Behind, pc'[o] \in Behind,
                      IsReport(call'[h].key), call'[h].attempt = call'[o].attempt,
                      call'[h].generation = call'[o].generation
               PROVE  h = o
  BY <1>0 DEF ReportsAreAlone
<1>1. /\ call'[h] = call[h] /\ (pc[h] \in Behind \/ Begin(h))
      /\ call'[o] = call[o] /\ (pc[o] \in Behind \/ Begin(o))
  BY <1>0, BehindFrom
<1>2. CASE pc[h] \in Behind /\ pc[o] \in Behind
  BY <1>0, <1>1, <1>2 DEF ReportsAreAlone
<1>3. CASE Begin(h) /\ Begin(o)
  BY <1>3 DEF Begin, Running
<1>4. ASSUME NEW x \in Handler, NEW y \in Handler, Begin(x), pc[y] \in Behind,
             call[y].attempt = call[x].attempt, call[y].generation = call[x].generation,
             IsReport(call[x].key) \/ IsReport(call[y].key)
      PROVE  FALSE
  <2>1. [by |-> y, call |-> call[y]] \in active
    BY <1>4 DEF BarrierCoversCalls
  <2>2. [by |-> y, call |-> call[y]] \in Barrier(call[x])
    BY <1>4, <2>1 DEF Barrier
  <2> QED  BY <1>4, <2>2 DEF Begin
<1>5. CASE Begin(h) /\ pc[o] \in Behind
  BY <1>0, <1>1, <1>4, <1>5
<1>6. CASE Begin(o) /\ pc[h] \in Behind
  BY <1>0, <1>1, <1>4, <1>6
<1> QED  BY <1>1, <1>2, <1>3, <1>5, <1>6

(* The layer as a whole.                                                      *)
LEMMA BarrierStep ==
  /\ HandlersInv /\ LeasesInv /\ QuotaInv /\ TasksInv /\ BarrierInv /\ [Next]_vars
  => BarrierInv'
BY OwnStep, CoverStep, AloneStep DEF BarrierInv

-----------------------------------------------------------------------------
(* Layer 7: what is answered, and the reports.                                *)

(* Appending keeps what was there.                                            *)
LEMMA AppendKeeps ==
  ASSUME NEW S, NEW s \in Seq(S), NEW e \in S, NEW i \in 1..Len(s)
  PROVE  i \in 1..Len(Append(s, e)) /\ Append(s, e)[i] = s[i]
OBVIOUS

(* Evaluations are only added, and nothing is hidden that was seen.            *)
LEMMA EvaluationsGrow ==
  ASSUME HandlersInv, [Next]_vars, NEW c \in Call, Supported(c)
  PROVE  Supported(c)'
<1>0. lineage' = lineage
  BY LineageFixed
<1>1. CASE lineage.dev \/ evaluations' = evaluations
  BY <1>0, <1>1 DEF Supported, Sees
<1>2. ASSUME NEW h \in Handler, Record(h), ~lineage.dev, evaluations' # evaluations
      PROVE  Supported(c)'
  <2> DEFINE a == call[h].attempt
             e == [call |-> call[h], job |-> work[h].result]
  <2>1. /\ pc[h] = "record"
        /\ evaluations' = [evaluations EXCEPT ![a] = Append(evaluations[a], e)]
    BY <1>2 DEF Record
  <2>2. /\ evaluations \in [Attempt -> Seq([call : Call, job : Job])]
        /\ call[h] \in Call /\ a \in Attempt /\ c.attempt \in Attempt
    BY <2>1, CallOf, CapabilityOf DEF HandlersInv, TypeOK
  <2>3. e \in [call : Call, job : Job]
    BY <2>1, <2>2, WorkOf, KnownIs DEF HandlersInv, KnownAs, Publishing
  <2>4. PICK b \in Sees(c.attempt) : \E i \in 1..Len(evaluations[b]) :
          /\ evaluations[b][i].job.verdict = "correct"
          /\ Candidate[evaluations[b][i].call.key] = Candidate[c.key]
    BY <1>2 DEF Supported
  <2>5. PICK i \in 1..Len(evaluations[b]) :
          /\ evaluations[b][i].job.verdict = "correct"
          /\ Candidate[evaluations[b][i].call.key] = Candidate[c.key]
    BY <2>4
  <2>6. b \in Attempt /\ b \in Sees(c.attempt)'
    BY <1>0, <2>2, <2>4 DEF Sees
  <2> HIDE DEF e, a
  <2>7. i \in 1..Len(evaluations'[b]) /\ evaluations'[b][i] = evaluations[b][i]
    <3>1. CASE b = a
      <4>1. evaluations'[b] = Append(evaluations[b], e)
        BY <2>1, <2>2, <3>1
      <4>2. evaluations[b] \in Seq([call : Call, job : Job])
        BY <2>2, <2>6
      <4> QED  BY <2>3, <4>1, <4>2, AppendKeeps
    <3>2. CASE b # a
      BY <2>1, <2>2, <2>6, <3>2
    <3> QED  BY <3>1, <3>2
  <2> QED  BY <2>5, <2>6, <2>7 DEF Supported
<1> QED  BY <1>1, <1>2, Writers

(* A correct row of an Attempt it sees supports a nomination.                 *)
LEMMA RowSupports ==
  ASSUME NEW c \in Call, NEW a \in Sees(c.attempt), NEW G,
         NEW i \in Rows(a, Candidate[c.key], G), evaluations[a][i].job.verdict = "correct"
  PROVE  Supported(c)
BY DEF Rows, Supported

(* Whatever find_candidate_evaluation accepts supports the nomination.        *)
LEMMA EarnedIsSupported ==
  ASSUME NEW c \in Call, Earned(c)
  PROVE  Supported(c)
<1>0. c.attempt \in Sees(c.attempt)
  BY DEF Sees, Call
<1>1. ASSUME NEW a \in Sees(c.attempt), NEW G, NewestIsReusable(a, Rows(a, Candidate[c.key], G))
      PROVE  Supported(c)
  BY <1>1, RowSupports DEF NewestIsReusable
<1>2. CASE Fresh(c) # {}
  BY <1>0, <1>2, RowSupports DEF Earned, Fresh, NewestIsCorrect
<1>3. CASE Fresh(c) = {} /\ lineage.experiments
  BY <1>1, <1>3 DEF Earned, Adoptable
<1>4. CASE Fresh(c) = {} /\ ~lineage.experiments
  BY <1>1, <1>4 DEF Earned, Historical
<1> QED  BY <1>2, <1>3, <1>4

(* An Attempt sees what the Attempts it sees see, and goes on seeing it.      *)
LEMMA SeesOn ==
  ASSUME HandlersInv, [Next]_vars
  PROVE  /\ \A a : Sees(a)' = Sees(a)
         /\ \A a : \A b \in Sees(a) : Sees(b) \subseteq Sees(a)
BY LineageFixed DEF Sees

(* What is about to be committed is backed.                                   *)
LEMMA BackedStep ==
  ASSUME HandlersInv, HandlersInv', LeasesInv, AnswersInv, [Next]_vars
  PROVE  CommitsAreBacked'
<1>0. HandlersTyped
  BY TypeParts DEF HandlersInv
<1>1. ASSUME NEW o \in Handler, pc'[o] = "record" PROVE ops'[call'[o]].private = work'[o].result
  <2>1. CASE Quiet
    BY <1>1, <2>1 DEF Quiet, handlers, AnswersInv, CommitsAreBacked
  <2>2. CASE Bind(o)
    <3>1. Moves(o, "record", call[o], work[o], locks[o])
      BY <1>0, <2>2, BindMoves
    <3>2. call'[o] = call[o] /\ work'[o] = work[o]
      BY <1>0, <3>1, MovesAt
    <3> QED  BY <2>2, <3>2, BindOps
  <2> QED  BY <1>1, <2>1, <2>2, Undisturbed, Origin
<1>2. ASSUME NEW o \in Handler, pc'[o] = "abandon" PROVE ops'[call'[o]].private = work'[o].result
  <2>1. CASE Quiet
    BY <1>2, <2>1 DEF Quiet, handlers, AnswersInv, CommitsAreBacked
  <2>2. CASE Record(o)
    <3>1. /\ Moves(o, IF IsEvaluate(o) /\ ~Succeeded(work[o].result) THEN "abandon" ELSE "commit",
                   call[o], work[o], locks[o])
          /\ pc[o] = "record" /\ ops' = ops
      BY <1>0, <2>2, RecordMoves
    <3>2. call'[o] = call[o] /\ work'[o] = work[o]
      BY <1>0, <3>1, MovesAt
    <3> QED  BY <3>1, <3>2 DEF AnswersInv, CommitsAreBacked
  <2> QED  BY <1>2, <2>1, <2>2, Undisturbed, Origin
<1>3. ASSUME NEW o \in Handler, pc'[o] = "commit"
      PROVE  \/ ops'[call'[o]].private = work'[o].result
             \/ /\ Kind[call'[o].key] = "evaluate"
                /\ \E d \in Call : /\ d.attempt \in Sees(call'[o].attempt)
                                   /\ ops'[d].answer = work'[o].result
                                   /\ ops'[d].private = work'[o].result
  <2>1. CASE Quiet
    <3>1. pc[o] = "commit" /\ call'[o] = call[o] /\ work'[o] = work[o] /\ ops' = ops
      BY <1>3, <2>1 DEF Quiet, handlers
    <3> QED  BY <3>1 DEF AnswersInv, CommitsAreBacked, IsEvaluate
  <2>2. CASE Record(o) \/ Abandon(o)
    <3>1. /\ call'[o] = call[o] /\ work'[o] = work[o]
          /\ pc[o] \in {"record", "abandon"} /\ ops' = ops
      <4>1. CASE Record(o)
        <5>1. /\ Moves(o, IF IsEvaluate(o) /\ ~Succeeded(work[o].result) THEN "abandon" ELSE "commit",
                       call[o], work[o], locks[o])
              /\ pc[o] = "record" /\ ops' = ops
          BY <1>0, <4>1, RecordMoves
        <5> QED  BY <1>0, <5>1, MovesAt
      <4>2. CASE Abandon(o)
        <5>1. /\ Moves(o, "commit", call[o], work[o], locks[o])
              /\ pc[o] = "abandon" /\ ops' = ops
          BY <1>0, <4>2, AbandonMoves
        <5> QED  BY <1>0, <5>1, MovesAt
      <4> QED  BY <2>2, <4>1, <4>2
    <3> QED  BY <3>1 DEF AnswersInv, CommitsAreBacked
  <2>3. CASE Reuse(o)
    <3>1. /\ Moves(o, "commit", call[o], work[o], locks[o])
          /\ pc[o] = "reuse" /\ ops' = ops
      BY <1>0, <2>3, ReuseMoves DEF store
    <3>2. call'[o] = call[o] /\ work'[o] = work[o]
      BY <1>0, <3>1, MovesAt
    <3>3. Kind[call[o].key] = "evaluate" /\ work[o].result # None
      BY <3>1, KnownIs DEF HandlersInv, KnownAs
    <3>4. PICK c \in Call : c.attempt \in Sees(call[o].attempt) /\ ops[c].answer = work[o].result
      BY <2>3 DEF Reuse, Visible
    <3>5. \E d \in Call : /\ d.attempt \in Sees(c.attempt)
                          /\ ops[d].answer = ops[c].answer
                          /\ ops[d].private = ops[c].answer
      <4>1. c.attempt \in Sees(c.attempt)
        BY DEF Sees, Call
      <4> QED  BY <3>3, <3>4, <4>1 DEF AnswersInv, AnswerIsItsOwn, Answered
    <3>6. Sees(c.attempt) \subseteq Sees(call[o].attempt)
      BY <3>4, SeesOn
    <3> QED  BY <3>1, <3>2, <3>3, <3>4, <3>5, <3>6
  <2> QED  BY <1>3, <2>1, <2>2, <2>3, Undisturbed, Origin
<1>4. ASSUME NEW o \in Handler PROVE Sees(call[o].attempt)' = Sees(call'[o].attempt)
  BY LineageFixed DEF Sees
<1> QED  BY <1>1, <1>2, <1>3, <1>4 DEF CommitsAreBacked, IsEvaluate

(* A response is the result of its own request, or one its Attempt sees.      *)
LEMMA OwnAnswerStep ==
  ASSUME HandlersInv, QuotaInv, AnswersInv, [Next]_vars
  PROVE  AnswerIsItsOwn'
<1>0. SUFFICES ASSUME NEW c \in Call, ops'[c].answer # None
               PROVE  \/ ops'[c].private = ops'[c].answer
                      \/ /\ Kind[c.key] = "evaluate"
                         /\ \E d \in Call : /\ d.attempt \in Sees(c.attempt)
                                            /\ ops'[d].answer = ops'[c].answer
                                            /\ ops'[d].private = ops'[c].answer
  BY <1>0, LineageFixed DEF AnswerIsItsOwn, Answered, Sees
<1>1. OpsKept
  BY OpsStep
<1>2. CASE ops[c].answer # None
  <2>1. ops'[c].answer = ops[c].answer
    BY <1>1, <1>2 DEF OpsKept
  <2>2. CASE ops[c].private = ops[c].answer
    BY <1>1, <1>2, <2>1, <2>2 DEF OpsKept
  <2>3. ASSUME Kind[c.key] = "evaluate", NEW d \in Call, d.attempt \in Sees(c.attempt),
               ops[d].answer = ops[c].answer, ops[d].private = ops[c].answer
        PROVE  ops'[d].answer = ops'[c].answer /\ ops'[d].private = ops'[c].answer
    BY <1>1, <1>2, <2>1, <2>3 DEF OpsKept
  <2> QED  BY <1>2, <2>2, <2>3 DEF AnswersInv, AnswerIsItsOwn, Answered
<1>3. CASE ops[c].answer = None
  <2>1. PICK h \in Handler : Commit(h)
    BY <1>0, <1>3, AnswersStep
  <2>2. /\ pc[h] = "commit" /\ c = call[h] /\ ops'[c].answer = work[h].result
        /\ work[h].result # None
    BY <1>0, <1>3, <2>1, CommitIsOwn
  <2>3. CASE ops[call[h]].private = work[h].result
    BY <1>1, <2>2, <2>3 DEF OpsKept
  <2>4. ASSUME IsEvaluate(h), NEW d \in Call, d.attempt \in Sees(call[h].attempt),
               ops[d].answer = work[h].result, ops[d].private = work[h].result
        PROVE  /\ Kind[c.key] = "evaluate" /\ d.attempt \in Sees(c.attempt)
               /\ ops'[d].answer = ops'[c].answer /\ ops'[d].private = ops'[c].answer
    BY <1>1, <2>2, <2>4 DEF OpsKept, IsEvaluate
  <2> QED  BY <2>2, <2>3, <2>4 DEF AnswersInv, CommitsAreBacked
<1> QED  BY <1>2, <1>3

(* A generation accepts one report.                                           *)
LEMMA ReportStep ==
  ASSUME HandlersInv, QuotaInv, AnswersInv, [Next]_vars
  PROVE  OneEarnedReport'
<1> DEFINE Accepted(c) == {d \in Call : /\ d.attempt = c.attempt /\ d.generation = c.generation
                                        /\ IsReport(d.key) /\ ops[d].answer # None}
           AcceptedNext(c) == {d \in Call : /\ d.attempt = c.attempt /\ d.generation = c.generation
                                            /\ IsReport(d.key) /\ ops'[d].answer # None}
<1>0. SUFFICES ASSUME NEW c \in Call, IsReport(c.key), ops'[c].answer # None
               PROVE  /\ AcceptedNext(c) = {c}
                      /\ Kind[c.key] = "ready" => Supported(c)'
  BY <1>0 DEF OneEarnedReport, AcceptedReports, Answered
<1>1. ASSUME NEW d \in Call, IsReport(d.key), ops[d].answer # None
      PROVE  /\ Accepted(d) = {d}
             /\ Kind[d.key] = "ready" => Supported(d)
  BY <1>1 DEF AnswersInv, OneEarnedReport, AcceptedReports, Answered
<1>2. CASE \A d \in Call : ops'[d].answer = ops[d].answer
  <2>1. AcceptedNext(c) = Accepted(c)
    BY <1>2
  <2> QED  BY <1>0, <1>1, <1>2, <2>1, EvaluationsGrow
<1>3. ASSUME NEW h \in Handler, Commit(h)
      PROVE  /\ AcceptedNext(c) = {c}
             /\ Kind[c.key] = "ready" => Supported(c)'
  <2>1. /\ pc[h] = "commit" /\ call[h] \in Call
        /\ \A d \in Call \ {call[h]} : ops'[d] = ops[d]
    BY <1>3, CommitIsOwn
  <2>2. IsReport(call[h].key) =>
          /\ Accepted(call[h]) = {}
          /\ Kind[call[h].key] = "ready" => Supported(call[h])
    BY <2>1 DEF AnswersInv, ReportsStand, AcceptedReports, Answered
  <2>3. CASE c = call[h]
    <3>1. AcceptedNext(c) = {c}
      BY <1>0, <2>1, <2>2, <2>3
    <3> QED  BY <1>0, <2>2, <2>3, <3>1, EvaluationsGrow
  <2>4. CASE c # call[h]
    <3>1. ops[c].answer # None
      BY <1>0, <2>1, <2>4
    <3>2. Accepted(c) = {c} /\ (Kind[c.key] = "ready" => Supported(c))
      BY <1>0, <1>1, <3>1
    <3>3. call[h] \notin AcceptedNext(c)
      <4>1. SUFFICES ASSUME IsReport(call[h].key), call[h].attempt = c.attempt,
                            call[h].generation = c.generation
                     PROVE  FALSE
        OBVIOUS
      <4>2. c \in Accepted(call[h])
        BY <1>0, <3>1, <4>1
      <4> QED  BY <2>2, <4>1, <4>2
    <3>4. AcceptedNext(c) = Accepted(c)
      BY <2>1, <3>2, <3>3, <2>4
    <3> QED  BY <3>2, <3>4, EvaluationsGrow
  <2> QED  BY <2>3, <2>4
<1> HIDE DEF AcceptedNext
<1> QED  BY <1>2, <1>3, AnswersStep

(* A report that is being published is about to be the first one, and earned. *)
LEMMA StandStep ==
  ASSUME HandlersInv, HandlersInv', LeasesInv, AnswersInv, [Next]_vars
  PROVE  ReportsStand'
<1>0. SUFFICES ASSUME NEW o \in Handler, pc'[o] \in {"bind", "record", "commit"},
                      IsReport(call'[o].key)
               PROVE  /\ {d \in Call : /\ d.attempt = call'[o].attempt
                                       /\ d.generation = call'[o].generation
                                       /\ IsReport(d.key) /\ ops'[d].answer # None} = {}
                      /\ Kind[call'[o].key] = "ready" => Supported(call[o])'
  BY <1>0 DEF ReportsStand, AcceptedReports, Answered
<1>1. call'[o] \in Call /\ pc'[o] \in Leased
  BY <1>0, StationIs, NoneIsNoRow DEF HandlersInv, TypeOK, CallsAreKnown
<1>2. call'[o] = call[o]
  <2>1. CASE Quiet
    BY <2>1 DEF Quiet, handlers
  <2> QED  BY <1>0, <1>1, <2>1, Undisturbed, HandlerLeases DEF Leases
<1>3. CASE /\ \A d \in Call : ops'[d].answer = ops[d].answer
           /\ AcceptedReports(call[o].attempt, call[o].generation) = {}
           /\ Kind[call[o].key] = "ready" => Supported(call[o])
  <2>1. Kind[call[o].key] = "ready" => Supported(call[o])'
    BY <1>1, <1>2, <1>3, EvaluationsGrow
  <2> QED  BY <1>2, <1>3, <2>1 DEF AcceptedReports, Answered
<1>4. CASE /\ pc[o] \in {"bind", "record", "commit"}
           /\ \A d \in Call : ops'[d].answer = ops[d].answer
  BY <1>0, <1>2, <1>3, <1>4 DEF AnswersInv, ReportsStand
<1>5. CASE Quiet
  BY <1>0, <1>4, <1>5 DEF Quiet, handlers
<1>6. CASE ServeReport(o)
  <2>1. /\ ops' = ops /\ AcceptedReports(call[o].attempt, call[o].generation) = {}
        /\ Kind[call[o].key] = "ready" => lineage.dev \/ Earned(call[o])
    BY <1>6 DEF ServeReport, store
  <2>2. Kind[call[o].key] = "ready" => Supported(call[o])
    BY <1>1, <1>2, <2>1, EarnedIsSupported DEF Supported
  <2> QED  BY <1>3, <2>1, <2>2
<1>7. CASE ServeCheckpoint(o) \/ Measured(o) \/ Reuse(o) \/ Abandon(o)
  <2>1. CASE ServeCheckpoint(o)
    BY <1>0, <1>2, <2>1 DEF ServeCheckpoint, Serve, IsReport
  <2>2. ASSUME pc[o] \in {"measuring", "reuse", "abandon"} PROVE FALSE
    BY <1>0, <1>2, <2>2, KnownIs DEF HandlersInv, KnownAs, IsReport
  <2> QED  BY <1>7, <2>1, <2>2 DEF Measured, Reuse, Abandon
<1>8. CASE Bind(o)
  <2>1. pc[o] = "bind"
    BY <1>8 DEF Bind
  <2> QED  BY <1>4, <1>8, <2>1, BindOps
<1>9. CASE Record(o)
  <2>1. pc[o] = "record" /\ ops' = ops
    BY <1>9 DEF Record
  <2> QED  BY <1>4, <2>1
<1> QED  BY <1>0, <1>5, <1>6, <1>7, <1>8, <1>9, Undisturbed, Origin

(* The layer as a whole.                                                      *)
LEMMA AnswersInvStep ==
  /\ HandlersInv /\ HandlersInv' /\ LeasesInv /\ QuotaInv /\ AnswersInv /\ [Next]_vars
  => AnswersInv'
BY OwnAnswerStep, BackedStep, ReportStep, StandStep DEF AnswersInv

-----------------------------------------------------------------------------
(* The theorems.                                                              *)

(* The invariant holds when every Attempt has been launched once.             *)
LEMMA GatewayInit == Init => GatewayInv
<1> SUFFICES ASSUME Init PROVE GatewayInv
  OBVIOUS
<1>1. /\ \A h \in Handler : pc[h] = "idle" /\ call[h] = None /\ work[h] = NoWork /\ locks[h] = {}
      /\ loop = NoOne /\ active = {}
      /\ \A c \in Call : ops[c] = [reserved |-> FALSE, private |-> None, answer |-> None]
      /\ \A t \in Task : tasks[t] = None
      /\ \A a \in Attempt : /\ capability[a] = [generation |-> 0, used |-> 0, revoked |-> FALSE]
                            /\ generation[a] = 0
  BY DEF Init
<1>2. \A c \in Call : ~ops[c].reserved /\ ops[c].answer = None
  BY <1>1
<1>3. HandlersInv
  <2>1. TypeOK
    <3>1. 0 \in Generation
      BY GatewayConstants DEF Generation
    <3>2. \A a \in Attempt : << >> \in Seq([call : Call, job : Job])
      OBVIOUS
    <3>3. StoreTyped
      BY <3>1, <3>2, GatewayConstants DEF Init, StoreTyped
    <3>4. HandlersTyped
      BY NoWorkIsWork, StationIs DEF Init, HandlersTyped
    <3> QED  BY <3>3, <3>4, TypeParts
  <2>2. LoopIsExclusive /\ CallsAreKnown
    BY <1>1, GatewayConstants DEF LoopIsExclusive, CallsAreKnown, Publishing
  <2> QED  BY <2>1, <2>2 DEF HandlersInv
<1>4. LeasesInv
  BY <1>1, StationIs DEF LeasesInv, LeasesAreExclusive, ScopesAreOwn, NoWork
<1>5. QuotaInv
  <2>1. {c \in Call : ops[c].reserved} = {}
    BY <1>2
  <2>2. RequestsAreFinite
    BY <2>1, FS_EmptySet DEF RequestsAreFinite
  <2>3. ReservedInTime
    BY <1>1, <1>2 DEF ReservedInTime, Answered
  <2>4. NoNewerReservation
    BY <1>2 DEF NoNewerReservation
  <2>5. \A a \in Attempt, g \in Nat : MeteredCalls(a, g) = {}
    BY <1>2 DEF MeteredCalls
  <2>6. ASSUME NEW a \in Attempt
        PROVE  /\ capability[a].used = Cardinality(MeteredCalls(a, capability[a].generation))
               /\ capability[a].used <= MaxCalls
    <3>1. capability[a].used = 0 /\ capability[a].generation = 0
      BY <1>1
    <3>2. MeteredCalls(a, 0) = {} /\ Cardinality({}) = 0
      BY <2>5, FS_EmptySet
    <3> QED  BY <3>1, <3>2, GatewayConstants
  <2>7. QuotaCountsRequests
    BY <2>6 DEF QuotaCountsRequests
  <2> QED  BY <2>2, <2>3, <2>4, <2>7 DEF QuotaInv
<1>6. TasksInv
  BY <1>1 DEF TasksInv, ReservationsAreOrdered, ReuseIsSettled, TasksAreHeld, Settles,
     Executes, NoWork
<1>7. VerdictsInv
  BY <1>1, StationIs
  DEF VerdictsInv, ServedIsUnanswered, OutcomeIsVerdict, CommitsAreSafe, SettledIsVerdict
<1>8. BarrierInv
  BY <1>1, StationIs DEF BarrierInv, ActiveCallsAreOwn, BarrierCoversCalls, ReportsAreAlone
<1>9. AnswersInv
  BY <1>1, <1>2
  DEF AnswersInv, AnswerIsItsOwn, CommitsAreBacked, OneEarnedReport, ReportsStand, Answered
<1> QED  BY <1>3, <1>4, <1>5, <1>6, <1>7, <1>8, <1>9 DEF GatewayInv

(* Every step keeps it: the layers in their order.                            *)
LEMMA GatewayStep == GatewayInv /\ [Next]_vars => GatewayInv'
<1> SUFFICES ASSUME GatewayInv, [Next]_vars PROVE GatewayInv'
  OBVIOUS
<1>1. HandlersInv'
  BY HandlersStep DEF GatewayInv, QuotaInv
<1>2. LeasesInv'
  BY LeasesStep DEF GatewayInv
<1>3. QuotaInv'
  BY <1>1, QuotaInvStep DEF GatewayInv
<1>4. TasksInv'
  BY <1>1, <1>2, TasksStep DEF GatewayInv
<1>5. VerdictsInv'
  BY <1>1, <1>2, VerdictsStep DEF GatewayInv
<1>6. BarrierInv'
  BY BarrierStep DEF GatewayInv
<1>7. AnswersInv'
  BY <1>1, AnswersInvStep DEF GatewayInv
<1> QED  BY <1>1, <1>2, <1>3, <1>4, <1>5, <1>6, <1>7 DEF GatewayInv

(***************************************************************************)
(* The inductive invariant of the Gateway: types, leases, reservations and *)
(* quota, tasks, verdicts, the report barrier and the answers, under every *)
(* interleaving of handlers, generations, revocations and crashes.         *)
(***************************************************************************)
THEOREM GatewaySafety == Spec => []GatewayInv
BY GatewayInit, GatewayStep, PTL DEF Spec

(***************************************************************************)
(* Every variable of the control store and of the handlers keeps its type. *)
(***************************************************************************)
THEOREM GatewayTypes == Spec => []TypeOK
<1>1. GatewayInv => TypeOK
  BY DEF GatewayInv, HandlersInv
<1> QED  BY <1>1, GatewaySafety, PTL

(***************************************************************************)
(* One handler at most executes a semantic Evaluate task, and the open     *)
(* reservation is in its name: evaluate_task_execution and                 *)
(* reserve_evaluate_task exclude a second execution, also by a handler     *)
(* that takes an orphaned task over.                                       *)
(***************************************************************************)
THEOREM GatewayExecutions == Spec => []OneExecution
<1>1. GatewayInv => OneExecution
  BY DEF GatewayInv, TasksInv, TasksAreHeld, Settles, Holds, OneExecution
<1> QED  BY <1>1, GatewaySafety, PTL

(***************************************************************************)
(* A settled task carries a measurement that succeeded, and it is the      *)
(* committed response of its owner, whatever crashes between commit,       *)
(* completion and reconcile_evaluate_replay.                               *)
(***************************************************************************)
THEOREM GatewayVerdicts == Spec => []SettledIsVerdict
<1>1. GatewayInv => SettledIsVerdict
  BY DEF GatewayInv, VerdictsInv
<1> QED  BY <1>1, GatewaySafety, PTL

(***************************************************************************)
(* What a request is answered with was bound to it in its generation, or   *)
(* is a replayed response of an Attempt whose Trials it may see.           *)
(***************************************************************************)
THEOREM GatewayAnswers == Spec => []AnswerIsItsOwn
<1>1. GatewayInv => AnswerIsItsOwn
  BY DEF GatewayInv, AnswersInv
<1> QED  BY <1>1, GatewaySafety, PTL

(***************************************************************************)
(* A generation accepts one report, and a candidate_ready one has a        *)
(* correct evaluation of the Kernel it nominates behind it, of this        *)
(* Attempt or of one whose Trials it may see; only a dev-only Lineage is   *)
(* exempt.                                                                 *)
(***************************************************************************)
THEOREM GatewayReports == Spec => []OneEarnedReport
<1>1. GatewayInv => OneEarnedReport
  BY DEF GatewayInv, AnswersInv
<1> QED  BY <1>1, GatewaySafety, PTL

(***************************************************************************)
(* used_calls is the number of distinct metered requests of the            *)
(* generation and never exceeds the quota, through reconnects, rotations   *)
(* of the capability and the recount at start-up.                          *)
(***************************************************************************)
THEOREM GatewayQuota == Spec => []QuotaCountsRequests
<1>1. GatewayInv => QuotaCountsRequests
  BY DEF GatewayInv, QuotaInv
<1> QED  BY <1>1, GatewaySafety, PTL

(***************************************************************************)
(* Private results, responses and settled tasks never change.              *)
(***************************************************************************)
THEOREM GatewayResults == Spec => ResultsAreImmutable
<1>1. ASSUME GatewayInv, [Next]_vars
      PROVE  [ /\ \A c \in Call :
                    /\ ops[c].private # None => ops'[c].private = ops[c].private
                    /\ Answered(c) => ops'[c].answer = ops[c].answer
               /\ \A t \in Task : tasks[t] # None /\ tasks[t].answer # None => tasks'[t] = tasks[t]
             ]_vars
  <2>1. OpsKept
    BY <1>1, OpsStep DEF GatewayInv
  <2>2. \A t \in Task : tasks[t] # None /\ tasks[t].answer # None => tasks'[t] = tasks[t]
    BY <1>1, TaskChange DEF GatewayInv
  <2> QED  BY <2>1, <2>2 DEF OpsKept, Answered
<1> QED  BY <1>1, GatewaySafety, PTL DEF Spec, ResultsAreImmutable

(***************************************************************************)
(* When a report is accepted no other call of its generation is being      *)
(* measured or published: operation_execution keeps them apart.            *)
(***************************************************************************)
THEOREM GatewayHandoff == Spec => ReportWaitsForCalls
<1>1. ASSUME GatewayInv, [Next]_vars
      PROVE  [ \A c \in Call : IsReport(c.key) /\ ~Answered(c) /\ ops'[c].answer # None =>
                 \A h \in Handler : pc[h] \in Behind /\ call[h].attempt = c.attempt
                                      /\ call[h].generation = c.generation => call[h] = c ]_vars
  <2>1. SUFFICES ASSUME NEW c \in Call, IsReport(c.key), ~Answered(c), ops'[c].answer # None,
                        NEW o \in Handler, pc[o] \in Behind, call[o].attempt = c.attempt,
                        call[o].generation = c.generation
                 PROVE  call[o] = c
    OBVIOUS
  <2>2. PICK h \in Handler : Commit(h)
    BY <1>1, <2>1, AnswersStep DEF Answered, GatewayInv
  <2>3. pc[h] = "commit" /\ c = call[h]
    BY <1>1, <2>1, <2>2, CommitIsOwn DEF Answered, GatewayInv
  <2>4. h = o
    BY <1>1, <2>1, <2>3, StationIs DEF GatewayInv, BarrierInv, ReportsAreAlone
  <2> QED  BY <2>3, <2>4
<1> QED  BY <1>1, GatewaySafety, PTL DEF Spec, ReportWaitsForCalls
=============================================================================
