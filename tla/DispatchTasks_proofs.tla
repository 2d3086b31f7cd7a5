------------------------- MODULE DispatchTasks_proofs -------------------------
(***************************************************************************)
(* Theorems about the Tasks of DispatchLifecycle: dependencies, the queue, *)
(* stops, questions and the circuit breaker.  Gates and operators may set  *)
(* any status by hand, so most theorems say which of it they exclude.      *)
(***************************************************************************)
EXTENDS DispatchLifecycle_proofs, FiniteSetTheorems

-----------------------------------------------------------------------------
(* What a step does to the statuses *)

(* A step on the active dispatch d moves the Task it works for, and no      *)
(* other; it requeues it only if no stop was requested.                     *)
DispatchMoves(d) ==
  /\ Active(d) /\ ctxTask[d] \in Tasks
  /\ taskStatus[ctxTask[d]] \in {"dispatched", "blocked"}
  /\ taskStatus'[ctxTask[d]] \in {"dispatched", "blocked", "failed", "ready"}
  /\ taskStatus'[ctxTask[d]] = "ready" => ~StopPending(d)
  /\ \A u \in Tasks \ {ctxTask[d]} : taskStatus'[u] = taskStatus[u]

KeepsTasks ==
  /\ deps' = deps /\ ctxTask' = ctxTask
  /\ taskStatus' = taskStatus \/ \E d \in DispatchId : DispatchMoves(d)

LEMMA ActiveTask ==
  ASSUME IInv, NEW d \in DispatchId, Active(d)
  PROVE  /\ ctxTask[d] \in Tasks /\ ActiveOf(ctxTask[d]) = {d}
         /\ taskStatus[ctxTask[d]] = IF InDoubt(d) THEN "blocked" ELSE "dispatched"
         /\ taskStatus \in [Tasks -> TaskStatuses \cup {"absent"}]
BY ActiveRow DEF IInv, TaskMatchesDispatch, TypeOK

LEMMA LiveIsActive ==
  ASSUME IInv, NEW d \in DispatchId, LiveWorker(d)
  PROVE  Active(d)
BY DEF IInv, WorkerMatchesDispatch

(* An abandoned dispatch that had already ended leaves its Task alone.      *)
LEMMA ReconcileIdle ==
  ASSUME IInv, NEW d \in DispatchId, ~Active(d), Newest(d, DispatchesOf(ctxTask[d])),
         taskStatus' = Reconcile(ctxTask[d], d)
  PROVE  taskStatus' = taskStatus
<1>1. ActiveOf(ctxTask[d]) = {}
  <2>1. ASSUME NEW e \in ActiveOf(ctxTask[d]) PROVE FALSE
    <3>1. e \in DispatchId /\ Active(e) /\ ctxTask[e] = ctxTask[d] /\ e # d
      BY <2>1 DEF ActiveOf, DispatchesOf
    <3>2. d <= e /\ e <= d
      BY <3>1 DEF IInv, ActiveIsLatest, Newest, DispatchesOf
    <3> QED
      BY <3>1, <3>2 DEF DispatchId
  <2> QED
    BY <2>1
<1>2. \A t \in Tasks : t = ctxTask[d] => taskStatus[t] # "dispatched"
  BY <1>1 DEF IInv, TaskMatchesDispatch
<1> QED
  BY <1>1, <1>2 DEF Reconcile, IInv, TypeOK

LEMMA FailDispatchMoves ==
  ASSUME IInv, NEW d \in DispatchId, NEW exited, FailDispatch(d, exited)
  PROVE  KeepsTasks
<1>1. Active(d) /\ deps' = deps /\ ctxTask' = ctxTask
  BY DEF FailDispatch, ctxKeys
<1>2. taskStatus' = [taskStatus EXCEPT ![ctxTask[d]] =
         IF @ = "dispatched" /\ ActiveOf(ctxTask[d]) = {d}
         THEN TaskAfterFailure(failureCount[d] + 1 >= BreakFailures) ELSE @]
  BY DEF FailDispatch
<1>3. DispatchMoves(d)
  BY <1>1, <1>2, ActiveTask DEF DispatchMoves, TaskAfterFailure, StopPending, InDoubt
<1> QED
  BY <1>1, <1>3 DEF KeepsTasks

LEMMA StartMoves ==
  ASSUME IInv, NEW d \in DispatchId, FailStart(d) \/ MarkStartUnknown(d) \/ MarkReady(d)
  PROVE  KeepsTasks
<1>1. deps' = deps /\ ctxTask' = ctxTask
  BY DEF FailStart, MarkStartUnknown, MarkReady, ctxKeys, taskVars
<1>2. Active(d)
  BY LiveIsActive DEF FailStart, MarkStartUnknown, MarkReady, LiveWorker, LiveStates
<1>3. CASE FailStart(d)
  <2>1. DispatchMoves(d)
    BY <1>2, <1>3, ActiveTask DEF FailStart, DispatchMoves
  <2> QED
    BY <1>1, <2>1 DEF KeepsTasks
<1>4. CASE MarkStartUnknown(d)
  <2>1. DispatchMoves(d)
    BY <1>2, <1>4, ActiveTask DEF MarkStartUnknown, DispatchMoves
  <2> QED
    BY <1>1, <2>1 DEF KeepsTasks
<1>5. CASE MarkReady(d)
  BY <1>1, <1>5 DEF MarkReady, KeepsTasks, taskVars
<1> QED
  BY <1>3, <1>4, <1>5

LEMMA FederatedStartMoves ==
  ASSUME IInv, NEW d \in DispatchId, NEW o, ReconcileFederatedStart(d, o)
  PROVE  KeepsTasks
<1>1. deps' = deps /\ ctxTask' = ctxTask
  BY DEF ReconcileFederatedStart, ctxKeys
<1>2. Active(d)
  BY LiveIsActive DEF ReconcileFederatedStart, LiveWorker, LiveStates
<1>3. \/ taskStatus' = [taskStatus EXCEPT ![ctxTask[d]] = IF @ = "blocked" THEN "dispatched" ELSE @]
      \/ taskStatus' = [taskStatus EXCEPT ![ctxTask[d]] =
              IF @ \notin {"dispatched", "blocked"} THEN @
              ELSE IF ActiveOf(ctxTask[d]) \ {d} = {} THEN "failed" ELSE "dispatched"]
  BY DEF ReconcileFederatedStart
<1>4. DispatchMoves(d)
  BY <1>2, <1>3, ActiveTask DEF DispatchMoves
<1> QED
  BY <1>1, <1>4 DEF KeepsTasks

LEMMA StopMoves ==
  ASSUME IInv, NEW d \in DispatchId,
         \/ BeginStop(d) \/ SettleStop(d) \/ MarkStopUnknown(d) \/ ResumeFederated(d) \/ Abandon(d)
  PROVE  KeepsTasks
<1>1. deps' = deps /\ ctxTask' = ctxTask
  BY DEF BeginStop, SettleStop, MarkStopUnknown, ResumeFederated, Abandon, ctxKeys, ctxVars, taskVars
<1>2. CASE MarkStopUnknown(d)
  BY <1>1, <1>2 DEF MarkStopUnknown, KeepsTasks, taskVars
<1>3. ASSUME Active(d), taskStatus' = Reconcile(ctxTask[d], d)
      PROVE  KeepsTasks
  <2>1. DispatchMoves(d)
    BY <1>3, ActiveTask DEF DispatchMoves, Reconcile
  <2> QED
    BY <1>1, <2>1 DEF KeepsTasks
<1>4. CASE BeginStop(d)
  <2>1. Active(d)
    BY <1>4, LiveIsActive DEF BeginStop, LiveWorker, LiveStates
  <2> QED
    BY <1>3, <1>4, <2>1 DEF BeginStop
<1>5. CASE SettleStop(d)
  <2>1. Active(d)
    BY <1>5, LiveIsActive DEF SettleStop, LiveWorker, LiveStates
  <2> QED
    BY <1>3, <1>5, <2>1 DEF SettleStop
<1>6. CASE ResumeFederated(d)
  <2>1. Active(d)
    BY <1>6, LiveIsActive DEF ResumeFederated, LiveWorker, LiveStates
  <2>2. DispatchMoves(d)
    BY <1>6, <2>1, ActiveTask DEF ResumeFederated, DispatchMoves
  <2> QED
    BY <1>1, <2>2 DEF KeepsTasks
<1>7. CASE Abandon(d)
  <2>1. CASE Active(d)
    BY <1>3, <1>7, <2>1 DEF Abandon
  <2>2. CASE ~Active(d)
    <3>1. taskStatus' = taskStatus
      BY <1>7, <2>2, ReconcileIdle DEF Abandon
    <3> QED
      BY <1>1, <3>1 DEF KeepsTasks
  <2> QED
    BY <2>1, <2>2
<1> QED
  BY <1>2, <1>4, <1>5, <1>6, <1>7

LEMMA RecoveryMoves ==
  ASSUME IInv, NEW d \in DispatchId, ReconcileMissing(d)
  PROVE  KeepsTasks
<1>1. deps' = deps /\ ctxTask' = ctxTask /\ Active(d)
  BY LiveIsActive DEF ReconcileMissing, ctxKeys
<1>2. taskStatus' = [taskStatus EXCEPT ![ctxTask[d]] =
       IF {d} \cap ActiveOf(ctxTask[d]) = {} \/ StopPending(d) \/ @ \notin {"dispatched", "blocked"} THEN @
       ELSE IF ActiveOf(ctxTask[d]) \ {d} # {} THEN "dispatched"
       ELSE TaskAfterFailure(failureCount[d] + 1 >= BreakFailures)]
  BY DEF ReconcileMissing
<1>3. DispatchMoves(d)
  BY <1>1, <1>2, ActiveTask DEF DispatchMoves, TaskAfterFailure
<1> QED
  BY <1>1, <1>3 DEF KeepsTasks

LEMMA ReleaseMoves ==
  ASSUME IInv, NEW d \in DispatchId, ReleaseContextOnly(d)
  PROVE  KeepsTasks
<1>1. deps' = deps /\ ctxTask' = ctxTask /\ Active(d)
  BY DEF ReleaseContextOnly, ctxKeys
<1>2. DispatchMoves(d)
  BY <1>1, ActiveTask DEF ReleaseContextOnly, DispatchMoves
<1> QED
  BY <1>1, <1>2 DEF KeepsTasks

(* A dispatch begins: the Task is ready, or was worked on before.           *)
Begins(t) ==
  /\ taskStatus[t] = "ready" \/ \E e \in DispatchId : ctxTask[e] = t /\ taskStatus[t] \in {"failed", "blocked"}
  /\ nDispatch + 1 \in DispatchId
  /\ ctxTask' = [ctxTask EXCEPT ![nDispatch + 1] = t]
  /\ taskStatus' = [taskStatus EXCEPT ![t] = "dispatched"]
  /\ deps' = deps

StepKind ==
  \/ KeepsTasks
  \/ \E t \in Tasks : Begins(t)
  \/ \E t \in Tasks, ds \in SUBSET Tasks : CreateTask(t, ds)
  \/ \E t \in Tasks, s \in OperatorStatuses : TaskUpdate(t, s)
  \/ \E d \in DispatchId, o \in {"completed", "failed"} : Report(d, o)
  \/ \E g \in Gates, t \in Tasks : CreateGate(g, t)
  \/ \E g \in Gates : ResolveGate(g)

LEMMA InsertBegins ==
  ASSUME IInv, NEW t \in Tasks, NEW m, NEW status, NEW failures, NEW h, NEW cap, NEW worker,
         InsertDispatch(t, m, status, failures, h, cap, worker),
         taskStatus[t] = "ready" \/ \E e \in DispatchId : ctxTask[e] = t /\ taskStatus[t] \in {"failed", "blocked"}
  PROVE  Begins(t)
BY DispatchAssumption DEF InsertDispatch, Begins, IInv, TypeOK, DispatchId

LEMMA TaskStepKind ==
  ASSUME IInv, NEW t \in Tasks,
         \/ \E ds \in SUBSET (Tasks \ {t}) : CreateTask(t, ds)
         \/ \E s \in OperatorStatuses : TaskUpdate(t, s)
         \/ \E h \in Handles, inject \in BOOLEAN : Dispatch(t, h, inject)
         \/ \E m \in Modes : WorkerStart(t, m)
         \/ \E m \in Modes, prior \in DispatchId : WorkerRetry(t, m, prior)
  PROVE  StepKind
<1>1. ASSUME NEW ds \in SUBSET (Tasks \ {t}), CreateTask(t, ds) PROVE StepKind
  BY <1>1 DEF StepKind
<1>2. ASSUME NEW s \in OperatorStatuses, TaskUpdate(t, s) PROVE StepKind
  BY <1>2 DEF StepKind
<1>3. ASSUME NEW h \in Handles, NEW inject \in BOOLEAN, Dispatch(t, h, inject) PROVE StepKind
  <2>1. Begins(t)
    BY <1>3, InsertBegins DEF Dispatch, Startable
  <2> QED
    BY <2>1 DEF StepKind
<1>4. ASSUME NEW m \in Modes, WorkerStart(t, m) PROVE StepKind
  <2>1. Begins(t)
    BY <1>4, InsertBegins DEF WorkerStart, Startable
  <2> QED
    BY <2>1 DEF StepKind
<1>5. ASSUME NEW m \in Modes, NEW prior \in DispatchId, WorkerRetry(t, m, prior) PROVE StepKind
  <2>1. ctxTask[prior] = t /\ taskStatus[t] \in {"failed", "blocked"}
    BY <1>5 DEF WorkerRetry, Newest, DispatchesOf
  <2>2. Begins(t)
    BY <1>5, <2>1, InsertBegins DEF WorkerRetry
  <2> QED
    BY <2>2 DEF StepKind
<1> QED
  BY <1>1, <1>2, <1>3, <1>4, <1>5

LEMMA QuietKeeps ==
  ASSUME taskVars' = taskVars, ctxTask' = ctxTask
  PROVE  KeepsTasks
BY DEF KeepsTasks, taskVars

LEMMA DispatchStepKind ==
  ASSUME IInv, DispatchStep
  PROVE  StepKind
<1>1. ASSUME NEW d \in DispatchId, NEW o \in {"completed", "failed"}, Report(d, o)
      PROVE  StepKind
  BY <1>1 DEF StepKind
<1>2. ASSUME NEW d \in DispatchId, NEW h \in Handles, PrepareAuthority(d, h)
      PROVE  KeepsTasks
  BY <1>2, QuietKeeps DEF PrepareAuthority, ctxKeys
<1>3. ASSUME NEW d \in DispatchId, NEW o \in {"ready", "failed", "stopped"}, ReconcileFederatedStart(d, o)
      PROVE  KeepsTasks
  BY <1>3, FederatedStartMoves
<1>4. ASSUME NEW d \in DispatchId, PromptFailed(d) \/ Escalate(d) \/ ReleaseContextOnly(d)
      PROVE  KeepsTasks
  BY <1>4, FailDispatchMoves, ReleaseMoves DEF PromptFailed, Escalate
<1>5. ASSUME NEW d \in DispatchId,
             \/ MarkReady(d) \/ FailStart(d) \/ MarkStartUnknown(d) \/ BeginStop(d) \/ SettleStop(d)
             \/ MarkStopUnknown(d) \/ ResumeFederated(d) \/ Abandon(d) \/ ReconcileMissing(d)
      PROVE  KeepsTasks
  BY <1>5, StartMoves, StopMoves, RecoveryMoves
<1> QED
  BY <1>1, <1>2, <1>3, <1>4, <1>5 DEF DispatchStep, StepKind

LEMMA ThreadStepKind ==
  ASSUME IInv, ThreadStep
  PROVE  StepKind
<1>1. ASSUME NEW h \in Handles, ProcessExit(h) PROVE KeepsTasks
  BY <1>1, FailDispatchMoves DEF ProcessExit
<1>2. ASSUME NEW q \in Questions, \/ \E d \in DispatchId : Ask(q, d) \/ ImportQuestion(q, d)
                                  \/ Answer(q)
      PROVE  KeepsTasks
  BY <1>2, QuietKeeps DEF Ask, ImportQuestion, Answer, ctxVars
<1> QED
  BY <1>1, <1>2 DEF ThreadStep, StepKind

(* Every step is of one of these kinds.                                     *)
LEMMA StepKinds ==
  ASSUME IInv, [Next]_vars
  PROVE  StepKind
<1>1. CASE UNCHANGED vars
  BY <1>1, QuietKeeps DEF vars, ctxVars, StepKind
<1>2. CASE TaskStep
  BY <1>2, TaskStepKind DEF TaskStep
<1> QED
  BY <1>1, <1>2, DispatchStepKind, ThreadStepKind DEF Next

(* A Task completes: its last waiting dependents become ready.              *)
LEMMA Completes ==
  ASSUME IInv, NEW t \in Tasks, taskStatus' = Promote([taskStatus EXCEPT ![t] = "completed"], t)
  PROVE  /\ taskStatus'[t] = "completed"
         /\ \A u \in Tasks \ {t} :
              IF /\ taskStatus[u] = "pending" /\ t \in deps[u]
                 /\ \A p \in deps[u] : p = t \/ taskStatus[p] = "completed"
              THEN taskStatus'[u] = "ready" ELSE taskStatus'[u] = taskStatus[u]
<1> PICK updated : updated = [taskStatus EXCEPT ![t] = "completed"]
  OBVIOUS
<1>1. \A u \in Tasks : updated[u] = IF u = t THEN "completed" ELSE taskStatus[u]
  BY DEF IInv, TypeOK
<1>2. \A u \in Tasks : deps[u] \subseteq Tasks
  BY DEF IInv, TypeOK
<1>3. \A u \in Tasks : taskStatus'[u] =
        IF /\ updated[u] = "pending" /\ t \in deps[u] /\ \A p \in deps[u] : updated[p] = "completed"
        THEN "ready" ELSE updated[u]
  BY DEF Promote
<1>4. taskStatus'[t] = "completed"
  BY <1>1, <1>3
<1>5. ASSUME NEW u \in Tasks \ {t}
      PROVE  IF /\ taskStatus[u] = "pending" /\ t \in deps[u]
                /\ \A p \in deps[u] : p = t \/ taskStatus[p] = "completed"
             THEN taskStatus'[u] = "ready" ELSE taskStatus'[u] = taskStatus[u]
  <2>1. \A p \in deps[u] : updated[p] = "completed" <=> (p = t \/ taskStatus[p] = "completed")
    BY <1>1, <1>2
  <2>2. updated[u] = taskStatus[u] /\ u \in Tasks
    BY <1>1
  <2> QED
    BY <1>3, <2>1, <2>2
<1> QED
  BY <1>4, <1>5

-----------------------------------------------------------------------------
(* The queue *)

(* A Task that has been dispatched is neither new nor waiting.              *)
TaskStarted ==
  \A d \in DispatchId : ctxTask[d] \in Tasks => taskStatus[ctxTask[d]] \notin {"absent", "pending"}

(* Reports and operators complete a Task in one way, and fail it in another. *)
LEMMA Reported ==
  ASSUME IInv, NEW d \in DispatchId, NEW o \in {"completed", "failed"}, Report(d, o)
  PROVE  /\ deps' = deps /\ ctxTask' = ctxTask
         /\ ctxTask[d] \in Tasks /\ taskStatus[ctxTask[d]] = "dispatched"
         /\ IF o = "completed"
            THEN taskStatus' = Promote([taskStatus EXCEPT ![ctxTask[d]] = "completed"], ctxTask[d])
            ELSE taskStatus' = [taskStatus EXCEPT ![ctxTask[d]] = "failed"]
<1>1. Active(d)
  BY DEF Report, Active, ActiveStatuses
<1> QED
  BY <1>1, ActiveTask DEF Report, ctxKeys

LEMMA Updated ==
  ASSUME IInv, NEW t \in Tasks, NEW s \in OperatorStatuses, TaskUpdate(t, s)
  PROVE  /\ deps' = deps /\ ctxTask' = ctxTask /\ s \in TaskStatuses
         /\ IF s = "completed"
            THEN taskStatus' = Promote([taskStatus EXCEPT ![t] = "completed"], t)
            ELSE taskStatus' = [taskStatus EXCEPT ![t] = s]
BY DispatchAssumption DEF TaskUpdate, ctxKeys

LEMMA Gated ==
  ASSUME IInv, NEW g \in Gates, (\E t \in Tasks : CreateGate(g, t)) \/ ResolveGate(g)
  PROVE  /\ deps' = deps /\ ctxTask' = ctxTask
         /\ \E t \in Tasks, s \in {"blocked", "ready"} : taskStatus' = [taskStatus EXCEPT ![t] = s]
BY DEF CreateGate, ResolveGate, ctxKeys, ctxVars, IInv, TypeOK

LEMMA StartedStep ==
  ASSUME IInv, TaskStarted, StepKind, "pending" \notin OperatorStatuses
  PROVE  TaskStarted'
<1> USE DEF TaskStarted
<1>1. taskStatus \in [Tasks -> TaskStatuses \cup {"absent"}] /\ ctxTask \in [DispatchId -> Tasks \cup {None}]
      /\ None \notin Tasks
  BY DispatchAssumption DEF IInv, TypeOK
<1>2. CASE KeepsTasks
  BY <1>1, <1>2 DEF KeepsTasks, DispatchMoves
<1>3. ASSUME NEW t \in Tasks, Begins(t) PROVE TaskStarted'
  BY <1>1, <1>3 DEF Begins
<1>4. ASSUME NEW t \in Tasks, NEW ds \in SUBSET Tasks, CreateTask(t, ds) PROVE TaskStarted'
  BY <1>1, <1>4 DEF CreateTask, ctxVars
<1>5. ASSUME NEW t \in Tasks, taskStatus' = Promote([taskStatus EXCEPT ![t] = "completed"], t),
             ctxTask' = ctxTask
      PROVE  TaskStarted'
  BY <1>1, <1>5, Completes
<1>6. ASSUME NEW t \in Tasks, NEW s \in TaskStatuses \ {"pending"}, ctxTask' = ctxTask,
             taskStatus' = [taskStatus EXCEPT ![t] = s]
      PROVE  TaskStarted'
  BY <1>1, <1>6 DEF TaskStatuses
<1>7. ASSUME NEW t \in Tasks, NEW s \in OperatorStatuses, TaskUpdate(t, s) PROVE TaskStarted'
  BY <1>5, <1>6, <1>7, Updated
<1>8. ASSUME NEW d \in DispatchId, NEW o \in {"completed", "failed"}, Report(d, o) PROVE TaskStarted'
  BY <1>5, <1>6, <1>8, Reported DEF TaskStatuses
<1>9. ASSUME NEW g \in Gates, (\E t \in Tasks : CreateGate(g, t)) \/ ResolveGate(g) PROVE TaskStarted'
  BY <1>6, <1>9, Gated DEF TaskStatuses
<1> QED
  BY <1>2, <1>3, <1>4, <1>7, <1>8, <1>9 DEF StepKind

LEMMA StrandedStep ==
  ASSUME IInv, NoStrandedTask, StepKind, "pending" \notin OperatorStatuses
  PROVE  NoStrandedTask'
<1>1. /\ taskStatus \in [Tasks -> TaskStatuses \cup {"absent"}] /\ deps \in [Tasks -> SUBSET Tasks]
      /\ \A t \in Tasks : taskStatus[t] = "pending" => \E p \in deps[t] : taskStatus[p] # "completed"
  BY DEF IInv, TypeOK, NoStrandedTask
<1>2. ASSUME deps' = deps,
             \A u \in Tasks : /\ taskStatus'[u] = "pending" => taskStatus[u] = "pending"
                              /\ taskStatus'[u] = "completed" => taskStatus[u] = "completed"
      PROVE  NoStrandedTask'
  BY <1>1, <1>2 DEF NoStrandedTask
<1>3. CASE KeepsTasks
  <2>1. deps' = deps /\ \A u \in Tasks : /\ taskStatus'[u] = "pending" => taskStatus[u] = "pending"
                                         /\ taskStatus'[u] = "completed" => taskStatus[u] = "completed"
    BY <1>1, <1>3 DEF KeepsTasks, DispatchMoves
  <2> QED
    BY <1>2, <2>1
<1>4. ASSUME NEW t \in Tasks, NEW s \in TaskStatuses \ {"pending", "completed"}, deps' = deps,
             taskStatus' = [taskStatus EXCEPT ![t] = s]
      PROVE  NoStrandedTask'
  <2>1. \A u \in Tasks : /\ taskStatus'[u] = "pending" => taskStatus[u] = "pending"
                         /\ taskStatus'[u] = "completed" => taskStatus[u] = "completed"
    BY <1>1, <1>4
  <2> QED
    BY <1>2, <1>4, <2>1
<1>5. ASSUME NEW t \in Tasks, deps' = deps,
             taskStatus' = Promote([taskStatus EXCEPT ![t] = "completed"], t)
      PROVE  NoStrandedTask'
  <2> SUFFICES ASSUME NEW u \in Tasks, taskStatus'[u] = "pending"
               PROVE  \E p \in deps[u] : taskStatus'[p] # "completed"
    BY <1>5 DEF NoStrandedTask
  <2>1. u # t /\ taskStatus[u] = "pending"
    BY <1>5, Completes
  <2>2. PICK p \in deps[u] : taskStatus[p] # "completed" /\ p # t
    <3>1. t \in deps[u] => \E p \in deps[u] : taskStatus[p] # "completed" /\ p # t
      BY <1>5, <2>1, Completes
    <3> QED
      BY <1>1, <2>1, <3>1
  <2>3. taskStatus'[p] # "completed"
    BY <1>1, <1>5, <2>2, Completes
  <2> QED
    BY <2>3
<1>6. ASSUME NEW t \in Tasks, NEW ds \in SUBSET Tasks, CreateTask(t, ds) PROVE NoStrandedTask'
  BY <1>1, <1>6 DEF CreateTask, NoStrandedTask
<1>7. ASSUME NEW t \in Tasks, Begins(t) PROVE NoStrandedTask'
  BY <1>4, <1>7 DEF Begins, TaskStatuses
<1>8. ASSUME NEW t \in Tasks, NEW s \in OperatorStatuses, TaskUpdate(t, s) PROVE NoStrandedTask'
  BY <1>4, <1>5, <1>8, Updated
<1>9. ASSUME NEW d \in DispatchId, NEW o \in {"completed", "failed"}, Report(d, o) PROVE NoStrandedTask'
  BY <1>4, <1>5, <1>9, Reported DEF TaskStatuses
<1>10. ASSUME NEW g \in Gates, (\E t \in Tasks : CreateGate(g, t)) \/ ResolveGate(g) PROVE NoStrandedTask'
  BY <1>4, <1>10, Gated DEF TaskStatuses
<1> QED
  BY <1>3, <1>6, <1>7, <1>8, <1>9, <1>10 DEF StepKind

(* No Task waits for dependencies that have all completed: whatever sets    *)
(* the last one completed promotes it.                                      *)
THEOREM QueueMoves ==
  ASSUME OperatorStatuses \cap {"pending", "dispatched"} = {}
  PROVE  Spec => []NoStrandedTask
<1>1. Init => NoStrandedTask
  BY DEF Init, NoStrandedTask
<1>2. IInv /\ NoStrandedTask /\ [Next]_vars => NoStrandedTask'
  BY StepKinds, StrandedStep
<1>3. Spec => []IInv
  BY LeaseInvariant
<1> QED
  BY <1>1, <1>2, <1>3, PTL DEF Spec

LEMMA StartedAlways ==
  ASSUME OperatorStatuses \cap {"pending", "dispatched"} = {}
  PROVE  Spec => []TaskStarted
<1>1. Init => TaskStarted
  BY DispatchAssumption DEF Init, TaskStarted
<1>2. IInv /\ TaskStarted /\ [Next]_vars => TaskStarted'
  BY StepKinds, StartedStep
<1>3. Spec => []IInv
  BY LeaseInvariant
<1> QED
  BY <1>1, <1>2, <1>3, PTL DEF Spec

-----------------------------------------------------------------------------
(* Completion and dependencies.  A gate may block a completed Task or       *)
(* release a waiting one, and an operator may fail a completed one; without *)
(* them a completed Task stays so and work starts in order.                 *)

OnlyCompletes == OperatorStatuses \subseteq {"completed"} /\ Gates = {}

LEMMA CompletedStep ==
  ASSUME IInv, StepKind, OnlyCompletes, NEW u \in Tasks, taskStatus[u] = "completed"
  PROVE  taskStatus'[u] = "completed"
<1>1. taskStatus \in [Tasks -> TaskStatuses \cup {"absent"}]
  BY DEF IInv, TypeOK
<1>2. CASE KeepsTasks
  BY <1>1, <1>2 DEF KeepsTasks, DispatchMoves
<1>3. ASSUME NEW t \in Tasks, Begins(t) PROVE taskStatus'[u] = "completed"
  BY <1>1, <1>3 DEF Begins
<1>4. ASSUME NEW t \in Tasks, NEW ds \in SUBSET Tasks, CreateTask(t, ds) PROVE taskStatus'[u] = "completed"
  BY <1>1, <1>4 DEF CreateTask
<1>5. ASSUME NEW t \in Tasks, NEW s \in OperatorStatuses, TaskUpdate(t, s)
      PROVE  taskStatus'[u] = "completed"
  BY <1>1, <1>5, Updated, Completes DEF OnlyCompletes
<1>6. ASSUME NEW d \in DispatchId, NEW o \in {"completed", "failed"}, Report(d, o)
      PROVE  taskStatus'[u] = "completed"
  BY <1>1, <1>6, Reported, Completes
<1> QED
  BY <1>2, <1>3, <1>4, <1>5, <1>6 DEF StepKind, OnlyCompletes

(* Late reports, stops, exits and recoveries of earlier dispatches never    *)
(* reopen a completed Task.                                                 *)
THEOREM CompletionIsFinal ==
  ASSUME OnlyCompletes
  PROVE  Spec => CompletedIsFinal
<1>1. IInv /\ [Next]_vars
        => [\A t \in Tasks : taskStatus[t] = "completed" => taskStatus'[t] = "completed"]_vars
  BY StepKinds, CompletedStep
<1>2. Spec => []IInv
  BY LeaseInvariant DEF OnlyCompletes
<1> QED
  BY <1>1, <1>2, PTL DEF Spec, CompletedIsFinal

DepsDone(t)  == \A p \in deps[t] : taskStatus[p] = "completed"
ReadyInOrder == \A t \in Tasks : taskStatus[t] = "ready" => DepsDone(t)
BegunInOrder == \A d \in DispatchId : ctxTask[d] \in Tasks => DepsDone(ctxTask[d])

LEMMA DepsStep ==
  ASSUME IInv, TaskStarted, ReadyInOrder, BegunInOrder, StepKind, OnlyCompletes
  PROVE  ReadyInOrder' /\ BegunInOrder'
<1>1. /\ taskStatus \in [Tasks -> TaskStatuses \cup {"absent"}] /\ deps \in [Tasks -> SUBSET Tasks]
      /\ ctxTask \in [DispatchId -> Tasks \cup {None}] /\ None \notin Tasks
      /\ \A u \in Tasks : taskStatus[u] = "completed" => taskStatus'[u] = "completed"
  BY CompletedStep, DispatchAssumption DEF IInv, TypeOK
<1>2. ASSUME deps' = deps, ctxTask' = ctxTask,
             \A u \in Tasks : taskStatus'[u] = "ready" =>
               taskStatus[u] = "ready" \/ \A p \in deps[u] : taskStatus'[p] = "completed"
      PROVE  ReadyInOrder' /\ BegunInOrder'
  BY <1>1, <1>2 DEF ReadyInOrder, BegunInOrder, DepsDone
<1>3. CASE KeepsTasks
  <2>1. \A u \in Tasks : taskStatus'[u] = "ready" =>
          taskStatus[u] = "ready" \/ \A p \in deps[u] : taskStatus[p] = "completed"
    BY <1>3 DEF KeepsTasks, DispatchMoves, BegunInOrder, DepsDone
  <2>2. \A u \in Tasks : taskStatus'[u] = "ready" =>
          taskStatus[u] = "ready" \/ \A p \in deps[u] : taskStatus'[p] = "completed"
    BY <1>1, <2>1
  <2> QED
    BY <1>2, <1>3, <2>2 DEF KeepsTasks
<1>4. ASSUME NEW t \in Tasks, Begins(t) PROVE ReadyInOrder' /\ BegunInOrder'
  <2>1. \A p \in deps[t] : taskStatus[p] = "completed"
    BY <1>4 DEF Begins, ReadyInOrder, BegunInOrder, DepsDone
  <2>2. deps' = deps /\ ctxTask' = [ctxTask EXCEPT ![nDispatch + 1] = t]
        /\ taskStatus' = [taskStatus EXCEPT ![t] = "dispatched"]
    BY <1>4 DEF Begins
  <2>3. ReadyInOrder'
    BY <1>1, <2>2 DEF ReadyInOrder, DepsDone
  <2>4. BegunInOrder'
    BY <1>1, <2>1, <2>2 DEF BegunInOrder, DepsDone
  <2> QED
    BY <2>3, <2>4
<1>5. ASSUME NEW t \in Tasks, NEW ds \in SUBSET Tasks, CreateTask(t, ds)
      PROVE  ReadyInOrder' /\ BegunInOrder'
  <2>1. /\ taskStatus[t] = "absent" /\ deps' = [deps EXCEPT ![t] = ds] /\ ctxTask' = ctxTask
        /\ taskStatus' = [taskStatus EXCEPT ![t] =
             IF \A p \in ds : taskStatus[p] = "completed" THEN "ready" ELSE "pending"]
    BY <1>5 DEF CreateTask, ctxVars
  <2>2. ReadyInOrder'
    BY <1>1, <2>1 DEF ReadyInOrder, DepsDone
  <2>3. BegunInOrder'
    BY <1>1, <2>1 DEF BegunInOrder, DepsDone, TaskStarted
  <2> QED
    BY <2>2, <2>3
<1>6. ASSUME NEW t \in Tasks, deps' = deps, ctxTask' = ctxTask,
             taskStatus' = Promote([taskStatus EXCEPT ![t] = "completed"], t)
      PROVE  ReadyInOrder' /\ BegunInOrder'
  <2>1. taskStatus'[t] = "completed"
    BY <1>6, Completes
  <2>2. ASSUME NEW u \in Tasks, taskStatus'[u] = "ready", taskStatus[u] # "ready"
        PROVE  \A p \in deps[u] : taskStatus'[p] = "completed"
    <3>1. u # t /\ \A p \in deps[u] : p = t \/ taskStatus[p] = "completed"
      BY <1>6, <2>1, <2>2, Completes
    <3> QED
      BY <1>1, <2>1, <3>1
  <2> QED
    BY <1>2, <1>6, <2>2
<1>7. ASSUME NEW t \in Tasks, NEW s \in OperatorStatuses, TaskUpdate(t, s)
      PROVE  ReadyInOrder' /\ BegunInOrder'
  BY <1>6, <1>7, Updated DEF OnlyCompletes
<1>8. ASSUME NEW d \in DispatchId, NEW o \in {"completed", "failed"}, Report(d, o)
      PROVE  ReadyInOrder' /\ BegunInOrder'
  <2>1. CASE o = "completed"
    BY <1>6, <1>8, <2>1, Reported
  <2>2. CASE o = "failed"
    <3>1. deps' = deps /\ ctxTask' = ctxTask /\ taskStatus' = [taskStatus EXCEPT ![ctxTask[d]] = "failed"]
      BY <1>8, <2>2, Reported
    <3>2. \A u \in Tasks : taskStatus'[u] = "ready" => taskStatus[u] = "ready"
      BY <1>1, <3>1
    <3> QED
      BY <1>2, <3>1, <3>2
  <2> QED
    BY <2>1, <2>2
<1> QED
  BY <1>3, <1>4, <1>5, <1>7, <1>8 DEF StepKind, OnlyCompletes

(* Work on a Task starts only after all its dependencies completed, on      *)
(* every way of starting it, first or again.                                *)
THEOREM WorkInOrder ==
  ASSUME OnlyCompletes
  PROVE  Spec => []DepsRespected
<1>1. Init => ReadyInOrder /\ BegunInOrder
  BY DispatchAssumption DEF Init, ReadyInOrder, BegunInOrder
<1>2. IInv /\ TaskStarted /\ ReadyInOrder /\ BegunInOrder /\ [Next]_vars
        => ReadyInOrder' /\ BegunInOrder'
  BY StepKinds, DepsStep
<1>3. Spec => []IInv /\ []TaskStarted
  BY LeaseInvariant, StartedAlways DEF OnlyCompletes
<1>4. IInv /\ BegunInOrder => DepsRespected
  BY DEF BegunInOrder, DepsDone, DepsRespected, IInv, TypeOK
<1> QED
  BY <1>1, <1>2, <1>3, <1>4, PTL DEF Spec

-----------------------------------------------------------------------------
(* Stops *)

LEMMA StopStep ==
  ASSUME IInv, TaskStarted, StepKind, "ready" \notin OperatorStatuses, Gates = {},
         NEW t \in Tasks, NEW d \in DispatchId, Newest(d, DispatchesOf(t)),
         workerState[d] \in {"stopping", "stop_unknown", "stopped"}
  PROVE  taskStatus'[t] # "ready" \/ taskStatus[t] = "ready"
<1>1. /\ ctxTask[d] = t /\ taskStatus[t] \notin {"absent", "pending"}
      /\ taskStatus \in [Tasks -> TaskStatuses \cup {"absent"}]
  BY DEF Newest, DispatchesOf, TaskStarted, IInv, TypeOK
<1>2. CASE KeepsTasks
  <2>1. ASSUME NEW e \in DispatchId, DispatchMoves(e), ctxTask[e] = t, taskStatus'[t] = "ready"
        PROVE  FALSE
    <3>1. Active(e) /\ ~StopPending(e)
      BY <2>1 DEF DispatchMoves
    <3>2. d <= e /\ e <= d
      BY <1>1, <2>1, <3>1 DEF IInv, ActiveIsLatest, Newest, DispatchesOf
    <3>3. e = d
      BY <3>2 DEF DispatchId
    <3>4. workerState[d] = "stopped" /\ ctxStatus[d] # "absent"
      BY <3>1, <3>3 DEF StopPending, Active, ActiveStatuses
    <3>5. ContextOnly(d) \/ LiveWorker(d)
      BY <3>1, <3>3 DEF IInv, WorkerMatchesDispatch
    <3>6. ContextOnly(d) => workerState[d] = "absent"
      BY <3>4 DEF IInv, RowsInOrder
    <3> QED
      BY <3>4, <3>5, <3>6 DEF LiveWorker, LiveStates
  <2> QED
    BY <1>2, <2>1 DEF KeepsTasks, DispatchMoves
<1>3. ASSUME NEW u \in Tasks, Begins(u) PROVE taskStatus'[t] # "ready" \/ taskStatus[t] = "ready"
  BY <1>1, <1>3 DEF Begins
<1>4. ASSUME NEW u \in Tasks, NEW ds \in SUBSET Tasks, CreateTask(u, ds)
      PROVE  taskStatus'[t] # "ready" \/ taskStatus[t] = "ready"
  BY <1>1, <1>4 DEF CreateTask
<1>5. ASSUME NEW u \in Tasks, NEW s \in OperatorStatuses, TaskUpdate(u, s)
      PROVE  taskStatus'[t] # "ready" \/ taskStatus[t] = "ready"
  BY <1>1, <1>5, Updated, Completes
<1>6. ASSUME NEW e \in DispatchId, NEW o \in {"completed", "failed"}, Report(e, o)
      PROVE  taskStatus'[t] # "ready" \/ taskStatus[t] = "ready"
  BY <1>1, <1>6, Reported, Completes
<1> QED
  BY <1>2, <1>3, <1>4, <1>5, <1>6 DEF StepKind

(* A Task whose newest worker was asked to stop does not come back to the   *)
(* ready queue by itself, whatever exit, recovery or relay reports of it.   *)
THEOREM StopHolds ==
  ASSUME OperatorStatuses \cap {"ready", "pending", "dispatched"} = {}, Gates = {}
  PROVE  Spec => StopNotRequeued
<1>1. IInv /\ TaskStarted /\ [Next]_vars
        => [\A t \in Tasks, d \in DispatchId :
              /\ Newest(d, DispatchesOf(t))
              /\ workerState[d] \in {"stopping", "stop_unknown", "stopped"}
              => taskStatus'[t] # "ready" \/ taskStatus[t] = "ready"]_vars
  BY StepKinds, StopStep
<1>2. Spec => []IInv /\ []TaskStarted
  BY LeaseInvariant, StartedAlways
<1> QED
  BY <1>1, <1>2, PTL DEF Spec, StopNotRequeued

-----------------------------------------------------------------------------
(* Questions *)

Withdrawn == {"start_unknown", "stopping", "stop_unknown", "stopped", "abandoned"}

(* A local worker has a capability from the moment it has a terminal, and a *)
(* pending question has an asker.                                           *)
AskersOK ==
  /\ \A d \in DispatchId : mode[d] = "local" /\ assignee[d] # None => capability[d] # "none"
  /\ \A q \in Questions : questionStatus[q] = "pending" =>
       questionOf[q] \in DispatchId /\ mode[questionOf[q]] # "absent"

(* A step that launches nothing and asks nothing, and that closes the       *)
(* questions of the workers it withdraws.                                   *)
AsksNothing ==
  /\ mode' = mode /\ assignee' = assignee /\ questionOf' = questionOf
  /\ \A d \in DispatchId : capability'[d] = "none" => capability[d] = "none"
  /\ \A q \in Questions : questionStatus'[q] = "pending" => questionStatus[q] = "pending"
  /\ \A d \in DispatchId : workerState'[d] \in Withdrawn /\ workerState[d] \notin Withdrawn =>
       \A q \in Questions : questionOf[q] = d => questionStatus'[q] # "pending"

LEMMA QuietStep ==
  ASSUME IInv, AskersOK, WithdrawnWorkerHasNoQuestion, AsksNothing
  PROVE  AskersOK' /\ WithdrawnWorkerHasNoQuestion'
<1>1. AskersOK'
  BY DEF AskersOK, AsksNothing
<1>2. WithdrawnWorkerHasNoQuestion'
  <2> SUFFICES ASSUME NEW q \in Questions, questionStatus'[q] = "pending",
                      mode'[questionOf'[q]] # "federated", workerState'[questionOf'[q]] \in Withdrawn
               PROVE  FALSE
    BY DEF WithdrawnWorkerHasNoQuestion, Federated, Withdrawn
  <2>1. /\ questionOf'[q] = questionOf[q] /\ mode' = mode /\ questionStatus[q] = "pending"
        /\ questionOf[q] \in DispatchId
    BY DEF AsksNothing, AskersOK
  <2>2. workerState[questionOf[q]] \in Withdrawn
    BY <2>1 DEF AsksNothing
  <2> QED
    BY <2>1, <2>2 DEF WithdrawnWorkerHasNoQuestion, Federated, Withdrawn
<1> QED
  BY <1>1, <1>2

LEMMA RevokeKeeps ==
  ASSUME NEW ds, Revoke(ds)
  PROVE  \A d \in DispatchId : capability'[d] = "none" => capability[d] = "none"
BY DEF Revoke

LEMMA CloseKeeps ==
  ASSUME NEW ds, CloseQuestions(ds)
  PROVE  /\ questionOf' = questionOf
         /\ \A q \in Questions : questionStatus'[q] = "pending" =>
              questionStatus[q] = "pending" /\ questionOf[q] \notin ds
BY DEF CloseQuestions

(* The worker of at most one dispatch changes.                              *)
LEMMA OneWorkerAsks ==
  ASSUME IInv, NEW d \in DispatchId, NEW state, NEW ds,
         mode' = mode, assignee' = assignee,
         \A e \in DispatchId : capability'[e] = "none" => capability[e] = "none",
         CloseQuestions(ds) \/ UNCHANGED questionVars,
         workerState' = [workerState EXCEPT ![d] = state],
         state \in Withdrawn => workerState[d] \in Withdrawn \/ (d \in ds /\ CloseQuestions(ds))
  PROVE  AsksNothing
<1>1. /\ questionOf' = questionOf
      /\ \A q \in Questions : questionStatus'[q] = "pending" => questionStatus[q] = "pending"
  BY CloseKeeps DEF questionVars
<1>2. \A e \in DispatchId : workerState'[e] = IF e = d THEN state ELSE workerState[e]
  BY DEF IInv, TypeOK
<1>3. ASSUME CloseQuestions(ds), d \in ds
      PROVE  \A q \in Questions : questionOf[q] = d => questionStatus'[q] # "pending"
  BY <1>3, CloseKeeps
<1> QED
  BY <1>1, <1>2, <1>3 DEF AsksNothing

LEMMA SameWorkersAsk ==
  ASSUME mode' = mode, assignee' = assignee, workerState' = workerState,
         \A e \in DispatchId : capability'[e] = "none" => capability[e] = "none",
         questionOf' = questionOf,
         \A q \in Questions : questionStatus'[q] = "pending" => questionStatus[q] = "pending"
  PROVE  AsksNothing
BY DEF AsksNothing

LEMMA TaskAsksNothing ==
  ASSUME IInv, NEW t \in Tasks,
         \/ \E ds \in SUBSET (Tasks \ {t}) : CreateTask(t, ds)
         \/ \E s \in OperatorStatuses : TaskUpdate(t, s)
         \/ \E g \in Gates : CreateGate(g, t)
  PROVE  AsksNothing
<1>1. /\ mode' = mode /\ assignee' = assignee /\ workerState' = workerState /\ questionVars' = questionVars
      /\ capability' = capability \/ Revoke(ActiveOf(t))
  BY DEF CreateTask, TaskUpdate, CreateGate, ctxKeys, ctxVars
<1> QED
  BY <1>1, RevokeKeeps, SameWorkersAsk DEF questionVars

LEMMA FailAsksNothing ==
  ASSUME IInv, NEW d \in DispatchId, NEW exited, FailDispatch(d, exited)
  PROVE  AsksNothing
<1>1. /\ mode' = mode /\ assignee' = assignee /\ UNCHANGED questionVars /\ Revoke({d})
      /\ workerState' = [workerState EXCEPT ![d] = IF LiveWorker(d) THEN "failed" ELSE workerState[d]]
  BY DEF FailDispatch, ctxKeys, IInv, TypeOK
<1>2. (IF LiveWorker(d) THEN "failed" ELSE workerState[d]) \in Withdrawn => workerState[d] \in Withdrawn
  BY DEF Withdrawn
<1> QED
  BY <1>1, <1>2, RevokeKeeps, OneWorkerAsks

LEMMA StartAsksNothing ==
  ASSUME IInv, NEW d \in DispatchId,
         \/ ReleaseContextOnly(d) \/ MarkReady(d) \/ FailStart(d) \/ MarkStartUnknown(d)
         \/ \E o \in {"ready", "failed", "stopped"} : ReconcileFederatedStart(d, o)
  PROVE  AsksNothing
<1>1. CASE ReleaseContextOnly(d)
  <2>1. /\ mode' = mode /\ assignee' = assignee /\ workerState' = workerState
        /\ Revoke({d}) /\ CloseQuestions({d})
    BY <1>1 DEF ReleaseContextOnly, ctxKeys
  <2> QED
    BY <2>1, RevokeKeeps, CloseKeeps, SameWorkersAsk
<1>2. CASE MarkReady(d)
  <2>1. /\ mode' = mode /\ assignee' = assignee /\ capability' = capability /\ UNCHANGED questionVars
        /\ workerState' = [workerState EXCEPT ![d] = "ready"]
    BY <1>2 DEF MarkReady, ctxKeys, SetWorker
  <2> QED
    BY <2>1, OneWorkerAsks DEF Withdrawn
<1>3. CASE FailStart(d)
  <2>1. /\ mode' = mode /\ assignee' = assignee /\ Revoke({d}) /\ CloseQuestions({d})
        /\ workerState' = [workerState EXCEPT ![d] = "failed"]
    BY <1>3 DEF FailStart, ctxKeys, SetWorker
  <2> QED
    BY <2>1, RevokeKeeps, OneWorkerAsks DEF Withdrawn
<1>4. CASE MarkStartUnknown(d)
  <2>1. /\ mode' = mode /\ assignee' = assignee /\ Revoke({d}) /\ CloseQuestions({d})
        /\ workerState' = [workerState EXCEPT ![d] = "start_unknown"]
    BY <1>4 DEF MarkStartUnknown, ctxKeys, SetWorker
  <2> QED
    BY <2>1, RevokeKeeps, OneWorkerAsks
<1>5. ASSUME NEW o \in {"ready", "failed", "stopped"}, ReconcileFederatedStart(d, o) PROVE AsksNothing
  <2>1. /\ mode' = mode /\ assignee' = assignee
        /\ workerState' = [workerState EXCEPT ![d] = o]
        /\ \/ o = "ready" /\ capability' = capability /\ UNCHANGED questionVars
           \/ Revoke({d} \cap ActiveOf(ctxTask[d])) /\ CloseQuestions({d})
    BY <1>5 DEF ReconcileFederatedStart, ctxKeys, SetWorker
  <2> QED
    BY <2>1, RevokeKeeps, OneWorkerAsks DEF Withdrawn
<1> QED
  BY <1>1, <1>2, <1>3, <1>4, <1>5

LEMMA StopAsksNothing ==
  ASSUME IInv, NEW d \in DispatchId,
         \/ BeginStop(d) \/ SettleStop(d) \/ MarkStopUnknown(d) \/ ResumeFederated(d) \/ Abandon(d)
  PROVE  AsksNothing
<1>1. mode' = mode /\ assignee' = assignee
  BY DEF BeginStop, SettleStop, MarkStopUnknown, ResumeFederated, Abandon, ctxKeys, ctxVars
<1>2. CASE BeginStop(d) \/ Abandon(d)
  <2>1. /\ Revoke({d}) /\ CloseQuestions({d})
        /\ \E s : workerState' = [workerState EXCEPT ![d] = s]
    BY <1>2 DEF BeginStop, Abandon, SetWorker
  <2> QED
    BY <1>1, <2>1, RevokeKeeps, OneWorkerAsks
<1>3. CASE SettleStop(d) \/ MarkStopUnknown(d)
  <2>1. /\ capability' = capability /\ UNCHANGED questionVars /\ workerState[d] \in Withdrawn
        /\ \E s : workerState' = [workerState EXCEPT ![d] = s]
    BY <1>3 DEF SettleStop, MarkStopUnknown, SetWorker, Withdrawn, ctxVars
  <2> QED
    BY <1>1, <2>1, OneWorkerAsks
<1>4. CASE ResumeFederated(d)
  <2>1. /\ capability' = capability /\ UNCHANGED questionVars
        /\ workerState' = [workerState EXCEPT ![d] = "ready"]
    BY <1>4 DEF ResumeFederated, SetWorker, ctxVars
  <2> QED
    BY <1>1, <2>1, OneWorkerAsks DEF Withdrawn
<1> QED
  BY <1>2, <1>3, <1>4

LEMMA SettleAsksNothing ==
  ASSUME IInv, NEW d \in DispatchId,
         (\E o \in {"completed", "failed"} : Report(d, o)) \/ ReconcileMissing(d)
  PROVE  AsksNothing
<1>1. ASSUME NEW o \in {"completed", "failed"}, Report(d, o) PROVE AsksNothing
  <2>1. /\ mode' = mode /\ assignee' = assignee
        /\ Revoke(ActiveOf(ctxTask[d])) /\ CloseQuestions(ActiveOf(ctxTask[d]))
    BY <1>1 DEF Report, ctxKeys
  <2>2. PICK s : s = IF workerState[d] # "ready" THEN workerState[d]
                     ELSE IF o = "completed" THEN "succeeded" ELSE "failed"
    OBVIOUS
  <2>3. workerState' = [workerState EXCEPT ![d] = s]
    BY <1>1, <2>2 DEF Report, IInv, TypeOK
  <2>4. s \in Withdrawn => workerState[d] \in Withdrawn
    BY <2>2 DEF Withdrawn
  <2> QED
    BY <2>1, <2>3, <2>4, RevokeKeeps, OneWorkerAsks
<1>2. CASE ReconcileMissing(d)
  <2>1. {d} \cap ActiveOf(ctxTask[d]) = {d}
    BY <1>2, LiveIsActive, ActiveTask DEF ReconcileMissing
  <2>2. /\ mode' = mode /\ assignee' = assignee /\ Revoke({d}) /\ CloseQuestions({d})
        /\ \E s : workerState' = [workerState EXCEPT ![d] = s]
    BY <1>2, <2>1 DEF ReconcileMissing, ctxKeys, SetWorker
  <2> QED
    BY <2>2, RevokeKeeps, OneWorkerAsks
<1> QED
  BY <1>1, <1>2

(* Launching a dispatch gives no asker of a pending question a new worker.  *)
LEMMA InsertAsks ==
  ASSUME IInv, AskersOK, WithdrawnWorkerHasNoQuestion,
         NEW t \in Tasks, NEW m \in LaunchModes, NEW status, NEW failures, NEW h, NEW cap,
         NEW worker \in {"absent", "starting"},
         InsertDispatch(t, m, status, failures, h, cap, worker),
         m = "context" \/ h = None
  PROVE  AskersOK' /\ WithdrawnWorkerHasNoQuestion'
<1> PICK d \in DispatchId : d = nDispatch + 1 /\ mode[d] = "absent"
  BY DispatchAssumption DEF InsertDispatch, IInv, RowsInOrder, TypeOK, DispatchId
<1>1. /\ mode' = [mode EXCEPT ![d] = m] /\ assignee' = [assignee EXCEPT ![d] = h]
      /\ capability' = [capability EXCEPT ![d] = cap]
      /\ workerState' = [workerState EXCEPT ![d] = worker]
      /\ questionOf' = questionOf /\ questionStatus' = questionStatus
  BY DEF InsertDispatch, questionVars
<1>2. \A e \in DispatchId \ {d} : /\ mode'[e] = mode[e] /\ assignee'[e] = assignee[e]
                                  /\ capability'[e] = capability[e] /\ workerState'[e] = workerState[e]
  BY <1>1 DEF IInv, TypeOK
<1>3. mode'[d] = m /\ assignee'[d] = h
  BY <1>1 DEF IInv, TypeOK
<1>4. \A q \in Questions : questionStatus[q] = "pending" => questionOf[q] \in DispatchId \ {d}
  BY DEF AskersOK
<1>5. AskersOK'
  BY <1>1, <1>2, <1>3, <1>4 DEF AskersOK
<1>6. WithdrawnWorkerHasNoQuestion'
  BY <1>1, <1>2, <1>4 DEF WithdrawnWorkerHasNoQuestion, Federated
<1> QED
  BY <1>5, <1>6

(* A worker that was withdrawn has lost its capability, so it cannot ask.   *)
LEMMA AskSteps ==
  ASSUME IInv, AskersOK, WithdrawnWorkerHasNoQuestion, NEW q \in Questions, NEW d \in DispatchId,
         Ask(q, d) \/ ImportQuestion(q, d)
  PROVE  AskersOK' /\ WithdrawnWorkerHasNoQuestion'
<1>1. /\ questionOf' = [questionOf EXCEPT ![q] = d]
      /\ questionStatus' = [questionStatus EXCEPT ![q] = "pending"]
      /\ UNCHANGED <<mode, assignee, capability, workerState>>
  BY DEF Ask, ImportQuestion, ctxVars
<1>2. mode[d] # "absent"
  BY DEF Ask, ImportQuestion, Federated, Active, ActiveStatuses, IInv, RowsInOrder
<1>3. Federated(d) \/ workerState[d] \notin Withdrawn
  <2>1. SUFFICES ASSUME Ask(q, d), ~Federated(d), workerState[d] \in Withdrawn PROVE FALSE
    BY DEF ImportQuestion
  <2>2. Active(d) /\ assignee[d] # None /\ capability[d] # "revoked"
    BY <2>1 DEF Ask, HasAuthority
  <2>3. ~ContextOnly(d)
    BY <2>1, <2>2 DEF IInv, RowsInOrder, Withdrawn, Active, ActiveStatuses
  <2>4. mode[d] = "local"
    BY <1>2, <2>1, <2>3 DEF Federated, ContextOnly, IInv, TypeOK, LaunchModes
  <2>5. capability[d] = "live"
    BY <2>2, <2>4 DEF AskersOK, IInv, TypeOK
  <2> QED
    BY <2>1, <2>5 DEF IInv, CapabilityFollowsLease, Withdrawn
<1>4. \A p \in Questions \ {q} : questionOf'[p] = questionOf[p] /\ questionStatus'[p] = questionStatus[p]
  BY <1>1 DEF IInv, TypeOK
<1>5. questionOf'[q] = d
  BY <1>1 DEF IInv, TypeOK
<1>6. AskersOK'
  BY <1>1, <1>2, <1>4, <1>5 DEF AskersOK
<1>7. WithdrawnWorkerHasNoQuestion'
  BY <1>1, <1>3, <1>4, <1>5 DEF WithdrawnWorkerHasNoQuestion, Federated, Withdrawn
<1> QED
  BY <1>6, <1>7

LEMMA AuthorityAsks ==
  ASSUME IInv, AskersOK, WithdrawnWorkerHasNoQuestion, NEW d \in DispatchId, NEW h \in Handles,
         PrepareAuthority(d, h)
  PROVE  AskersOK' /\ WithdrawnWorkerHasNoQuestion'
<1>1. /\ assignee' = [assignee EXCEPT ![d] = h] /\ capability' = [capability EXCEPT ![d] = "live"]
      /\ UNCHANGED <<mode, workerState, questionOf, questionStatus>>
  BY DEF PrepareAuthority, ctxKeys, questionVars
<1>2. AskersOK'
  BY <1>1 DEF AskersOK, IInv, TypeOK
<1>3. WithdrawnWorkerHasNoQuestion'
  BY <1>1 DEF WithdrawnWorkerHasNoQuestion, Federated
<1> QED
  BY <1>2, <1>3

LEMMA AskersStep ==
  ASSUME IInv, AskersOK, WithdrawnWorkerHasNoQuestion, [Next]_vars
  PROVE  AskersOK' /\ WithdrawnWorkerHasNoQuestion'
<1>1. ASSUME NEW t \in Tasks,
             \/ \E ds \in SUBSET (Tasks \ {t}) : CreateTask(t, ds)
             \/ \E s \in OperatorStatuses : TaskUpdate(t, s)
             \/ \E g \in Gates : CreateGate(g, t)
      PROVE  AskersOK' /\ WithdrawnWorkerHasNoQuestion'
  BY <1>1, TaskAsksNothing, QuietStep
<1>2. ASSUME NEW t \in Tasks,
             \/ \E h \in Handles, inject \in BOOLEAN : Dispatch(t, h, inject)
             \/ \E m \in Modes : WorkerStart(t, m)
             \/ \E m \in Modes, prior \in DispatchId : WorkerRetry(t, m, prior)
      PROVE  AskersOK' /\ WithdrawnWorkerHasNoQuestion'
  BY <1>2, InsertAsks, DispatchAssumption DEF Dispatch, WorkerStart, WorkerRetry, LaunchModes
<1>3. ASSUME NEW d \in DispatchId, NEW h \in Handles, PrepareAuthority(d, h)
      PROVE  AskersOK' /\ WithdrawnWorkerHasNoQuestion'
  BY <1>3, AuthorityAsks
<1>4. ASSUME NEW d \in DispatchId,
             \/ PromptFailed(d) \/ Escalate(d) \/ ReleaseContextOnly(d)
             \/ MarkReady(d) \/ FailStart(d) \/ MarkStartUnknown(d)
             \/ \E o \in {"ready", "failed", "stopped"} : ReconcileFederatedStart(d, o)
             \/ \E o \in {"completed", "failed"} : Report(d, o)
             \/ BeginStop(d) \/ SettleStop(d) \/ MarkStopUnknown(d) \/ ResumeFederated(d)
             \/ Abandon(d) \/ ReconcileMissing(d)
      PROVE  AskersOK' /\ WithdrawnWorkerHasNoQuestion'
  <2>1. PromptFailed(d) \/ Escalate(d) => AsksNothing
    BY FailAsksNothing DEF PromptFailed, Escalate
  <2> QED
    BY <1>4, <2>1, StartAsksNothing, StopAsksNothing, SettleAsksNothing, QuietStep
<1>5. ASSUME NEW h \in Handles, ProcessExit(h)
      PROVE  AskersOK' /\ WithdrawnWorkerHasNoQuestion'
  BY <1>5, FailAsksNothing, QuietStep DEF ProcessExit
<1>6. ASSUME NEW q \in Questions, NEW d \in DispatchId, Ask(q, d) \/ ImportQuestion(q, d)
      PROVE  AskersOK' /\ WithdrawnWorkerHasNoQuestion'
  BY <1>6, AskSteps
<1>7. ASSUME \/ \E g \in Gates : ResolveGate(g)
             \/ \E q \in Questions : Answer(q)
             \/ UNCHANGED vars
      PROVE  AskersOK' /\ WithdrawnWorkerHasNoQuestion'
  <2>1. UNCHANGED <<mode, assignee, workerState, capability, questionOf>>
    BY <1>7 DEF ResolveGate, Answer, vars, ctxVars, questionVars
  <2>2. \A q \in Questions : questionStatus'[q] = "pending" => questionStatus[q] = "pending"
    BY <1>7 DEF ResolveGate, Answer, vars, questionVars, IInv, TypeOK
  <2> QED
    BY <2>1, <2>2, SameWorkersAsk, QuietStep
<1> QED
  BY <1>1, <1>2, <1>3, <1>4, <1>5, <1>6, <1>7 DEF Next, TaskStep, DispatchStep, ThreadStep

(* A worker that was stopped or abandoned, or whose start is in doubt, has  *)
(* no question left open and cannot open another: its questions close with  *)
(* the capability it would ask with.                                        *)
THEOREM NobodyLeftAsking ==
  ASSUME "dispatched" \notin OperatorStatuses
  PROVE  Spec => []WithdrawnWorkerHasNoQuestion
<1>1. Init => AskersOK /\ WithdrawnWorkerHasNoQuestion
  BY DEF Init, AskersOK, WithdrawnWorkerHasNoQuestion
<1>2. IInv /\ AskersOK /\ WithdrawnWorkerHasNoQuestion /\ [Next]_vars
        => AskersOK' /\ WithdrawnWorkerHasNoQuestion'
  BY AskersStep
<1>3. Spec => []IInv
  BY LeaseInvariant
<1> QED
  BY <1>1, <1>2, <1>3, PTL DEF Spec

-----------------------------------------------------------------------------
(* The circuit breaker.  Supervised retries begin a new count, so this is   *)
(* about context-only dispatches.                                           *)

OnlyQueued ==
  /\ Modes = {"context"} /\ Gates = {}
  /\ OperatorStatuses \subseteq {"completed", "failed"}

Counted(t) ==
  {d \in DispatchesOf(t) : failureCount[d] > 0 /\ ctxStatus[d] \in {"failed", "circuit_broken"}}

Unbroken(t) == \A n \in PriorFailures(t) : n < BreakFailures

(* While a Task is queued or worked on, the failures of its dispatches are  *)
(* counted by the largest count, or by that of the active dispatch.         *)
BreakerOK ==
  /\ \A d \in DispatchId : mode[d] \in {"context", "absent"}
  /\ \A t \in Tasks : taskStatus[t] = "ready" =>
       Unbroken(t) /\ \E n \in PriorFailures(t) : Cardinality(Counted(t)) <= n
  /\ \A d \in DispatchId : Active(d) =>
       Unbroken(ctxTask[d]) /\ Cardinality(Counted(ctxTask[d])) <= failureCount[d]

LEMMA CountedFinite ==
  ASSUME NEW t
  PROVE  IsFiniteSet(Counted(t)) /\ Cardinality(Counted(t)) \in Nat
<1>1. IsFiniteSet(DispatchId)
  BY FS_Interval, DispatchAssumption DEF DispatchId
<1>2. Counted(t) \subseteq DispatchId
  BY DEF Counted, DispatchesOf
<1> QED
  BY <1>1, <1>2, FS_Subset, FS_CardinalityType

(* The failures of a Task whose dispatches do not change are counted alike. *)
LEMMA CountsElsewhere ==
  ASSUME NEW u, \A e \in DispatchId : ctxTask'[e] = u <=> ctxTask[e] = u,
         \A e \in DispatchesOf(u) : failureCount'[e] = failureCount[e] /\ ctxStatus'[e] = ctxStatus[e]
  PROVE  Counted(u)' = Counted(u) /\ (Unbroken(u)' <=> Unbroken(u)) /\ PriorFailures(u)' = PriorFailures(u)
<1>1. DispatchesOf(u)' = DispatchesOf(u)
  BY DEF DispatchesOf
<1>2. PriorFailures(u)' = PriorFailures(u)
  BY <1>1 DEF PriorFailures
<1> QED
  BY <1>1, <1>2 DEF Counted, Unbroken

LEMMA NoDispatches ==
  ASSUME NEW u, DispatchesOf(u) = {}
  PROVE  Unbroken(u) /\ \E n \in PriorFailures(u) : Cardinality(Counted(u)) <= n
<1>1. Counted(u) = {} /\ PriorFailures(u) = {0}
  BY DEF Counted, PriorFailures
<1> QED
  BY <1>1, FS_EmptySet, DispatchAssumption DEF Unbroken

(* The work on t ends without queueing it again.                            *)
LEMMA EndsWork ==
  ASSUME IInv, BreakerOK, NEW t \in Tasks, ctxTask' = ctxTask, mode' = mode,
         \A e \in DispatchId \ DispatchesOf(t) :
           failureCount'[e] = failureCount[e] /\ ctxStatus'[e] = ctxStatus[e],
         \A e \in DispatchesOf(t) : ctxStatus'[e] \notin ActiveStatuses,
         \A u \in Tasks : taskStatus'[u] = "ready" =>
           (u # t /\ taskStatus[u] = "ready") \/ DispatchesOf(u) = {}
  PROVE  BreakerOK'
<1>1. ASSUME NEW u \in Tasks, u # t
      PROVE  Counted(u)' = Counted(u) /\ (Unbroken(u)' <=> Unbroken(u)) /\ PriorFailures(u)' = PriorFailures(u)
  <2>1. \A e \in DispatchesOf(u) : e \in DispatchId \ DispatchesOf(t)
    BY <1>1 DEF DispatchesOf
  <2> QED
    BY <2>1, CountsElsewhere
<1>2. ASSUME NEW u \in Tasks, taskStatus'[u] = "ready"
      PROVE  Unbroken(u)' /\ \E n \in PriorFailures(u)' : Cardinality(Counted(u)') <= n
  <2>1. CASE u # t /\ taskStatus[u] = "ready"
    BY <1>1, <2>1 DEF BreakerOK
  <2>2. CASE DispatchesOf(u) = {}
    <3>1. Counted(u)' = Counted(u) /\ (Unbroken(u)' <=> Unbroken(u)) /\ PriorFailures(u)' = PriorFailures(u)
      BY <2>2, CountsElsewhere
    <3> QED
      BY <2>2, <3>1, NoDispatches
  <2> QED
    BY <1>2, <2>1, <2>2
<1>3. ASSUME NEW d \in DispatchId, ctxStatus'[d] \in ActiveStatuses
      PROVE  Unbroken(ctxTask[d])' /\ Cardinality(Counted(ctxTask[d])') <= failureCount'[d]
  <2>1. d \notin DispatchesOf(t)
    BY <1>3
  <2>2. Active(d) /\ failureCount'[d] = failureCount[d]
    BY <1>3, <2>1 DEF Active
  <2>3. PICK u \in Tasks : u = ctxTask[d] /\ u # t
    BY <2>1, <2>2, ActiveTask DEF DispatchesOf
  <2>4. Unbroken(u) /\ Cardinality(Counted(u)) <= failureCount[d]
    BY <2>2, <2>3 DEF BreakerOK
  <2>5. Unbroken(u)' /\ Cardinality(Counted(u)') <= failureCount'[d]
    BY <1>1, <2>2, <2>3, <2>4
  <2> QED
    BY <2>3, <2>5
<1> QED
  BY <1>2, <1>3 DEF BreakerOK, Active

(* In context-only mode no row has a worker.                                *)
LEMMA NoWorkers ==
  ASSUME IInv, BreakerOK
  PROVE  \A d \in DispatchId : workerState[d] = "absent" /\ (Active(d) => ContextOnly(d))
BY DEF IInv, RowsInOrder, BreakerOK, ContextOnly, TypeOK, Active, ActiveStatuses, DispatchId

LEMMA FailBreaks ==
  ASSUME IInv, BreakerOK, NEW d \in DispatchId, NEW exited, FailDispatch(d, exited)
  PROVE  BreakerOK'
<1> PICK t : t = ctxTask[d]
  OBVIOUS
<1> PICK n \in Nat : n = failureCount[d]
  BY DEF IInv, TypeOK
<1>1. /\ Active(d) /\ t \in Tasks /\ ActiveOf(t) = {d} /\ d \in DispatchesOf(t)
      /\ workerState[d] = "absent"
      /\ taskStatus[t] = "dispatched"
      /\ taskStatus \in [Tasks -> TaskStatuses \cup {"absent"}]
  BY ActiveTask, NoWorkers DEF FailDispatch, DispatchesOf, InDoubt
<1>2. /\ ctxTask' = ctxTask /\ mode' = mode
      /\ ctxStatus' = [e \in DispatchId |-> IF e \in {d} THEN
                         (IF n + 1 >= BreakFailures THEN "circuit_broken" ELSE "failed")
                         ELSE ctxStatus[e]]
      /\ failureCount' = [failureCount EXCEPT ![d] = n + 1]
      /\ taskStatus' = [taskStatus EXCEPT ![t] = TaskAfterFailure(n + 1 >= BreakFailures)]
  BY <1>1 DEF FailDispatch, ctxKeys, SetCtx
<1>3. \A e \in DispatchId \ {d} : failureCount'[e] = failureCount[e] /\ ctxStatus'[e] = ctxStatus[e]
  BY <1>2 DEF IInv, TypeOK
<1>4. failureCount'[d] = n + 1 /\ ctxStatus'[d] \in {"failed", "circuit_broken"}
  BY <1>2 DEF IInv, TypeOK
<1>5. \A e \in DispatchesOf(t) : ctxStatus'[e] \notin ActiveStatuses
  BY <1>1, <1>3, <1>4 DEF ActiveOf, Active, DispatchesOf, ActiveStatuses
<1>6. CASE n + 1 >= BreakFailures
  <2>1. \A u \in Tasks : taskStatus'[u] = "ready" => u # t /\ taskStatus[u] = "ready"
    BY <1>1, <1>2, <1>6 DEF TaskAfterFailure
  <2>2. \A e \in DispatchId \ DispatchesOf(t) :
          failureCount'[e] = failureCount[e] /\ ctxStatus'[e] = ctxStatus[e]
    BY <1>1, <1>3
  <2> QED
    BY <1>1, <1>2, <1>5, <2>1, <2>2, EndsWork
<1>7. CASE n + 1 < BreakFailures
  <2>1. ASSUME NEW u \in Tasks, u # t
        PROVE  Counted(u)' = Counted(u) /\ (Unbroken(u)' <=> Unbroken(u)) /\ PriorFailures(u)' = PriorFailures(u)
    <3>1. \A e \in DispatchesOf(u) : e \in DispatchId \ {d}
      BY <1>1, <2>1 DEF DispatchesOf
    <3> QED
      BY <1>2, <1>3, <3>1, CountsElsewhere
  <2>2. DispatchesOf(t)' = DispatchesOf(t)
    BY <1>2 DEF DispatchesOf
  <2>3. /\ n + 1 \in PriorFailures(t)'
        /\ \A m \in PriorFailures(t)' : m = n + 1 \/ m \in PriorFailures(t)
    BY <1>1, <1>3, <1>4, <2>2 DEF PriorFailures, DispatchesOf
  <2>4. Unbroken(t) /\ Cardinality(Counted(t)) <= n
    BY <1>1 DEF BreakerOK
  <2>5. Unbroken(t)'
    BY <1>7, <2>3, <2>4 DEF Unbroken
  <2>6. Cardinality(Counted(t)') <= n + 1
    <3>1. Counted(t)' \in SUBSET (Counted(t) \cup {d})
      BY <1>3, <2>2 DEF Counted, DispatchesOf
    <3>2. /\ IsFiniteSet(Counted(t) \cup {d}) /\ Cardinality(Counted(t)) \in Nat
          /\ Cardinality(Counted(t) \cup {d}) \in {Cardinality(Counted(t)), Cardinality(Counted(t)) + 1}
      BY CountedFinite, FS_AddElement
    <3>3. /\ Cardinality(Counted(t)') <= Cardinality(Counted(t) \cup {d})
          /\ Cardinality(Counted(t)') \in Nat
      BY <3>1, <3>2, FS_Subset, FS_CardinalityType
    <3> QED
      BY <2>4, <3>2, <3>3
  <2>7. ASSUME NEW u \in Tasks, taskStatus'[u] = "ready"
        PROVE  Unbroken(u)' /\ \E m \in PriorFailures(u)' : Cardinality(Counted(u)') <= m
    <3>1. CASE u = t
      BY <2>3, <2>5, <2>6, <3>1
    <3>2. CASE u # t
      <4>1. taskStatus[u] = "ready"
        BY <1>1, <1>2, <2>7, <3>2
      <4>2. Unbroken(u) /\ \E m \in PriorFailures(u) : Cardinality(Counted(u)) <= m
        BY <4>1 DEF BreakerOK
      <4> QED
        BY <2>1, <3>2, <4>2
    <3> QED
      BY <3>1, <3>2
  <2>8. ASSUME NEW e \in DispatchId, ctxStatus'[e] \in ActiveStatuses
        PROVE  \E u \in Tasks : /\ u = ctxTask'[e] /\ Unbroken(u)'
                                /\ Cardinality(Counted(u)') <= failureCount'[e]
    <3>1. e \notin DispatchesOf(t) /\ e # d
      BY <1>1, <1>5, <2>8
    <3>2. Active(e) /\ failureCount'[e] = failureCount[e]
      BY <1>3, <2>8, <3>1 DEF Active
    <3>3. PICK u \in Tasks : u = ctxTask[e] /\ u # t
      BY <3>1, <3>2, ActiveTask DEF DispatchesOf
    <3>4. Unbroken(u) /\ Cardinality(Counted(u)) <= failureCount[e]
      BY <3>2, <3>3 DEF BreakerOK
    <3>5. Unbroken(u)' /\ Cardinality(Counted(u)') <= failureCount'[e]
      BY <2>1, <3>2, <3>3, <3>4
    <3> QED
      BY <1>2, <3>3, <3>5
  <2> QED
    BY <1>2, <2>7, <2>8 DEF BreakerOK, Active
<1> QED
  BY <1>6, <1>7, DispatchAssumption

LEMMA DispatchBreaks ==
  ASSUME IInv, BreakerOK, NEW t \in Tasks, NEW h, NEW inject, Dispatch(t, h, inject)
  PROVE  BreakerOK'
<1> PICK n \in PriorFailures(t) :
      /\ \A k \in PriorFailures(t) : k <= n
      /\ InsertDispatch(t, "context", "dispatched", n, h, IF inject THEN "live" ELSE "none", "absent")
  BY DEF Dispatch
<1> PICK d \in DispatchId : d = nDispatch + 1 /\ ctxTask[d] = None
  BY DispatchAssumption DEF InsertDispatch, IInv, RowsInOrder, TypeOK, DispatchId
<1>1. /\ ctxTask' = [ctxTask EXCEPT ![d] = t] /\ ctxStatus' = [ctxStatus EXCEPT ![d] = "dispatched"]
      /\ failureCount' = [failureCount EXCEPT ![d] = n] /\ mode' = [mode EXCEPT ![d] = "context"]
      /\ taskStatus' = [taskStatus EXCEPT ![t] = "dispatched"]
  BY DEF InsertDispatch
<1>2. \A e \in DispatchId \ {d} :
        /\ ctxTask'[e] = ctxTask[e] /\ ctxStatus'[e] = ctxStatus[e]
        /\ failureCount'[e] = failureCount[e] /\ mode'[e] = mode[e]
  BY <1>1 DEF IInv, TypeOK
<1>3. ctxTask'[d] = t /\ ctxStatus'[d] = "dispatched" /\ failureCount'[d] = n /\ mode'[d] = "context"
  BY <1>1 DEF IInv, TypeOK
<1>4. None \notin Tasks /\ taskStatus[t] = "ready" /\ taskStatus \in [Tasks -> TaskStatuses \cup {"absent"}]
  BY DispatchAssumption DEF Dispatch, Startable, IInv, TypeOK
<1>5. Unbroken(t) /\ Cardinality(Counted(t)) <= n
  <2>1. Unbroken(t) /\ \E k \in PriorFailures(t) : Cardinality(Counted(t)) <= k
    BY <1>4 DEF BreakerOK
  <2>2. PICK k \in PriorFailures(t) : Cardinality(Counted(t)) <= k /\ k <= n
    BY <2>1
  <2>3. k \in Nat /\ n \in Nat /\ Cardinality(Counted(t)) \in Nat
    BY CountedFinite DEF PriorFailures, DispatchesOf, IInv, TypeOK
  <2> QED
    BY <2>1, <2>2, <2>3
<1>6. ASSUME NEW u \in Tasks, u # t
      PROVE  Counted(u)' = Counted(u) /\ (Unbroken(u)' <=> Unbroken(u)) /\ PriorFailures(u)' = PriorFailures(u)
  <2>1. \A e \in DispatchId : ctxTask'[e] = u <=> ctxTask[e] = u
    BY <1>2, <1>3, <1>4, <1>6
  <2>2. \A e \in DispatchesOf(u) : failureCount'[e] = failureCount[e] /\ ctxStatus'[e] = ctxStatus[e]
    BY <1>2, <1>4 DEF DispatchesOf
  <2> QED
    BY <2>1, <2>2, CountsElsewhere
<1>7. /\ Counted(t)' = Counted(t)
      /\ \A m \in PriorFailures(t)' : m = n \/ m \in PriorFailures(t)
  <2>1. DispatchesOf(t)' = DispatchesOf(t) \cup {d} /\ d \notin DispatchesOf(t)
    BY <1>2, <1>3, <1>4 DEF DispatchesOf
  <2> QED
    BY <1>2, <1>3, <2>1 DEF Counted, PriorFailures, DispatchesOf
<1>8. Unbroken(t)' /\ Cardinality(Counted(t)') <= n
  BY <1>5, <1>7 DEF Unbroken
<1>9. ASSUME NEW u \in Tasks, taskStatus'[u] = "ready"
      PROVE  Unbroken(u)' /\ \E m \in PriorFailures(u)' : Cardinality(Counted(u)') <= m
  <2>1. u # t /\ taskStatus[u] = "ready"
    BY <1>1, <1>4, <1>9
  <2>2. Unbroken(u) /\ \E m \in PriorFailures(u) : Cardinality(Counted(u)) <= m
    BY <2>1 DEF BreakerOK
  <2> QED
    BY <1>6, <2>1, <2>2
<1>10. ASSUME NEW e \in DispatchId, ctxStatus'[e] \in ActiveStatuses
       PROVE  \E u \in Tasks : /\ u = ctxTask'[e] /\ Unbroken(u)'
                               /\ Cardinality(Counted(u)') <= failureCount'[e]
  <2>1. CASE e = d
    BY <1>3, <1>8, <2>1
  <2>2. CASE e # d
    <3>1. Active(e) /\ failureCount'[e] = failureCount[e] /\ ctxTask'[e] = ctxTask[e]
      BY <1>2, <1>10, <2>2 DEF Active
    <3>2. ctxTask[e] \in Tasks /\ ctxTask[e] # t
      BY <1>4, <3>1, ActiveTask
    <3>3. PICK u \in Tasks : u = ctxTask[e] /\ u # t
      BY <3>2
    <3>4. Unbroken(u) /\ Cardinality(Counted(u)) <= failureCount[e]
      BY <3>1, <3>3 DEF BreakerOK
    <3>5. Unbroken(u)' /\ Cardinality(Counted(u)') <= failureCount'[e]
      BY <1>6, <3>1, <3>3, <3>4
    <3> QED
      BY <3>1, <3>3, <3>5
  <2> QED
    BY <2>1, <2>2
<1>11. \A e \in DispatchId : mode'[e] \in {"context", "absent"}
  BY <1>2, <1>3 DEF BreakerOK
<1> QED
  BY <1>9, <1>10, <1>11 DEF BreakerOK, Active

LEMMA UpdateBreaks ==
  ASSUME IInv, TaskStarted, BreakerOK, OnlyQueued, NEW t \in Tasks,
         \/ \E ds \in SUBSET Tasks : CreateTask(t, ds)
         \/ \E s \in OperatorStatuses : TaskUpdate(t, s)
  PROVE  BreakerOK'
<1>1. \A u \in Tasks : taskStatus[u] \in {"absent", "pending"} => DispatchesOf(u) = {}
  BY DEF TaskStarted, DispatchesOf
<1>2. taskStatus \in [Tasks -> TaskStatuses \cup {"absent"}]
  BY DEF IInv, TypeOK
<1>3. ASSUME NEW ds \in SUBSET Tasks, CreateTask(t, ds) PROVE BreakerOK'
  <2>1. /\ taskStatus[t] = "absent" /\ UNCHANGED <<ctxTask, mode, failureCount, ctxStatus>>
        /\ \A u \in Tasks \ {t} : taskStatus'[u] = taskStatus[u]
    BY <1>2, <1>3 DEF CreateTask, ctxVars
  <2>2. DispatchesOf(t) = {}
    BY <1>1, <2>1
  <2> QED
    BY <2>1, <2>2, EndsWork
<1>4. ASSUME NEW s \in OperatorStatuses, TaskUpdate(t, s) PROVE BreakerOK'
  <2>1. /\ s \in {"completed", "failed"} /\ SetCtx(ActiveOf(t), s)
        /\ UNCHANGED <<ctxTask, mode, failureCount>>
    BY <1>4 DEF TaskUpdate, OnlyQueued, ctxKeys
  <2>2. /\ \A e \in DispatchId \ DispatchesOf(t) : ctxStatus'[e] = ctxStatus[e]
        /\ \A e \in DispatchesOf(t) : ctxStatus'[e] \notin ActiveStatuses
    BY <2>1 DEF SetCtx, ActiveOf, Active, DispatchesOf, ActiveStatuses
  <2>3. \A u \in Tasks : taskStatus'[u] = "ready" =>
           (u # t /\ taskStatus[u] = "ready") \/ taskStatus[u] = "pending"
    <3>1. CASE s = "completed"
      BY <1>2, <1>4, <3>1, Updated, Completes
    <3>2. CASE s = "failed"
      <4>1. taskStatus' = [taskStatus EXCEPT ![t] = "failed"]
        BY <1>4, <3>2, Updated
      <4> QED
        BY <1>2, <4>1
    <3> QED
      BY <2>1, <3>1, <3>2
  <2> QED
    BY <1>1, <2>1, <2>2, <2>3, EndsWork
<1> QED
  BY <1>3, <1>4

LEMMA SettleBreaks ==
  ASSUME IInv, TaskStarted, BreakerOK, NEW d \in DispatchId,
         (\E o \in {"completed", "failed"} : Report(d, o)) \/ ReleaseContextOnly(d)
  PROVE  BreakerOK'
<1>1. \A u \in Tasks : taskStatus[u] = "pending" => DispatchesOf(u) = {}
  BY DEF TaskStarted, DispatchesOf
<1>2. taskStatus \in [Tasks -> TaskStatuses \cup {"absent"}]
  BY DEF IInv, TypeOK
<1>3. ASSUME NEW o \in {"completed", "failed"}, Report(d, o) PROVE BreakerOK'
  <2>1. /\ ctxTask[d] \in Tasks /\ SetCtx(ActiveOf(ctxTask[d]), o)
        /\ UNCHANGED <<ctxTask, mode, failureCount>>
    BY <1>3, Reported DEF Report, ctxKeys
  <2>2. /\ \A e \in DispatchId \ DispatchesOf(ctxTask[d]) : ctxStatus'[e] = ctxStatus[e]
        /\ \A e \in DispatchesOf(ctxTask[d]) : ctxStatus'[e] \notin ActiveStatuses
    BY <2>1 DEF SetCtx, ActiveOf, Active, DispatchesOf, ActiveStatuses
  <2>3. \A u \in Tasks : taskStatus'[u] = "ready" =>
           (u # ctxTask[d] /\ taskStatus[u] = "ready") \/ taskStatus[u] = "pending"
    BY <1>2, <1>3, Reported, Completes
  <2> QED
    BY <1>1, <2>1, <2>2, <2>3, EndsWork
<1>4. CASE ReleaseContextOnly(d)
  <2>1. /\ Active(d) /\ SetCtx({d}, "failed") /\ UNCHANGED <<ctxTask, mode, failureCount>>
        /\ taskStatus' = [taskStatus EXCEPT ![ctxTask[d]] =
             IF @ = "dispatched" /\ ActiveOf(ctxTask[d]) = {d} THEN "blocked" ELSE @]
    BY <1>4 DEF ReleaseContextOnly, ctxKeys
  <2>2. /\ ctxTask[d] \in Tasks /\ ActiveOf(ctxTask[d]) = {d}
        /\ taskStatus[ctxTask[d]] \in {"dispatched", "blocked"} /\ d \in DispatchesOf(ctxTask[d])
    BY <2>1, ActiveTask DEF DispatchesOf
  <2>3. /\ \A e \in DispatchId \ DispatchesOf(ctxTask[d]) : ctxStatus'[e] = ctxStatus[e]
        /\ \A e \in DispatchesOf(ctxTask[d]) : ctxStatus'[e] \notin ActiveStatuses
    BY <2>1, <2>2 DEF SetCtx, ActiveOf, Active, DispatchesOf, ActiveStatuses
  <2>4. \A u \in Tasks : taskStatus'[u] = "ready" => u # ctxTask[d] /\ taskStatus[u] = "ready"
    BY <1>2, <2>1, <2>2
  <2> QED
    BY <2>1, <2>2, <2>3, <2>4, EndsWork
<1> QED
  BY <1>3, <1>4

(* Steps that leave Tasks and dispatches alone.                             *)
LEMMA QuietBreaks ==
  ASSUME BreakerOK, UNCHANGED <<taskVars, ctxTask, ctxStatus, failureCount, mode>>
  PROVE  BreakerOK'
<1>1. \A u \in Tasks \cup {ctxTask[d] : d \in DispatchId} :
        Counted(u)' = Counted(u) /\ (Unbroken(u)' <=> Unbroken(u)) /\ PriorFailures(u)' = PriorFailures(u)
  BY CountsElsewhere
<1> QED
  BY <1>1 DEF BreakerOK, taskVars, Active

LEMMA BreakerStep ==
  ASSUME IInv, TaskStarted, BreakerOK, OnlyQueued, [Next]_vars
  PROVE  BreakerOK'
<1>1. ASSUME NEW t \in Tasks,
             \/ \E ds \in SUBSET (Tasks \ {t}) : CreateTask(t, ds)
             \/ \E s \in OperatorStatuses : TaskUpdate(t, s)
      PROVE  BreakerOK'
  BY <1>1, UpdateBreaks
<1>2. ASSUME NEW t \in Tasks,
             \/ \E h \in Handles, inject \in BOOLEAN : Dispatch(t, h, inject)
             \/ \E m \in Modes : WorkerStart(t, m)
             \/ \E m \in Modes, prior \in DispatchId : WorkerRetry(t, m, prior)
      PROVE  BreakerOK'
  BY <1>2, DispatchBreaks DEF WorkerStart, WorkerRetry, OnlyQueued
<1>3. ASSUME NEW d \in DispatchId,
             \/ PromptFailed(d) \/ Escalate(d) \/ ReleaseContextOnly(d)
             \/ \E o \in {"completed", "failed"} : Report(d, o)
      PROVE  BreakerOK'
  BY <1>3, FailBreaks, SettleBreaks DEF PromptFailed, Escalate
<1>4. ASSUME NEW h \in Handles, ProcessExit(h)
      PROVE  BreakerOK'
  BY <1>4, FailBreaks DEF ProcessExit
<1>5. ASSUME NEW d \in DispatchId,
             \/ \E h \in Handles : PrepareAuthority(d, h)
             \/ MarkReady(d) \/ FailStart(d) \/ MarkStartUnknown(d)
             \/ \E o \in {"ready", "failed", "stopped"} : ReconcileFederatedStart(d, o)
             \/ BeginStop(d) \/ SettleStop(d) \/ MarkStopUnknown(d) \/ ResumeFederated(d)
             \/ Abandon(d) \/ ReconcileMissing(d)
      PROVE  FALSE
  BY <1>5, NoWorkers DEF PrepareAuthority, MarkReady, FailStart, MarkStartUnknown,
     ReconcileFederatedStart, BeginStop, SettleStop, MarkStopUnknown, ResumeFederated, Abandon,
     ReconcileMissing, LiveWorker, LiveStates
<1>6. ASSUME \/ \E q \in Questions : \/ \E d \in DispatchId : Ask(q, d) \/ ImportQuestion(q, d)
                                     \/ Answer(q)
             \/ UNCHANGED vars
      PROVE  BreakerOK'
  BY <1>6, QuietBreaks DEF Ask, ImportQuestion, Answer, vars, ctxVars
<1>7. Gates = {}
  BY DEF OnlyQueued
<1> QED
  BY <1>1, <1>2, <1>3, <1>4, <1>5, <1>6, <1>7 DEF Next, TaskStep, DispatchStep, ThreadStep

(* A Task whose context-only dispatches failed BreakFailures times is not   *)
(* queued or worked on again, however the failures were noticed.            *)
THEOREM BreakerTrips ==
  ASSUME OnlyQueued
  PROVE  Spec => []CircuitBreaks
<1>1. Init => BreakerOK
  BY DEF Init, BreakerOK, Active, ActiveStatuses
<1>2. IInv /\ TaskStarted /\ BreakerOK /\ [Next]_vars => BreakerOK'
  BY BreakerStep
<1>3. IInv /\ BreakerOK => CircuitBreaks
  <2> SUFFICES ASSUME IInv, BreakerOK, NEW t \in Tasks, taskStatus[t] \in {"ready", "dispatched"},
                      Cardinality(Counted(t)) >= BreakFailures
               PROVE  FALSE
    BY DEF CircuitBreaks, Counted
  <2>1. Unbroken(t) /\ \E n \in PriorFailures(t) : Cardinality(Counted(t)) <= n
    <3>1. CASE taskStatus[t] = "ready"
      BY <3>1 DEF BreakerOK
    <3>2. CASE taskStatus[t] = "dispatched"
      <4>1. PICK d \in DispatchesOf(t) : Active(d)
        BY <3>2 DEF IInv, TaskMatchesDispatch, ActiveOf
      <4>2. d \in DispatchId /\ ctxTask[d] = t /\ failureCount[d] \in PriorFailures(t)
        BY DEF DispatchesOf, PriorFailures
      <4> QED
        BY <4>1, <4>2 DEF BreakerOK
    <3> QED
      BY <3>1, <3>2
  <2>2. PICK n \in PriorFailures(t) : Cardinality(Counted(t)) <= n /\ n < BreakFailures
    BY <2>1 DEF Unbroken
  <2>3. n \in Nat /\ Cardinality(Counted(t)) \in Nat
    BY CountedFinite DEF PriorFailures, DispatchesOf, IInv, TypeOK
  <2> QED
    BY <2>2, <2>3, DispatchAssumption
<1>4. Spec => []IInv /\ []TaskStarted
  BY LeaseInvariant, StartedAlways DEF OnlyQueued
<1> QED
  BY <1>1, <1>2, <1>3, <1>4, PTL DEF Spec
==============================================================================
