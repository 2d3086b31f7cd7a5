-------------------------- MODULE DispatchLifecycle --------------------------
(***************************************************************************)
(* The Task / Dispatch / worker state machine of the orchestration         *)
(* database (src/main/runtime/orchestration/db).                           *)
(*                                                                         *)
(* The state is the rows of tasks, dispatch_contexts, worker_dispatches,   *)
(* decision_gates and question_threads, one function per column the        *)
(* behaviour depends on.  Every method of OrchestrationDb modelled here    *)
(* runs as one SQLite transaction or SAVEPOINT, so it is one action; the   *)
(* RPC handlers, the coordinator loop, the PTY exit hook and the relay     *)
(* call these methods with awaits between them, so the actions interleave  *)
(* freely.  A call whose guards fail throws or returns without writing and *)
(* is not a step.  Dispatch ids are the rowids 1, 2, ...: "newest" and     *)
(* "latest" in the code order by rowid.                                    *)
(***************************************************************************)
EXTENDS Naturals, FiniteSets

CONSTANTS Tasks,             \* task ids
          MaxDispatch,       \* bound: dispatch_contexts rows ever created
          Handles,           \* terminal handles
          PaneOf,            \* Handles -> pane; a reminted handle shares its pane
          Gates,             \* bound: decision gates ever opened
          Questions,         \* bound: worker questions ever asked
          Modes,             \* ways the clients launch work, a subset of LaunchModes
          OperatorStatuses,  \* statuses the operator sets with task-update
          BreakFailures,     \* DISPATCH_CIRCUIT_BREAK_FAILURES (3 in the code)
          None               \* the null column

LaunchModes  == {"context", "local", "federated"}
TaskStatuses == {"pending", "ready", "dispatched", "completed", "failed", "blocked"}

ASSUME DispatchAssumption ==
  /\ MaxDispatch \in Nat
  /\ BreakFailures \in Nat \ {0}
  /\ Modes \subseteq LaunchModes
  /\ OperatorStatuses \subseteq TaskStatuses
  /\ None \notin Tasks \cup Handles
  /\ \A h \in Handles : PaneOf[h] # None

VARIABLES taskStatus,      \* tasks.status, "absent" before createTask
          deps,            \* tasks.deps
          nDispatch,       \* rows inserted into dispatch_contexts so far
          ctxTask,         \* dispatch_contexts.task_id
          ctxStatus,       \* dispatch_contexts.status
          failureCount,    \* dispatch_contexts.failure_count
          assignee,        \* dispatch_contexts.assignee_handle (its pane is PaneOf)
          capability,      \* capability_hash and capability_revoked_at together
          mode,            \* "context": no worker_dispatches row; "federated": also federated_dispatches
          workerState,     \* worker_dispatches.state
          gateTask, gateStatus,          \* decision_gates.task_id, status
          questionOf, questionStatus     \* question_threads.dispatch_id, status

taskVars     == <<taskStatus, deps>>
ctxVars      == <<nDispatch, ctxTask, ctxStatus, failureCount, assignee, capability, mode>>
gateVars     == <<gateTask, gateStatus>>
questionVars == <<questionOf, questionStatus>>
vars == <<taskVars, ctxVars, workerState, gateVars, questionVars>>

DispatchId       == 1..MaxDispatch
CtxStatuses      == {"absent", "pending", "dispatched", "completed", "failed", "circuit_broken"}
ActiveStatuses   == {"pending", "dispatched"}
SettledStatuses  == {"completed", "failed", "circuit_broken"}
LiveStates       == {"starting", "ready", "start_unknown", "stopping", "stop_unknown"}
TerminalStates   == {"failed", "succeeded", "stopped", "abandoned"}

-----------------------------------------------------------------------------
(* Queries *)

Tracked        == {t \in Tasks : taskStatus[t] # "absent"}
Active(d)      == ctxStatus[d] \in ActiveStatuses
LiveWorker(d)  == workerState[d] \in LiveStates
StopInFlight(d) == workerState[d] = "stopping"  \* faulty StopPending: forgets the unknown outcome
StopPending(d) == workerState[d] \in {"stopping", "stop_unknown"}
ContextOnly(d) == mode[d] = "context"
Federated(d)   == mode[d] = "federated"
DispatchesOf(t) == {d \in DispatchId : ctxTask[d] = t}
EveryOf(t)      == DispatchesOf(t)  \* faulty ActiveOf: the status filter is lost
ActiveOf(t)     == {d \in DispatchesOf(t) : Active(d)}

(* The query "an active dispatch of t has an unsettled worker". *)
HasReadyWorker(t) == \E d \in ActiveOf(t) : workerState[d] = "ready"  \* faulty: misses doubt
HasLiveWorker(t)  == \E d \in ActiveOf(t) : LiveWorker(d)

Newest(d, S) == d \in S /\ \A e \in S : e <= d

(* findActiveDispatchForAssignee: the newest active row of the handle, and  *)
(* only when there is none the newest active row of an equivalent pane.     *)
OwnedBy(d, h) ==
  LET byHandle == {e \in DispatchId : Active(e) /\ assignee[e] = h}
      byPane   == {e \in DispatchId : /\ Active(e)
                                      /\ assignee[e] # None
                                      /\ PaneOf[assignee[e]] = PaneOf[h]}
  IN  Newest(d, IF byHandle # {} THEN byHandle ELSE byPane)

StartableQueued(t)  == taskStatus[t] \in {"ready", "pending"}  \* faulty: ignores dependencies
StartableBlocked(t) == taskStatus[t] \in {"ready", "blocked"}  \* faulty: a stop may be pending
Startable(t) == taskStatus[t] = "ready"
HandleBusy(h) == \E e \in DispatchId : Active(e) /\ assignee[e] = h  \* faulty: misses a remint
PaneBusy(h) == \E e \in DispatchId : OwnedBy(e, h)

NoPriorFailures(t) == {0}  \* faulty: every dispatch starts its own count
PriorFailures(t) == {failureCount[e] : e \in DispatchesOf(t)} \cup {0}

(* Who may report or ask for d: its assignee, and through the capability if *)
(* one was minted.  A revoked row without a hash is never consulted.        *)
HasHandle(d)    == assignee[d] # None  \* faulty: revocation is not consulted
HasAuthority(d) == assignee[d] # None /\ capability[d] # "revoked"

-----------------------------------------------------------------------------
(* Row updates shared by several methods *)

(* promoteReadyTasks: pending dependents of t whose dependencies are done. *)
Promote(status, t) ==
  [u \in Tasks |-> IF /\ status[u] = "pending"
                      /\ t \in deps[u]
                      /\ \A p \in deps[u] : status[p] = "completed"
                   THEN "ready" ELSE status[u]]

(* A failed dispatch puts its Task back in the queue until the circuit breaks. *)
BackToPending(broken) == IF broken THEN "failed" ELSE "pending"  \* faulty: nothing promotes it
TaskAfterFailure(broken) == IF broken THEN "failed" ELSE "ready"

(* reconcileTaskAfterDispatchInterruption: t after its dispatch d lost its worker. *)
ReconcileForgotten(t, d) == taskStatus  \* faulty: the Task is not touched
ReconcileAlways(t, d) ==  \* faulty: the guard on the Task's status is lost
  [taskStatus EXCEPT ![t] = IF ActiveOf(t) \ {d} # {} THEN "dispatched" ELSE "blocked"]
Reconcile(t, d) ==
  [taskStatus EXCEPT ![t] =
     IF @ \notin {"dispatched", "blocked"} THEN @
     ELSE IF ActiveOf(t) \ {d} # {} THEN "dispatched" ELSE "blocked"]

RevokeNothing(ds) == UNCHANGED capability  \* faulty: the capability survives
Revoke(ds) ==
  capability' = [d \in DispatchId |-> IF d \in ds /\ capability[d] = "live"
                                      THEN "revoked" ELSE capability[d]]

(* closeQuestionsForDispatch, for each dispatch of ds. *)
CloseQuestions(ds) ==
  /\ questionStatus' = [q \in Questions |->
       IF questionStatus[q] = "pending" /\ questionOf[q] \in ds
       THEN "closed" ELSE questionStatus[q]]
  /\ UNCHANGED questionOf

SetCtx(ds, status) ==
  ctxStatus' = [d \in DispatchId |-> IF d \in ds THEN status ELSE ctxStatus[d]]

SetWorker(d, state) == workerState' = [workerState EXCEPT ![d] = state]

(* The columns of dispatch_contexts that only an insert writes. *)
ctxKeys == <<nDispatch, ctxTask, mode>>

-----------------------------------------------------------------------------
(* Tasks *)

Init ==
  /\ taskStatus     = [t \in Tasks |-> "absent"]
  /\ deps           = [t \in Tasks |-> {}]
  /\ nDispatch      = 0
  /\ ctxTask        = [d \in DispatchId |-> None]
  /\ ctxStatus      = [d \in DispatchId |-> "absent"]
  /\ failureCount   = [d \in DispatchId |-> 0]
  /\ assignee       = [d \in DispatchId |-> None]
  /\ capability     = [d \in DispatchId |-> "none"]
  /\ mode           = [d \in DispatchId |-> "absent"]
  /\ workerState    = [d \in DispatchId |-> "absent"]
  /\ gateTask       = [g \in Gates |-> None]
  /\ gateStatus     = [g \in Gates |-> "absent"]
  /\ questionOf     = [q \in Questions |-> None]
  /\ questionStatus = [q \in Questions |-> "absent"]

(* createTask: dependencies must already exist, so the graph is acyclic. *)
CreateTask(t, ds) ==
  /\ taskStatus[t] = "absent"
  /\ ds \subseteq Tracked
  /\ deps' = [deps EXCEPT ![t] = ds]
  /\ taskStatus' = [taskStatus EXCEPT ![t] =
       IF \A p \in ds : taskStatus[p] = "completed" THEN "ready" ELSE "pending"]
  /\ UNCHANGED <<ctxVars, workerState, gateVars, questionVars>>

(* updateTaskStatus as orchestration.taskUpdate calls it. *)
TaskUpdate(t, status) ==
  LET terminal == status \in {"completed", "failed"}
      updated  == [taskStatus EXCEPT ![t] = status]
  IN
  /\ status \in OperatorStatuses
  /\ t \in Tracked
  /\ status = "dispatched" => ActiveOf(t) # {}
  /\ status \in {"pending", "ready", "blocked"} => ActiveOf(t) = {}
  /\ terminal => ~HasLiveWorker(t)
  /\ taskStatus' = IF status = "completed" THEN Promote(updated, t) ELSE updated
  /\ IF terminal
     THEN SetCtx(ActiveOf(t), status) /\ Revoke(ActiveOf(t))
     ELSE UNCHANGED <<ctxStatus, capability>>
  /\ UNCHANGED <<deps, ctxKeys, failureCount, assignee, workerState, gateVars, questionVars>>

-----------------------------------------------------------------------------
(* Context-only dispatch *)

(* The row both inserts write; nDispatch' is its rowid. *)
InsertDispatch(t, m, status, failures, h, cap, worker) ==
  LET d == nDispatch + 1 IN
  /\ nDispatch < MaxDispatch
  /\ nDispatch'    = d
  /\ ctxTask'      = [ctxTask EXCEPT ![d] = t]
  /\ ctxStatus'    = [ctxStatus EXCEPT ![d] = status]
  /\ failureCount' = [failureCount EXCEPT ![d] = failures]
  /\ assignee'     = [assignee EXCEPT ![d] = h]
  /\ capability'   = [capability EXCEPT ![d] = cap]
  /\ mode'         = [mode EXCEPT ![d] = m]
  /\ workerState'  = [workerState EXCEPT ![d] = worker]
  /\ taskStatus'   = [taskStatus EXCEPT ![t] = "dispatched"]
  /\ UNCHANGED <<deps, gateVars, questionVars>>

(* createDispatchContext, and mintDispatchCapability in the same turn when  *)
(* the prompt is injected.  failure_count carries over the Task's maximum.  *)
Dispatch(t, h, inject) ==
  /\ "context" \in Modes
  /\ Startable(t)
  /\ ~PaneBusy(h)
  /\ \E n \in PriorFailures(t) :
       /\ \A k \in PriorFailures(t) : k <= n
       /\ InsertDispatch(t, "context", "dispatched", n, h,
                         IF inject THEN "live" ELSE "none", "absent")

(* failDispatch *)
FailDispatch(d, workerProcessExited) ==
  LET t      == ctxTask[d]
      broken == failureCount[d] + 1 >= BreakFailures
  IN
  /\ Active(d)
  /\ workerProcessExited \/ ~LiveWorker(d)
  /\ SetCtx({d}, IF broken THEN "circuit_broken" ELSE "failed")
  /\ failureCount' = [failureCount EXCEPT ![d] = @ + 1]
  /\ Revoke({d})
  /\ workerState' = [workerState EXCEPT ![d] = IF LiveWorker(d) THEN "failed" ELSE @]
  /\ taskStatus' = [taskStatus EXCEPT ![t] =
       IF @ = "dispatched" /\ ActiveOf(t) = {d}
       THEN TaskAfterFailure(broken)
       ELSE @]
  /\ UNCHANGED <<deps, ctxKeys, assignee, gateVars, questionVars>>

(* The prompt of a context-only dispatch could not be delivered. *)
PromptFailed(d) == ContextOnly(d) /\ FailDispatch(d, FALSE)

(* applyEscalationToDispatch: only an active dispatch has a message sender, *)
(* and the trailing updateTaskStatus(failed) of a broken circuit repeats    *)
(* what failDispatch wrote, because the Task had no other active dispatch.  *)
Escalate(d) ==
  /\ Active(d)
  /\ taskStatus[ctxTask[d]] \notin {"completed", "failed"}
  /\ FailDispatch(d, FALSE)

(* failActiveDispatchOnExit: the PTY behind handle h exited. *)
ProcessExit(h) == \E d \in DispatchId : OwnedBy(d, h) /\ FailDispatch(d, TRUE)

(* worker-stop and worker-abandon of a dispatch without a worker:           *)
(* releaseContextOnlyDispatch.                                              *)
ReleaseAsStopped(d) ==  \* faulty: the requested state becomes the status
  LET t == ctxTask[d] IN
  /\ ContextOnly(d)
  /\ Active(d)
  /\ SetCtx({d}, "stopped")
  /\ Revoke({d})
  /\ taskStatus' = [taskStatus EXCEPT ![t] =
       IF @ = "dispatched" /\ ActiveOf(t) = {d} THEN "blocked" ELSE @]
  /\ CloseQuestions({d})
  /\ UNCHANGED <<deps, ctxKeys, failureCount, assignee, workerState, gateVars>>

ReleaseContextOnly(d) ==
  LET t == ctxTask[d] IN
  /\ ContextOnly(d)
  /\ Active(d)
  /\ SetCtx({d}, "failed")
  /\ Revoke({d})
  /\ taskStatus' = [taskStatus EXCEPT ![t] =
       IF @ = "dispatched" /\ ActiveOf(t) = {d} THEN "blocked" ELSE @]
  /\ CloseQuestions({d})
  /\ UNCHANGED <<deps, ctxKeys, failureCount, assignee, workerState, gateVars>>

-----------------------------------------------------------------------------
(* Supervised start: worker-start locally, or on another server (--on)      *)

(* createStartingWorkerDispatch without retryOf. *)
WorkerStart(t, m) ==
  /\ m \in Modes \ {"context"}
  /\ Startable(t)
  /\ InsertDispatch(t, m, "pending", 0, None, "none", "starting")

(* createStartingWorkerDispatch with retryOf = prior. *)
WorkerRetry(t, m, prior) ==
  /\ m \in Modes \ {"context"}
  /\ Newest(prior, DispatchesOf(t))
  /\ workerState[prior] \in {"failed", "stopped", "abandoned"}
  /\ taskStatus[t] \in {"failed", "blocked"}
  /\ InsertDispatch(t, m, "pending", 0, None, "none", "starting")

(* prepareStartingWorkerAuthority: the terminal exists and gets the capability. *)
PrepareAuthority(d, h) ==
  /\ mode[d] = "local"
  /\ ctxStatus[d] = "pending" /\ workerState[d] = "starting"
  /\ assignee[d] = None
  /\ \A e \in DispatchId : OwnedBy(e, h) => e = d
  /\ assignee'   = [assignee EXCEPT ![d] = h]
  /\ capability' = [capability EXCEPT ![d] = "live"]
  /\ UNCHANGED <<taskVars, ctxKeys, ctxStatus, failureCount, workerState, gateVars, questionVars>>

(* markWorkerDispatchReady: the agent accepted its input. *)
MarkReady(d) ==
  /\ ctxStatus[d] = "pending" /\ workerState[d] = "starting"
  /\ mode[d] = "local" => assignee[d] # None
  /\ SetCtx({d}, "dispatched")
  /\ SetWorker(d, "ready")
  /\ UNCHANGED <<taskVars, ctxKeys, failureCount, assignee, capability, gateVars, questionVars>>

(* failWorkerStart: nothing was started, or what was is known. *)
FailStart(d) ==
  LET t == ctxTask[d] IN
  /\ workerState[d] = "starting"
  /\ SetCtx({d}, "failed")
  /\ Revoke({d})
  /\ SetWorker(d, "failed")
  /\ taskStatus' = [taskStatus EXCEPT ![t] = IF ActiveOf(t) \ {d} = {} THEN "failed" ELSE @]
  /\ CloseQuestions({d})
  /\ UNCHANGED <<deps, ctxKeys, failureCount, assignee, gateVars>>

(* markWorkerStartUnknown: the start may or may not have produced a worker. *)
MarkStartUnknown(d) ==
  /\ workerState[d] = "starting"
  /\ SetWorker(d, "start_unknown")
  /\ Revoke({d})
  /\ taskStatus' = [taskStatus EXCEPT ![ctxTask[d]] = "blocked"]
  /\ CloseQuestions({d})
  /\ UNCHANGED <<deps, ctxKeys, ctxStatus, failureCount, assignee, gateVars>>

(* reconcileFederatedWorkerStart: worker-status learned the outcome of a    *)
(* remote start from its server.                                            *)
ReconcileFederatedStart(d, outcome) ==
  LET t == ctxTask[d] IN
  /\ Federated(d)
  /\ workerState[d] \in {"starting", "start_unknown"}
  /\ SetWorker(d, outcome)
  /\ \/ /\ outcome = "ready"
        /\ SetCtx({d} \cap {e \in DispatchId : ctxStatus[e] = "pending"}, "dispatched")
        /\ taskStatus' = [taskStatus EXCEPT ![t] = IF @ = "blocked" THEN "dispatched" ELSE @]
        /\ UNCHANGED <<capability, questionVars>>
     \/ /\ outcome \in {"failed", "stopped"}
        /\ SetCtx({d} \cap ActiveOf(t), "failed")
        /\ Revoke({d} \cap ActiveOf(t))
        /\ taskStatus' = [taskStatus EXCEPT ![t] =
              IF @ \notin {"dispatched", "blocked"} THEN @
              ELSE IF ActiveOf(t) \ {d} = {} THEN "failed" ELSE "dispatched"]
        /\ CloseQuestions({d})
  /\ UNCHANGED <<deps, ctxKeys, failureCount, assignee, gateVars>>

-----------------------------------------------------------------------------
(* A worker reports its outcome *)

(* settleWorkerReport after hasLifecycleAuthority; a report imported from   *)
(* another server was authorised there.  Every active row of the Task is    *)
(* settled with the reporting one.                                          *)
Report(d, outcome) ==
  LET t       == ctxTask[d]
      settled == ActiveOf(t)
      updated == [taskStatus EXCEPT ![t] = outcome]
  IN
  /\ outcome \in {"completed", "failed"}
  /\ Federated(d) \/ HasAuthority(d)
  /\ ctxStatus[d] = "dispatched" /\ taskStatus[t] = "dispatched"
  /\ \A e \in settled \ {d} : ~LiveWorker(e)
  /\ ContextOnly(d) => Newest(d, settled)
  /\ SetCtx(settled, outcome)
  /\ Revoke(settled)
  /\ workerState' = [workerState EXCEPT ![d] =
       IF @ # "ready" THEN @ ELSE IF outcome = "completed" THEN "succeeded" ELSE "failed"]
  /\ taskStatus' = IF outcome = "completed" THEN Promote(updated, t) ELSE updated
  /\ CloseQuestions(settled)
  /\ UNCHANGED <<deps, ctxKeys, failureCount, assignee, gateVars>>

-----------------------------------------------------------------------------
(* Stop, abandon and terminal recovery of a supervised worker *)

(* beginWorkerStop *)
BeginStop(d) ==
  /\ workerState[d] \in {"ready", "start_unknown"}
  /\ SetWorker(d, "stopping")
  /\ Revoke({d})
  /\ taskStatus' = Reconcile(ctxTask[d], d)
  /\ CloseQuestions({d})
  /\ UNCHANGED <<deps, ctxKeys, ctxStatus, failureCount, assignee, gateVars>>

(* settleWorkerStop locally; reconcileFederatedWorkerStop, also from worker-status. *)
SettleStop(d) ==
  /\ workerState[d] \in IF Federated(d) THEN {"stopping", "stop_unknown"} ELSE {"stopping"}
  /\ SetWorker(d, "stopped")
  /\ SetCtx({d} \cap ActiveOf(ctxTask[d]), "failed")
  /\ taskStatus' = Reconcile(ctxTask[d], d)
  /\ UNCHANGED <<deps, ctxKeys, failureCount, assignee, capability, gateVars, questionVars>>

(* markWorkerStopUnknown *)
MarkStopUnknown(d) ==
  /\ workerState[d] = "stopping"
  /\ SetWorker(d, "stop_unknown")
  /\ UNCHANGED <<taskVars, ctxVars, gateVars, questionVars>>

(* resumeFederatedWorkerForTerminalRelay: the worker server answered that   *)
(* the worker had already reported, so the stop is withdrawn.               *)
ResumeFederated(d) ==
  /\ Federated(d)
  /\ workerState[d] = "stopping"
  /\ SetWorker(d, "ready")
  /\ taskStatus' = [taskStatus EXCEPT ![ctxTask[d]] = IF @ = "blocked" THEN "dispatched" ELSE @]
  /\ UNCHANGED <<deps, ctxVars, gateVars, questionVars>>

(* abandonWorkerDispatch of a dispatch with a worker. *)
Abandon(d) ==
  /\ workerState[d] \notin {"absent", "abandoned", "stopping", "succeeded"}
  /\ Newest(d, DispatchesOf(ctxTask[d]))
  /\ SetWorker(d, "abandoned")
  /\ SetCtx({d} \cap ActiveOf(ctxTask[d]), "failed")
  /\ Revoke({d})
  /\ taskStatus' = Reconcile(ctxTask[d], d)
  /\ CloseQuestions({d})
  /\ UNCHANGED <<deps, ctxKeys, failureCount, assignee, gateVars>>

(* reconcileMissingWorkerTerminal, run for live workers whose terminal is   *)
(* unambiguously gone after the runtime restarts.                           *)
ReconcileMissing(d) ==
  LET t      == ctxTask[d]
      active == {d} \cap ActiveOf(t)
      broken == failureCount[d] + 1 >= BreakFailures
  IN
  /\ LiveWorker(d)
  /\ assignee[d] # None
  /\ SetWorker(d, IF StopPending(d) THEN "stopped" ELSE "abandoned")
  /\ SetCtx(active, IF broken THEN "circuit_broken" ELSE "failed")
  /\ failureCount' = [failureCount EXCEPT ![d] = IF Active(d) THEN @ + 1 ELSE @]
  /\ Revoke(active)
  /\ taskStatus' = [taskStatus EXCEPT ![t] =
       IF active = {} \/ StopPending(d) \/ @ \notin {"dispatched", "blocked"} THEN @
       ELSE IF ActiveOf(t) \ {d} # {} THEN "dispatched"
       ELSE TaskAfterFailure(broken)]
  /\ CloseQuestions(active)
  /\ UNCHANGED <<deps, ctxKeys, assignee, gateVars>>

-----------------------------------------------------------------------------
(* Decision gates and worker questions *)

(* createGate *)
CreateGate(g, t) ==
  /\ gateStatus[g] = "absent"
  /\ t \in Tracked
  /\ ~HasLiveWorker(t)
  /\ gateTask'   = [gateTask EXCEPT ![g] = t]
  /\ gateStatus' = [gateStatus EXCEPT ![g] = "pending"]
  /\ SetCtx(ActiveOf(t), "completed")
  /\ Revoke(ActiveOf(t))
  /\ taskStatus' = [taskStatus EXCEPT ![t] = "blocked"]
  /\ UNCHANGED <<deps, ctxKeys, failureCount, assignee, workerState, questionVars>>

(* resolveGate: a gate that is no longer pending can be resolved again. *)
ResolveGate(g) ==
  /\ gateStatus[g] # "absent"
  /\ ActiveOf(gateTask[g]) = {}
  /\ gateStatus' = [gateStatus EXCEPT ![g] = "resolved"]
  /\ taskStatus' = [taskStatus EXCEPT ![gateTask[g]] = "ready"]
  /\ UNCHANGED <<deps, ctxVars, workerState, gateTask, questionVars>>

(* createQuestion for the worker of an active dispatch. *)
Ask(q, d) ==
  /\ questionStatus[q] = "absent"
  /\ Active(d)
  /\ HasAuthority(d)
  /\ questionOf'     = [questionOf EXCEPT ![q] = d]
  /\ questionStatus' = [questionStatus EXCEPT ![q] = "pending"]
  /\ UNCHANGED <<taskVars, ctxVars, workerState, gateVars>>

(* registerFederatedQuestion: a relayed question is recorded as it arrives. *)
ImportQuestion(q, d) ==
  /\ questionStatus[q] = "absent"
  /\ Federated(d)
  /\ questionOf'     = [questionOf EXCEPT ![q] = d]
  /\ questionStatus' = [questionStatus EXCEPT ![q] = "pending"]
  /\ UNCHANGED <<taskVars, ctxVars, workerState, gateVars>>

(* answerQuestion *)
Answer(q) ==
  /\ questionStatus[q] = "pending"
  /\ questionStatus' = [questionStatus EXCEPT ![q] = "answered"]
  /\ UNCHANGED <<taskVars, ctxVars, workerState, gateVars, questionOf>>

-----------------------------------------------------------------------------
TaskStep == \E t \in Tasks :
  \/ \E ds \in SUBSET (Tasks \ {t}) : CreateTask(t, ds)
  \/ \E s \in OperatorStatuses : TaskUpdate(t, s)
  \/ \E h \in Handles, inject \in BOOLEAN : Dispatch(t, h, inject)
  \/ \E m \in Modes : WorkerStart(t, m)
  \/ \E m \in Modes, prior \in DispatchId : WorkerRetry(t, m, prior)

DispatchStep == \E d \in DispatchId :
  \/ PromptFailed(d)
  \/ Escalate(d)
  \/ ReleaseContextOnly(d)
  \/ \E h \in Handles : PrepareAuthority(d, h)
  \/ MarkReady(d)
  \/ FailStart(d)
  \/ MarkStartUnknown(d)
  \/ \E o \in {"ready", "failed", "stopped"} : ReconcileFederatedStart(d, o)
  \/ \E o \in {"completed", "failed"} : Report(d, o)
  \/ BeginStop(d)
  \/ SettleStop(d)
  \/ MarkStopUnknown(d)
  \/ ResumeFederated(d)
  \/ Abandon(d)
  \/ ReconcileMissing(d)

ThreadStep ==
  \/ \E h \in Handles : ProcessExit(h)
  \/ \E g \in Gates : (\E t \in Tasks : CreateGate(g, t)) \/ ResolveGate(g)
  \/ \E q \in Questions : \/ \E d \in DispatchId : Ask(q, d) \/ ImportQuestion(q, d)
                          \/ Answer(q)

Next == TaskStep \/ DispatchStep \/ ThreadStep

Spec == Init /\ [][Next]_vars

-----------------------------------------------------------------------------
(* What the rows may hold. *)
TypeOK ==
  /\ taskStatus \in [Tasks -> TaskStatuses \cup {"absent"}]
  /\ deps \in [Tasks -> SUBSET Tasks]
  /\ nDispatch \in 0..MaxDispatch
  /\ ctxTask \in [DispatchId -> Tasks \cup {None}]
  /\ ctxStatus \in [DispatchId -> CtxStatuses]
  /\ failureCount \in [DispatchId -> Nat]
  /\ assignee \in [DispatchId -> Handles \cup {None}]
  /\ capability \in [DispatchId -> {"none", "live", "revoked"}]
  /\ mode \in [DispatchId -> LaunchModes \cup {"absent"}]
  /\ workerState \in [DispatchId -> LiveStates \cup TerminalStates \cup {"absent"}]
  /\ gateTask \in [Gates -> Tasks \cup {None}]
  /\ gateStatus \in [Gates -> {"absent", "pending", "resolved"}]
  /\ \A g \in Gates : gateStatus[g] = "absent" \/ gateTask[g] \in Tasks
  /\ questionOf \in [Questions -> DispatchId \cup {None}]
  /\ questionStatus \in [Questions -> {"absent", "pending", "answered", "closed"}]

(* However stops, retries, reports, exits, gates and restarts interleave,   *)
(* a Task never has two active dispatches and the active one is its newest, *)
(* which is what every "latest dispatch of the Task" lookup takes it for.   *)
ActiveIsLatest == \A d \in DispatchId : Active(d) => Newest(d, DispatchesOf(ctxTask[d]))

(* No terminal pane works for two dispatches at once, even after its handle *)
(* was reminted: messages from a pane would be attributed to either.        *)
OneActivePerPane ==
  \A d, e \in DispatchId :
    /\ Active(d) /\ Active(e)
    /\ assignee[d] # None /\ assignee[e] # None
    /\ PaneOf[assignee[d]] = PaneOf[assignee[e]]
    => d = e

(* Status of the Task and status of its dispatches agree: work in progress  *)
(* is dispatched, but blocked exactly while it is unknown whether the worker *)
(* runs, and a dispatched Task has the dispatch that will settle it.        *)
InDoubt(d) == workerState[d] \in {"start_unknown", "stopping", "stop_unknown"}
TaskMatchesDispatch ==
  /\ \A t \in Tasks : taskStatus[t] = "dispatched" => ActiveOf(t) # {}
  /\ \A d \in DispatchId : Active(d) =>
       taskStatus[ctxTask[d]] = IF InDoubt(d) THEN "blocked" ELSE "dispatched"

(* worker_dispatches and dispatch_contexts, written by different methods,   *)
(* settle together: no dispatch is released while its worker may be running *)
(* and no worker outlives its dispatch's settlement as a live one.          *)
WorkerMatchesDispatch ==
  \A d \in DispatchId :
    /\ LiveWorker(d) => Active(d)
    /\ Active(d) => ContextOnly(d) \/ LiveWorker(d)
    /\ workerState[d] \in {"starting", "start_unknown"} => ctxStatus[d] = "pending"

(* A capability authorises reports only while its dispatch is active and    *)
(* its worker is neither in doubt nor being stopped.                        *)
CapabilityFollowsLease ==
  \A d \in DispatchId : capability[d] = "live" =>
    /\ Active(d)
    /\ workerState[d] \in {"absent", "starting", "ready"}

(* promoteReadyTasks runs only when a dependency completes, so a Task that  *)
(* is pending with every dependency completed would wait forever.           *)
NoStrandedTask ==
  \A t \in Tasks : taskStatus[t] = "pending" => \E p \in deps[t] : taskStatus[p] # "completed"

(* A stop requested for the newest worker of a Task keeps the Task out of   *)
(* the ready queue: exit hooks, recovery and relays of the dying worker     *)
(* must not have the coordinator start it again.                            *)
StopNotRequeued ==
  [][\A t \in Tasks, d \in DispatchId :
       /\ Newest(d, DispatchesOf(t))
       /\ workerState[d] \in {"stopping", "stop_unknown", "stopped"}
       => taskStatus'[t] # "ready" \/ taskStatus[t] = "ready"]_vars

(* Work on a Task starts only after all its dependencies completed.         *)
DepsRespected ==
  \A d \in DispatchId, p \in Tasks :
    ctxTask[d] # None /\ p \in deps[ctxTask[d]] => taskStatus[p] = "completed"

(* Nothing that happens late to an old dispatch reopens a completed Task.   *)
CompletedIsFinal ==
  [][\A t \in Tasks : taskStatus[t] = "completed" => taskStatus'[t] = "completed"]_vars

(* The circuit breaker: a Task for which BreakFailures dispatches failed    *)
(* with a recorded failure is not queued or worked on again, whichever of   *)
(* exit hook, escalation, prompt delivery and recovery recorded each.  (A   *)
(* released dispatch that carries an earlier count is counted too; the      *)
(* release itself leaves the Task blocked.)                                 *)
CircuitBreaks ==
  \A t \in Tasks :
    Cardinality({d \in DispatchesOf(t) :
      failureCount[d] > 0 /\ ctxStatus[d] \in {"failed", "circuit_broken"}}) >= BreakFailures
    => taskStatus[t] \notin {"ready", "dispatched"}

(* A local worker whose start is in doubt, or that was stopped or abandoned, *)
(* has no question waiting for an answer it cannot receive, and cannot ask. *)
WithdrawnWorkerHasNoQuestion ==
  \A q \in Questions :
    questionStatus[q] = "pending" /\ ~Federated(questionOf[q]) => workerState[questionOf[q]] \notin
      {"start_unknown", "stopping", "stop_unknown", "stopped", "abandoned"}

(* A Task with an undecided gate is not being worked on: gates are approval *)
(* checkpoints.                                                             *)
GatedTaskNotWorkedOn ==
  \A g \in Gates : gateStatus[g] = "pending" => ActiveOf(gateTask[g]) = {}

(* Rows are inserted with consecutive ids, belong to a Task, have a worker  *)
(* exactly when their mode is supervised; an id not yet used is blank.      *)
RowsInOrder ==
  \A d \in DispatchId :
    IF d <= nDispatch
    THEN /\ ctxTask[d] \in Tasks
         /\ ctxStatus[d] # "absent"
         /\ mode[d] # "absent"
         /\ ContextOnly(d) <=> workerState[d] = "absent"
         /\ ContextOnly(d) => assignee[d] # None
    ELSE /\ ctxTask[d] = None
         /\ ctxStatus[d] = "absent"
         /\ mode[d] = "absent"
         /\ workerState[d] = "absent"
         /\ capability[d] = "none"

(* The conjunction that every step preserves when operators leave the       *)
(* status "dispatched" to the code.                                         *)
IInv ==
  /\ TypeOK
  /\ RowsInOrder
  /\ ActiveIsLatest
  /\ TaskMatchesDispatch
  /\ WorkerMatchesDispatch
  /\ CapabilityFollowsLease
  /\ OneActivePerPane

(* The detailed model implements the lease specification.                   *)
Lease == INSTANCE DispatchLease WITH
  Panes      <- {PaneOf[h] : h \in Handles},
  leaseTask  <- ctxTask,
  leasePane  <- [d \in DispatchId |-> IF assignee[d] = None THEN None ELSE PaneOf[assignee[d]]],
  leaseState <- [d \in DispatchId |->
                   IF ctxStatus[d] = "absent" THEN "unused"
                   ELSE IF Active(d) THEN "open"
                   ELSE IF ctxStatus[d] = "completed" THEN "completed" ELSE "failed"]
ImplementsLease == Lease!Spec
=============================================================================
