----------------------- MODULE DispatchLifecycle_proofs -----------------------
(***************************************************************************)
(* Theorems about DispatchLifecycle, for every set of Tasks, terminals,    *)
(* gates and questions and every bound.                                    *)
(***************************************************************************)
EXTENDS DispatchLifecycle, TLAPS

-----------------------------------------------------------------------------
(* The row updates shared by several actions keep their columns typed.      *)

LEMMA SetCtxTyped ==
  ASSUME TypeOK, NEW ds, NEW status \in CtxStatuses, SetCtx(ds, status)
  PROVE  ctxStatus' \in [DispatchId -> CtxStatuses]
BY DEF TypeOK, SetCtx

LEMMA RevokeTyped ==
  ASSUME TypeOK, NEW ds, Revoke(ds)
  PROVE  capability' \in [DispatchId -> {"none", "live", "revoked"}]
BY DEF TypeOK, Revoke

LEMMA CloseQuestionsTyped ==
  ASSUME TypeOK, NEW ds, CloseQuestions(ds)
  PROVE  /\ questionOf' \in [Questions -> DispatchId \cup {None}]
         /\ questionStatus' \in [Questions -> {"absent", "pending", "answered", "closed"}]
BY DEF TypeOK, CloseQuestions

LEMMA SetWorkerTyped ==
  ASSUME TypeOK, NEW d, NEW state \in LiveStates \cup TerminalStates, SetWorker(d, state)
  PROVE  workerState' \in [DispatchId -> LiveStates \cup TerminalStates \cup {"absent"}]
BY DEF TypeOK, SetWorker

LEMMA PromoteTyped ==
  ASSUME NEW status \in [Tasks -> TaskStatuses \cup {"absent"}], NEW t
  PROVE  Promote(status, t) \in [Tasks -> TaskStatuses \cup {"absent"}]
BY DEF Promote, TaskStatuses

LEMMA ReconcileTyped ==
  ASSUME TypeOK, NEW t, NEW d
  PROVE  Reconcile(t, d) \in [Tasks -> TaskStatuses \cup {"absent"}]
BY DEF TypeOK, Reconcile, TaskStatuses

LEMMA InsertTyped ==
  ASSUME TypeOK, NEW t \in Tasks, NEW m \in LaunchModes, NEW status \in CtxStatuses,
         NEW failures \in Nat, NEW h \in Handles \cup {None},
         NEW cap \in {"none", "live", "revoked"},
         NEW worker \in LiveStates \cup TerminalStates \cup {"absent"},
         InsertDispatch(t, m, status, failures, h, cap, worker)
  PROVE  TypeOK'
BY DispatchAssumption
   DEF TypeOK, InsertDispatch, TaskStatuses, DispatchId, gateVars, questionVars

LEMMA FailDispatchTyped ==
  ASSUME TypeOK, NEW d \in DispatchId, NEW exited, FailDispatch(d, exited)
  PROVE  TypeOK'
<1>1. ctxStatus' \in [DispatchId -> CtxStatuses]
  BY SetCtxTyped DEF FailDispatch, CtxStatuses
<1>2. capability' \in [DispatchId -> {"none", "live", "revoked"}]
  BY RevokeTyped DEF FailDispatch
<1>3. taskStatus' \in [Tasks -> TaskStatuses \cup {"absent"}]
  BY DEF TypeOK, FailDispatch, TaskAfterFailure, TaskStatuses
<1>4. failureCount' \in [DispatchId -> Nat]
  BY DEF TypeOK, FailDispatch
<1>5. workerState' \in [DispatchId -> LiveStates \cup TerminalStates \cup {"absent"}]
  BY DEF TypeOK, FailDispatch, TerminalStates
<1> QED
  BY <1>1, <1>2, <1>3, <1>4, <1>5
     DEF TypeOK, FailDispatch, ctxKeys, gateVars, questionVars

-----------------------------------------------------------------------------
(* Type correctness *)

LEMMA TaskStepTyped == TypeOK /\ TaskStep => TypeOK'
<1> SUFFICES ASSUME TypeOK, NEW t \in Tasks,
                    \/ \E ds \in SUBSET (Tasks \ {t}) : CreateTask(t, ds)
                    \/ \E s \in OperatorStatuses : TaskUpdate(t, s)
                    \/ \E h \in Handles, inject \in BOOLEAN : Dispatch(t, h, inject)
                    \/ \E m \in Modes : WorkerStart(t, m)
                    \/ \E m \in Modes, prior \in DispatchId : WorkerRetry(t, m, prior)
             PROVE  TypeOK'
  BY DEF TaskStep
<1>1. ASSUME NEW ds \in SUBSET (Tasks \ {t}), CreateTask(t, ds) PROVE TypeOK'
  BY <1>1 DEF TypeOK, CreateTask, TaskStatuses, ctxVars, gateVars, questionVars
<1>2. ASSUME NEW s \in OperatorStatuses, TaskUpdate(t, s) PROVE TypeOK'
  <2>1. s \in TaskStatuses
    BY DispatchAssumption
  <2>2. taskStatus' \in [Tasks -> TaskStatuses \cup {"absent"}]
    <3>1. [taskStatus EXCEPT ![t] = s] \in [Tasks -> TaskStatuses \cup {"absent"}]
      BY <2>1 DEF TypeOK
    <3> QED BY <1>2, <3>1, PromoteTyped DEF TaskUpdate
  <2>3. ctxStatus' \in [DispatchId -> CtxStatuses]
    BY <1>2, SetCtxTyped DEF TaskUpdate, TypeOK, CtxStatuses
  <2>4. capability' \in [DispatchId -> {"none", "live", "revoked"}]
    BY <1>2, RevokeTyped DEF TaskUpdate, TypeOK
  <2> QED BY <1>2, <2>2, <2>3, <2>4 DEF TypeOK, TaskUpdate, ctxKeys, gateVars, questionVars
<1>3. ASSUME NEW h \in Handles, NEW inject \in BOOLEAN, Dispatch(t, h, inject) PROVE TypeOK'
  <2>1. PriorFailures(t) \subseteq Nat
    BY DEF TypeOK, PriorFailures, DispatchesOf
  <2>2. PICK n \in PriorFailures(t) :
          InsertDispatch(t, "context", "dispatched", n, h,
                         IF inject THEN "live" ELSE "none", "absent")
    BY <1>3 DEF Dispatch
  <2> QED BY <2>1, <2>2, InsertTyped DEF LaunchModes, CtxStatuses
<1>4. ASSUME NEW m \in Modes, WorkerStart(t, m) PROVE TypeOK'
  BY <1>4, DispatchAssumption, InsertTyped DEF WorkerStart, CtxStatuses, LiveStates
<1>5. ASSUME NEW m \in Modes, NEW prior \in DispatchId, WorkerRetry(t, m, prior) PROVE TypeOK'
  BY <1>5, DispatchAssumption, InsertTyped DEF WorkerRetry, CtxStatuses, LiveStates
<1> QED BY <1>1, <1>2, <1>3, <1>4, <1>5

LEMMA DispatchStepTyped == TypeOK /\ DispatchStep => TypeOK'
<1> SUFFICES ASSUME TypeOK, NEW d \in DispatchId,
                    \/ PromptFailed(d)
                    \/ Escalate(d)
                    \/ ReleaseContextOnly(d)
                    \/ \E h \in Handles : PrepareAuthority(d, h)
                    \/ MarkReady(d)
                    \/ FailStart(d)
                    \/ MarkStartUnknown(d)
                    \/ \E o \in {"ready", "failed", "stopped"} : ReconcileFederatedStart(d, o)
                    \/ \E o \in {"completed", "failed"} : Report(d, o)
                    \/ BeginStop(d)
                    \/ SettleStop(d)
                    \/ MarkStopUnknown(d)
                    \/ ResumeFederated(d)
                    \/ Abandon(d)
                    \/ ReconcileMissing(d)
             PROVE  TypeOK'
  BY DEF DispatchStep
<1>1. CASE PromptFailed(d)
  BY <1>1, FailDispatchTyped DEF PromptFailed
<1>2. CASE Escalate(d)
  BY <1>2, FailDispatchTyped DEF Escalate
<1>3. ASSUME ReleaseContextOnly(d) PROVE TypeOK'
  <2>1. ctxStatus' \in [DispatchId -> CtxStatuses]
    BY <1>3, SetCtxTyped DEF ReleaseContextOnly, CtxStatuses
  <2>2. capability' \in [DispatchId -> {"none", "live", "revoked"}]
    BY <1>3, RevokeTyped DEF ReleaseContextOnly
  <2>3. taskStatus' \in [Tasks -> TaskStatuses \cup {"absent"}]
    BY <1>3 DEF ReleaseContextOnly, TypeOK, TaskStatuses
  <2>4. /\ questionOf' \in [Questions -> DispatchId \cup {None}]
        /\ questionStatus' \in [Questions -> {"absent", "pending", "answered", "closed"}]
    BY <1>3, CloseQuestionsTyped DEF ReleaseContextOnly
  <2> QED BY <1>3, <2>1, <2>2, <2>3, <2>4 DEF ReleaseContextOnly, TypeOK, taskVars, ctxKeys, ctxVars, gateVars, questionVars
<1>4. ASSUME NEW h \in Handles, PrepareAuthority(d, h) PROVE TypeOK'
  BY <1>4 DEF PrepareAuthority, TypeOK, taskVars, ctxKeys, gateVars, questionVars
<1>5. ASSUME MarkReady(d) PROVE TypeOK'
  <2>1. ctxStatus' \in [DispatchId -> CtxStatuses]
    BY <1>5, SetCtxTyped DEF MarkReady, CtxStatuses
  <2>2. workerState' \in [DispatchId -> LiveStates \cup TerminalStates \cup {"absent"}]
    BY <1>5, SetWorkerTyped DEF MarkReady, LiveStates, TerminalStates
  <2> QED BY <1>5, <2>1, <2>2 DEF MarkReady, TypeOK, taskVars, ctxKeys, ctxVars, gateVars, questionVars
<1>6. ASSUME FailStart(d) PROVE TypeOK'
  <2>1. ctxStatus' \in [DispatchId -> CtxStatuses]
    BY <1>6, SetCtxTyped DEF FailStart, CtxStatuses
  <2>2. capability' \in [DispatchId -> {"none", "live", "revoked"}]
    BY <1>6, RevokeTyped DEF FailStart
  <2>3. taskStatus' \in [Tasks -> TaskStatuses \cup {"absent"}]
    BY <1>6 DEF FailStart, TypeOK, TaskStatuses
  <2>4. workerState' \in [DispatchId -> LiveStates \cup TerminalStates \cup {"absent"}]
    BY <1>6, SetWorkerTyped DEF FailStart, LiveStates, TerminalStates
  <2>5. /\ questionOf' \in [Questions -> DispatchId \cup {None}]
        /\ questionStatus' \in [Questions -> {"absent", "pending", "answered", "closed"}]
    BY <1>6, CloseQuestionsTyped DEF FailStart
  <2> QED BY <1>6, <2>1, <2>2, <2>3, <2>4, <2>5 DEF FailStart, TypeOK, taskVars, ctxKeys, ctxVars, gateVars, questionVars
<1>7. ASSUME MarkStartUnknown(d) PROVE TypeOK'
  <2>1. capability' \in [DispatchId -> {"none", "live", "revoked"}]
    BY <1>7, RevokeTyped DEF MarkStartUnknown
  <2>2. taskStatus' \in [Tasks -> TaskStatuses \cup {"absent"}]
    BY <1>7 DEF MarkStartUnknown, TypeOK, TaskStatuses
  <2>3. workerState' \in [DispatchId -> LiveStates \cup TerminalStates \cup {"absent"}]
    BY <1>7, SetWorkerTyped DEF MarkStartUnknown, LiveStates, TerminalStates
  <2>4. /\ questionOf' \in [Questions -> DispatchId \cup {None}]
        /\ questionStatus' \in [Questions -> {"absent", "pending", "answered", "closed"}]
    BY <1>7, CloseQuestionsTyped DEF MarkStartUnknown
  <2> QED BY <1>7, <2>1, <2>2, <2>3, <2>4 DEF MarkStartUnknown, TypeOK, taskVars, ctxKeys, ctxVars, gateVars, questionVars
<1>8. ASSUME NEW o \in {"ready", "failed", "stopped"}, ReconcileFederatedStart(d, o) PROVE TypeOK'
  <2>1. ctxStatus' \in [DispatchId -> CtxStatuses]
    BY <1>8, SetCtxTyped DEF ReconcileFederatedStart, CtxStatuses, TypeOK, questionVars
  <2>2. capability' \in [DispatchId -> {"none", "live", "revoked"}]
    BY <1>8, RevokeTyped DEF ReconcileFederatedStart, TypeOK, questionVars
  <2>3. taskStatus' \in [Tasks -> TaskStatuses \cup {"absent"}]
    BY <1>8 DEF ReconcileFederatedStart, TypeOK, TaskStatuses
  <2>4. workerState' \in [DispatchId -> LiveStates \cup TerminalStates \cup {"absent"}]
    BY <1>8, SetWorkerTyped DEF ReconcileFederatedStart, LiveStates, TerminalStates
  <2>5. /\ questionOf' \in [Questions -> DispatchId \cup {None}]
        /\ questionStatus' \in [Questions -> {"absent", "pending", "answered", "closed"}]
    BY <1>8, CloseQuestionsTyped DEF ReconcileFederatedStart, TypeOK, questionVars
  <2> QED BY <1>8, <2>1, <2>2, <2>3, <2>4, <2>5 DEF ReconcileFederatedStart, TypeOK, taskVars, ctxKeys, ctxVars, gateVars, questionVars
<1>9. ASSUME NEW o \in {"completed", "failed"}, Report(d, o) PROVE TypeOK'
  <2>1. ctxStatus' \in [DispatchId -> CtxStatuses]
    BY <1>9, SetCtxTyped DEF Report, CtxStatuses
  <2>2. capability' \in [DispatchId -> {"none", "live", "revoked"}]
    BY <1>9, RevokeTyped DEF Report
  <2>3. taskStatus' \in [Tasks -> TaskStatuses \cup {"absent"}]
    BY <1>9, PromoteTyped DEF Report, TypeOK, TaskStatuses
  <2>4. workerState' \in [DispatchId -> LiveStates \cup TerminalStates \cup {"absent"}]
    BY <1>9, SetWorkerTyped DEF Report, LiveStates, TerminalStates, TypeOK
  <2>5. /\ questionOf' \in [Questions -> DispatchId \cup {None}]
        /\ questionStatus' \in [Questions -> {"absent", "pending", "answered", "closed"}]
    BY <1>9, CloseQuestionsTyped DEF Report
  <2> QED BY <1>9, <2>1, <2>2, <2>3, <2>4, <2>5 DEF Report, TypeOK, taskVars, ctxKeys, ctxVars, gateVars, questionVars
<1>10. ASSUME BeginStop(d) PROVE TypeOK'
  <2>1. capability' \in [DispatchId -> {"none", "live", "revoked"}]
    BY <1>10, RevokeTyped DEF BeginStop
  <2>2. taskStatus' \in [Tasks -> TaskStatuses \cup {"absent"}]
    BY <1>10, ReconcileTyped DEF BeginStop
  <2>3. workerState' \in [DispatchId -> LiveStates \cup TerminalStates \cup {"absent"}]
    BY <1>10, SetWorkerTyped DEF BeginStop, LiveStates, TerminalStates
  <2>4. /\ questionOf' \in [Questions -> DispatchId \cup {None}]
        /\ questionStatus' \in [Questions -> {"absent", "pending", "answered", "closed"}]
    BY <1>10, CloseQuestionsTyped DEF BeginStop
  <2> QED BY <1>10, <2>1, <2>2, <2>3, <2>4 DEF BeginStop, TypeOK, taskVars, ctxKeys, ctxVars, gateVars, questionVars
<1>11. ASSUME SettleStop(d) PROVE TypeOK'
  <2>1. ctxStatus' \in [DispatchId -> CtxStatuses]
    BY <1>11, SetCtxTyped DEF SettleStop, CtxStatuses
  <2>2. taskStatus' \in [Tasks -> TaskStatuses \cup {"absent"}]
    BY <1>11, ReconcileTyped DEF SettleStop
  <2>3. workerState' \in [DispatchId -> LiveStates \cup TerminalStates \cup {"absent"}]
    BY <1>11, SetWorkerTyped DEF SettleStop, LiveStates, TerminalStates
  <2> QED BY <1>11, <2>1, <2>2, <2>3 DEF SettleStop, TypeOK, taskVars, ctxKeys, ctxVars, gateVars, questionVars
<1>12. ASSUME MarkStopUnknown(d) PROVE TypeOK'
  <2>1. workerState' \in [DispatchId -> LiveStates \cup TerminalStates \cup {"absent"}]
    BY <1>12, SetWorkerTyped DEF MarkStopUnknown, LiveStates, TerminalStates
  <2> QED BY <1>12, <2>1 DEF MarkStopUnknown, TypeOK, taskVars, ctxKeys, ctxVars, gateVars, questionVars
<1>13. ASSUME ResumeFederated(d) PROVE TypeOK'
  <2>1. taskStatus' \in [Tasks -> TaskStatuses \cup {"absent"}]
    BY <1>13 DEF ResumeFederated, TypeOK, TaskStatuses
  <2>2. workerState' \in [DispatchId -> LiveStates \cup TerminalStates \cup {"absent"}]
    BY <1>13, SetWorkerTyped DEF ResumeFederated, LiveStates, TerminalStates
  <2> QED BY <1>13, <2>1, <2>2 DEF ResumeFederated, TypeOK, taskVars, ctxKeys, ctxVars, gateVars, questionVars
<1>14. ASSUME Abandon(d) PROVE TypeOK'
  <2>1. ctxStatus' \in [DispatchId -> CtxStatuses]
    BY <1>14, SetCtxTyped DEF Abandon, CtxStatuses
  <2>2. capability' \in [DispatchId -> {"none", "live", "revoked"}]
    BY <1>14, RevokeTyped DEF Abandon
  <2>3. taskStatus' \in [Tasks -> TaskStatuses \cup {"absent"}]
    BY <1>14, ReconcileTyped DEF Abandon
  <2>4. workerState' \in [DispatchId -> LiveStates \cup TerminalStates \cup {"absent"}]
    BY <1>14, SetWorkerTyped DEF Abandon, LiveStates, TerminalStates
  <2>5. /\ questionOf' \in [Questions -> DispatchId \cup {None}]
        /\ questionStatus' \in [Questions -> {"absent", "pending", "answered", "closed"}]
    BY <1>14, CloseQuestionsTyped DEF Abandon
  <2> QED BY <1>14, <2>1, <2>2, <2>3, <2>4, <2>5 DEF Abandon, TypeOK, taskVars, ctxKeys, ctxVars, gateVars, questionVars
<1>15. ASSUME ReconcileMissing(d) PROVE TypeOK'
  <2>1. ctxStatus' \in [DispatchId -> CtxStatuses]
    BY <1>15, SetCtxTyped DEF ReconcileMissing, CtxStatuses
  <2>2. capability' \in [DispatchId -> {"none", "live", "revoked"}]
    BY <1>15, RevokeTyped DEF ReconcileMissing
  <2>3. taskStatus' \in [Tasks -> TaskStatuses \cup {"absent"}]
    BY <1>15 DEF ReconcileMissing, TypeOK, TaskStatuses, TaskAfterFailure
  <2>4. workerState' \in [DispatchId -> LiveStates \cup TerminalStates \cup {"absent"}]
    BY <1>15, SetWorkerTyped DEF ReconcileMissing, LiveStates, TerminalStates
  <2>5. failureCount' \in [DispatchId -> Nat]
    BY <1>15 DEF ReconcileMissing, TypeOK
  <2>6. /\ questionOf' \in [Questions -> DispatchId \cup {None}]
        /\ questionStatus' \in [Questions -> {"absent", "pending", "answered", "closed"}]
    BY <1>15, CloseQuestionsTyped DEF ReconcileMissing
  <2> QED BY <1>15, <2>1, <2>2, <2>3, <2>4, <2>5, <2>6 DEF ReconcileMissing, TypeOK, taskVars, ctxKeys, ctxVars, gateVars, questionVars
<1> QED BY <1>1, <1>2, <1>3, <1>4, <1>5, <1>6, <1>7, <1>8, <1>9, <1>10, <1>11, <1>12, <1>13, <1>14, <1>15

LEMMA ThreadStepTyped == TypeOK /\ ThreadStep => TypeOK'
<1> SUFFICES ASSUME TypeOK, ThreadStep PROVE TypeOK'
  OBVIOUS
<1>1. ASSUME NEW h \in Handles, ProcessExit(h) PROVE TypeOK'
  BY <1>1, FailDispatchTyped DEF ProcessExit
<1>2. ASSUME NEW g \in Gates, NEW t \in Tasks, CreateGate(g, t) PROVE TypeOK'
  <2>1. ctxStatus' \in [DispatchId -> CtxStatuses]
    BY <1>2, SetCtxTyped DEF CreateGate, CtxStatuses
  <2>2. capability' \in [DispatchId -> {"none", "live", "revoked"}]
    BY <1>2, RevokeTyped DEF CreateGate
  <2>3. taskStatus' \in [Tasks -> TaskStatuses \cup {"absent"}]
    BY <1>2 DEF CreateGate, TypeOK, TaskStatuses
  <2> QED BY <1>2, <2>1, <2>2, <2>3 DEF CreateGate, TypeOK, ctxKeys, questionVars
<1>3. ASSUME NEW g \in Gates, ResolveGate(g) PROVE TypeOK'
  BY <1>3 DEF ResolveGate, TypeOK, TaskStatuses, ctxVars, questionVars
<1>4. ASSUME NEW q \in Questions, NEW d \in DispatchId, Ask(q, d) \/ ImportQuestion(q, d)
      PROVE TypeOK'
  BY <1>4 DEF Ask, ImportQuestion, TypeOK, taskVars, ctxVars, gateVars
<1>5. ASSUME NEW q \in Questions, Answer(q) PROVE TypeOK'
  BY <1>5 DEF Answer, TypeOK, taskVars, ctxVars, gateVars
<1> QED BY <1>1, <1>2, <1>3, <1>4, <1>5 DEF ThreadStep

LEMMA NextTyped == TypeOK /\ [Next]_vars => TypeOK'
<1>1. TypeOK /\ UNCHANGED vars => TypeOK'
  BY DEF TypeOK, vars, taskVars, ctxVars, gateVars, questionVars
<1> QED BY <1>1, TaskStepTyped, DispatchStepTyped, ThreadStepTyped DEF Next

LEMMA InitTyped == Init => TypeOK
BY DispatchAssumption DEF Init, TypeOK, DispatchId, CtxStatuses

(* Every column of every row keeps its declared values, in every execution. *)
THEOREM TypeCorrect == Spec => []TypeOK
BY InitTyped, NextTyped, PTL DEF Spec

-----------------------------------------------------------------------------
(* The lease invariant.  A step that does not insert a row touches one row  *)
(* and one Task; the lemmas below say which such changes keep the rows of   *)
(* Tasks, dispatches and workers in agreement.                              *)

(* No row is inserted, revived, or bound to another terminal. *)
KeepsRows ==
  /\ nDispatch' = nDispatch /\ ctxTask' = ctxTask /\ mode' = mode
  /\ \A e \in DispatchId :
       /\ Active(e)' => Active(e)
       /\ ctxStatus'[e] = "absent" <=> ctxStatus[e] = "absent"
       /\ workerState'[e] = "absent" <=> workerState[e] = "absent"
       /\ ctxStatus[e] = "absent" => capability'[e] = capability[e]
       /\ assignee[e] # None => assignee'[e] # None

OnlyRow(d) ==
  /\ ctxTask' = ctxTask /\ mode' = mode
  /\ \A e \in DispatchId \ {d} :
       /\ ctxStatus'[e] = ctxStatus[e]
       /\ workerState'[e] = workerState[e]
       /\ capability'[e] = capability[e]

(* Besides t, a step may only promote pending Tasks. *)
OnlyTask(t) ==
  \A u \in Tasks \ {t} :
    \/ taskStatus'[u] = taskStatus[u]
    \/ taskStatus[u] = "pending" /\ taskStatus'[u] = "ready"

Agreement == TaskMatchesDispatch /\ WorkerMatchesDispatch /\ CapabilityFollowsLease

LEMMA RowsKept ==
  ASSUME IInv, KeepsRows
  PROVE  RowsInOrder' /\ ActiveIsLatest'
<1>1. RowsInOrder'
  BY DispatchAssumption
     DEF IInv, TypeOK, KeepsRows, RowsInOrder, ContextOnly, Active, DispatchId
<1>2. ActiveIsLatest'
  BY DEF IInv, KeepsRows, ActiveIsLatest, Newest, DispatchesOf
<1> QED BY <1>1, <1>2

LEMMA PanesKept ==
  ASSUME IInv, KeepsRows, assignee' = assignee
  PROVE  OneActivePerPane'
BY DEF IInv, KeepsRows, OneActivePerPane

LEMMA ActiveRow ==
  ASSUME IInv, NEW d \in DispatchId, Active(d)
  PROVE  /\ ctxTask[d] \in Tasks
         /\ d <= nDispatch
         /\ ActiveOf(ctxTask[d]) = {d}
<1>1. ctxTask[d] \in Tasks /\ d <= nDispatch
  BY DEF IInv, RowsInOrder, Active, ActiveStatuses
<1>2. ASSUME NEW e \in ActiveOf(ctxTask[d]) PROVE e = d
  BY DEF IInv, ActiveIsLatest, ActiveOf, DispatchesOf, Newest, DispatchId
<1> QED BY <1>1, <1>2 DEF ActiveOf, DispatchesOf

(* The active dispatch d of a Task ends and its Task leaves "dispatched". *)
LEMMA SettleOne ==
  ASSUME IInv, NEW d \in DispatchId, Active(d),
         OnlyRow(d), OnlyTask(ctxTask[d]),
         ~Active(d)', ~LiveWorker(d)', capability'[d] # "live",
         taskStatus'[ctxTask[d]] # "dispatched"
  PROVE  Agreement'
<1> DEFINE t == ctxTask[d]
<1>1. t \in Tasks /\ ActiveOf(t) = {d}
  BY ActiveRow
<1>2. ASSUME NEW e \in DispatchId, Active(e)'
      PROVE  e # d /\ Active(e) /\ ctxTask[e] \in Tasks \ {t}
  BY <1>1, <1>2, ActiveRow DEF OnlyRow, Active, ActiveOf, DispatchesOf
<1>3. ASSUME NEW u \in Tasks, taskStatus'[u] = "dispatched" PROVE (ActiveOf(u) # {})'
  <2>1. u # t /\ taskStatus[u] = "dispatched"
    BY <1>3 DEF OnlyTask
  <2>2. PICK e \in DispatchId : ctxTask[e] = u /\ Active(e)
    BY <2>1 DEF IInv, TaskMatchesDispatch, ActiveOf, DispatchesOf
  <2> QED BY <2>1, <2>2 DEF OnlyRow, ActiveOf, DispatchesOf, Active
<1>4. TaskMatchesDispatch'
  <2>1. ASSUME NEW e \in DispatchId, Active(e)'
        PROVE  /\ taskStatus'[ctxTask[e]] = taskStatus[ctxTask[e]]
               /\ workerState'[e] = workerState[e]
    BY <1>2, <2>1 DEF IInv, TaskMatchesDispatch, OnlyRow, OnlyTask
  <2> QED BY <1>2, <1>3, <2>1 DEF IInv, TaskMatchesDispatch, OnlyRow, InDoubt
<1>5. WorkerMatchesDispatch'
  BY DEF IInv, WorkerMatchesDispatch, OnlyRow, Active, LiveWorker, LiveStates, ContextOnly
<1>6. CapabilityFollowsLease'
  BY DEF IInv, CapabilityFollowsLease, OnlyRow, Active
<1> QED BY <1>4, <1>5, <1>6 DEF Agreement

(* The worker of the active dispatch d moves on without ending it. *)
LEMMA MoveOne ==
  ASSUME IInv, NEW d \in DispatchId, Active(d),
         OnlyRow(d), OnlyTask(ctxTask[d]),
         Active(d)', LiveWorker(d)' \/ ContextOnly(d),
         workerState'[d] \in {"starting", "start_unknown"} => ctxStatus'[d] = "pending",
         capability'[d] = "live" => workerState'[d] \in {"absent", "starting", "ready"},
         taskStatus'[ctxTask[d]] = IF InDoubt(d)' THEN "blocked" ELSE "dispatched"
  PROVE  Agreement'
<1> DEFINE t == ctxTask[d]
<1>1. t \in Tasks /\ ActiveOf(t) = {d}
  BY ActiveRow
<1>2. ASSUME NEW e \in DispatchId, e # d, Active(e)'
      PROVE  Active(e) /\ ctxTask[e] \in Tasks \ {t}
  BY <1>1, <1>2, ActiveRow DEF OnlyRow, Active, ActiveOf, DispatchesOf
<1>3. ASSUME NEW u \in Tasks, taskStatus'[u] = "dispatched" PROVE (ActiveOf(u) # {})'
  <2>1. CASE u = t
    BY <2>1 DEF OnlyRow, ActiveOf, DispatchesOf
  <2>2. CASE u # t
    <3>1. PICK e \in DispatchId : ctxTask[e] = u /\ Active(e)
      BY <1>3, <2>2 DEF IInv, TaskMatchesDispatch, ActiveOf, DispatchesOf, OnlyTask
    <3> QED BY <2>2, <3>1 DEF OnlyRow, ActiveOf, DispatchesOf, Active
  <2> QED BY <2>1, <2>2
<1>4. TaskMatchesDispatch'
  <2>1. ASSUME NEW e \in DispatchId, e # d, Active(e)'
        PROVE  /\ taskStatus'[ctxTask[e]] = taskStatus[ctxTask[e]]
               /\ workerState'[e] = workerState[e]
    BY <1>2, <2>1 DEF IInv, TaskMatchesDispatch, OnlyRow, OnlyTask
  <2> QED BY <1>2, <1>3, <2>1 DEF IInv, TaskMatchesDispatch, OnlyRow, InDoubt
<1>5. WorkerMatchesDispatch'
  BY DEF IInv, WorkerMatchesDispatch, OnlyRow, Active, LiveWorker, ContextOnly
<1>6. CapabilityFollowsLease'
  BY DEF IInv, CapabilityFollowsLease, OnlyRow, Active
<1> QED BY <1>4, <1>5, <1>6 DEF Agreement

(* The dispatches stay as they are and a Task without active ones moves. *)
LEMMA MoveTask ==
  ASSUME IInv, NEW t \in Tasks, ActiveOf(t) = {}, OnlyTask(t),
         taskStatus'[t] # "dispatched", ctxTask' = ctxTask, mode' = mode,
         \A e \in DispatchId :
           /\ ctxStatus'[e] = ctxStatus[e]
           /\ Active(e) => workerState'[e] = workerState[e] /\ capability'[e] = capability[e]
           /\ ~Active(e) => ~LiveWorker(e)' /\ capability'[e] # "live"
  PROVE  Agreement'
<1>1. ASSUME NEW u \in Tasks, taskStatus'[u] = "dispatched" PROVE (ActiveOf(u) # {})'
  BY <1>1 DEF IInv, TaskMatchesDispatch, OnlyTask, ActiveOf, DispatchesOf, Active
<1>2. ASSUME NEW e \in DispatchId, Active(e)
      PROVE  taskStatus'[ctxTask[e]] = taskStatus[ctxTask[e]]
  BY <1>2, ActiveRow DEF IInv, TaskMatchesDispatch, OnlyTask, InDoubt
<1>3. TaskMatchesDispatch'
  BY <1>1, <1>2 DEF IInv, TaskMatchesDispatch, InDoubt, Active
<1>4. WorkerMatchesDispatch'
  BY DEF IInv, WorkerMatchesDispatch, Active, LiveWorker, LiveStates, ContextOnly
<1>5. CapabilityFollowsLease'
  BY DEF IInv, CapabilityFollowsLease, Active
<1> QED BY <1>3, <1>4, <1>5 DEF Agreement

(* Together the lemmas give the invariant after a step that keeps the rows. *)
LEMMA RowStep ==
  ASSUME IInv, TypeOK', KeepsRows, assignee' = assignee, Agreement'
  PROVE  IInv'
BY RowsKept, PanesKept DEF IInv, Agreement

LEMMA FailDispatchPreserves ==
  ASSUME IInv, NEW d \in DispatchId, NEW exited, FailDispatch(d, exited)
  PROVE  IInv'
<1> DEFINE t == ctxTask[d]
<1>1. t \in Tasks /\ ActiveOf(t) = {d} /\ Active(d)
  BY ActiveRow DEF FailDispatch
<1>2. TypeOK'
  BY FailDispatchTyped DEF IInv
<1>3. /\ OnlyRow(d)
      /\ OnlyTask(t)
      /\ ~Active(d)' /\ ~LiveWorker(d)' /\ capability'[d] # "live"
      /\ ctxStatus'[d] # "absent"
      /\ workerState'[d] = "absent" <=> workerState[d] = "absent"
  BY DEF FailDispatch, OnlyRow, OnlyTask, SetCtx, Revoke, ctxKeys, Active, ActiveStatuses,
         LiveWorker, LiveStates, IInv, TypeOK
<1>4. taskStatus'[t] # "dispatched"
  BY <1>1 DEF FailDispatch, TaskAfterFailure, IInv, TypeOK
<1>5. KeepsRows
  BY <1>1, <1>3 DEF KeepsRows, OnlyRow, FailDispatch, ctxKeys, Active, ActiveStatuses
<1>6. Agreement'
  BY <1>1, <1>3, <1>4, SettleOne
<1> QED BY <1>2, <1>5, <1>6, RowStep DEF FailDispatch

(* A live worker has an active dispatch. *)
LEMMA LiveRow == ASSUME IInv, NEW d \in DispatchId, LiveWorker(d) PROVE Active(d)
BY DEF IInv, WorkerMatchesDispatch

LEMMA ReleaseContextOnlyPreserves ==
  ASSUME IInv, TypeOK', NEW d \in DispatchId, ReleaseContextOnly(d)
  PROVE  IInv'
<1> DEFINE t == ctxTask[d]
<1>1. Active(d)
  BY DEF ReleaseContextOnly, Active
<1>2. t \in Tasks /\ ActiveOf(t) = {d}
  BY <1>1, ActiveRow
<1>3. /\ OnlyRow(d)
      /\ OnlyTask(t)
      /\ ~Active(d)' /\ ~LiveWorker(d)' /\ capability'[d] # "live"
      /\ ctxStatus'[d] # "absent"
      /\ workerState'[d] = "absent" <=> workerState[d] = "absent"
  BY <1>1, <1>2 DEF ReleaseContextOnly, OnlyRow, OnlyTask, SetCtx, Revoke, SetWorker, ctxKeys, Active,
         ActiveStatuses, LiveWorker, LiveStates, IInv, TypeOK, WorkerMatchesDispatch, RowsInOrder
<1>4. taskStatus'[t] # "dispatched"
  BY <1>1, <1>2, <1>3 DEF ReleaseContextOnly, IInv, TypeOK, WorkerMatchesDispatch, RowsInOrder
<1>5. KeepsRows
  BY <1>1, <1>3 DEF KeepsRows, OnlyRow, ReleaseContextOnly, ctxKeys, Active, ActiveStatuses
<1>6. Agreement'
  BY <1>1, <1>3, <1>4, SettleOne
<1> QED BY <1>5, <1>6, RowStep DEF ReleaseContextOnly

LEMMA FailStartPreserves ==
  ASSUME IInv, TypeOK', NEW d \in DispatchId, FailStart(d)
  PROVE  IInv'
<1> DEFINE t == ctxTask[d]
<1>1. Active(d)
  BY DEF FailStart, IInv, WorkerMatchesDispatch, LiveWorker, LiveStates
<1>2. t \in Tasks /\ ActiveOf(t) = {d}
  BY <1>1, ActiveRow
<1>3. /\ OnlyRow(d)
      /\ OnlyTask(t)
      /\ ~Active(d)' /\ ~LiveWorker(d)' /\ capability'[d] # "live"
      /\ ctxStatus'[d] # "absent"
      /\ workerState'[d] = "absent" <=> workerState[d] = "absent"
  BY <1>1, <1>2 DEF FailStart, OnlyRow, OnlyTask, SetCtx, Revoke, SetWorker, ctxKeys, Active,
         ActiveStatuses, LiveWorker, LiveStates, IInv, TypeOK
<1>4. taskStatus'[t] # "dispatched"
  BY <1>1, <1>2, <1>3 DEF FailStart, IInv, TypeOK
<1>5. KeepsRows
  BY <1>1, <1>3 DEF KeepsRows, OnlyRow, FailStart, ctxKeys, Active, ActiveStatuses
<1>6. Agreement'
  BY <1>1, <1>3, <1>4, SettleOne
<1> QED BY <1>5, <1>6, RowStep DEF FailStart

LEMMA SettleStopPreserves ==
  ASSUME IInv, TypeOK', NEW d \in DispatchId, SettleStop(d)
  PROVE  IInv'
<1> DEFINE t == ctxTask[d]
<1>1. Active(d)
  BY DEF SettleStop, IInv, WorkerMatchesDispatch, LiveWorker, LiveStates
<1>2. t \in Tasks /\ ActiveOf(t) = {d}
  BY <1>1, ActiveRow
<1>3. /\ OnlyRow(d)
      /\ OnlyTask(t)
      /\ ~Active(d)' /\ ~LiveWorker(d)' /\ capability'[d] # "live"
      /\ ctxStatus'[d] # "absent"
      /\ workerState'[d] = "absent" <=> workerState[d] = "absent"
  BY <1>1, <1>2 DEF SettleStop, OnlyRow, OnlyTask, SetCtx, Revoke, SetWorker, ctxKeys, Active,
         ActiveStatuses, LiveWorker, LiveStates, IInv, TypeOK, Reconcile, CapabilityFollowsLease
<1>4. taskStatus'[t] # "dispatched"
  BY <1>1, <1>2, <1>3 DEF SettleStop, IInv, TypeOK, Reconcile, CapabilityFollowsLease
<1>5. KeepsRows
  BY <1>1, <1>3 DEF KeepsRows, OnlyRow, SettleStop, ctxKeys, Active, ActiveStatuses
<1>6. Agreement'
  BY <1>1, <1>3, <1>4, SettleOne
<1> QED BY <1>5, <1>6, RowStep DEF SettleStop

LEMMA MarkReadyPreserves ==
  ASSUME IInv, TypeOK', NEW d \in DispatchId, MarkReady(d)
  PROVE  IInv'
<1> DEFINE t == ctxTask[d]
<1>1. Active(d)
  BY LiveRow DEF MarkReady, LiveWorker, LiveStates
<1>2. t \in Tasks /\ ActiveOf(t) = {d}
  BY <1>1, ActiveRow
<1>3. /\ OnlyRow(d)
      /\ OnlyTask(t)
      /\ Active(d)' /\ LiveWorker(d)'
      /\ workerState'[d] \in {"starting", "start_unknown"} => ctxStatus'[d] = "pending"
      /\ capability'[d] = "live" => workerState'[d] \in {"absent", "starting", "ready"}
  BY <1>1, <1>2 DEF MarkReady, OnlyRow, OnlyTask, SetCtx, Revoke, SetWorker, taskVars, ctxVars,
         ctxKeys, Active, ActiveStatuses, LiveWorker, LiveStates, IInv, TypeOK,
         WorkerMatchesDispatch, CapabilityFollowsLease
<1>4. taskStatus'[t] = IF InDoubt(d)' THEN "blocked" ELSE "dispatched"
  BY <1>1, <1>2 DEF MarkReady, SetWorker, InDoubt, taskVars, IInv, TypeOK, TaskMatchesDispatch
<1>5. KeepsRows
  BY <1>1, <1>3 DEF KeepsRows, OnlyRow, MarkReady, ctxVars, ctxKeys, Active, ActiveStatuses,
                    LiveWorker, LiveStates
<1>6. Agreement'
  BY <1>1, <1>3, <1>4, MoveOne
<1> QED BY <1>5, <1>6, RowStep DEF MarkReady, ctxVars

LEMMA MarkStartUnknownPreserves ==
  ASSUME IInv, TypeOK', NEW d \in DispatchId, MarkStartUnknown(d)
  PROVE  IInv'
<1> DEFINE t == ctxTask[d]
<1>1. Active(d)
  BY LiveRow DEF MarkStartUnknown, LiveWorker, LiveStates
<1>2. t \in Tasks /\ ActiveOf(t) = {d}
  BY <1>1, ActiveRow
<1>3. /\ OnlyRow(d)
      /\ OnlyTask(t)
      /\ Active(d)' /\ LiveWorker(d)'
      /\ workerState'[d] \in {"starting", "start_unknown"} => ctxStatus'[d] = "pending"
      /\ capability'[d] = "live" => workerState'[d] \in {"absent", "starting", "ready"}
  BY <1>1, <1>2 DEF MarkStartUnknown, OnlyRow, OnlyTask, SetCtx, Revoke, SetWorker, taskVars, ctxVars,
         ctxKeys, Active, ActiveStatuses, LiveWorker, LiveStates, IInv, TypeOK,
         WorkerMatchesDispatch, CapabilityFollowsLease
<1>4. taskStatus'[t] = IF InDoubt(d)' THEN "blocked" ELSE "dispatched"
  BY <1>1, <1>2 DEF MarkStartUnknown, SetWorker, InDoubt, taskVars, IInv, TypeOK, TaskMatchesDispatch
<1>5. KeepsRows
  BY <1>1, <1>3 DEF KeepsRows, OnlyRow, MarkStartUnknown, ctxVars, ctxKeys, Active, ActiveStatuses,
                    LiveWorker, LiveStates
<1>6. Agreement'
  BY <1>1, <1>3, <1>4, MoveOne
<1> QED BY <1>5, <1>6, RowStep DEF MarkStartUnknown, ctxVars

LEMMA BeginStopPreserves ==
  ASSUME IInv, TypeOK', NEW d \in DispatchId, BeginStop(d)
  PROVE  IInv'
<1> DEFINE t == ctxTask[d]
<1>1. Active(d)
  BY LiveRow DEF BeginStop, LiveWorker, LiveStates
<1>2. t \in Tasks /\ ActiveOf(t) = {d}
  BY <1>1, ActiveRow
<1>3. /\ OnlyRow(d)
      /\ OnlyTask(t)
      /\ Active(d)' /\ LiveWorker(d)'
      /\ workerState'[d] \in {"starting", "start_unknown"} => ctxStatus'[d] = "pending"
      /\ capability'[d] = "live" => workerState'[d] \in {"absent", "starting", "ready"}
  BY <1>1, <1>2 DEF BeginStop, OnlyRow, OnlyTask, SetCtx, Revoke, SetWorker, taskVars, ctxVars,
         ctxKeys, Active, ActiveStatuses, LiveWorker, LiveStates, IInv, TypeOK,
         WorkerMatchesDispatch, CapabilityFollowsLease, Reconcile
<1>4. taskStatus'[t] = IF InDoubt(d)' THEN "blocked" ELSE "dispatched"
  BY <1>1, <1>2 DEF BeginStop, SetWorker, InDoubt, taskVars, IInv, TypeOK, TaskMatchesDispatch, Reconcile
<1>5. KeepsRows
  BY <1>1, <1>3 DEF KeepsRows, OnlyRow, BeginStop, ctxVars, ctxKeys, Active, ActiveStatuses,
                    LiveWorker, LiveStates
<1>6. Agreement'
  BY <1>1, <1>3, <1>4, MoveOne
<1> QED BY <1>5, <1>6, RowStep DEF BeginStop, ctxVars

LEMMA MarkStopUnknownPreserves ==
  ASSUME IInv, TypeOK', NEW d \in DispatchId, MarkStopUnknown(d)
  PROVE  IInv'
<1> DEFINE t == ctxTask[d]
<1>1. Active(d)
  BY LiveRow DEF MarkStopUnknown, LiveWorker, LiveStates
<1>2. t \in Tasks /\ ActiveOf(t) = {d}
  BY <1>1, ActiveRow
<1>3. /\ OnlyRow(d)
      /\ OnlyTask(t)
      /\ Active(d)' /\ LiveWorker(d)'
      /\ workerState'[d] \in {"starting", "start_unknown"} => ctxStatus'[d] = "pending"
      /\ capability'[d] = "live" => workerState'[d] \in {"absent", "starting", "ready"}
  BY <1>1, <1>2 DEF MarkStopUnknown, OnlyRow, OnlyTask, SetCtx, Revoke, SetWorker, taskVars, ctxVars,
         ctxKeys, Active, ActiveStatuses, LiveWorker, LiveStates, IInv, TypeOK,
         WorkerMatchesDispatch, CapabilityFollowsLease
<1>4. taskStatus'[t] = IF InDoubt(d)' THEN "blocked" ELSE "dispatched"
  BY <1>1, <1>2 DEF MarkStopUnknown, SetWorker, InDoubt, taskVars, IInv, TypeOK, TaskMatchesDispatch
<1>5. KeepsRows
  BY <1>1, <1>3 DEF KeepsRows, OnlyRow, MarkStopUnknown, ctxVars, ctxKeys, Active, ActiveStatuses,
                    LiveWorker, LiveStates
<1>6. Agreement'
  BY <1>1, <1>3, <1>4, MoveOne
<1> QED BY <1>5, <1>6, RowStep DEF MarkStopUnknown, ctxVars

LEMMA ResumeFederatedPreserves ==
  ASSUME IInv, TypeOK', NEW d \in DispatchId, ResumeFederated(d)
  PROVE  IInv'
<1> DEFINE t == ctxTask[d]
<1>1. Active(d)
  BY LiveRow DEF ResumeFederated, LiveWorker, LiveStates
<1>2. t \in Tasks /\ ActiveOf(t) = {d}
  BY <1>1, ActiveRow
<1>3. /\ OnlyRow(d)
      /\ OnlyTask(t)
      /\ Active(d)' /\ LiveWorker(d)'
      /\ workerState'[d] \in {"starting", "start_unknown"} => ctxStatus'[d] = "pending"
      /\ capability'[d] = "live" => workerState'[d] \in {"absent", "starting", "ready"}
  BY <1>1, <1>2 DEF ResumeFederated, OnlyRow, OnlyTask, SetCtx, Revoke, SetWorker, taskVars, ctxVars,
         ctxKeys, Active, ActiveStatuses, LiveWorker, LiveStates, IInv, TypeOK,
         WorkerMatchesDispatch, CapabilityFollowsLease
<1>4. taskStatus'[t] = IF InDoubt(d)' THEN "blocked" ELSE "dispatched"
  BY <1>1, <1>2 DEF ResumeFederated, SetWorker, InDoubt, taskVars, IInv, TypeOK, TaskMatchesDispatch
<1>5. KeepsRows
  BY <1>1, <1>3 DEF KeepsRows, OnlyRow, ResumeFederated, ctxVars, ctxKeys, Active, ActiveStatuses,
                    LiveWorker, LiveStates
<1>6. Agreement'
  BY <1>1, <1>3, <1>4, MoveOne
<1> QED BY <1>5, <1>6, RowStep DEF ResumeFederated, ctxVars

LEMMA ReconcileMissingPreserves ==
  ASSUME IInv, TypeOK', NEW d \in DispatchId, ReconcileMissing(d)
  PROVE  IInv'
<1> DEFINE t == ctxTask[d]
<1>1. Active(d)
  BY LiveRow DEF ReconcileMissing
<1>2. t \in Tasks /\ ActiveOf(t) = {d}
  BY <1>1, ActiveRow
<1>3. /\ OnlyRow(d)
      /\ OnlyTask(t)
      /\ ~Active(d)' /\ ~LiveWorker(d)' /\ capability'[d] # "live"
      /\ ctxStatus'[d] # "absent"
      /\ workerState'[d] = "absent" <=> workerState[d] = "absent"
  BY <1>1, <1>2 DEF ReconcileMissing, OnlyRow, OnlyTask, SetCtx, Revoke, SetWorker, ctxKeys, Active,
         ActiveStatuses, LiveWorker, LiveStates, IInv, TypeOK
<1>4. taskStatus'[t] # "dispatched"
  <2>1. StopPending(d) => taskStatus[t] = "blocked"
    BY <1>1, <1>2 DEF StopPending, InDoubt, IInv, TaskMatchesDispatch
  <2> QED BY <1>1, <1>2, <2>1 DEF ReconcileMissing, TaskAfterFailure, IInv, TypeOK
<1>5. KeepsRows
  BY <1>1, <1>3 DEF KeepsRows, OnlyRow, ReconcileMissing, ctxKeys, Active, ActiveStatuses
<1>6. Agreement'
  BY <1>1, <1>3, <1>4, SettleOne
<1> QED BY <1>5, <1>6, RowStep DEF ReconcileMissing

LEMMA ReconcileFederatedStartPreserves ==
  ASSUME IInv, TypeOK', NEW d \in DispatchId, NEW o, ReconcileFederatedStart(d, o)
  PROVE  IInv'
<1> DEFINE t == ctxTask[d]
<1>1. Active(d) /\ ctxStatus[d] = "pending"
  BY LiveRow DEF ReconcileFederatedStart, LiveWorker, LiveStates, IInv, WorkerMatchesDispatch
<1>2. t \in Tasks /\ ActiveOf(t) = {d}
  BY <1>1, ActiveRow
<1>3. /\ OnlyRow(d)
      /\ OnlyTask(t)
      /\ ctxStatus'[d] # "absent"
      /\ workerState'[d] # "absent"
      /\ workerState[d] # "absent"
  BY <1>1, <1>2 DEF ReconcileFederatedStart, OnlyRow, OnlyTask, SetCtx, Revoke, SetWorker,
                    ctxKeys, IInv, TypeOK
<1>4. KeepsRows
  BY <1>1, <1>3 DEF KeepsRows, OnlyRow, ReconcileFederatedStart, ctxKeys, Active, ActiveStatuses
<1>5. CASE o = "ready"
  <2>1. Active(d)' /\ LiveWorker(d)' /\ workerState'[d] = "ready"
    BY <1>1, <1>5 DEF ReconcileFederatedStart, SetCtx, SetWorker, Active, ActiveStatuses,
                      LiveWorker, LiveStates, IInv, TypeOK
  <2>2. taskStatus'[t] = IF InDoubt(d)' THEN "blocked" ELSE "dispatched"
    BY <1>1, <1>2, <1>5, <2>1
       DEF ReconcileFederatedStart, InDoubt, IInv, TypeOK, TaskMatchesDispatch
  <2>3. Agreement'
    BY <1>1, <1>3, <2>1, <2>2, MoveOne
  <2> QED BY <1>4, <2>3, RowStep DEF ReconcileFederatedStart
<1>6. CASE o \in {"failed", "stopped"}
  <2>1. ~Active(d)' /\ ~LiveWorker(d)' /\ capability'[d] # "live"
    BY <1>1, <1>2, <1>6 DEF ReconcileFederatedStart, SetCtx, Revoke, SetWorker, Active,
                            ActiveStatuses, LiveWorker, LiveStates, IInv, TypeOK
  <2>2. taskStatus'[t] # "dispatched"
    BY <1>1, <1>2, <1>6 DEF ReconcileFederatedStart, IInv, TypeOK
  <2>3. Agreement'
    BY <1>1, <1>3, <2>1, <2>2, SettleOne
  <2> QED BY <1>4, <2>3, RowStep DEF ReconcileFederatedStart
<1> QED BY <1>5, <1>6 DEF ReconcileFederatedStart

LEMMA AbandonPreserves ==
  ASSUME IInv, TypeOK', NEW d \in DispatchId, Abandon(d)
  PROVE  IInv'
<1> DEFINE t == ctxTask[d]
<1>1. d <= nDispatch /\ t \in Tasks /\ d \in DispatchesOf(t)
  BY DEF Abandon, IInv, RowsInOrder, Newest
<1>2. /\ ctxTask' = ctxTask /\ mode' = mode
      /\ OnlyTask(t)
      /\ ~LiveWorker(d)' /\ workerState'[d] # "absent" /\ capability'[d] # "live"
      /\ \A e \in DispatchId \ {d} : workerState'[e] = workerState[e] /\ capability'[e] = capability[e]
  BY <1>1 DEF Abandon, OnlyTask, Reconcile, SetWorker, Revoke, ctxKeys, LiveWorker, LiveStates,
              IInv, TypeOK
<1>3. CASE Active(d)
  <2>1. ActiveOf(t) = {d}
    BY <1>3, ActiveRow
  <2>2. OnlyRow(d) /\ ~Active(d)' /\ ctxStatus'[d] = "failed"
    BY <1>2, <1>3, <2>1 DEF Abandon, OnlyRow, SetCtx, Active, ActiveStatuses
  <2>3. taskStatus'[t] # "dispatched"
    BY <1>1, <2>1 DEF Abandon, Reconcile, IInv, TypeOK
  <2>4. KeepsRows
    BY <1>2, <1>3, <2>2 DEF KeepsRows, OnlyRow, Abandon, ctxKeys, Active, ActiveStatuses
  <2>5. Agreement'
    BY <1>2, <1>3, <2>2, <2>3, SettleOne
  <2> QED BY <2>4, <2>5, RowStep DEF Abandon
<1>4. CASE ~Active(d)
  <2>1. ActiveOf(t) = {}
    <3>1. ASSUME NEW e \in ActiveOf(t) PROVE FALSE
      <4>1. e \in DispatchId /\ d \in DispatchId /\ e <= d /\ d <= e /\ Active(e)
        BY <1>1, <3>1 DEF Abandon, IInv, ActiveIsLatest, Newest, ActiveOf, DispatchesOf
      <4> QED BY <4>1, <1>4 DEF DispatchId
    <3> QED BY <3>1
  <2>2. \A e \in DispatchId : ctxStatus'[e] = ctxStatus[e]
    BY <2>1 DEF Abandon, SetCtx
  <2>3. taskStatus'[t] # "dispatched"
    BY <1>1, <2>1 DEF Abandon, Reconcile, IInv, TypeOK
  <2>4. KeepsRows
    BY <1>1, <1>2, <2>2 DEF KeepsRows, Abandon, ctxKeys, Active, IInv, RowsInOrder
  <2>5. \A e \in DispatchId :
          /\ Active(e) => workerState'[e] = workerState[e] /\ capability'[e] = capability[e]
          /\ ~Active(e) => ~LiveWorker(e)' /\ capability'[e] # "live"
    BY <1>2, <1>4 DEF IInv, WorkerMatchesDispatch, CapabilityFollowsLease, LiveWorker
  <2>6. Agreement'
    BY <1>1, <1>2, <2>1, <2>2, <2>3, <2>5, MoveTask
  <2> QED BY <2>4, <2>6, RowStep DEF Abandon
<1> QED BY <1>3, <1>4

LEMMA PromoteMoves ==
  ASSUME NEW t \in Tasks, NEW status, NEW outcome \in {"completed", "failed"},
         status = [taskStatus EXCEPT ![t] = outcome], TypeOK,
         taskStatus' = IF outcome = "completed" THEN Promote(status, t) ELSE status
  PROVE  OnlyTask(t) /\ taskStatus'[t] = outcome
<1>1. CASE outcome = "completed"
  BY <1>1 DEF Promote, OnlyTask, TypeOK
<1>2. CASE outcome = "failed"
  BY <1>2 DEF OnlyTask, TypeOK
<1> QED BY <1>1, <1>2

LEMMA ReportPreserves ==
  ASSUME IInv, TypeOK', NEW d \in DispatchId, NEW o \in {"completed", "failed"}, Report(d, o)
  PROVE  IInv'
<1> DEFINE t == ctxTask[d]
<1>1. Active(d)
  BY DEF Report, Active, ActiveStatuses
<1>2. t \in Tasks /\ ActiveOf(t) = {d}
  BY <1>1, ActiveRow
<1>3. OnlyTask(t) /\ taskStatus'[t] = o
  BY <1>2, PromoteMoves DEF Report, IInv
<1>4. workerState[d] \in {"ready", "absent"} \cup TerminalStates
  BY <1>1 DEF Report, IInv, TypeOK, TaskMatchesDispatch, WorkerMatchesDispatch, InDoubt, LiveStates
<1>5. /\ OnlyRow(d)
      /\ ~Active(d)' /\ ~LiveWorker(d)' /\ capability'[d] # "live"
      /\ ctxStatus'[d] # "absent"
      /\ workerState'[d] = "absent" <=> workerState[d] = "absent"
  BY <1>2, <1>4 DEF Report, OnlyRow, SetCtx, Revoke, ctxKeys, Active, ActiveStatuses,
         LiveWorker, LiveStates, TerminalStates, IInv, TypeOK
<1>6. KeepsRows
  BY <1>1, <1>5 DEF KeepsRows, OnlyRow, Report, ctxKeys, Active, ActiveStatuses
<1>7. Agreement'
  BY <1>1, <1>3, <1>5, SettleOne
<1> QED BY <1>6, <1>7, RowStep DEF Report

(* Operators and gates settle the active row of t, if it has one without a  *)
(* live worker, and give t another status than dispatched.                  *)
LEMMA SettleTaskPreserves ==
  ASSUME IInv, TypeOK', NEW t \in Tasks, NEW status \in {"completed", "failed"},
         ~HasLiveWorker(t), SetCtx(ActiveOf(t), status), Revoke(ActiveOf(t)),
         OnlyTask(t), taskStatus'[t] # "dispatched",
         UNCHANGED <<ctxKeys, assignee, workerState>>
  PROVE  IInv'
<1>1. CASE ActiveOf(t) = {}
  <2>1. /\ ctxTask' = ctxTask /\ mode' = mode
        /\ \A e \in DispatchId : /\ ctxStatus'[e] = ctxStatus[e]
                                 /\ capability'[e] = capability[e]
                                 /\ workerState'[e] = workerState[e]
    BY <1>1 DEF SetCtx, Revoke, ctxKeys
  <2>2. KeepsRows
    BY <2>1 DEF KeepsRows, ctxKeys, Active
  <2>3. \A e \in DispatchId :
          /\ Active(e) => workerState'[e] = workerState[e] /\ capability'[e] = capability[e]
          /\ ~Active(e) => ~LiveWorker(e)' /\ capability'[e] # "live"
    BY <2>1 DEF IInv, WorkerMatchesDispatch, CapabilityFollowsLease, LiveWorker
  <2>4. Agreement'
    BY <1>1, <2>1, <2>3, MoveTask
  <2> QED BY <2>2, <2>4, RowStep
<1>2. CASE ActiveOf(t) # {}
  <2>1. PICK d \in DispatchId : ctxTask[d] = t /\ Active(d)
    BY <1>2 DEF ActiveOf, DispatchesOf
  <2>2. ActiveOf(t) = {d}
    BY <2>1, ActiveRow
  <2>3. ~LiveWorker(d)
    BY <2>2 DEF HasLiveWorker
  <2>4. OnlyRow(d) /\ ~Active(d)' /\ ~LiveWorker(d)' /\ capability'[d] # "live"
        /\ ctxStatus'[d] # "absent" /\ workerState'[d] = workerState[d]
    BY <2>2, <2>3 DEF OnlyRow, SetCtx, Revoke, ctxKeys, Active, ActiveStatuses, LiveWorker
  <2>5. KeepsRows
    BY <2>1, <2>4 DEF KeepsRows, OnlyRow, ctxKeys, Active, ActiveStatuses
  <2>6. Agreement'
    BY <2>1, <2>4, SettleOne
  <2> QED BY <2>5, <2>6, RowStep
<1> QED BY <1>1, <1>2

LEMMA CreateGatePreserves ==
  ASSUME IInv, TypeOK', NEW g \in Gates, NEW t \in Tasks, CreateGate(g, t)
  PROVE  IInv'
<1>1. OnlyTask(t) /\ taskStatus'[t] = "blocked"
  BY DEF CreateGate, OnlyTask, IInv, TypeOK
<1> QED BY <1>1, SettleTaskPreserves DEF CreateGate

LEMMA IdleTaskPreserves ==
  ASSUME IInv, TypeOK', NEW t \in Tasks, ActiveOf(t) = {}, OnlyTask(t),
         taskStatus'[t] # "dispatched", UNCHANGED <<ctxVars, workerState>>
  PROVE  IInv'
<1>1. KeepsRows
  BY DEF KeepsRows, ctxVars, Active
<1>2. \A e \in DispatchId :
        /\ ctxStatus'[e] = ctxStatus[e]
        /\ Active(e) => workerState'[e] = workerState[e] /\ capability'[e] = capability[e]
        /\ ~Active(e) => ~LiveWorker(e)' /\ capability'[e] # "live"
  BY DEF IInv, WorkerMatchesDispatch, CapabilityFollowsLease, LiveWorker, ctxVars
<1>3. Agreement'
  BY <1>2, MoveTask DEF ctxVars
<1> QED BY <1>1, <1>3, RowStep DEF ctxVars

LEMMA TaskUpdatePreserves ==
  ASSUME IInv, TypeOK', NEW t \in Tasks, NEW s \in OperatorStatuses, s # "dispatched",
         TaskUpdate(t, s)
  PROVE  IInv'
<1>1. s \in TaskStatuses
  BY DispatchAssumption
<1>2. CASE s \in {"completed", "failed"}
  <2>1. OnlyTask(t) /\ taskStatus'[t] = s
    BY <1>2, PromoteMoves DEF TaskUpdate, IInv
  <2> QED BY <1>2, <2>1, SettleTaskPreserves DEF TaskUpdate
<1>3. CASE s \in {"pending", "ready", "blocked"}
  <2>1. OnlyTask(t) /\ taskStatus'[t] = s /\ ActiveOf(t) = {}
    BY <1>3 DEF TaskUpdate, OnlyTask, IInv, TypeOK
  <2> QED BY <1>3, <2>1, IdleTaskPreserves DEF TaskUpdate, ctxVars, ctxKeys
<1> QED BY <1>1, <1>2, <1>3 DEF TaskStatuses

(* A Task that is not created has no dispatch; one that is ready has none active. *)
LEMMA NoActiveUnless ==
  ASSUME IInv, NEW t \in Tasks, taskStatus[t] \notin {"dispatched", "blocked"}
  PROVE  ActiveOf(t) = {}
BY DEF IInv, TaskMatchesDispatch, ActiveOf, DispatchesOf

LEMMA CreateTaskPreserves ==
  ASSUME IInv, TypeOK', NEW t \in Tasks, NEW ds, CreateTask(t, ds)
  PROVE  IInv'
<1>1. OnlyTask(t) /\ taskStatus'[t] # "dispatched" /\ ActiveOf(t) = {}
  BY NoActiveUnless DEF CreateTask, OnlyTask, IInv, TypeOK
<1> QED BY <1>1, IdleTaskPreserves DEF CreateTask

LEMMA ResolveGatePreserves ==
  ASSUME IInv, TypeOK', NEW g \in Gates, ResolveGate(g)
  PROVE  IInv'
<1>1. gateTask[g] \in Tasks
  BY DEF ResolveGate, IInv, TypeOK
<1>2. OnlyTask(gateTask[g]) /\ taskStatus'[gateTask[g]] = "ready"
  BY <1>1 DEF ResolveGate, OnlyTask, IInv, TypeOK
<1> QED BY <1>1, <1>2, IdleTaskPreserves DEF ResolveGate

(* findActiveDispatchForAssignee finds the active row of a pane: rows of    *)
(* the pane are unique, so the newest of them is the row itself.            *)
LEMMA PaneOwner ==
  ASSUME IInv, NEW h \in Handles, NEW d \in DispatchId, Active(d),
         assignee[d] # None, PaneOf[assignee[d]] = PaneOf[h]
  PROVE  OwnedBy(d, h)
<1> DEFINE byHandle == {e \in DispatchId : Active(e) /\ assignee[e] = h}
           byPane   == {e \in DispatchId : /\ Active(e)
                                           /\ assignee[e] # None
                                           /\ PaneOf[assignee[e]] = PaneOf[h]}
<1>1. byPane = {d}
  BY DEF IInv, OneActivePerPane
<1>2. byHandle \subseteq byPane
  BY DispatchAssumption
<1>3. (IF byHandle # {} THEN byHandle ELSE byPane) = {d}
  BY <1>1, <1>2
<1>4. Newest(d, {d})
  BY DEF Newest, DispatchId
<1> HIDE DEF byHandle, byPane
<1>5. Newest(d, IF byHandle # {} THEN byHandle ELSE byPane)
  BY <1>3, <1>4
<1> QED BY <1>5 DEF OwnedBy, byHandle, byPane

LEMMA PrepareAuthorityPreserves ==
  ASSUME IInv, TypeOK', NEW d \in DispatchId, NEW h \in Handles, PrepareAuthority(d, h)
  PROVE  IInv'
<1> DEFINE t == ctxTask[d]
<1>1. Active(d) /\ LiveWorker(d)
  BY DEF PrepareAuthority, Active, ActiveStatuses, LiveWorker, LiveStates
<1>2. KeepsRows
  BY <1>1 DEF KeepsRows, PrepareAuthority, ctxKeys, Active, IInv, TypeOK, ActiveStatuses
<1>3. /\ OnlyRow(d)
      /\ OnlyTask(t)
      /\ Active(d)' /\ LiveWorker(d)' /\ ctxStatus'[d] = "pending" /\ workerState'[d] = "starting"
      /\ taskStatus'[t] = IF InDoubt(d)' THEN "blocked" ELSE "dispatched"
  BY <1>1 DEF PrepareAuthority, OnlyRow, OnlyTask, taskVars, ctxKeys, Active, LiveWorker,
              InDoubt, IInv, TypeOK, TaskMatchesDispatch
<1>4. Agreement'
  BY <1>1, <1>3, MoveOne
<1>5. OneActivePerPane'
  <2>1. ASSUME NEW e \in DispatchId, e # d, Active(e), assignee[e] # None,
               PaneOf[assignee[e]] = PaneOf[h]
        PROVE  FALSE
    BY <2>1, PaneOwner DEF PrepareAuthority
  <2>2. \A e \in DispatchId : (Active(e)' <=> Active(e)) /\ (e # d => assignee'[e] = assignee[e])
    BY DEF PrepareAuthority, Active
  <2>3. assignee'[d] = h
    BY DEF PrepareAuthority, IInv, TypeOK
  <2> QED BY <2>1, <2>2, <2>3 DEF IInv, OneActivePerPane
<1> QED BY <1>2, <1>4, <1>5, RowsKept DEF IInv, Agreement

(* Both inserts create the row of a Task that has no active dispatch. *)
LEMMA InsertPreserves ==
  ASSUME IInv, TypeOK', NEW t \in Tasks, ActiveOf(t) = {},
         NEW m \in LaunchModes, NEW status, NEW failures, NEW h, NEW cap, NEW worker,
         InsertDispatch(t, m, status, failures, h, cap, worker),
         \/ /\ m = "context" /\ status = "dispatched" /\ worker = "absent"
            /\ h \in Handles /\ ~PaneBusy(h)
         \/ /\ m # "context" /\ status = "pending" /\ worker = "starting" /\ h = None
  PROVE  IInv'
<1>1. PICK d \in DispatchId : d = nDispatch + 1 /\ nDispatch \in Nat
  BY DispatchAssumption DEF InsertDispatch, DispatchId, IInv, TypeOK
<1>2. /\ ctxTask[d] = None /\ ctxStatus[d] = "absent" /\ ~Active(d)
      /\ workerState[d] = "absent" /\ capability[d] = "none"
  BY <1>1 DEF IInv, RowsInOrder, Active, ActiveStatuses
<1>3. /\ ctxTask'[d] = t /\ ctxStatus'[d] = status /\ assignee'[d] = h
      /\ mode'[d] = m /\ workerState'[d] = worker /\ taskStatus'[t] = "dispatched"
      /\ Active(d)'
  BY <1>1 DEF InsertDispatch, IInv, TypeOK, Active, ActiveStatuses
<1>4. \A e \in DispatchId \ {d} :
        /\ ctxTask'[e] = ctxTask[e] /\ ctxStatus'[e] = ctxStatus[e]
        /\ assignee'[e] = assignee[e] /\ capability'[e] = capability[e]
        /\ mode'[e] = mode[e] /\ workerState'[e] = workerState[e]
        /\ Active(e)' <=> Active(e)
  BY <1>1 DEF InsertDispatch, IInv, TypeOK, Active
<1>5. \A u \in Tasks \ {t} : taskStatus'[u] = taskStatus[u]
  BY DEF InsertDispatch, IInv, TypeOK
<1>6. ASSUME NEW e \in DispatchId \ {d}, Active(e)
      PROVE  e <= nDispatch /\ ctxTask[e] \in Tasks \ {t}
  BY <1>6, ActiveRow DEF ActiveOf, DispatchesOf
<1>7. RowsInOrder'
  <2>1. ASSUME NEW e \in DispatchId, e # d, e <= nDispatch' PROVE e <= nDispatch
    BY <1>1, <2>1 DEF InsertDispatch, DispatchId
  <2>2. ASSUME NEW e \in DispatchId, ~(e <= nDispatch') PROVE e # d /\ ~(e <= nDispatch)
    BY <1>1, <2>2 DEF InsertDispatch, DispatchId
  <2>3. m # "absent" /\ status # "absent" /\ (m = "context" => h # None)
        /\ (m = "context" <=> worker = "absent")
    BY DispatchAssumption DEF LaunchModes
  <2>4. ASSUME NEW e \in DispatchId, e <= nDispatch'
        PROVE  /\ ctxTask'[e] \in Tasks /\ ctxStatus'[e] # "absent" /\ mode'[e] # "absent"
               /\ ContextOnly(e)' <=> workerState'[e] = "absent"
               /\ ContextOnly(e)' => assignee'[e] # None
    <3>1. CASE e = d
      BY <3>1, <1>3, <2>3 DEF ContextOnly
    <3>2. CASE e # d
      BY <3>2, <1>4, <2>1, <2>4 DEF ContextOnly, IInv, RowsInOrder
    <3> QED BY <3>1, <3>2
  <2>5. ASSUME NEW e \in DispatchId, ~(e <= nDispatch')
        PROVE  /\ ctxTask'[e] = None /\ ctxStatus'[e] = "absent" /\ mode'[e] = "absent"
               /\ workerState'[e] = "absent" /\ capability'[e] = "none"
    BY <1>4, <2>2, <2>5 DEF IInv, RowsInOrder
  <2> QED BY <2>4, <2>5 DEF RowsInOrder
<1>8. ActiveIsLatest'
  <2>1. ASSUME NEW e \in DispatchId, Active(e)', NEW f \in DispatchId,
               ctxTask'[f] = ctxTask'[e]
        PROVE  f <= e
    <3>1. CASE e = d
      <4>1. CASE f = d
        BY <3>1, <4>1, <1>1
      <4>2. CASE f # d
        BY <3>1, <4>2, <1>1, <1>3, <1>4, <2>1, DispatchAssumption
           DEF IInv, RowsInOrder, DispatchId
      <4> QED BY <4>1, <4>2
    <3>2. CASE e # d
      <4>1. Active(e) /\ ctxTask'[e] = ctxTask[e] /\ ctxTask[e] # t
        BY <3>2, <2>1, <1>4, <1>6
      <4>2. f # d /\ ctxTask[f] = ctxTask[e]
        BY <4>1, <2>1, <1>3, <1>4
      <4> QED BY <4>1, <4>2 DEF IInv, ActiveIsLatest, Newest, DispatchesOf
    <3> QED BY <3>1, <3>2
  <2> QED BY <2>1 DEF ActiveIsLatest, Newest, DispatchesOf
<1>9. TaskMatchesDispatch'
  <2>1. ASSUME NEW u \in Tasks, taskStatus'[u] = "dispatched" PROVE (ActiveOf(u) # {})'
    <3>1. CASE u = t
      BY <3>1, <1>1, <1>3 DEF ActiveOf, DispatchesOf
    <3>2. CASE u # t
      <4>1. PICK e \in DispatchId : ctxTask[e] = u /\ Active(e)
        BY <2>1, <3>2, <1>5 DEF IInv, TaskMatchesDispatch, ActiveOf, DispatchesOf
      <4> QED BY <4>1, <1>2, <1>4 DEF ActiveOf, DispatchesOf
    <3> QED BY <3>1, <3>2
  <2>2. ASSUME NEW e \in DispatchId, Active(e)'
        PROVE  taskStatus'[ctxTask'[e]] = IF InDoubt(e)' THEN "blocked" ELSE "dispatched"
    <3>1. CASE e = d
      BY <3>1, <1>3 DEF InDoubt
    <3>2. CASE e # d
      BY <3>2, <2>2, <1>4, <1>5, <1>6 DEF InDoubt, IInv, TaskMatchesDispatch
    <3> QED BY <3>1, <3>2
  <2> QED BY <2>1, <2>2 DEF TaskMatchesDispatch
<1>10. WorkerMatchesDispatch'
  <2>1. /\ LiveWorker(d)' => Active(d)'
        /\ Active(d)' => ContextOnly(d)' \/ LiveWorker(d)'
        /\ workerState'[d] \in {"starting", "start_unknown"} => ctxStatus'[d] = "pending"
    BY <1>3 DEF LiveWorker, LiveStates, ContextOnly
  <2>2. ASSUME NEW e \in DispatchId, e # d
        PROVE  /\ LiveWorker(e)' => Active(e)'
               /\ Active(e)' => ContextOnly(e)' \/ LiveWorker(e)'
               /\ workerState'[e] \in {"starting", "start_unknown"} => ctxStatus'[e] = "pending"
    BY <1>4, <2>2 DEF IInv, WorkerMatchesDispatch, LiveWorker, ContextOnly
  <2> QED BY <2>1, <2>2 DEF WorkerMatchesDispatch
<1>11. CapabilityFollowsLease'
  <2>1. Active(d)' /\ workerState'[d] \in {"absent", "starting", "ready"}
    BY <1>3
  <2>2. ASSUME NEW e \in DispatchId, e # d, capability'[e] = "live"
        PROVE  Active(e)' /\ workerState'[e] \in {"absent", "starting", "ready"}
    BY <1>4, <2>2 DEF IInv, CapabilityFollowsLease
  <2> QED BY <2>1, <2>2 DEF CapabilityFollowsLease
<1>12. OneActivePerPane'
  <2>1. ASSUME NEW e \in DispatchId \ {d}, Active(e), assignee[e] # None, h # None,
               PaneOf[assignee[e]] = PaneOf[h]
        PROVE  FALSE
    BY <2>1, PaneOwner DEF PaneBusy
  <2> QED BY <1>3, <1>4, <2>1 DEF IInv, OneActivePerPane
<1> QED BY <1>7, <1>8, <1>9, <1>10, <1>11, <1>12 DEF IInv

LEMMA DispatchPreserves ==
  ASSUME IInv, TypeOK', NEW t \in Tasks, NEW h \in Handles, NEW inject \in BOOLEAN,
         Dispatch(t, h, inject)
  PROVE  IInv'
<1>1. ActiveOf(t) = {}
  BY NoActiveUnless DEF Dispatch, Startable
<1>2. PICK n \in PriorFailures(t) :
        InsertDispatch(t, "context", "dispatched", n, h, IF inject THEN "live" ELSE "none", "absent")
  BY DEF Dispatch
<1> QED BY <1>1, <1>2, InsertPreserves DEF Dispatch, LaunchModes

LEMMA WorkerStartPreserves ==
  ASSUME IInv, TypeOK', NEW t \in Tasks, NEW m \in Modes, WorkerStart(t, m)
  PROVE  IInv'
<1>1. ActiveOf(t) = {}
  BY NoActiveUnless DEF WorkerStart, Startable
<1> QED BY <1>1, InsertPreserves, DispatchAssumption DEF WorkerStart

(* The newest dispatch of a retried Task has a settled worker, and an       *)
(* active dispatch would have to be the newest.                             *)
LEMMA RetryIdle ==
  ASSUME IInv, NEW t \in Tasks, NEW m \in Modes, NEW prior \in DispatchId,
         WorkerRetry(t, m, prior)
  PROVE  ActiveOf(t) = {}
<1>1. ASSUME NEW e \in ActiveOf(t) PROVE FALSE
  <2>1. e \in DispatchId /\ Active(e) /\ e <= prior /\ prior <= e
    BY <1>1 DEF WorkerRetry, IInv, ActiveIsLatest, Newest, ActiveOf, DispatchesOf
  <2>2. e = prior
    BY <2>1 DEF DispatchId
  <2>3. prior <= nDispatch /\ (ContextOnly(prior) \/ LiveWorker(prior))
    BY <2>1, <2>2, ActiveRow DEF IInv, WorkerMatchesDispatch
  <2> QED BY <2>3 DEF WorkerRetry, IInv, RowsInOrder, LiveWorker, LiveStates
<1> QED BY <1>1

LEMMA WorkerRetryPreserves ==
  ASSUME IInv, TypeOK', NEW t \in Tasks, NEW m \in Modes, NEW prior \in DispatchId,
         WorkerRetry(t, m, prior)
  PROVE  IInv'
BY RetryIdle, InsertPreserves, DispatchAssumption DEF WorkerRetry

LEMMA TaskStepPreserves ==
  ASSUME IInv, TypeOK', TaskStep, "dispatched" \notin OperatorStatuses
  PROVE  IInv'
BY CreateTaskPreserves, TaskUpdatePreserves, DispatchPreserves, WorkerStartPreserves,
   WorkerRetryPreserves DEF TaskStep

LEMMA DispatchStepPreserves == ASSUME IInv, TypeOK', DispatchStep PROVE IInv'
BY FailDispatchPreserves, ReleaseContextOnlyPreserves, PrepareAuthorityPreserves,
   MarkReadyPreserves, FailStartPreserves, MarkStartUnknownPreserves,
   ReconcileFederatedStartPreserves, ReportPreserves, BeginStopPreserves, SettleStopPreserves,
   MarkStopUnknownPreserves, ResumeFederatedPreserves, AbandonPreserves, ReconcileMissingPreserves
   DEF DispatchStep, PromptFailed, Escalate

(* Questions are no part of the invariant. *)
LEMMA QuietStepPreserves ==
  ASSUME IInv, TypeOK', UNCHANGED <<taskStatus, ctxVars, workerState>>
  PROVE  IInv'
<1>1. KeepsRows
  BY DEF KeepsRows, ctxVars, Active
<1>2. Agreement'
  BY DEF Agreement, ctxVars, IInv, TaskMatchesDispatch, WorkerMatchesDispatch,
         CapabilityFollowsLease, Active, ActiveOf, DispatchesOf, LiveWorker, ContextOnly, InDoubt
<1> QED BY <1>1, <1>2, RowStep DEF ctxVars

LEMMA ThreadStepPreserves == ASSUME IInv, TypeOK', ThreadStep PROVE IInv'
<1>1. ASSUME NEW h \in Handles, ProcessExit(h) PROVE IInv'
  BY <1>1, FailDispatchPreserves DEF ProcessExit
<1>2. ASSUME NEW q \in Questions, \/ \E d \in DispatchId : Ask(q, d) \/ ImportQuestion(q, d)
                                  \/ Answer(q)
      PROVE IInv'
  BY <1>2, QuietStepPreserves DEF Ask, ImportQuestion, Answer, taskVars
<1> QED BY <1>1, <1>2, CreateGatePreserves, ResolveGatePreserves DEF ThreadStep

LEMMA InitHolds == Init => IInv
BY InitTyped, DispatchAssumption
   DEF Init, IInv, RowsInOrder, ActiveIsLatest, TaskMatchesDispatch, WorkerMatchesDispatch,
       CapabilityFollowsLease, OneActivePerPane, Active, ActiveStatuses, LiveWorker, LiveStates,
       DispatchId, ContextOnly, TaskStatuses

LEMMA NextPreserves ==
  "dispatched" \notin OperatorStatuses => (IInv /\ [Next]_vars => IInv')
<1> SUFFICES ASSUME "dispatched" \notin OperatorStatuses, IInv, [Next]_vars PROVE IInv'
  OBVIOUS
<1>1. TypeOK'
  BY NextTyped DEF IInv
<1>2. CASE UNCHANGED vars
  BY <1>1, <1>2, QuietStepPreserves DEF vars, taskVars
<1>3. CASE Next
  BY <1>1, <1>3, TaskStepPreserves, DispatchStepPreserves, ThreadStepPreserves DEF Next
<1> QED BY <1>2, <1>3

(* As long as operators leave the status "dispatched" to the dispatch       *)
(* methods, no interleaving of starts, reports, stops, exits, restarts and  *)
(* gates breaks the agreement of Tasks, dispatches, workers, capabilities   *)
(* and panes.                                                               *)
THEOREM LeaseInvariant ==
  ASSUME "dispatched" \notin OperatorStatuses
  PROVE  Spec => []IInv
BY InitHolds, NextPreserves, PTL DEF Spec

(* A Task has at most one active dispatch, its newest, in every             *)
(* interleaving: the "latest dispatch" lookups find the active one.         *)
THEOREM ExclusiveLease ==
  ASSUME "dispatched" \notin OperatorStatuses
  PROVE  Spec => []ActiveIsLatest
<1>1. IInv => ActiveIsLatest
  BY DEF IInv
<1> QED BY <1>1, LeaseInvariant, PTL

(* A terminal pane works for at most one dispatch, whatever handles it is   *)
(* reminted to.                                                             *)
THEOREM PaneLease ==
  ASSUME "dispatched" \notin OperatorStatuses
  PROVE  Spec => []OneActivePerPane
<1>1. IInv => OneActivePerPane
  BY DEF IInv
<1> QED BY <1>1, LeaseInvariant, PTL

(* A Task agrees with its dispatches: nothing in progress is without the    *)
(* dispatch that will settle it, and doubt about the worker blocks the Task.*)
THEOREM StatusAgreement ==
  ASSUME "dispatched" \notin OperatorStatuses
  PROVE  Spec => []TaskMatchesDispatch
<1>1. IInv => TaskMatchesDispatch
  BY DEF IInv
<1> QED BY <1>1, LeaseInvariant, PTL

(* A worker agrees with its dispatch: no Task is released while its worker  *)
(* may be running, and no worker stays live after its dispatch settled.     *)
THEOREM WorkerAgreement ==
  ASSUME "dispatched" \notin OperatorStatuses
  PROVE  Spec => []WorkerMatchesDispatch
<1>1. IInv => WorkerMatchesDispatch
  BY DEF IInv
<1> QED BY <1>1, LeaseInvariant, PTL

(* A capability is live only while its dispatch is active and its worker is *)
(* neither in doubt nor being stopped.                                      *)
THEOREM CapabilityAuthority ==
  ASSUME "dispatched" \notin OperatorStatuses
  PROVE  Spec => []CapabilityFollowsLease
<1>1. IInv => CapabilityFollowsLease
  BY DEF IInv
<1> QED BY <1>1, LeaseInvariant, PTL
===============================================================================
