------------------------ MODULE DispatchLease_proofs ------------------------
(***************************************************************************)
(* DispatchLifecycle implements DispatchLease: every step of the rows is a *)
(* grant, an attachment of a terminal, the one end of an open lease, or    *)
(* changes no lease.                                                       *)
(***************************************************************************)
EXTENDS DispatchLifecycle_proofs

LeaseStep == [Lease!Next]_(Lease!leaseVars)

(* No row is inserted or bound, and at most one, an active one, moves on.   *)
OneRowMoves ==
  /\ ctxTask' = ctxTask /\ assignee' = assignee
  /\ \A e \in DispatchId : /\ ~Active(e) => ctxStatus'[e] = ctxStatus[e]
                           /\ Active(e) => ctxStatus'[e] # "absent"
  /\ \E d \in DispatchId \cup {0} : \A e \in DispatchId \ {d} : ctxStatus'[e] = ctxStatus[e]

LeaseStateOf(status) ==
  IF status = "absent" THEN "unused"
  ELSE IF status \in ActiveStatuses THEN "open"
  ELSE IF status = "completed" THEN "completed" ELSE "failed"

LEMMA MoveIsLeaseStep ==
  ASSUME IInv, TypeOK', OneRowMoves
  PROVE  LeaseStep
<1>1. PICK d \in DispatchId \cup {0} : \A e \in DispatchId \ {d} : ctxStatus'[e] = ctxStatus[e]
  BY DEF OneRowMoves
<1>2. CASE d = 0 \/ LeaseStateOf(ctxStatus'[d]) = LeaseStateOf(ctxStatus[d])
  <2>1. \A e \in DispatchId : LeaseStateOf(ctxStatus'[e]) = LeaseStateOf(ctxStatus[e])
    BY <1>1, <1>2 DEF DispatchId
  <2> QED BY <2>1 DEF LeaseStep, Lease!leaseVars, OneRowMoves, LeaseStateOf, Active
<1>3. CASE d # 0 /\ LeaseStateOf(ctxStatus'[d]) # LeaseStateOf(ctxStatus[d])
  <2>1. d \in DispatchId /\ Active(d) /\ ctxStatus'[d] \in SettledStatuses
    <3>1. d \in DispatchId
      BY <1>3
    <3>2. /\ ~Active(d) => ctxStatus'[d] = ctxStatus[d]
          /\ Active(d) => ctxStatus'[d] # "absent"
      BY <3>1 DEF OneRowMoves
    <3>3. ctxStatus[d] \in CtxStatuses /\ ctxStatus'[d] \in CtxStatuses
      BY <3>1 DEF IInv, TypeOK
    <3> QED BY <1>3, <3>1, <3>2, <3>3
               DEF LeaseStateOf, CtxStatuses, ActiveStatuses, SettledStatuses, Active
  <2>2. PICK o \in {"completed", "failed"} : o = LeaseStateOf(ctxStatus'[d])
    BY <2>1 DEF LeaseStateOf, ActiveStatuses, SettledStatuses
  <2>3. Lease!End(d, o)
    <3> DEFINE state == [e \in DispatchId |-> LeaseStateOf(ctxStatus[e])]
    <3>1. state' = [state EXCEPT ![d] = o]
      BY <1>1, <2>1, <2>2 DEF DispatchId
    <3>2. state[d] = "open"
      BY <2>1 DEF LeaseStateOf, Active, ActiveStatuses
    <3> QED BY <3>1, <3>2 DEF Lease!End, Lease!Open, OneRowMoves, LeaseStateOf, Active
  <2>4. Lease!Next
    BY <2>1, <2>3 DEF Lease!Next, Lease!Outcomes, Lease!DispatchId, DispatchId
  <2> QED BY <2>4 DEF LeaseStep
<1> QED BY <1>2, <1>3

LEMMA SetCtxMoves ==
  ASSUME NEW d \in DispatchId, NEW S \in SUBSET {d}, \A e \in S : Active(e),
         NEW status, status # "absent", SetCtx(S, status),
         ctxTask' = ctxTask, assignee' = assignee
  PROVE  OneRowMoves
<1>1. \A e \in DispatchId : ctxStatus'[e] = IF e \in S THEN status ELSE ctxStatus[e]
  BY DEF SetCtx
<1>2. \A e \in DispatchId \ {d} : ctxStatus'[e] = ctxStatus[e]
  BY <1>1
<1>3. \A e \in DispatchId : Active(e) => ctxStatus[e] # "absent"
  BY DEF Active, ActiveStatuses
<1> QED BY <1>1, <1>2, <1>3 DEF OneRowMoves

(* A Task's active dispatches are at most one row. *)
LEMMA SetTaskMoves ==
  ASSUME IInv, NEW t, NEW status, status # "absent", SetCtx(ActiveOf(t), status),
         ctxTask' = ctxTask, assignee' = assignee
  PROVE  OneRowMoves
<1>1. CASE ActiveOf(t) = {}
  <2>1. \A e \in DispatchId : ctxStatus'[e] = ctxStatus[e]
    BY <1>1 DEF SetCtx
  <2> QED BY <2>1 DEF OneRowMoves, Active, ActiveStatuses
<1>2. CASE ActiveOf(t) # {}
  <2>1. PICK d \in DispatchId : ctxTask[d] = t /\ Active(d)
    BY <1>2 DEF ActiveOf, DispatchesOf
  <2>2. ActiveOf(t) = {d}
    BY <2>1, ActiveRow
  <2> QED BY <2>1, <2>2, SetCtxMoves
<1> QED BY <1>1, <1>2

LEMMA StillMoves ==
  ASSUME ctxTask' = ctxTask, assignee' = assignee, ctxStatus' = ctxStatus
  PROVE  OneRowMoves
BY DEF OneRowMoves, Active, ActiveStatuses

LEMMA FailDispatchMoves ==
  ASSUME NEW d \in DispatchId, NEW exited, FailDispatch(d, exited)
  PROVE  OneRowMoves
BY SetCtxMoves DEF FailDispatch, ctxKeys

LEMMA DispatchStepMoves ==
  ASSUME IInv, NEW d \in DispatchId,
         \/ PromptFailed(d)
         \/ Escalate(d)
         \/ ReleaseContextOnly(d)
         \/ MarkReady(d)
         \/ FailStart(d)
         \/ MarkStartUnknown(d)
         \/ \E o \in {"ready", "failed", "stopped"} : ReconcileFederatedStart(d, o)
         \/ \E o \in {"completed", "failed"} : Report(d, o)
         \/ BeginStop(d)
         \/ SettleStop(d)
         \/ MarkStopUnknown(d)
         \/ ResumeFederated(d)
         \/ Abandon(d)
         \/ ReconcileMissing(d)
  PROVE  OneRowMoves
<1> DEFINE t == ctxTask[d]
<1>1. CASE PromptFailed(d) \/ Escalate(d)
  BY <1>1, FailDispatchMoves DEF PromptFailed, Escalate
<1>2. CASE ReleaseContextOnly(d)
  BY <1>2, SetCtxMoves DEF ReleaseContextOnly, ctxKeys
<1>3. CASE MarkReady(d)
  BY <1>3, SetCtxMoves DEF MarkReady, ctxKeys, Active, ActiveStatuses
<1>4. CASE FailStart(d)
  BY <1>4, LiveRow, SetCtxMoves DEF FailStart, ctxKeys, LiveWorker, LiveStates
<1>5. CASE MarkStartUnknown(d) \/ BeginStop(d) \/ MarkStopUnknown(d) \/ ResumeFederated(d)
  BY <1>5, StillMoves
     DEF MarkStartUnknown, BeginStop, MarkStopUnknown, ResumeFederated, ctxKeys, ctxVars
<1>6. ASSUME NEW o \in {"ready", "failed", "stopped"}, ReconcileFederatedStart(d, o)
      PROVE  OneRowMoves
  <2>1. CASE o = "ready"
    <3> DEFINE S == {d} \cap {e \in DispatchId : ctxStatus[e] = "pending"}
    <3>1. S \in SUBSET {d} /\ (\A e \in S : Active(e)) /\ SetCtx(S, "dispatched")
      BY <1>6, <2>1 DEF ReconcileFederatedStart, Active, ActiveStatuses
    <3> QED BY <1>6, <3>1, SetCtxMoves DEF ReconcileFederatedStart, ctxKeys
  <2>2. CASE o # "ready"
    <3> DEFINE S == {d} \cap ActiveOf(t)
    <3>1. S \in SUBSET {d} /\ (\A e \in S : Active(e)) /\ SetCtx(S, "failed")
      BY <1>6, <2>2 DEF ReconcileFederatedStart, ActiveOf
    <3> QED BY <1>6, <3>1, SetCtxMoves DEF ReconcileFederatedStart, ctxKeys
  <2> QED BY <2>1, <2>2
<1>7. ASSUME NEW o \in {"completed", "failed"}, Report(d, o) PROVE OneRowMoves
  BY <1>7, SetTaskMoves DEF Report, ctxKeys
<1>8. CASE SettleStop(d) \/ Abandon(d)
  <2> DEFINE S == {d} \cap ActiveOf(t)
  <2>1. S \in SUBSET {d} /\ (\A e \in S : Active(e)) /\ SetCtx(S, "failed")
    BY <1>8 DEF SettleStop, Abandon, ActiveOf
  <2> QED BY <1>8, <2>1, SetCtxMoves DEF SettleStop, Abandon, ctxKeys
<1>9. CASE ReconcileMissing(d)
  <2> DEFINE S == {d} \cap ActiveOf(t)
             status == IF failureCount[d] + 1 >= BreakFailures THEN "circuit_broken" ELSE "failed"
  <2>1. S \in SUBSET {d} /\ (\A e \in S : Active(e)) /\ SetCtx(S, status) /\ status # "absent"
    BY <1>9 DEF ReconcileMissing, ActiveOf
  <2> QED BY <1>9, <2>1, SetCtxMoves DEF ReconcileMissing, ctxKeys
<1> QED BY <1>1, <1>2, <1>3, <1>4, <1>5, <1>6, <1>7, <1>8, <1>9

(* An insert grants the Task to a pane that no open lease has. *)
LEMMA InsertGrants ==
  ASSUME IInv, NEW t \in Tasks, ActiveOf(t) = {},
         NEW m, NEW status \in ActiveStatuses, NEW failures, NEW h, NEW cap, NEW worker,
         InsertDispatch(t, m, status, failures, h, cap, worker),
         (h \in Handles /\ ~PaneBusy(h)) \/ h = None
  PROVE  Lease!Next
<1>1. PICK d \in DispatchId : d = nDispatch + 1 /\ nDispatch \in Nat
  BY DispatchAssumption DEF InsertDispatch, DispatchId, IInv, TypeOK
<1> DEFINE pane     == [e \in DispatchId |-> IF assignee[e] = None THEN None ELSE PaneOf[assignee[e]]]
           state    == [e \in DispatchId |-> LeaseStateOf(ctxStatus[e])]
           p        == IF h = None THEN None ELSE PaneOf[h]
           panes    == {PaneOf[x] : x \in Handles}
<1>2. ctxTask' = [ctxTask EXCEPT ![d] = t]
  BY <1>1 DEF InsertDispatch
<1>3. pane' = [pane EXCEPT ![d] = p]
  BY <1>1 DEF InsertDispatch, IInv, TypeOK
<1>4. state' = [state EXCEPT ![d] = "open"]
  BY <1>1 DEF InsertDispatch, IInv, TypeOK, LeaseStateOf, ActiveStatuses
<1>5. state[d] = "unused" /\ \A e \in DispatchId : e < d => state[e] # "unused"
  BY <1>1 DEF LeaseStateOf, IInv, RowsInOrder, DispatchId
<1>6. \A e \in DispatchId : state[e] = "open" <=> Active(e)
  BY DEF LeaseStateOf, Active, ActiveStatuses
<1>7. \A e \in DispatchId : state[e] = "open" => ctxTask[e] # t
  BY <1>6 DEF ActiveOf, DispatchesOf
<1>8. p = None \/ \A e \in DispatchId \ {d} : state[e] = "open" => pane[e] # p
  <2>1. ASSUME h # None, NEW e \in DispatchId, Active(e), pane[e] = p PROVE FALSE
    BY <2>1, PaneOwner, DispatchAssumption DEF PaneBusy
  <2> QED BY <1>6, <2>1
<1>9. p \in panes \cup {None}
  BY DEF ActiveStatuses
<1> HIDE DEF pane, state, p, panes
<1>10. /\ state[d] = "unused"
       /\ \A e \in 1..MaxDispatch : e < d => state[e] # "unused"
       /\ \A e \in 1..MaxDispatch : state[e] = "open" => ctxTask[e] # t
       /\ p = None \/ \A e \in 1..MaxDispatch \ {d} : state[e] = "open" => pane[e] # p
       /\ ctxTask' = [ctxTask EXCEPT ![d] = t]
       /\ pane' = [pane EXCEPT ![d] = p]
       /\ state' = [state EXCEPT ![d] = "open"]
  BY <1>2, <1>3, <1>4, <1>5, <1>7, <1>8 DEF DispatchId
<1>11. Lease!Grant(d, t, p)
  BY <1>10 DEF Lease!Grant, Lease!PaneFree, Lease!Open, Lease!DispatchId, pane, state,
               DispatchId, Active, LeaseStateOf
<1> QED BY <1>9, <1>11 DEF Lease!Next, Lease!DispatchId, DispatchId, panes

(* A terminal is attached to an open lease when no other holds its pane. *)
LEMMA PrepareAttaches ==
  ASSUME IInv, NEW d \in DispatchId, NEW h \in Handles, PrepareAuthority(d, h)
  PROVE  Lease!Next
<1> DEFINE pane  == [e \in DispatchId |-> IF assignee[e] = None THEN None ELSE PaneOf[assignee[e]]]
           state == [e \in DispatchId |-> LeaseStateOf(ctxStatus[e])]
           p     == PaneOf[h]
           panes == {PaneOf[x] : x \in Handles}
<1>1. pane' = [pane EXCEPT ![d] = p] /\ pane[d] = None
  BY DispatchAssumption DEF PrepareAuthority, IInv, TypeOK
<1>2. state' = state /\ state[d] = "open" /\ ctxTask' = ctxTask
  BY DEF PrepareAuthority, ctxKeys, LeaseStateOf, ActiveStatuses
<1>3. \A e \in DispatchId \ {d} : state[e] = "open" => pane[e] # p
  <2>1. ASSUME NEW e \in DispatchId \ {d}, Active(e), pane[e] = p PROVE FALSE
    BY <2>1, PaneOwner, DispatchAssumption DEF PrepareAuthority
  <2> QED BY <2>1 DEF LeaseStateOf, Active, ActiveStatuses
<1>4. p \in panes
  OBVIOUS
<1> HIDE DEF pane, state, p, panes
<1>5. Lease!Attach(d, p)
  BY <1>1, <1>2, <1>3 DEF Lease!Attach, Lease!PaneFree, Lease!Open, Lease!DispatchId, pane, state,
                          DispatchId, Active, LeaseStateOf
<1> QED BY <1>4, <1>5 DEF Lease!Next, Lease!DispatchId, DispatchId, panes

LEMMA TaskStepLeases ==
  ASSUME IInv, TypeOK', TaskStep
  PROVE  LeaseStep
<1>1. ASSUME NEW t \in Tasks, NEW ds, CreateTask(t, ds) PROVE LeaseStep
  BY <1>1, StillMoves, MoveIsLeaseStep DEF CreateTask, ctxVars
<1>2. ASSUME NEW t \in Tasks, NEW s, TaskUpdate(t, s) PROVE LeaseStep
  <2>1. CASE s \in {"completed", "failed"}
    BY <1>2, <2>1, SetTaskMoves, MoveIsLeaseStep DEF TaskUpdate, ctxKeys
  <2>2. CASE s \notin {"completed", "failed"}
    BY <1>2, <2>2, StillMoves, MoveIsLeaseStep DEF TaskUpdate, ctxKeys
  <2> QED BY <2>1, <2>2
<1>3. ASSUME NEW t \in Tasks, NEW h \in Handles, NEW inject \in BOOLEAN, Dispatch(t, h, inject)
      PROVE  LeaseStep
  <2>1. ActiveOf(t) = {}
    BY <1>3, NoActiveUnless DEF Dispatch, Startable
  <2> QED BY <1>3, <2>1, InsertGrants DEF Dispatch, LeaseStep, ActiveStatuses
<1>4. ASSUME NEW t \in Tasks, NEW m \in Modes, WorkerStart(t, m) PROVE LeaseStep
  <2>1. ActiveOf(t) = {}
    BY <1>4, NoActiveUnless DEF WorkerStart, Startable
  <2> QED BY <1>4, <2>1, InsertGrants DEF WorkerStart, LeaseStep, ActiveStatuses
<1>5. ASSUME NEW t \in Tasks, NEW m \in Modes, NEW prior \in DispatchId, WorkerRetry(t, m, prior)
      PROVE  LeaseStep
  <2>1. ActiveOf(t) = {}
    BY <1>5, RetryIdle
  <2> QED BY <1>5, <2>1, InsertGrants DEF WorkerRetry, LeaseStep, ActiveStatuses
<1> QED BY <1>1, <1>2, <1>3, <1>4, <1>5 DEF TaskStep

LEMMA DispatchStepLeases ==
  ASSUME IInv, TypeOK', DispatchStep
  PROVE  LeaseStep
<1> PICK d \in DispatchId : \/ PromptFailed(d)
                            \/ Escalate(d)
                            \/ ReleaseContextOnly(d)
                            \/ \E h \in Handles : PrepareAuthority(d, h)
                            \/ MarkReady(d)
                            \/ FailStart(d)
                            \/ MarkStartUnknown(d)
                            \/ \E o \in {"ready", "failed", "stopped"} : ReconcileFederatedStart(d, o)
                            \/ \E o \in {"completed", "failed"} : Report(d, o)
                            \/ BeginStop(d)
                            \/ SettleStop(d)
                            \/ MarkStopUnknown(d)
                            \/ ResumeFederated(d)
                            \/ Abandon(d)
                            \/ ReconcileMissing(d)
  BY DEF DispatchStep
<1>1. ASSUME NEW h \in Handles, PrepareAuthority(d, h) PROVE LeaseStep
  BY <1>1, PrepareAttaches DEF LeaseStep
<1> QED BY <1>1, DispatchStepMoves, MoveIsLeaseStep

LEMMA ThreadStepLeases ==
  ASSUME IInv, TypeOK', ThreadStep
  PROVE  LeaseStep
<1>1. ASSUME NEW h \in Handles, ProcessExit(h) PROVE LeaseStep
  BY <1>1, FailDispatchMoves, MoveIsLeaseStep DEF ProcessExit
<1>2. ASSUME NEW g, NEW t, CreateGate(g, t) PROVE LeaseStep
  BY <1>2, SetTaskMoves, MoveIsLeaseStep DEF CreateGate, ctxKeys
<1>3. ASSUME NEW g, ResolveGate(g) PROVE LeaseStep
  BY <1>3, StillMoves, MoveIsLeaseStep DEF ResolveGate, ctxVars
<1>4. ASSUME NEW q, (\E d \in DispatchId : Ask(q, d) \/ ImportQuestion(q, d)) \/ Answer(q)
      PROVE  LeaseStep
  BY <1>4, StillMoves, MoveIsLeaseStep DEF Ask, ImportQuestion, Answer, ctxVars
<1> QED BY <1>1, <1>2, <1>3, <1>4 DEF ThreadStep

(* The database keeps what DispatchLease promises: a dispatch is granted    *)
(* once, exclusively for its Task and its pane, and ends once, with an      *)
(* outcome no later stop, report, exit or restart changes.                  *)
THEOREM LeaseRefinement ==
  ASSUME "dispatched" \notin OperatorStatuses
  PROVE  Spec => ImplementsLease
<1>1. Init => Lease!Init
  BY DEF Init, Lease!Init, Lease!DispatchId, DispatchId
<1>2. IInv /\ IInv' /\ [Next]_vars => [Lease!Next]_(Lease!leaseVars)
  <2> SUFFICES ASSUME IInv, TypeOK', [Next]_vars PROVE LeaseStep
    BY DEF IInv, LeaseStep
  <2>1. CASE UNCHANGED vars
    BY <2>1, StillMoves, MoveIsLeaseStep DEF vars, ctxVars
  <2>2. CASE Next
    BY <2>2, TaskStepLeases, DispatchStepLeases, ThreadStepLeases DEF Next
  <2> QED BY <2>1, <2>2
<1> QED BY <1>1, <1>2, LeaseInvariant, PTL DEF Spec, ImplementsLease, Lease!Spec
=============================================================================
