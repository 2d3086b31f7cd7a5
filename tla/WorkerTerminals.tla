-------------------------- MODULE WorkerTerminals --------------------------
(* Who may close an agent terminal, and when.                              *)
(*                                                                          *)
(* A local worker-start binds its dispatch to a terminal and writes one     *)
(* worker_terminal_resources row: 'owned' when it created the terminal,     *)
(* 'external' when it reused one, unless the reused terminal is already     *)
(* owned by a settled worker, whose row is transferred.  worker-release     *)
(* records the intent to close an owned terminal of a settled worker and    *)
(* then completes it across awaits: inspect, archive the output, commit     *)
(* 'releasing', close.  Between those steps the user may type into the      *)
(* terminal, a coordinator may retain it or start another worker in it, the *)
(* process may exit, contact may be lost and the runtime may restart; a     *)
(* recovery pass over the backlog finishes what was requested.              *)
(*                                                                          *)
(* The worker's own life is in DispatchLifecycle; here it is what the       *)
(* release rules read of it.  A row is named by the dispatch that created   *)
(* it, and a terminal by its pane; its incarnation numbers the processes    *)
(* that ran there.                                                          *)
EXTENDS Naturals, FiniteSets

CONSTANTS
  Dispatches,       \* local supervised dispatches
  Terminals,        \* panes an agent can run in
  MaxIncarnation,   \* bound: processes started in one pane
  MaxProbes,        \* bound: worker-release calls that await a liveness verdict
  MaxBoots          \* bound: runs of the desktop runtime

ASSUME BoundsAssumption == {MaxIncarnation, MaxProbes, MaxBoots} \subseteq Nat \ {0}

VARIABLES
  worker,     \* worker_dispatches.state
  seat,       \* the pane and incarnation a dispatch is bound to, or None
  injected,   \* terminals with an active context-only dispatch
  row,        \* worker_terminal_resources, or NoRow
  archive,    \* worker_terminal_archives: the row whose output d kept, or None
  inc,        \* the newest incarnation in a pane, 0 before the first
  running,    \* the panes whose newest process is alive
  view,       \* what the runtime knows of the pane
  jobs,       \* release completions in flight
  stops,      \* worker-stop calls in flight: the step each is at
  probes,     \* worker-release calls awaiting a liveness verdict
  pass,       \* the recovery pass
  boots

dbVars   == <<worker, seat, injected, row, archive>>
paneVars == <<inc, running, view>>
callVars == <<jobs, stops, probes, pass>>
vars     == <<dbVars, paneVars, callVars, boots>>

None   == <<>>
NoRow  == [own |-> "none"]
NoPass == [todo |-> {}, at |-> None, rerun |-> FALSE]

LiveStates    == {"starting", "ready", "start_unknown", "stopping", "stop_unknown"}
SettledStates == {"succeeded", "failed", "stopped", "abandoned"}
ReleaseStates == {"not_requested", "retained", "requested", "releasing", "released", "unknown"}
PendingStates == {"requested", "releasing", "unknown"}

-----------------------------------------------------------------------------
(* Queries *)

Live(d)    == worker[d] \in LiveStates
Settled(d) == worker[d] \in SettledStates
Rows       == {r \in Dispatches : row[r] # NoRow}
Held       == {r \in Rows : row[r].own # "released"}
TermOf(r)  == row[r].seat[1]
Seat(t)    == <<t, inc[t]>>
Gone(s)    == ~running[s[1]] \/ inc[s[1]] # s[2]

RowsOwnedBy(d)  == {r \in Rows : row[r].owner = d}
RowsOnceOwnedBy(d) == {r \in Rows : d \in row[r].prior}

(* findActiveDispatchForAssignee: an active dispatch has the pane. *)
Occupied(t) == t \in injected \/ \E d \in Dispatches : Live(d) /\ seat[d] # None /\ seat[d][1] = t

(* findTransferableWorkerTerminalResource *)
RowsAt(s)    == {r \in Held : row[r].seat = s}
InReleaseRequested(s) == \E r \in RowsAt(s) : row[r].rel = "releasing"  \* faulty: only the commit counts
InRelease(s) == \E r \in RowsAt(s) : row[r].rel \in PendingStates
Transferable(s) ==
  {r \in RowsAt(s) : /\ row[r].own = "owned"
                     /\ row[r].rel \in {"not_requested", "retained"}
                     /\ Settled(row[r].owner)}

(* workerTerminalLeaseIsCurrent: the runtime holds a connected PTY under the *)
(* handle, it still runs the incarnation d was bound to, and no other row    *)
(* claims that incarnation.                                                  *)
LeaseCurrent(d, r) ==
  LET t == TermOf(r) IN
  /\ view[t] = "connected"
  /\ seat[d] = Seat(t)
  /\ RowsAt(row[r].seat) \subseteq {r}

-----------------------------------------------------------------------------
(* Row updates *)

OwnershipAsReason(d, s, own) ==  \* faulty: the ownership is written as the reason
  [owner |-> d, prior |-> {}, seat |-> s, own |-> own, rel |-> "not_requested", why |-> own]
NewRow(d, s, own) ==
  [owner |-> d, prior |-> {}, seat |-> s, own |-> own, rel |-> "not_requested",
   why |-> IF own = "external" THEN "external_terminal" ELSE "none"]

SetRelease(r, rel, why) == row' = [row EXCEPT ![r].rel = rel, ![r].why = why]

(* revertWorkerTerminalReleaseToRetained *)
RevertAny(r) == SetRelease(r, "retained", "identity_unproven")  \* faulty: the state is not checked
Revert(r) ==
  IF row[r].rel \in {"requested", "releasing"}
  THEN SetRelease(r, "retained", "identity_unproven") ELSE UNCHANGED row

(* markWorkerTerminalReleaseUnknown *)
MarkUnknown(r) ==
  IF row[r].rel \in {"requested", "releasing"}
  THEN SetRelease(r, "unknown", row[r].why) ELSE UNCHANGED row

(* settleWorkerTerminalRelease *)
SettleRelease(r) ==
  IF row[r].rel \in PendingStates
  THEN row' = [row EXCEPT ![r].rel = "released", ![r].own = "released"] ELSE UNCHANGED row

-----------------------------------------------------------------------------
(* A worker and its terminal *)

Init ==
  /\ worker   = [d \in Dispatches |-> "absent"]
  /\ seat     = [d \in Dispatches |-> None]
  /\ injected = {}
  /\ row      = [d \in Dispatches |-> NoRow]
  /\ archive  = [d \in Dispatches |-> None]
  /\ inc      = [t \in Terminals |-> 0]
  /\ running  = [t \in Terminals |-> FALSE]
  /\ view     = [t \in Terminals |-> "unresolved"]
  /\ jobs     = {}
  /\ stops    = [d \in Dispatches |-> "none"]
  /\ probes   = {}
  /\ pass     = NoPass
  /\ boots    = 1

(* A new process in pane t, which the runtime spawned and so resolves. *)
Spawn(t) ==
  /\ inc[t] < MaxIncarnation
  /\ inc'     = [inc EXCEPT ![t] = @ + 1]
  /\ running' = [running EXCEPT ![t] = TRUE]
  /\ view'    = [view EXCEPT ![t] = "connected"]

(* worker-start without --terminal, up to prepareStartingWorkerAuthority:   *)
(* the terminal is created and owned.                                       *)
StartInNew(d, t) ==
  /\ worker[d] = "absent"
  /\ inc[t] = 0
  /\ Spawn(t)
  /\ worker' = [worker EXCEPT ![d] = "starting"]
  /\ seat'   = [seat EXCEPT ![d] = <<t, 1>>]
  /\ row'    = [row EXCEPT ![d] = NewRow(d, <<t, 1>>, "owned")]
  /\ UNCHANGED <<injected, archive, callVars, boots>>

(* worker-start --terminal, up to prepareStartingWorkerAuthority, which     *)
(* refuses an occupied pane and one with a release in progress.             *)
StartInExisting(d, t) ==
  LET s == Seat(t) IN
  /\ worker[d] = "absent"
  /\ view[t] = "connected"
  /\ ~Occupied(t)
  /\ ~InRelease(s)
  /\ worker' = [worker EXCEPT ![d] = "starting"]
  /\ seat'   = [seat EXCEPT ![d] = s]
  /\ IF Transferable(s) = {}
     THEN row' = [row EXCEPT ![d] = NewRow(d, s, "external")]
     ELSE \E r \in Transferable(s) :
            row' = [row EXCEPT ![r] = [NewRow(d, s, "owned") EXCEPT
                                         !.prior = row[r].prior \cup {row[r].owner}]]
  /\ UNCHANGED <<injected, archive, paneVars, callVars, boots>>

(* The agent accepted its prompt, or did not, or nobody knows. *)
FinishStart(d) ==
  /\ worker[d] = "starting"
  /\ \E s \in {"ready", "failed", "start_unknown"} : worker' = [worker EXCEPT ![d] = s]
  /\ UNCHANGED <<seat, injected, row, archive, paneVars, callVars, boots>>

(* settleWorkerReport *)
Report(d) ==
  /\ worker[d] = "ready"
  /\ \E s \in {"succeeded", "failed"} : worker' = [worker EXCEPT ![d] = s]
  /\ UNCHANGED <<seat, injected, row, archive, paneVars, callVars, boots>>

(* abandonWorkerDispatch *)
Abandon(d) ==
  /\ worker[d] \in {"starting", "ready", "start_unknown", "stop_unknown", "failed", "stopped"}
  /\ worker' = [worker EXCEPT ![d] = "abandoned"]
  /\ UNCHANGED <<seat, injected, row, archive, paneVars, callVars, boots>>

(* orchestration.dispatch --inject into a terminal that runs an agent, and  *)
(* the end of that dispatch.                                                *)
Inject(t) ==
  /\ view[t] = "connected"
  /\ ~Occupied(t)
  /\ injected' = injected \cup {t}
  /\ UNCHANGED <<worker, seat, row, archive, paneVars, callVars, boots>>

EndInjected(t) ==
  /\ t \in injected
  /\ injected' = injected \ {t}
  /\ UNCHANGED <<worker, seat, row, archive, paneVars, callVars, boots>>

-----------------------------------------------------------------------------
(* worker-stop of a local worker *)

(* beginWorkerStop, up to the await of inspectWorkerTerminal. *)
BeginStop(d) ==
  /\ worker[d] \in {"ready", "start_unknown"}
  /\ worker' = [worker EXCEPT ![d] = "stopping"]
  /\ stops'  = [stops EXCEPT ![d] = "inspect"]
  /\ UNCHANGED <<seat, injected, row, archive, paneVars, jobs, probes, pass, boots>>

(* markWorkerStopUnknown; a worker settled meanwhile makes it throw. *)
StopUnknown(d) ==
  /\ worker' = [worker EXCEPT ![d] = IF @ = "stopping" THEN "stop_unknown" ELSE @]
  /\ stops'  = [stops EXCEPT ![d] = "none"]

(* The terminal is closed only when it resolves, still runs the recorded    *)
(* incarnation, and d's row owns it.                                        *)
StopInspected(d) ==
  LET t == seat[d][1] IN
  /\ stops[d] = "inspect"
  /\ \/ /\ view[t] # "unresolved" /\ seat[d] = Seat(t)
        /\ \E r \in RowsOwnedBy(d) : row[r].own = "owned"
        /\ stops' = [stops EXCEPT ![d] = "close"]
        /\ UNCHANGED worker
     \/ StopUnknown(d)
  /\ UNCHANGED <<seat, injected, row, archive, paneVars, jobs, probes, pass, boots>>

(* closeTerminal answers d's worker-stop: settleWorkerStop or stop_unknown. *)
StopReturns(d) ==
  /\ stops[d] = "close"
  /\ \/ /\ Gone(seat[d])
        /\ worker' = [worker EXCEPT ![d] = IF @ = "stopping" THEN "stopped" ELSE @]
        /\ stops'  = [stops EXCEPT ![d] = "none"]
     \/ StopUnknown(d)
  /\ UNCHANGED <<seat, injected, row, archive, paneVars, jobs, probes, pass, boots>>

-----------------------------------------------------------------------------
(* worker-release, worker-retain and user input *)

Job(r, d, mode, pc) == [row |-> r, disp |-> d, mode |-> mode, pc |-> pc]
JobPcs == {"inspect", "capture", "close"}

NeverJoins(r) == {}  \* faulty: every caller completes the release on its own
JobsOn(r) == {j \in jobs : j.row = r}

(* completeWorkerTerminalRelease: joins the completion in flight for r. *)
StartJob(r, d, mode) ==
  jobs' = IF JobsOn(r) # {} THEN jobs ELSE jobs \cup {Job(r, d, mode, "inspect")}

(* requestWorkerTerminalRelease for the row d owns: what happens to it. *)
Releasable(d, r) == worker[d] \notin {"stopped", "abandoned"} /\ row[r].own = "owned"
NextRequest(rel) == IF rel = "releasing" THEN "releasing" ELSE "requested"

RequestRelease(d, r) ==
  /\ SetRelease(r, NextRequest(row[r].rel), "none")
  /\ archive' = [archive EXCEPT ![d] =
       IF row[r].rel = "retained" /\ row[r].why = "user_requested" THEN None ELSE @]
  /\ StartJob(r, d, "interactive")
  /\ UNCHANGED probes

(* A retained terminal is asked about instead: is its process gone? *)
AwaitVerdict(d, r) ==
  /\ Cardinality(probes) < MaxProbes
  /\ probes' = probes \cup {<<d, r>>}
  /\ UNCHANGED <<row, archive, jobs>>

WorkerRelease(d) ==
  /\ Settled(d)
  /\ \/ \E r \in RowsOwnedBy(d) :
          /\ row[r].rel # "released"
          /\ IF Releasable(d, r) THEN RequestRelease(d, r) ELSE AwaitVerdict(d, r)
     \/ RowsOwnedBy(d) = {} /\ \E r \in RowsOnceOwnedBy(d) : AwaitVerdict(d, r)
  /\ UNCHANGED <<worker, seat, injected, paneVars, stops, pass, boots>>

(* The verdict arrives: 'exited' reaches settleDeadWorkerTerminalRelease,   *)
(* 'live' or 'unverifiable' leaves the terminal retained.                   *)
DeadRelease(d, r) ==
  /\ d = row[r].owner \/ d \in row[r].prior
  /\ Settled(d) /\ Settled(row[r].owner)
  /\ row[r].own # "released"
  /\ row[r].rel \in {"not_requested", "retained", "unknown"}

Verdict(d, r) ==
  /\ <<d, r>> \in probes
  /\ probes' = probes \ {<<d, r>>}
  /\ \/ /\ Gone(row[r].seat)
        /\ DeadRelease(d, r)
        /\ row' = [row EXCEPT ![r].rel = "released", ![r].own = "released", ![r].why = "none"]
     \/ UNCHANGED row
  /\ UNCHANGED <<worker, seat, injected, archive, paneVars, jobs, stops, pass, boots>>

(* retainWorkerTerminalResource *)
WorkerRetain(d) ==
  /\ \E r \in RowsOwnedBy(d) :
       /\ row[r].rel \in {"not_requested", "retained", "requested"}
       /\ SetRelease(r, "retained", "user_requested")
  /\ archive' = [archive EXCEPT ![d] = None]
  /\ UNCHANGED <<worker, seat, injected, paneVars, callVars, boots>>

(* markWorkerTerminalUserOwned: the user typed into pane t. *)
Taken(t) ==
  {r \in Rows : /\ TermOf(r) = t
                /\ row[r].own = "owned"
                /\ row[r].rel \in {"not_requested", "retained", "requested"}
                /\ worker[row[r].owner] # "stopping"}

UserInput(t) ==
  /\ Taken(t) # {}
  /\ row' = [r \in Dispatches |->
       IF r \in Taken(t)
       THEN [row[r] EXCEPT !.own = "user_owned", !.rel = "retained", !.why = "user_takeover"]
       ELSE row[r]]
  /\ archive' = [d \in Dispatches |->
       IF \E r \in Taken(t) : row[r].owner = d THEN None ELSE archive[d]]
  /\ UNCHANGED <<worker, seat, injected, paneVars, callVars, boots>>

-----------------------------------------------------------------------------
(* completeWorkerTerminalReleaseOnce *)

EndJob(j)     == jobs' = jobs \ {j}
StepJob(j, pc) == jobs' = (jobs \ {j}) \cup {[j EXCEPT !.pc = pc]}

(* commitWorkerTerminalArchiveForRelease, the second look at the lease, and *)
(* the call of closeTerminal, all in one turn of the event loop.            *)
Commits(j) ==
  /\ row[j.row].owner = j.disp
  /\ row[j.row].own = "owned"
  /\ row[j.row].rel = "requested"

StoreArchive(j) == archive' = [archive EXCEPT ![j.disp] = <<j.row>>]

CommitAndClose(j) ==
  LET mine == Commits(j)
      closes == mine \/ (row[j.row].own = "owned" /\ row[j.row].rel = "releasing")
  IN
  /\ IF mine THEN StoreArchive(j) ELSE UNCHANGED archive
  /\ IF closes /\ LeaseCurrent(j.disp, j.row)
     THEN StepJob(j, "close") /\ (IF mine THEN SetRelease(j.row, "releasing", row[j.row].why)
                                          ELSE UNCHANGED row)
     ELSE EndJob(j) /\ (IF closes THEN SetRelease(j.row, "retained", "identity_unproven")
                                  ELSE UNCHANGED row)

(* inspectWorkerTerminal answers.  Without a current lease the intent is    *)
(* withdrawn; a terminal that could not be shown although it resolves is    *)
(* 'missing', which recovery leaves for later.                              *)
Inspected(j) ==
  /\ j \in jobs /\ j.pc = "inspect"
  /\ IF ~LeaseCurrent(j.disp, j.row)
     THEN Revert(j.row) /\ EndJob(j) /\ UNCHANGED archive
     ELSE \/ /\ IF j.mode = "recovery" THEN UNCHANGED row ELSE MarkUnknown(j.row)
             /\ EndJob(j) /\ UNCHANGED archive
          \/ /\ archive[j.disp] = None
             /\ StepJob(j, "capture") /\ UNCHANGED <<row, archive>>
          \/ archive[j.disp] # None /\ CommitAndClose(j)
  /\ UNCHANGED <<worker, seat, injected, paneVars, stops, probes, pass, boots>>

(* captureWorkerOutputArchive answers, or throws archive_failed. *)
Captured(j) ==
  /\ j \in jobs /\ j.pc = "capture"
  /\ \/ CommitAndClose(j)
     \/ EndJob(j) /\ UNCHANGED <<row, archive>>
  /\ UNCHANGED <<worker, seat, injected, paneVars, stops, probes, pass, boots>>

(* closeTerminal answers: the process is confirmed dead, or it is not, or   *)
(* the endpoint is unavailable and recovery will try again.                 *)
Confirmed(j) == TRUE  \* faulty: the tab is gone, so the process must be
PtyKilled(j) == Gone(row[j.row].seat)
Closed(j) ==
  /\ j \in jobs /\ j.pc = "close"
  /\ EndJob(j)
  /\ \/ PtyKilled(j) /\ SettleRelease(j.row)
     \/ MarkUnknown(j.row)
     \/ UNCHANGED row
  /\ UNCHANGED <<worker, seat, injected, archive, paneVars, stops, probes, pass, boots>>

-----------------------------------------------------------------------------
(* Recovery of requested releases *)

Backlog == {<<r, row[r].owner>> : r \in {x \in Rows : row[x].rel \in {"requested", "releasing"}}}

(* The pass awaits the completions of its snapshot one after another, each  *)
(* under the owner the snapshot recorded.  (By request time in the code, in *)
(* any order here.)                                                         *)
PassFrom(todo, rerun) ==
  \E p \in todo : /\ pass' = [todo |-> todo \ {p}, at |-> <<p[1]>>, rerun |-> rerun]
                  /\ StartJob(p[1], p[2], "recovery")

RunPass(todo, rerun) ==
  IF todo # {} THEN PassFrom(todo, rerun)
  ELSE IF rerun /\ Backlog # {} THEN PassFrom(Backlog, FALSE)
  ELSE pass' = NoPass /\ UNCHANGED jobs

(* reconcileRequestedWorkerTerminalReleases: a pass in flight runs again. *)
Reconcile ==
  IF pass.at # None THEN pass' = [pass EXCEPT !.rerun = TRUE] /\ UNCHANGED jobs
  ELSE RunPass(Backlog, FALSE)

(* The awaited completion ended. *)
PassResumes ==
  /\ pass.at # None
  /\ JobsOn(pass.at[1]) = {}
  /\ RunPass(pass.todo, pass.rerun)
  /\ UNCHANGED <<dbVars, paneVars, stops, probes, boots>>

-----------------------------------------------------------------------------
(* Terminals and the runtime *)

(* The user opens an agent terminal of their own, or a new process starts   *)
(* in a pane whose last one ended.                                          *)
UserSpawn(t) ==
  /\ ~running[t] /\ (inc[t] = 0 \/ view[t] = "disconnected")
  /\ Spawn(t)
  /\ UNCHANGED <<dbVars, callVars, boots>>

(* A process ends: by itself, or because a pending closeTerminal reached it. *)
ProcessEnds(t) ==
  /\ running[t]
  /\ running' = [running EXCEPT ![t] = FALSE]
  /\ UNCHANGED <<dbVars, inc, view, callVars, boots>>

(* failActiveDispatchOnExit: the runtime sees the exit. *)
ExitSeen(t) ==
  /\ ~running[t] /\ view[t] = "connected"
  /\ view' = [view EXCEPT ![t] = "disconnected"]
  /\ worker' = [d \in Dispatches |->
       IF Live(d) /\ seat[d] # None /\ seat[d][1] = t THEN "failed" ELSE worker[d]]
  /\ injected' = injected \ {t}
  /\ UNCHANGED <<seat, row, archive, inc, running, callVars, boots>>

(* Contact with the PTY's host is lost; the process is not. *)
LoseContact(t) ==
  /\ running[t] /\ view[t] = "connected"
  /\ view' = [view EXCEPT ![t] = "disconnected"]
  /\ UNCHANGED <<dbVars, inc, running, callVars, boots>>

(* reconcileLegacyWorkerTerminals, once per host scope: terminals of that   *)
(* scope are rediscovered, live dispatches whose process is gone are        *)
(* settled, and the releases of every scope are reconciled.                 *)
Discover(ts, missing) ==
  /\ ts \subseteq {t \in Terminals : running[t] /\ view[t] # "connected"}
  /\ missing \subseteq {d \in Dispatches : Live(d) /\ seat[d] # None /\ Gone(seat[d])}
  /\ view' = [t \in Terminals |-> IF t \in ts THEN "connected" ELSE view[t]]
  /\ worker' = [d \in Dispatches |->
       IF d \notin missing THEN worker[d]
       ELSE IF worker[d] \in {"stopping", "stop_unknown"} THEN "stopped" ELSE "abandoned"]
  /\ Reconcile
  /\ UNCHANGED <<seat, injected, row, archive, inc, running, stops, probes, boots>>

(* The runtime stops and starts again: the rows stay, the calls are gone and *)
(* no terminal resolves until it is rediscovered.                           *)
Restart ==
  /\ boots < MaxBoots
  /\ boots' = boots + 1
  /\ jobs'   = {}
  /\ stops'  = [d \in Dispatches |-> "none"]
  /\ probes' = {}
  /\ pass'   = NoPass
  /\ view'   = [t \in Terminals |-> "unresolved"]
  /\ UNCHANGED <<dbVars, inc, running>>

Next ==
  \/ \E d \in Dispatches :
       \/ FinishStart(d) \/ Report(d) \/ Abandon(d)
       \/ BeginStop(d) \/ StopInspected(d) \/ StopReturns(d)
       \/ WorkerRelease(d) \/ WorkerRetain(d)
       \/ \E t \in Terminals : StartInNew(d, t) \/ StartInExisting(d, t)
       \/ \E r \in Dispatches : Verdict(d, r)
  \/ \E j \in jobs : Inspected(j) \/ Captured(j) \/ Closed(j)
  \/ \E t \in Terminals :
       \/ Inject(t) \/ EndInjected(t) \/ UserInput(t)
       \/ UserSpawn(t) \/ ProcessEnds(t) \/ ExitSeen(t) \/ LoseContact(t)
  \/ \E ts \in SUBSET Terminals, missing \in SUBSET Dispatches : Discover(ts, missing)
  \/ PassResumes
  \/ Restart

Spec == Init /\ [][Next]_vars

-----------------------------------------------------------------------------
(* Properties *)

SeatType == {None} \cup (Terminals \X (1..MaxIncarnation))

RowType ==
  [owner : Dispatches, prior : SUBSET Dispatches, seat : SeatType,
   own : {"owned", "user_owned", "external", "released"}, rel : ReleaseStates,
   why : {"none", "external_terminal", "user_requested", "user_takeover", "identity_unproven"}]

(* Type invariant: the columns, and the shapes of the calls in flight. *)
TypeOK ==
  /\ worker \in [Dispatches -> {"absent"} \cup LiveStates \cup SettledStates]
  /\ seat \in [Dispatches -> SeatType]
  /\ injected \subseteq Terminals
  /\ \A d \in Dispatches : row[d] = NoRow \/ row[d] \in RowType
  /\ archive \in [Dispatches -> {None} \cup {<<r>> : r \in Dispatches}]
  /\ inc \in [Terminals -> 0..MaxIncarnation]
  /\ running \in [Terminals -> BOOLEAN]
  /\ view \in [Terminals -> {"unresolved", "connected", "disconnected"}]
  /\ jobs \subseteq [row : Rows, disp : Dispatches, mode : {"interactive", "recovery"}, pc : JobPcs]
  /\ stops \in [Dispatches -> {"none", "inspect", "close"}]
  /\ probes \subseteq Dispatches \X Rows
  /\ pass.todo \subseteq Rows \X Dispatches
  /\ boots \in 1..MaxBoots

(* While a release is pending on a terminal, no worker that has not settled *)
(* is bound to its process: reuse is refused, and only settled workers are  *)
(* released, so a close never ends work in progress.                        *)
PendingReleaseIsIdle ==
  \A r \in Rows, d \in Dispatches :
    row[r].rel \in PendingStates /\ seat[d] = row[r].seat => ~Live(d)

(* A close call of a release in flight holds the terminal: the row is owned *)
(* and committed, its owner's output is archived, and no other completion   *)
(* is closing it.  User input, retention, transfer and recovery all lose    *)
(* against it, or withdraw the release before it.                           *)
CloseHoldsTerminal ==
  \A j \in jobs : j.pc = "close" =>
    /\ row[j.row].own = "owned"
    /\ row[j.row].rel = "releasing"
    /\ archive[row[j.row].owner] = <<j.row>>
    /\ \A k \in jobs : k.row = j.row => k = j

(* A row says 'released' only when the process it recorded is gone, however *)
(* the release ended: a close that was not confirmed, a lost host and a     *)
(* terminal that does not resolve all leave it unreleased.                  *)
ReleasedMeansGone ==
  \A r \in Rows : row[r].rel = "released" => Gone(row[r].seat)

(* What the user decided stands: a terminal the user took over or asked to  *)
(* keep leaves 'retained' only by a new worker-release or worker-start, by  *)
(* a further decision, or because its process is gone.  A completion or a   *)
(* recovery pass that was already under way never overrides it.             *)
UserDecided(r) == row[r].rel = "retained" /\ row[r].why \in {"user_requested", "user_takeover"}
UserDecisionStands ==
  [][(\A r \in Rows : UserDecided(r) =>
        \/ UserDecided(r)' /\ (row[r].own = "user_owned" => row'[r].own = "user_owned")
        \/ row'[r].rel = "released" /\ Gone(row[r].seat)
        \/ row[r].own = "owned" /\ row'[r].rel = "not_requested" /\ row'[r].owner # row[r].owner
        \/ row[r].own = "owned" /\ row'[r].rel = "requested"
             /\ row[r].owner = row'[r].owner)]_vars

(* worker-release retains active workers: no close of a release in flight   *)
(* is aimed at a terminal in which a context-only dispatch is at work.      *)
ReleaseSparesInjected ==
  \A j \in jobs : j.pc = "close" /\ Seat(TermOf(j.row)) = row[j.row].seat
                  => TermOf(j.row) \notin injected

=============================================================================
