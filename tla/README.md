# Verification of the orchestration core of Naviro Desktop

Naviro Desktop is an Electron application (a fork of Orca) in which several
command-line agents work in terminals side by side. Its orchestration layer lets
one agent, the coordinator, hand Tasks to others: it keeps Tasks, dispatches,
workers, questions, gates and mailboxes in a SQLite database and reaches it
through RPC methods, the exit hook of terminal processes, a restart's recovery
and a relay to other servers. That layer is the program's own concurrent core,
and it is what this project models. Paths below are relative to the repository;
`orch/` stands for `src/main/runtime/orchestration/`.

## 1. The system

### Components of the orchestration core

| Component (code) | State | Operations | Correct when |
|---|---|---|---|
| Task store (`orch/db/tasks`) | `tasks.status`, `tasks.deps` | create, update, promote dependents | work starts after the dependencies; nothing ready is forgotten; a completed Task is not reopened |
| Dispatch contexts (`orch/db/dispatch-context`, `orch/context-only-dispatch-release.ts`) | `dispatch_contexts`: Task, assignee and pane, status, failure count, capability | claim, fail, report, release, circuit breaker | one active dispatch per Task and per pane; a settled one stays settled |
| Supervised workers (`orch/db/worker-dispatch`) | `worker_dispatches.state` | start, retry, ready, fail, start unknown, stop, stop unknown, abandon, recover | worker, dispatch and Task rows agree; doubt about a worker blocks the Task |
| Decision gates (`orch/db/decision-gates`, `orch/coordinator-decision-gates.ts`) | `decision_gates` | open, resolve, re-block | an undecided gate holds the Task |
| Worker questions (`orch/db/questions`, `orch/db/federation/remote-question-store.ts`) | `question_threads`, `remote_questions` | ask, answer, close, import | nobody waits for an answer that cannot be delivered |
| Escalation and lifecycle reconciliation (`orch/coordinator-escalation-triage.ts`, `orch/lifecycle-reconciliation.ts`) | none | check authority, settle | only the authorised worker settles, once |
| Exit hook and restart recovery (`src/main/runtime/orca-runtime.ts`, `orch/orchestration-legacy-worker-terminal-recovery.ts`) | terminals in memory | fail the dispatch of an exited process, reconcile vanished terminals | a stopped worker's death requeues nothing |
| Run mailbox (`orch/db/runs`, `orch/db/messages/message-inbox.ts`) | Runs, consumer generation, deliveries, messages | bind, receive, acknowledge, fence | at least once; a replaced consumer neither receives nor acknowledges |
| Direct mailboxes and pointers (`orch/db/messages`, `orch/mailbox-*.ts`) | message rows, pointer state in memory | route, point, notify | each message reaches one mailbox and is announced |
| Coordinator loop (`orch/coordinator*.ts`) | in-memory lists, `coordinator_runs` | tick: read, triage, dispatch, converge | retired: its command is refused (section 5) |
| Federation relay (`orch/federation-*.ts`, `orch/db/federation`) | relay items and sequences on both servers, cursors | enqueue, pull, import, acknowledge, settle | exactly-once effect of at-least-once pages |
| Remote attachments (`orch/db/federation/remote-dispatch-attachment-*.ts`) | the worker server's half of a dispatch | attach, authorise, stop | the two halves settle alike |
| Mutation receipts (`orch/db/mutation-receipts`, `orch/mutation-receipt-capacity.ts`) | receipt ledger | begin, complete, prune | a retried mutation takes effect again only after its caller was told that it failed |
| Worker terminals (`orch/db/worker-terminal`, `orch/worker-terminal-*.ts`) | terminal resources, owners, archives | own, transfer, release, recover | only the proven settled owner's process is closed |

Around it: reset, legacy compatibility and migrations of the same database; the
RPC methods (`src/main/runtime/rpc/methods/orchestration*.ts`); the terminal
daemon; the JSON persistence store; the renderer's Naviro workspace catalog; the
CLI; and the UI, mobile client, git, SSH, browser and usage integrations.
`PROJECT.json` lists them all with what is left out and why.

### How they interact

Every database method runs synchronously on Node's single thread, in one SQLite
transaction or SAVEPOINT: methods do not interleave inside. Their callers do.
`worker-start` creates the rows, awaits a terminal, records its handle, awaits
the agent's readiness and marks the worker ready; `worker-stop` records the stop,
awaits the closing of the terminal and settles it; `worker-release` awaits an
inspection, an archive and a close; `check` yields between pages of mail and
sleeps until mail arrives; the relay awaits the network between pull, import and
acknowledgement. Meanwhile a process exits and
its hook fails the dispatch, an agent reports or asks, another client retries or
abandons, or the runtime restarts and reconciles terminals that are gone. No
caller holds a lock across its awaits, so what it read may be stale when it
writes, and each database method has to re-check. That is the hard part, and the
reason the actions of the models interleave without restriction.

### What is hard

- Three tables (`tasks`, `dispatch_contexts`, `worker_dispatches`) describe one
  piece of work and are written by a dozen methods, each with its own guards.
- A stop and the exit of the stopped process, a stop and a restart, a stop and
  the report that overtakes it: each pair has two orders.
- A start may fail without anybody knowing whether a worker runs.
- Handles are reminted: two handles can name one pane.
- "The latest dispatch" is looked up by rowid, whichever rows are active.
- Retries create new rows, and failures are counted over rows.
- Dependents are promoted only at the moment a dependency completes.
- Relay items are replayed; acknowledgements and answers are lost, and a request
  whose caller gave up may still be served.
- Two servers hold halves of one dispatch and either may crash between two steps.
- A Run's mail has one consumer, which may be replaced while it waits, reads or
  acknowledges.
- A terminal is closed several awaits after the decision to close it.
- A mutation is retried although it may have happened, or while it happens; its
  handler may throw after it happened.

The `hazards` of `PROJECT.json` name each at its line with the properties that
cover it, or why none does.

## 2. Modules

| Module | Contents |
|---|---|
| `DispatchLifecycle` | state machine of Tasks, dispatches, workers, gates and questions; properties |
| `DispatchLease` | abstract specification: what the database promises about who works on a Task |
| `MCDispatchLifecycle` | the small instances for TLC |
| `DispatchLifecycle_proofs` | type correctness and the inductive invariant |
| `DispatchLease_proofs` | `DispatchLifecycle` implements `DispatchLease` |
| `DispatchTasks_proofs` | dependencies, the queue, stops, questions and the breaker of `DispatchLifecycle` |
| `MutationReceipts_proofs` | the inductive invariant of the mutation ledger and its promises |
| `RunMailbox_proofs` | the inductive invariant of the Run mailbox and its promises |
| `FederationRelay` | one federated dispatch: home rows, remote attachment and the relay between them; properties |
| `RelayChannel` | abstract specification: what the relay promises whatever the network does |
| `FederationRelay_proofs` | the inductive invariant of the relay and its promises |
| `RelayChannel_proofs` | the relay keeps order, and implements `RelayChannel` |
| `RunMailbox`, `MCRunMailbox` | the mailbox of one Run: consumer, Deliveries, routing and waiting checks; its symmetry for TLC |
| `WorkerTerminals`, `MCWorkerTerminals` | ownership and release of agent terminals; its symmetry for TLC |
| `WorkerTerminals_proofs` | the inductive invariant of terminal ownership and its promises |
| `MutationReceipts`, `MCMutationReceipts` | the durable mutation ledger and its executor; the kinds of the requests for TLC |

Each component has its own module because their code meets in few places.
`FederationRelay` keeps the three status columns of `DispatchLifecycle` for one
dispatch and repeats the transitions the relay races with, so that the reports,
verdicts and withdrawals are composed with the link; `WorkerTerminals` keeps of a
worker what the release rules read. Every mutating RPC call goes through the
executor that `MutationReceipts` models: what a retry of it does, by the kind of
its method. Of the effect it keeps only the row that admits it; what that row is
and who changes it is in the other modules.

### DispatchLifecycle

State, one function per column:

| Variable | Column |
|---|---|
| `taskStatus`, `deps` | `tasks.status` ("absent": not created), `tasks.deps` |
| `nDispatch` | rows of `dispatch_contexts`; the ids are its rowids |
| `ctxTask`, `ctxStatus`, `failureCount`, `assignee` | `task_id`, `status`, `failure_count`, `assignee_handle` |
| `capability` | `capability_hash` and `capability_revoked_at` together: none, live, revoked |
| `mode` | which rows exist beside the context: none ("context"), `worker_dispatches` ("local"), also `federated_dispatches` ("federated") |
| `workerState` | `worker_dispatches.state` |
| `gateTask`, `gateStatus` | `decision_gates` |
| `questionOf`, `questionStatus` | `question_threads` of a dispatch |

One method is one action, with its whole effect:

| Action | Code |
|---|---|
| `CreateTask`, `TaskUpdate` | `createTask`; `updateTaskStatus` with the checks of `orchestration.taskUpdate` |
| `Dispatch` | `createDispatchContext`, with `mintDispatchCapability` when the prompt is injected |
| `PromptFailed`, `Escalate`, `ProcessExit` | the three callers of `failDispatch` |
| `ReleaseContextOnly` | `releaseContextOnlyDispatch` |
| `WorkerStart`, `WorkerRetry` | `createStartingWorkerDispatch` without and with `retryOf` |
| `PrepareAuthority`, `MarkReady`, `FailStart`, `MarkStartUnknown` | `prepareStartingWorkerAuthority`, `markWorkerDispatchReady`, `failWorkerStart`, `markWorkerStartUnknown` |
| `ReconcileFederatedStart` | `reconcileFederatedWorkerStart` |
| `Report` | `settleWorkerReport` behind `hasLifecycleAuthority` |
| `BeginStop`, `SettleStop`, `MarkStopUnknown`, `ResumeFederated` | `beginWorkerStop`; `settleWorkerStop` and `reconcileFederatedWorkerStop`; `markWorkerStopUnknown`; `resumeFederatedWorkerForTerminalRelay` |
| `Abandon`, `ReconcileMissing` | `abandonWorkerDispatch`, `reconcileMissingWorkerTerminal` |
| `CreateGate`, `ResolveGate` | `createGate`, `resolveGate` |
| `Ask`, `ImportQuestion`, `Answer` | `createQuestion`, `registerFederatedQuestion`, `answerQuestion` |

A call whose guard fails throws or returns without writing and is no step.
A restart needs no action: every modelled variable is persisted, and what a
restart loses is the caller between two of its calls. The model already allows
any caller never to make its next call, and `ReconcileMissing` is what the
restarted runtime does to workers whose terminal is gone.

Abstractions:

- `PaneOf` stands for `isEquivalentPaneKey`: it gives each handle its pane. A
  terminal without a pane key is a handle with a pane of its own.
- A Task's dependencies exist when it is created, so the graph is acyclic.
- Run membership, lineage, prompts, results, stages and residual resources are
  left out: no modelled guard depends on them. A database with several Runs is
  covered because the Run only restricts who may call.
- `failureCount` carries the maximum over the Task's rows, as the query does.
- Several legacy rows active for one Task, which only an old database can hold,
  do not occur: `Init` is a fresh database.

Definitions marked "faulty" are variants of the definition that follows them,
each a plausible mistake in the code; they are not used by the specification.
Substituting one makes TLC find the property it is listed with under `mutants`.

### DispatchLease

A row of `dispatch_contexts` is a lease of a Task to a pane. A lease is granted
under a fresh id when no open lease holds the Task or the pane, may get its pane
later, and ends once, with an outcome nothing changes. `ImplementsLease` maps
pending and dispatched to open, failed and circuit-broken to failed, handles to
panes. The abstract specification says in a page what all the actions above have
to keep.

### FederationRelay

Two databases, the memory of two processes and the network, for one dispatch.

| Variables | Code |
|---|---|
| `worker`, `ctx`, `task`, `result` | the home's `worker_dispatches.state`, `dispatch_contexts.status`, `tasks.status` ("retried": a newer attempt has it), the report named in `tasks.result` |
| `imported`, `acknowledged`, `epochSeen` | columns of `federated_dispatches` |
| `inbox`, `thread`, `toWorker`, `delivered` | imported messages, `question_threads`, queued answers and their acknowledged prefix |
| `sync`, `answer`, `checkpoint` | the running `syncFederatedDispatch`: the call it awaits, its answer, and the in-memory `FederationAckCheckpoint` |
| `start`, `stop`, `shown` | an outstanding `federationAttachStart`, `federationStop`, `federationShow` |
| `attach`, `toHome`, `released`, `question`, `taken`, `acks` | the worker server's attachment, relay items and acknowledged prefix, `remote_questions`, imported answers, and the mutation receipts of the acknowledgments it applied |
| `epoch`, `closing`, `told` | its process, a stop awaiting `closeTerminal`, what the worker was told of its report |
| `late`, `faults` | requests whose caller gave up, still to be served or lost; the bound on faults |

| Actions | Code |
|---|---|
| `RemoteAttach`, `RemoteStarted`, `StartAnswered`, `StartTimedOut` | `orchestration.federationAttachStart` and `startFederatedWorker` |
| `WorkerSend` | `orchestration.send` on the worker server, `enqueueFederationRelay` with its quota and heartbeat overwriting |
| `SyncTick`, `PullAnswered`, `ImportItem`, `ImportThrows`, `PageImported`, `AckAnswered`, `RepliesAnswered`, `SyncRefused`, `SyncTimedOut` | `syncFederatedDispatchPages` cut at its awaits; items are transactions of their own, because a crash may fall between two |
| `RemotePull`, `RemoteAck`, `RemoteImport`, `LateAck`, `LateImport` | the worker server's `federationPull`, `federationAck`, `federationImport`, for a caller that waits or one that gave up |
| `AnswerQuestion`, `AnswerTorn` | `orchestration.reply` to a federated question; a crash between recording and queueing it |
| `BeginStop`, `RemoteStop`, `LateStop`, `RemoteStopped`, `StopAnswered`, `StopTimedOut` | `worker-stop` of a federated worker, both halves |
| `RemoteShow`, `ShowAnswered` | `worker-show`, which reconciles a start in doubt |
| `Abandon`, `Retry` | `abandonWorkerDispatch`, `createStartingWorkerDispatch` with `retryOf` |
| `HomeCrash`, `RemoteCrash` | a restart: the memory above is lost, the tables stay |

Abstractions: a message is its number and its kind; both negotiated protocols are
explored ("settling" is version 3, "legacy" older); `federationImport` also goes
through the ledger, and because its payload depends on its cursor alone the
repeated call is answered alike, so only the acknowledgments' receipts are kept.
The answer to a start may name any run of the worker server so far (the one that
gave it may have crashed since).
Left out: `control_message` items, byte quotas, a changed peer identity, reset
fences, a worker server that crashes inside its acknowledgment handler, the
expiry of receipts after thirty days.

`RelayChannel` says what the relay is for: the home receives what was sent, once
and in order; the worker server forgets only what the home has; and it adopts
only the outcome the home decided. `ImplementsChannel` maps the inbox, the items
and the attachment to it.

### RunMailbox

| Variable | Code |
|---|---|
| `consumer`, `handle`, `generation` | `runs.coordinator_pane_key`, `coordinator_handle`, `consumer_generation` |
| `known` | `run_coordinator_handles` |
| `assigned` | the assignee of an active dispatch of the Run |
| `rows` | message rows: address, type, read mark (`toRun` remembers which were sent to the Run) |
| `deliveries` | `deliveries`: generation, messages, status |
| `calls` | the checks in progress: routing pages, waiting, woken |
| `held` | the Delivery ids the agent in each pane was told |

| Actions | Code |
|---|---|
| `Send`, `Reply`, `Answer` | `orchestration.send` and `reply` with the recipient resolution, the routing trigger `trg_messages_route_coordinator_mail`, and `notifyMessageArrived` |
| `Assign`, `Settle`, `WorkerCheck`, `DispatchMailReturns` | a dispatch of one of the Run's Tasks, its mailbox, and the return of its mail |
| `Use`, `Leave` | `bindRun`; `unbindOtherRunsForPane` |
| `CheckStart`, `RouteMore`, `CheckRead`, `CheckRefused`, `WokenRead`, `CheckGivenUp` | `orchestration.check` of a coordinator, cut at its awaits: route a page, yield, acknowledge and read in one step, wait, read once more |
| `Restart` | waiters and handles are gone; the tables and the panes stay |

A check without `--wait` is one that gives up as soon as it waits. An answer may
be lost (`held` need not grow). A restart mints new handles, which is how old
handles with mail of their own arise. A `reply` moves the mail of the handle it
is addressed to in one step; the code yields after each page of 50, as a check
does (`RouteMore`), and what it has not moved yet a check moves as well. Left
out: `--peek` and `--all`, which only read; takeover of a legacy Run; pointers
typed into terminals; other Runs, which share no rows; a second dispatch of the
Run at the same time.

### WorkerTerminals

| Variable | Code |
|---|---|
| `worker`, `seat`, `injected` | what the release rules read of dispatches: state, pane and process incarnation, panes with an active context-only dispatch |
| `row`, `archive` | `worker_terminal_resources` (owner, former owners, ownership, release state, reason), `worker_terminal_archives` |
| `inc`, `running`, `view` | the processes in each pane and what the runtime knows of the pane |
| `jobs`, `stops`, `probes`, `pass` | calls in flight: `completeWorkerTerminalRelease` at its step, `worker-stop`, `worker-release` awaiting a liveness verdict, the recovery pass |

| Actions | Code |
|---|---|
| `StartInNew`, `StartInExisting`, `FinishStart`, `Report`, `Abandon` | a worker takes a terminal (created, reused, or transferred from a settled worker) and leaves it |
| `Inject`, `EndInjected` | `orchestration.dispatch --inject` into a pane, and its end |
| `BeginStop`, `StopInspected`, `StopReturns`, `StopUnknown` | `worker-stop` and its steps |
| `WorkerRelease`, `Verdict`, `Inspected`, `Captured`, `Closed` | the release request and its completion: inspect, archive, commit, close |
| `WorkerRetain`, `UserInput` | `worker-retain`; typing into the terminal takes it over |
| `Reconcile`, `PassResumes` | the recovery pass over the backlog, rerun when requested meanwhile |
| `UserSpawn`, `ProcessEnds`, `ExitSeen`, `LoseContact`, `Discover`, `Restart` | the world: processes, the exit hook, discovery of terminals, the runtime |

A pane keeps its handle; the order of the backlog is arbitrary; a close ends only
the incarnation it was called on; once contact is lost, an exited process and an
unverifiable one look the same. Federated release is refused by the code.

### MutationReceipts

| Variable | Code |
|---|---|
| `receipt`, `answer` | `mutation_receipts`: state, stored answer |
| `inFlight` | the executor's map of running handlers |
| `made`, `call` | the calls made, numbered: request, place, and what the caller was told |
| `target` | the row the effect of a request needs: "open" to it, "held" by it, "closed" to it |
| `effects`, `forgotten` | history: how often a request took effect, and which completed receipts were pruned |

A request id has one of six kinds, after when its method commits, answers and may
throw:

| Kind | Methods | Commits | May throw after its commit |
|---|---|---|---|
| plain | `run-create`, `task-create`, `task-update`, `send` to one address, gates, `worker-abandon`, `worker-retain`, ... | and returns without an await | no; a report to the Run home may end in `operation_unknown` |
| early | `send` to a group, `ask`, `check` that acknowledges | together with its answer | yes, the answer stays |
| dispatch | `dispatch --inject` | a context of a ready Task, then waits for the prompt | yes: the prompt is rejected, the dispatch fails and the error is thrown (`rpc/methods/orchestration.ts:1704`) |
| settle | `worker-stop`, `federationStop`, `reply` to a federated question | a stop, then waits for the process; an answer, then queues it | yes: somebody else settled the stop, the relay queue is full |
| start | `worker-start`, `federationAttachStart` | dispatch and receipt together, then waits for the agent | yes: its agent exited, so neither `markWorkerDispatchReady` nor `failWorkerStart` finds it starting |
| release | `worker-release` | idempotent; run again from a pending receipt | yes |

`Begin` is `OrchestrationMutationExecutor.run` up to the handler: a fresh receipt,
a join, a replay, a resumption or a refusal. `Apply`, `ApplyUnrecorded`,
`ApplyGuarded`, `FindDone`, `ApplyRelease`, `Accept` and `AcceptedAlready` are the
effect; `Return`, `Fail`, `Unknown` the ways the handler ends; `Restart` loses the
map. `ApplyGuarded` and `Accept` read and take the row in the transaction of the
effect; `Elsewhere` is every other call or event that changes it, at any time: the
agent exits and its Task is ready again, the operator or another coordinator takes
the Task, a report completes it. So a start or a dispatch may be repeated whenever
its receipt is gone and its Task is ready, as in the code. A row that in the code
never reopens (the attempt a retry names, the attachment of a federated start)
is over-approximated.

Left out: a payload that differs under the same id (a request id stands for one
payload here; what a differing payload does is in `FederationRelay`, as are
`federationImport` and `federationAck`), the thirty-day expiry (it removes what
pruning may remove earlier), the partial effects of a release. Which completed
receipts are the oldest is a matter of timestamps in whole seconds, so pruning
takes any of the right number.

## 3. What TLC checks

The runs of `DispatchLifecycle` use `MCDispatchLifecycle`, those of
`FederationRelay` and the violated one of `WorkerTerminals` the module itself,
the others their MC module. Tasks, handles, gates, questions, panes, calls and
dispatches are model values. The symmetries (Tasks; panes and calls; dispatches)
are sound: those runs check no liveness and no definition singles out an element.
The relay's runs, which check liveness, have no symmetry. `CHECK_DEADLOCK FALSE`
throughout because the systems really may stop: every step is a client's call, an
outside event or a timer's tick that finds nothing to do, and the bounds exhaust
them.

| Run | Instance | Distinct states | Question |
|---|---|---|---|
| `supervised` | 2 Tasks, 3 dispatches, 1 handle, 1 question, local and federated | about 1.05 million | do start, retry, report, stop, exit, abandon, recovery and relayed outcomes keep the rows consistent? |
| `mixed` | 2 Tasks, 2 dispatches, 2 handles of one pane, 1 gate, context-only and local, four operator statuses | about 545 thousand | do all ways of taking and releasing a Task implement the lease? |
| `queue` | 3 Tasks, 4 dispatches, 1 handle, context-only | about 582 thousand | is the queue complete and does the breaker hold? |
| `breaker_supervised` | 1 Task, 3 local workers | violated | finding 1 |
| `gates` | 1 Task, 2 gates, 1 dispatch | violated | finding 2 |
| `relay_commands` | 2 messages (reports, heartbeat), quota 1, page 1, 1 fault, all commands, both protocols | about 661 thousand | do commands at home, reports and the attachment agree, in every order? |
| `relay_delivery` | 2 messages (report, question), 1 answer, pages of 1, 2 pages per sync, 2 runs of the worker server, 2 faults, both protocols | about 197 thousand | is everything delivered once, in order, and answered, although calls are lost and servers crash? |
| `relay_ack_retry` | 1 report, 1 fault, settling protocol | violated | finding 3 |
| `run_mailbox` | 2 panes, 2 calls, 2 types, one filter, batches of 1, 2 rows, 2 generations, 2 runs of the app | about 1.37 million | does the Run's mail reach exactly its current consumer, in order, without a missed wakeup? |
| `worker_terminals` | 2 dispatches, 1 pane, 2 processes, 1 probe, 2 runs of the app | about 948 thousand | is only what may be closed closed, whatever happens between request and close? |
| `worker_terminals_injected` | 1 dispatch, 1 pane, 1 process | violated | finding 4 |
| `mutation_receipts` | six requests, one of each kind, two of them at a time, 4 calls, a ledger of 1 row, 2 runs | about 904 thousand | does a retried mutation happen once and answer alike, unless it was reported as failed? |

Properties of `DispatchLifecycle`:

- `TypeOK`: every column holds a value of its type (`circuit_broken`, not the
  worker's `stopped`, is what a context may end in).
- `ActiveIsLatest`, `OneActivePerPane`: one active dispatch per Task, its newest;
  one per pane even after a remint.
- `TaskMatchesDispatch`: a dispatched Task has an active dispatch; an active
  dispatch's Task is dispatched, or blocked exactly while its worker is in doubt.
- `WorkerMatchesDispatch`: a worker is live exactly while its dispatch is active.
- `CapabilityFollowsLease`: a capability is live only for an active dispatch
  whose worker is neither in doubt nor stopping.
- `WithdrawnWorkerHasNoQuestion`: stop, abandonment and doubt leave no open
  question of a local worker. Federated questions are excluded because
  `registerFederatedQuestion` records one whatever became of its dispatch. Exit,
  operator update and gate settle a dispatch without closing its questions; no
  document forbids that, and the property does not speak of those states.
- `StopNotRequeued`: while the newest worker of a Task is stopping or stopped, no
  step makes the Task ready.
- `DepsRespected`: a dispatched Task's dependencies are completed.
- `CompletedIsFinal`: no late event reopens a completed Task.
- `NoStrandedTask`: a pending Task has an incomplete dependency.
- `CircuitBreaks`: `BreakFailures` recorded failures keep a Task out of work.
- `ImplementsLease`: the refinement.

Of `FederationRelay` (beside its `TypeOK`):

- `ImportedInOrder`: the inbox is the imported prefix of what the worker sent.
- `ReleasedOnceImported`: the worker server releases only what the home imported,
  and neither the durable nor the remembered watermark, which suppress
  acknowledgments, claims more than was released.
- `OutcomeFromRunHome`, `ToldTheVerdict`: the attachment settles, and the waiting
  worker is told, only with the outcome the home's rows have (settling protocol).
- `WithdrawnStays`: no late or replayed report completes a stopped, abandoned or
  retried dispatch.
- `AnswersAgree`: an answer recorded on the worker server was given at home, and
  one counted as delivered is recorded there.
- `ImplementsChannel`: the refinement.
- `ReportsAnswered` (liveness): a report held by the worker server is released
  with its verdict, unless the home gave the worker up without it.
- `PollingEnds` (liveness): an ended dispatch leaves the relay; violated
  (finding 3).

Of `RunMailbox`:

- `OneOutstanding`: one outstanding Delivery, of the current generation.
- `HandedOutOnce`: a message is in one unfenced Delivery at most.
- `OldestFirst`: no acknowledged Delivery leaves older mail sent to the Run
  unread.
- `WaiterNotMissed`: no check waits while mail it asked for, sent to the Run, is
  neither read nor handed out.
- `AckedByItsReader`: only the current consumer acknowledges, a Delivery it was
  told, and its rows are read in the same step.

Of `WorkerTerminals`:

- `PendingReleaseIsIdle`: while a release is pending, no unsettled worker is bound
  to the process.
- `CloseHoldsTerminal`: a close in flight belongs to an owned, committed, archived
  row, and to no other completion.
- `ReleasedMeansGone`: "released" only once the process is gone.
- `UserDecisionStands`: a takeover or retention is overridden only by a new
  command or the end of the process.
- `ReleaseSparesInjected`: violated (finding 4).

Of `MutationReceipts`:

- `EffectOnce`: until its completed receipt is pruned a request takes effect once,
  however it is repeated, joined or cut off by a restart. A dispatch, a settling
  or a start, whose handlers may throw after their commit, takes effect again
  only when its caller was told of that error: one caller for each effect but the
  last. The code promises no more: after `dispatch --inject` threw, its receipt
  is gone, its Task is ready, and the same id dispatches it again.
- `EffectRemembered`: a committed effect keeps its receipt until that is completed
  and pruned, through late errors, restarts and unknown outcomes; the methods
  just named lose it only when their caller was told that this latest effect
  failed. (For a start it is enough that one of its calls failed, for the reason
  given below.)
- `SameAnswer`: whoever ran, joined or was replayed a request is told the same,
  and it happened, or there was nothing left to do (a stop of a settled worker).
  After an error of one of its calls a start may be answered anew.
Preconditions to know of:

- `DepsRespected`, `StopNotRequeued` and `CompletedIsFinal` are checked without
  gates and without an operator setting a Task ready, blocked or failed. A gate
  opened on a pending Task and resolved makes it ready with incomplete
  dependencies (`db.test.ts` accepts a gate on any Task), and resolving a gate
  again reopens a completed Task. Both are the operator's explicit doing, and
  both are listed as hazards.
- `NoStrandedTask` is checked without an operator writing `pending` by hand.
- No run lets the operator write `dispatched`. `orchestration.taskUpdate` accepts
  it for a Task with an active dispatch; during a stop it makes exit hook and
  recovery take the Task for work in progress, and requeue it. It is a hazard
  and the assumption of the theorems.
- `EffectOnce`, `EffectRemembered` and `SameAnswer` promise a start nothing after
  one of its calls failed. The executor only looks the receipt of a start up, so
  two calls with one id both reach the handler until one is accepted, and its
  catch (`src/main/runtime/rpc/orchestration-mutation-executor.ts:112`) discards
  the pending receipt by its key. If the first waits for the worker server's
  status, its client times out and re-issues it, the second is accepted and the
  first then fails, the second ends in `request_mismatch` although its worker
  stands, and no further call with that id leads to it. It is listed as a hazard.
- `CircuitBreaks` holds for context-only dispatches only (finding 1).
- `ImportedInOrder`, `ReleasedOnceImported` and `ReportsAnswered` are checked
  without heartbeats. With a full queue a report overwrites a heartbeat in place;
  if that heartbeat was already imported, the replay ends in `operation_unknown`
  on every sync. It takes 256 unacknowledged items and is listed as a hazard.
- `OutcomeFromRunHome` and `ToldTheVerdict` speak of the settling protocol: an
  older worker server settles when it queues the report.
- `WaiterNotMissed` speaks of mail sent to the Run. Mail that another check moves
  to the Run from a handle (`rpc/methods/orchestration.ts:941`) wakes nobody.

Why the bounds are enough: three dispatches allow an attempt, its retry and a
dispatch of another Task, or three attempts of one; two Tasks give a dependency;
two handles of one pane give the remint; the breaker needs three failures and a
fourth attempt, so `queue` has four rows; the third Task there is the dependent
of two. Two relay messages give a replay that overlaps a page, a report after
another and a report with a question; a quota of one makes the queue full; two
faults are a lost answer and a crash, or two lost answers; a second run of the
worker server changes the epoch the checkpoint is tied to. Two rows of mail with
batches of one give a batch and what is behind it, two generations a replaced
consumer, two calls a waiter and another reader. Two processes in one pane give
a reused handle, two dispatches an owner and the next user of its terminal, and
the restart a recovery pass over a release cut at any step. A ledger of one row
is full with one pending receipt; requests meet in the ledger only, so two at a
time (the constraint `TwoAtATime`) show what they do to each other; four calls are a call, a join, a retry and one of another request, or two concurrent
starts, one that joins and one that comes after the Task is ready again. The breaker's threshold keeps the code's value 3. The theorems below
remove the bounds for every safety property that holds; liveness keeps them.

### Fairness

The relay has a timer: `setInterval` runs a sync every second
(`src/main/runtime/orca-runtime.ts:5856`), and each of its calls ends, by its
answer or by a timeout of fifteen seconds. `RelaySpec` therefore gives weak
fairness to `RelayStep`, the home's sync, and to `ServeRelay`, the worker
server's handlers of calls that reach it. Faults are bounded by `MaxFaults`:
liveness is claimed for a network that eventually answers. No command, message,
start, stop or answer of a person or agent is ever promised, so nothing else is
fair; in particular `ReportsAnswered` lets the operator give the worker up.

All other modules are driven by calls of clients and agents, which nothing
schedules: their properties are safety properties.

### Findings

1. **The circuit breaker never trips for supervised workers.** A retry inserts
   its row with the default failure count 0
   (`orch/db/worker-dispatch/worker-dispatch-start.ts:98`), while a context-only
   dispatch carries the count over. Three supervised workers may exit in
   succession and the Task is ready for a fourth, although
   `skill-guides/orchestration.md:176` promises three. (Run
   `breaker_supervised`.)
2. **The first of two gates releases the Task.** `resolveGate` makes the Task
   ready without looking for another pending gate
   (`orch/db/decision-gates/decision-gate-store.ts:107`), and it can be
   dispatched. Only a tick of the retired coordinator loop would have re-blocked
   it. (Run `gates`.)
3. **A lost acknowledgment of a report makes the relay poll for ever.** The
   acknowledgment is sent under the id `relay_ack_<dispatch>_<cursor>`
   (`orch/federation-sync.ts:151`) with the settlements of the page. If it was
   applied and its answer lost, the retry has nothing to replay and carries no
   settlements; the worker server's ledger refuses the other payload as
   `request_mismatch`, now and on every later tick, and the ended dispatch stays
   eligible. The test that retries a lost acknowledgment
   (`src/main/runtime/rpc/methods/orchestration-federation.test.ts:496`) uses a
   message without settlement. The same happens without any fault when the last
   page of a sync is full and holds a report. Under the legacy protocol the
   property holds. (Run `relay_ack_retry`.)
4. **`worker-release` closes a terminal an injected dispatch works in.** The
   lease check (`src/main/runtime/rpc/methods/orchestration-worker-release-completion.ts:264`)
   reads `worker_terminal_resources`, where a context-only dispatch has no row,
   although `skill-guides/orchestration.md:244` lists active workers among what
   is retained. (Run `worker_terminals_injected`.)

## 4. What is proved

For any sets of Tasks, handles, panes, gates and questions, any bound on rows
and any threshold of the breaker (`DispatchAssumption`: counters are naturals,
`None` is no Task and no handle, no pane is `None`):

| Theorem | States |
|---|---|
| `TypeCorrect` | `Spec => []TypeOK` |
| `LeaseInvariant` | `Spec => []IInv` |
| `ExclusiveLease` | `ActiveIsLatest` |
| `PaneLease` | `OneActivePerPane` |
| `StatusAgreement` | `TaskMatchesDispatch` |
| `WorkerAgreement` | `WorkerMatchesDispatch` |
| `CapabilityAuthority` | `CapabilityFollowsLease` |
| `LeaseRefinement` | `Spec => ImplementsLease` |

All but the first assume `"dispatched" \notin OperatorStatuses`, for the reason
given above; they allow every other status, gates included.

The inductive invariant `IInv` joins `TypeOK`, `RowsInOrder`, `ActiveIsLatest`,
`TaskMatchesDispatch`, `WorkerMatchesDispatch`, `CapabilityFollowsLease` and
`OneActivePerPane`. None is inductive alone. That a Task gets no second active
dispatch follows from `Startable` only because a ready Task has none
(`TaskMatchesDispatch`); a retry starts from failed or blocked, and the prior
row's terminal worker excludes an active dispatch only through
`WorkerMatchesDispatch` and `ActiveIsLatest` together; that settling `d` leaves
its Task without work needs `ActiveIsLatest`; and `RowsInOrder` gives that the
inserted row is fresh and newer than the rest.

The argument has one lemma per action. Most actions are instances of a few
shapes, each proved once: `SettleOne` (one active dispatch ends with its worker
and capability, and its Task leaves "dispatched"), `MoveOne` (one active dispatch
changes its worker's state), `MoveTask` (all active dispatches of a Task, in fact
at most one, end together), `IdleTaskPreserves` (the status of a Task without
active dispatch) and `InsertPreserves` (a new row). The refinement sorts the
actions by their effect on leases: at most one open row ends or stays, one row
is granted, one is attached; `IInv` supplies the exclusiveness the abstract
grant demands.

On top of `IInv`, `DispatchTasks_proofs` proves what the rows mean for the Tasks.
Gates and operators may set statuses by hand, so each theorem names what it
excludes; its run excludes the same or more:

| Theorem | States | Excluded |
|---|---|---|
| `QueueMoves` | `NoStrandedTask` | operators that write `pending` or `dispatched` |
| `NobodyLeftAsking` | `WithdrawnWorkerHasNoQuestion` | operators that write `dispatched` |
| `WorkInOrder` | `DepsRespected` | gates; operators that write anything but `completed` |
| `CompletionIsFinal` | `CompletedIsFinal`, an action property | as `WorkInOrder` |
| `StopHolds` | `StopNotRequeued`, an action property | gates; operators that write `ready`, `pending` or `dispatched` |
| `BreakerTrips` | `CircuitBreaks` | supervised workers (finding 1), gates; operators that write anything but `completed` and `failed` |

The exclusions are real, not technical: a gate blocks a completed Task or
releases one that waits for its dependencies or was stopped, an operator may
write `ready` on a Task whose dependencies are open or that the breaker broke,
and a supervised retry counts failures anew. `StepKinds` sorts every step once by
what it does to Task statuses: nothing, the move of one active dispatch's Task
(requeued only if no stop was requested), the start of a Task that was ready,
failed or blocked, a new Task, an operator's update, a report, a gate. The
theorems need few facts more:
that a Task with any dispatch is neither new nor waiting (`TaskStarted`), without
which a stopped Task could be promoted; that a Task which is ready, or was ever
dispatched, has its dependencies completed (`ReadyInOrder`, `BegunInOrder`), since
a retry does not look at them again; that a worker with a terminal has a
capability and a pending question an asker (`AskersOK`), so that closing the
questions with the capability closes them all; and that the failures of a Task
which is queued or worked on are at most the largest count its dispatches carry
(`BreakerOK`): a failure compares only its own dispatch's count with the
threshold.

For any requests of any kinds, any capacity and any number of calls and restarts
(`KindAssumption`, `BoundsAssumption`: the limits are naturals, those that must be
are positive):

| Theorem | States |
|---|---|
| `ReceiptsTypeCorrect` | `Spec => []TypeOK` of `MutationReceipts`, the ledger's limit included |
| `ReceiptsEffectOnce` | `EffectOnce` |
| `ReceiptsEffectRemembered` | `EffectRemembered` |
| `ReceiptsSameAnswer` | `SameAnswer` |

Here `IInv` joins `LedgerOK` (types and the limit), `CallsOK` (the executor's map
and every join name a handler of the same request that runs) and `RequestOK` of
every request whose completed receipt was not pruned. `RequestOK` is the argument,
by kind:

- A method that writes its receipt before it runs has one handler at most, the one
  in the executor's map, and its receipt is there while that handler runs
  (`Single`). So a second call finds the receipt and joins, replays or is told
  "unknown". Its receipt also says whether the effect may be made (`Tells`): while
  it is absent, or its handler has made no effect yet, the last effect, if there
  was one, was reported as failed (`Free`). A late error makes the receipt absent
  and reports the failure in the same step, and every other end of a handler
  leaves it pending or completed, which closes the circle.
- A start writes its receipt with its effect, so several of its handlers may run;
  but while none of its calls failed nothing discards the receipt, which refuses
  every other handler (`Kept`: one effect, one answer). After a failure it
  promises nothing more, and the properties say so.
- A release has one effect by its own nature.

None of the properties is inductive alone: `EffectOnce` does not exclude a second
running handler, nor an effect made while the last one is still unreported;
`EffectRemembered` and `SameAnswer` need the same facts. One lemma per action
again, most of them instances of a few: `BeginStep` (a call is added),
`AppliesFirst` and `AppliesKept` (a handler makes its effect), `SettleFirst` and
`SettleKept` (a handler ends and answers those that joined), with `Untouched` for
all requests a step is not about.

For any panes, calls, message types, wait filters and batch limit and any bounds
on rows, generations and restarts (`MailboxAssumption`: bounds are naturals,
those that must be are positive, filters are sets of types, and no pane is the
one `None` stands for):

| Theorem | States |
|---|---|
| `MailboxTypeCorrect` | `Spec => []TypeOK` of `RunMailbox` |
| `MailboxOneOutstanding` | `OneOutstanding` |
| `MailboxHandedOutOnce` | `HandedOutOnce` |
| `MailboxOldestFirst` | `OldestFirst` |
| `MailboxWaiterNotMissed` | `WaiterNotMissed` |
| `MailboxAckedByItsReader` | `AckedByItsReader`, an action property |

Four facts make them inductive (`IInv`). Mail sent to the Run never leaves its
mailbox (`RowsOK`): routing moves only what was addressed to a handle. The rows
of an acknowledged Delivery are read, and those of the outstanding one were the
oldest unread when it was made (`BatchesOK`): so a new batch is disjoint from
every acknowledged one, and what it leaves behind is younger. A call of the
current generation belongs to the current consumer (`CallsOK`): `bindRun` raises
the generation whenever it changes the consumer, so a check that compares the
generation after its awaits cannot hand the new consumer's mail to the old one.
And a pane was told only of Deliveries that exist (`HeldOK`). Reading, the
acknowledgment included, is one lemma about the tables a check sees
(`ReadKeeps`, over `AppendBatch`, `ReadEnds` and `ReadWaits`); `Acknowledged`
says what the acknowledgment makes of those tables, and `FenceBatches` what
replacing the consumer does.

For any subset of the protocols, of the message kinds and of the home's commands,
and any bounds on messages, answers, the queue, pages, worker server runs and
faults (`RelayAssumption`: bounds are naturals, those that must be are positive):

| Theorem | States |
|---|---|
| `TypeCorrect` | `Spec => []TypeOK` of `FederationRelay` |
| `NothingLost` | `ReleasedOnceImported` |
| `OutcomesAgree` | `OutcomeFromRunHome` |
| `VerdictsAgree` | `ToldTheVerdict` |
| `AnswersDelivered` | `AnswersAgree` |
| `WithdrawnForGood` | `WithdrawnStays`, an action property |
| `OrderKept` | `ImportedInOrder`, without heartbeats |
| `ChannelRefinement` | `Spec => ImplementsChannel`, without heartbeats |

Each property speaks of two servers, and what is on its way between them can
break it later. So `RelayInv` has, besides the rows and watermarks of both
(`RowsInv`, `MarksInv`, `RepliesInv`), a part for the sync in progress and what it
carries (`SyncOK`), one for the answer that is on its way back (`AnswerOK`), and
one for requests the network holds back and serves later, or never (`LateOK`).
They say that a request carries only what was true when it was sent, and that
this stays true: an acknowledgment names a cursor that was imported, a settlement
the outcome the Run home recorded, a batch of answers those after the ones
already counted. `Settles` and `DecidedMoves` give why it stays so: watermarks
only grow, and a decided dispatch keeps its outcome. So an
acknowledgment that is repeated, or served after a restart, releases nothing new,
and a verdict may be applied at any time. `RelayPreserved` takes the parts in the
order in which each may use the primed form of those before it.

`InOrder` adds for the refinement that the n-th message the worker sent is the
n-th item, in the queue, in the inbox and in the page being imported. With
heartbeats this is false: a report takes the place of a heartbeat in a full queue
even if that heartbeat was imported (`orch/federation-relay-enqueue.ts:90`, a
hazard above). `ChannelRefinement` then maps each step to the abstract send,
import, release or decision, or to a stutter.

For any dispatches and panes, and any bounds on processes, probes and runs of the
runtime (`BoundsAssumption`: they are positive):

| Theorem | States |
|---|---|
| `TypeCorrect` | `Spec => []TypeOK` of `WorkerTerminals` |
| `ReleaseIsIdle` | `PendingReleaseIsIdle` |
| `CloseIsExclusive` | `CloseHoldsTerminal` |
| `ReleaseIsConfirmed` | `ReleasedMeansGone` |
| `DecisionKept` | `UserDecisionStands`, an action property |

`TerminalInv` needs four facts the properties do not mention. A dispatch that
started has a seat and at most one row, bound to that seat (`OwnersOK`): reuse
moves the row to the next dispatch and adds none. Two owned rows never name the
same process, and nobody but its owner works in it (`SeatsOK`): this, with the
owner's settling, is why a pending release meets no worker. What was never started
in a pane neither runs nor shows there (`PanesOK`); a new process is a new
incarnation, so one that is gone stays gone and `released` may stand. And there is
one completion per row (`JobsOK`), so that none finishes or withdraws what another
has committed: one that closes has committed, and a committed release is of an
owned, archived terminal (`ReleasesOK`). Most actions are instances of
three shapes: a release moves on (`ReleaseStep`), a worker moves (`WorkerMoves`),
a completion begins, advances or ends (`StartJobOK`, `StepJobOK`, `EndJobOK`).

What stays with TLC: the liveness property `ReportsAnswered`, since liveness under
fairness and ENABLED are out of the prover's reach; the order of messages when
heartbeats are sent; and the four properties the code violates, which are
counterexamples and have no theorem.

## 5. What is not modelled

In the modelled tables: `resetAll` and `resetTasks` (in one transaction they
delete every modelled row, except that `resetTasks` closes questions instead,
and a new behaviour starts); heartbeats at home and the stale-dispatch warning
(they change no status); `timeoutGate` and `completeDispatch` (no caller);
launch-token hashes; rows that recovery skips as ambiguous or legacy; remote
answers that leave a start unknown (no modelled column changes). Federated
workers have no local terminal, so `ReconcileMissing` excludes them by their null
assignee.

The coordinator loop (`orch/coordinator*.ts`) is retired: only the handler of
`orchestration.run` constructs a `Coordinator`
(`src/main/runtime/rpc/methods/orchestration-gates.ts:63`), and
`src/shared/orchestration-rpc-contract.ts:41` lists that method among those the
contract fence refuses before their handler runs
(`src/main/runtime/rpc/orchestration-contract-fence.ts:19`;
`skill-guides/orchestration.md:285`). A model of its ticks would describe
behaviour no client can start. `Escalate`, which only the loop calls, is kept in
`DispatchLifecycle` as one more way to fail a dispatch; it only adds behaviours.

Beyond what section 2 says each module leaves out: the pointers typed into idle
terminals, legacy compatibility rows and migrations, the terminal daemon, and the
renderer, mobile client, CLI, providers and persistence, which are presentation,
data shape and I/O around external services.

## 6. Plan

1. Proofs: the order of the messages that are not heartbeats when heartbeats are
   sent; `WorkInOrder` and `StopHolds` with gates that are opened only on Tasks in
   progress.
2. Mailbox pointers: what is typed into an idle terminal, when, and how a busy or
   vanished terminal is retried.
3. Legacy compatibility: the adoption of a first-contract Run by a current one.
4. The daemon's session handshake and restore, and the Naviro workspace catalog,
   if they prove worth it.
