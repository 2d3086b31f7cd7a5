--------------------------- MODULE FederationRelay ---------------------------
(***************************************************************************)
(* One federated dispatch: a worker on another server, whose messages,     *)
(* reports and questions reach the Run home through a relay the Run home   *)
(* polls (src/main/runtime/orchestration/federation-sync.ts), and the two  *)
(* halves of its state: the home rows and the remote attachment.           *)
(*                                                                         *)
(* Both databases survive crashes.  Calls between the servers are lost,    *)
(* answered late or answered to nobody; an abandoned request may still be  *)
(* served.  Each server runs its handlers to their next await without      *)
(* interruption, so the import of a page is steps of its own (each item is *)
(* a transaction, a crash may fall between two) that no other home handler *)
(* interrupts.  Dispatches do not share relay state.                       *)
(***************************************************************************)
EXTENDS Naturals, Sequences, FiniteSets

CONSTANTS Protocols,   \* negotiated protocols explored: "settling" (version 3), "legacy"
          Kinds,       \* what the worker sends
          MaxMessages, \* bound: messages ever sent
          MaxReplies,  \* bound: answers ever queued for the worker
          Quota,       \* unacknowledged items the relay holds (256 in the code)
          PageSize,    \* FEDERATION_PULL_PAGE_SIZE (50 in the code)
          MaxPages,    \* MAX_FEDERATION_PULL_PAGES_PER_SYNC (6 in the code)
          MaxEpoch,    \* bound: runs of the worker server's process
          MaxFaults,   \* bound: lost answers, timeouts and crashes
          HomeOps      \* operator commands explored, a subset of HomeCommands

Reports      == {"succeeded", "failed"}      \* worker_done, by its outcome
HomeCommands == {"stop", "abandon", "show", "retry"}

ASSUME RelayAssumption ==
  /\ Protocols \subseteq {"settling", "legacy"} /\ Protocols # {}
  /\ Kinds \subseteq Reports \cup {"heartbeat", "question"}
  /\ MaxMessages \in Nat /\ MaxReplies \in Nat
  /\ Quota \in Nat \ {0} /\ PageSize \in Nat \ {0} /\ MaxPages \in Nat \ {0}
  /\ MaxEpoch \in Nat \ {0} /\ MaxFaults \in Nat
  /\ HomeOps \subseteq HomeCommands

VARIABLES
  protocol,      \* federated_dispatches.protocol_version, fixed at the start
  \* Run home, durable
  worker, ctx, task,  \* worker_dispatches.state, dispatch_contexts.status, tasks.status
  result,        \* the message tasks.result names, 0 for none
  imported,      \* to_home_imported_sequence
  acknowledged, epochSeen,  \* to_home_acknowledged_sequence, remote_runtime_epoch
  inbox,         \* message rows in order: [id, rejected]
  thread,        \* question_threads.status, by message
  toWorker, delivered,      \* to_worker items (the question each answers), acknowledged prefix
  \* Run home, in memory
  sync,          \* the running syncFederatedDispatch
  answer,        \* the answer to its current call, once the worker server gave one
  checkpoint,    \* FederationAckCheckpoint
  start, stop,   \* the outstanding federationAttachStart and federationStop
  shown,         \* the answer of an outstanding federationShow
  \* worker server, durable
  attach,        \* remote_dispatch_attachments.state; "startFailed": failed before any report
  toHome, released,  \* to_home items [id, kind], acknowledged prefix
  question, taken,   \* remote_questions.status by message, to_worker_imported_sequence
  acks,          \* mutation receipts of the acknowledgments it applied
  \* worker server, in memory
  epoch,         \* getRuntimeId
  closing,       \* a federationStop handler awaits closeTerminal
  told,          \* what the worker was last told of its report, by message
  \* network
  late,          \* requests whose caller gave up, still to be served or lost
  faults

homeRows    == <<worker, ctx, task, result>>
homeRelay   == <<imported, acknowledged, epochSeen, inbox>>
homeReplies == <<thread, toWorker, delivered>>
homeMemory  == <<sync, answer, checkpoint, start, stop, shown>>
remoteVars  == <<attach, toHome, released, question, taken, acks, epoch, closing, told>>
vars == <<protocol, homeRows, homeRelay, homeReplies, homeMemory, remoteVars, late, faults>>

WorkerStates   == {"starting", "ready", "start_unknown", "stopping", "stop_unknown",
                   "failed", "succeeded", "stopped", "abandoned"}
LiveStates     == {"starting", "ready", "start_unknown", "stopping", "stop_unknown"}
AttachStates   == {"absent", "starting", "ready", "start_unknown", "stopping", "stop_unknown",
                   "startFailed", "failed", "succeeded", "stopped"}
SettledAttach  == {"startFailed", "failed", "succeeded", "stopped"}
Message        == 1..MaxMessages
Sequence       == 0..MaxMessages
Verdicts       == Reports \cup {"rejected"}
NoAnswer       == [given |-> FALSE]

Larger(m, n)  == IF m > n THEN m ELSE n
Smaller(m, n) == IF m < n THEN m ELSE n
StatusUnmapped(outcome) == outcome  \* faulty: stores the outcome word as a status
StatusOf(outcome) == IF outcome = "succeeded" THEN "completed" ELSE "failed"
Settling == protocol = "settling"

-----------------------------------------------------------------------------
(* Run home: the rows of the dispatch *)

(* isFederatedDispatchRelayEligible *)
EligibleWhileLive == worker \in LiveStates  \* faulty: a terminal dispatch loses its pending acks
Eligible == worker \in LiveStates \/ acknowledged < imported

(* Work that is interrupted leaves the Task blocked, unless it was retried. *)
Interrupted == IF task \in {"dispatched", "blocked"} THEN "blocked" ELSE task
CloseThreads ==
  thread' = [m \in Message |-> IF thread[m] = "pending" THEN "closed" ELSE thread[m]]

(* settleWorkerReportInTransaction: an outcome already recorded is settled  *)
(* again, an active dispatch settles now, anything else is rejected.        *)
Recorded(outcome) == ctx = StatusOf(outcome) /\ task = StatusOf(outcome)
SettleBlocked     == ctx # "completed" /\ task \in {"dispatched", "blocked"}  \* faulty
CanSettle         == ctx = "dispatched" /\ task = "dispatched"
VerdictTaken(outcome) == outcome  \* faulty: confirms a report it did not settle
Verdict(outcome)  == IF Recorded(outcome) \/ CanSettle THEN outcome ELSE "rejected"

SettleReport(item) ==
  IF CanSettle /\ ~Recorded(item.kind)
  THEN /\ ctx' = StatusOf(item.kind)
       /\ task' = StatusOf(item.kind)
       /\ result' = item.id
       /\ worker' = IF worker = "ready" THEN item.kind ELSE worker
  ELSE UNCHANGED homeRows

-----------------------------------------------------------------------------
(* Init: createStartingWorkerDispatch has run, federationAttachStart is out *)

Idle == [pc |-> "idle"]
NoCheckpoint == [epoch |-> 0, through |-> 0]
NotShown     == [state |-> "none", epoch |-> 0]

Init ==
  /\ protocol \in Protocols
  /\ worker = "starting" /\ ctx = "pending" /\ task = "dispatched" /\ result = 0
  /\ imported = 0 /\ acknowledged = 0 /\ epochSeen = 0 /\ inbox = <<>>
  /\ thread = [m \in Message |-> "none"] /\ toWorker = <<>> /\ delivered = 0
  /\ sync = Idle /\ answer = NoAnswer /\ checkpoint = NoCheckpoint
  /\ start = "asked" /\ stop = "none" /\ shown = NotShown
  /\ attach = "absent" /\ toHome = <<>> /\ released = 0
  /\ question = [m \in Message |-> "none"] /\ taken = 0 /\ acks = {}
  /\ epoch = 1 /\ closing = "no" /\ told = [m \in Message |-> "none"]
  /\ late = {} /\ faults = 0

(* Other home handlers wait while a page is imported. *)
HomeFree == sync.pc # "page"
Fault == faults < MaxFaults /\ faults' = faults + 1

-----------------------------------------------------------------------------
(* Start of the remote worker *)

(* federationAttachStart: the attachment is created, perhaps after the home gave up. *)
RemoteAttach ==
  /\ attach = "absent"
  /\ start = "asked" \/ [call |-> "start"] \in late
  /\ attach' = "starting"
  /\ late' = late \ {[call |-> "start"]}
  /\ UNCHANGED <<protocol, homeRows, homeRelay, homeReplies, homeMemory, faults,
                 toHome, released, question, taken, acks, epoch, closing, told>>

(* markRemoteAttachmentReady or failRemoteAttachment, and the receipt. *)
RemoteStarted ==
  /\ attach = "starting"
  /\ attach' \in {"ready", "startFailed", "start_unknown"}
  /\ start' = IF start = "asked" THEN attach' ELSE start
  /\ UNCHANGED <<protocol, homeRows, homeRelay, homeReplies, sync, answer, checkpoint, stop,
                 shown, toHome, released, question, taken, acks, epoch, closing, told, late, faults>>

FailHomeStart ==
  /\ worker' = "failed" /\ ctx' = "failed"
  /\ task' = IF task \in {"dispatched", "blocked"} THEN "failed" ELSE task
  /\ CloseThreads

DoubtHomeStart ==
  /\ worker' = "start_unknown" /\ task' = "blocked"
  /\ CloseThreads /\ UNCHANGED ctx

(* startFederatedWorker after its call; the writes require worker "starting". *)
(* The answer names the run of the worker server that gave it, the present  *)
(* one or one that crashed since.                                           *)
StartAnswered ==
  /\ HomeFree
  /\ start \in {"ready", "startFailed", "start_unknown"}
  /\ start' = "none"
  /\ IF start = "ready" THEN \E e \in 1..epoch : epochSeen' = e ELSE UNCHANGED epochSeen
  /\ IF worker # "starting" THEN UNCHANGED <<worker, ctx, task, thread>>
     ELSE \/ start = "ready" /\ worker' = "ready" /\ ctx' = "dispatched"
                             /\ UNCHANGED <<task, thread>>
          \/ start = "startFailed" /\ FailHomeStart
          \/ start = "start_unknown" /\ DoubtHomeStart
  /\ UNCHANGED <<protocol, result, imported, acknowledged, inbox, toWorker, delivered, sync,
                 answer, checkpoint, stop, shown, remoteVars, late, faults>>

StartTimedOut ==
  /\ HomeFree /\ Fault
  /\ start # "none"
  /\ start' = "none"
  /\ late' = IF attach = "absent" THEN late \cup {[call |-> "start"]} ELSE late
  /\ IF worker = "starting" THEN DoubtHomeStart ELSE UNCHANGED <<worker, ctx, task, thread>>
  /\ UNCHANGED <<protocol, result, homeRelay, toWorker, delivered, sync, answer, checkpoint,
                 stop, shown, remoteVars>>

-----------------------------------------------------------------------------
(* The worker sends: enqueueFederationRelay *)

Pending == (released + 1) .. Len(toHome)
Unacked(kind) == {s \in Pending : toHome[s].kind = kind}
MessagesSent == Cardinality({m \in Message : told[m] # "none"})
Oldest(S) == CHOOSE s \in S : \A r \in S : s <= r

(* A worker's pane resolves to a live attachment; an older protocol settles *)
(* the attachment as it queues the report.                                  *)
MaySend(kind) == IF ~Settling /\ kind \in Reports THEN attach = "ready"
                                                  ELSE attach \in {"starting", "ready"}
SettleAtOnce(kind) == attach' = IF kind \in Reports THEN kind ELSE attach  \* faulty
SettleAsQueued(kind) ==
  attach' = IF ~Settling /\ kind \in Reports THEN kind ELSE attach

Waits(id, kind) ==
  told' = [told EXCEPT ![id] = IF ~Settling /\ kind \in Reports THEN kind ELSE "waiting"]

(* A new item takes the next sequence. *)
Queue(id, kind) ==
  /\ Cardinality(Pending) < Quota
  /\ toHome' = Append(toHome, [id |-> id, kind |-> kind])
  /\ question' = IF kind = "question" THEN [question EXCEPT ![id] = "pending"] ELSE question

(* A report takes the place of the oldest heartbeat of a full queue. *)
OverwriteHeartbeat(id, kind) ==
  /\ Cardinality(Pending) >= Quota
  /\ kind \in Reports
  /\ Unacked("heartbeat") # {}
  /\ toHome' = [toHome EXCEPT ![Oldest(Unacked("heartbeat"))] = [id |-> id, kind |-> kind]]
  /\ UNCHANGED question

(* A heartbeat refreshes the newest unacknowledged one, which writes no     *)
(* modelled column, and a report identical to a pending one returns it.     *)
WorkerSend(kind) ==
  LET id == MessagesSent + 1 IN
  /\ id <= MaxMessages
  /\ MaySend(kind)
  /\ kind \in Reports \cup {"heartbeat"} => Unacked(kind) = {}
  /\ Queue(id, kind) \/ OverwriteHeartbeat(id, kind)
  /\ SettleAsQueued(kind)
  /\ Waits(id, kind)
  /\ UNCHANGED <<protocol, homeRows, homeRelay, homeReplies, homeMemory,
                 released, taken, acks, epoch, closing, late, faults>>

-----------------------------------------------------------------------------
(* The relay: pull *)

(* A page begins with what the row holds (now, or after the step) and a pull. *)
Page(after, durable, seen, pages) ==
  [pc |-> "pull", after |-> after, durable |-> durable, seen |-> seen, pages |-> pages]

(* The sync ends; releaseFederationAckCheckpoint of an ineligible dispatch. *)
EndSync ==
  /\ sync' = Idle /\ answer' = NoAnswer
  /\ checkpoint' = IF Eligible THEN checkpoint ELSE NoCheckpoint

SyncStart ==
  /\ HomeFree
  /\ sync.pc = "idle"
  /\ sync' = Page(imported, acknowledged, epochSeen, MaxPages) /\ answer' = NoAnswer
  /\ UNCHANGED <<protocol, homeRows, homeRelay, homeReplies, checkpoint, start, stop, shown,
                 remoteVars, late, faults>>

(* The one-second timer of an eligible dispatch. *)
SyncTick == Eligible /\ SyncStart

Refusal == [ok |-> FALSE]

(* federationPull: the unacknowledged items, or those after the cursor. *)
RemotePull ==
  LET from == IF Settling THEN released ELSE sync.after
      to   == Smaller(from + PageSize, Len(toHome))
  IN
  /\ sync.pc = "pull" /\ answer = NoAnswer
  /\ answer' = IF attach = "absent" THEN Refusal
               ELSE [ok |-> TRUE, epoch |-> epoch, items |-> [i \in 1..(to - from) |-> [sequence |-> from + i,
                                                     id |-> toHome[from + i].id,
                                                     kind |-> toHome[from + i].kind]]]
  /\ UNCHANGED <<protocol, homeRows, homeRelay, homeReplies, sync, checkpoint, start, stop,
                 shown, remoteVars, late, faults>>

(* The page arrived: the cursor precedes its first item. *)
PullAnswered ==
  /\ sync.pc = "pull" /\ answer # NoAnswer /\ answer.ok
  /\ sync' = [pc |-> "page", items |-> answer.items, epoch |-> answer.epoch, done |-> 0,
              cursor |-> IF Settling /\ answer.items # <<>>
                         THEN answer.items[1].sequence - 1 ELSE sync.after,
              full |-> Len(answer.items) = PageSize,
              settlements |-> {},
              acked |-> Larger(IF checkpoint.epoch = answer.epoch THEN checkpoint.through ELSE 0,
                               IF sync.seen = answer.epoch THEN sync.durable ELSE 0),
              pages |-> sync.pages]
  /\ answer' = NoAnswer
  /\ UNCHANGED <<protocol, homeRows, homeRelay, homeReplies, checkpoint, start, stop, shown,
                 remoteVars, late, faults>>

-----------------------------------------------------------------------------
(* The relay: import, item by item *)

InInbox(id) == \E i \in DOMAIN inbox : inbox[i].id = id
Duplicate(item) == item.sequence <= imported

(* What makes importFederatedRelayItem throw. *)
Importable(item) ==
  /\ item.sequence = sync.cursor + 1
  /\ Duplicate(item) => InInbox(item.id)
  /\ ~Duplicate(item) => item.sequence = imported + 1

(* A question is recorded whatever became of its dispatch; a settled report *)
(* closes the questions of the dispatch.                                    *)
ImportThread(item) ==
  LET registered == IF item.kind = "question" /\ thread[item.id] = "none"
                    THEN [thread EXCEPT ![item.id] = "pending"] ELSE thread
      settles == item.kind \in Reports /\ CanSettle
  IN  thread' = [m \in Message |-> IF settles /\ registered[m] = "pending"
                                   THEN "closed" ELSE registered[m]]

(* The message of a rejected report is rewritten, except by a replay. *)
ImportAgain(item) ==  \* faulty: a replayed item is inserted again
  inbox' = Append(inbox, [id |-> item.id, rejected |-> FALSE])
ImportMessage(item) ==
  LET rejects == item.kind \in Reports /\ Verdict(item.kind) = "rejected" IN
  inbox' = IF ~InInbox(item.id)
           THEN Append(inbox, [id |-> item.id, rejected |-> rejects])
           ELSE inbox

ImportItem ==
  LET item == sync.items[sync.done + 1] IN
  /\ sync.pc = "page" /\ sync.done < Len(sync.items)
  /\ Importable(item)
  /\ ImportMessage(item)
  /\ ImportThread(item)
  /\ IF item.kind \in Reports THEN SettleReport(item) ELSE UNCHANGED homeRows
  /\ imported' = Larger(imported, item.sequence)
  /\ sync' = [sync EXCEPT !.done = @ + 1, !.cursor = item.sequence,
        !.settlements = IF Settling /\ item.kind \in Reports
                        THEN @ \cup {[sequence |-> item.sequence, verdict |-> Verdict(item.kind)]}
                        ELSE @]
  /\ UNCHANGED <<protocol, acknowledged, epochSeen, toWorker, delivered, answer, checkpoint,
                 start, stop, shown, remoteVars, late, faults>>

(* The import throws and the sync ends; the imported items stay imported. *)
ImportThrows ==
  /\ sync.pc = "page" /\ sync.done < Len(sync.items)
  /\ ~Importable(sync.items[sync.done + 1])
  /\ UNCHANGED <<protocol, homeRows, homeRelay, homeReplies, start, stop, shown,
                 remoteVars, late, faults>>
  /\ EndSync

-----------------------------------------------------------------------------
(* The relay: acknowledgment *)

(* listPendingFederationRelay to_worker, sent while the worker is ready. *)
RepliesDue == IF worker = "ready" /\ delivered < Len(toWorker)
              THEN (delivered + 1) .. Smaller(delivered + PageSize, Len(toWorker))
              ELSE {}

(* What follows: replies to deliver, the next page, or the end. *)
Proceed(due, mark) ==
  LET more == sync.full /\ sync.pages > 1 IN
  /\ answer' = NoAnswer
  /\ sync' = IF due # {}
             THEN [pc |-> "replies", due |-> due, full |-> sync.full, pages |-> sync.pages]
             ELSE IF more THEN Page(imported, acknowledged', epochSeen', sync.pages - 1)
             ELSE Idle
  /\ checkpoint' = IF due = {} /\ ~more /\ ~Eligible' THEN NoCheckpoint ELSE mark

(* The page is imported: it is acknowledged unless that is known already. *)
PageImported ==
  /\ sync.pc = "page" /\ sync.done = Len(sync.items)
  /\ UNCHANGED <<protocol, homeRows, homeRelay, homeReplies, start, stop, shown,
                 remoteVars, late, faults>>
  /\ IF sync.cursor > sync.acked
     THEN sync' = [sync EXCEPT !.pc = "ack"] /\ UNCHANGED <<answer, checkpoint>>
     ELSE Proceed(RepliesDue, checkpoint)

(* settleRemoteAttachmentInRelayTransaction *)
AttachAgrees(outcome) ==
  \/ attach \in {"ready", outcome}
  \/ attach = "startFailed" /\ outcome = "failed"

(* The checks of federationAck and acknowledgeFederationRelay. *)
AckAllowed(through, settlements) ==
  LET verdicts == {st.verdict : st \in settlements} \ {"rejected"} IN
  /\ \A st \in settlements :
       /\ toHome[st.sequence].kind \in Reports
       /\ st.verdict \in {"rejected", toHome[st.sequence].kind}
  /\ Settling => \A s \in Pending :
       s <= through /\ toHome[s].kind \in Reports => \E st \in settlements : st.sequence = s
  /\ Cardinality(verdicts) <= 1
  /\ \A v \in verdicts : AttachAgrees(v)

ReleasePast(through)     == Smaller(through + 1, Len(toHome))  \* faulty: off by one
ReleaseThrough(through)  == Larger(released, through)

(* The Run home names an acknowledgment after its last item, so the ledger  *)
(* of the worker server (MutationReceipts) knows it again: the same one is  *)
(* answered without effect, another content is refused.                     *)
Known(through) == {ack \in acks : ack.through = through}
AckAccepted(through, settlements) ==
  IF Known(through) = {} THEN AckAllowed(through, settlements)
  ELSE [through |-> through, settlements |-> settlements] \in acks

(* The attachment settles, the items are released, the waiting worker is told. *)
Acknowledge(through, settlements) ==
  IF Known(through) # {} \/ ~AckAllowed(through, settlements)
  THEN UNCHANGED <<attach, released, told, acks>>
  ELSE
  /\ acks' = acks \cup {[through |-> through, settlements |-> settlements]}
  /\ released' = ReleaseThrough(through)
  /\ attach' = IF attach # "ready" THEN attach
               ELSE CHOOSE a \in AttachStates :
                      IF \E st \in settlements : st.verdict \in Reports
                      THEN \E st \in settlements : st.verdict \in Reports /\ a = st.verdict
                      ELSE a = attach
  /\ told' = [m \in Message |->
       IF \E st \in settlements : toHome[st.sequence].id = m
       THEN (CHOOSE st \in settlements : toHome[st.sequence].id = m).verdict
       ELSE told[m]]

RemoteAck ==
  /\ sync.pc = "ack" /\ answer = NoAnswer
  /\ Acknowledge(sync.cursor, sync.settlements)
  /\ answer' = [ok |-> AckAccepted(sync.cursor, sync.settlements), through |-> sync.cursor]
  /\ UNCHANGED <<protocol, homeRows, homeRelay, homeReplies, sync, checkpoint, start, stop,
                 shown, toHome, question, taken, epoch, closing, late, faults>>

LateAck == \E request \in late :
  /\ request.call = "ack"
  /\ Acknowledge(request.through, request.settlements)
  /\ late' = late \ {request}
  /\ UNCHANGED <<protocol, homeRows, homeRelay, homeReplies, homeMemory,
                 toHome, question, taken, epoch, closing, faults>>

(* recordFederatedHomeAcknowledgment and recordFederationAckCheckpoint; the *)
(* last allowed page, when full, leaves one item to keep the relay going.   *)
AckAnswered ==
  LET through == IF sync.full /\ sync.pages = 1 THEN answer.through - 1 ELSE answer.through
      mark    == [epoch |-> sync.epoch, through |-> through]
  IN
  /\ sync.pc = "ack" /\ answer # NoAnswer /\ answer.ok
  /\ acknowledged' = IF epochSeen = sync.epoch THEN Larger(acknowledged, through) ELSE through
  /\ epochSeen' = sync.epoch
  /\ UNCHANGED <<protocol, homeRows, imported, inbox, homeReplies, start, stop, shown,
                 remoteVars, late, faults>>
  /\ Proceed(RepliesDue, IF checkpoint.epoch = sync.epoch /\ checkpoint.through >= through
                         THEN checkpoint ELSE mark)

-----------------------------------------------------------------------------
(* The relay: replies to the worker *)

(* federationImport: nothing new is accepted unless the attachment is ready. *)
SkipFirst(due)  == {s \in due : s > taken + 1}  \* faulty: off by one
NewReplies(due) == {s \in due : s > taken}
Importing(due)  == NewReplies(due) = {} \/ attach = "ready"

TakeReplies(due) ==
  IF ~Importing(due) THEN UNCHANGED <<question, taken>>
  ELSE
  /\ question' = [m \in Message |->
       IF \E s \in NewReplies(due) : toWorker[s] = m THEN "answered" ELSE question[m]]
  /\ taken' = CHOOSE s \in due \cup {taken} : \A r \in due \cup {taken} : r <= s

RemoteImport ==
  /\ sync.pc = "replies" /\ answer = NoAnswer
  /\ TakeReplies(sync.due)
  /\ answer' = [ok |-> Importing(sync.due), through |-> taken']
  /\ UNCHANGED <<protocol, homeRows, homeRelay, homeReplies, sync, checkpoint, start, stop,
                 shown, attach, toHome, released, acks, epoch, closing, told, late, faults>>

LateImport == \E request \in late :
  /\ request.call = "replies"
  /\ TakeReplies(request.due)
  /\ late' = late \ {request}
  /\ UNCHANGED <<protocol, homeRows, homeRelay, homeReplies, homeMemory,
                 attach, toHome, released, acks, epoch, closing, told, faults>>

RepliesAnswered ==
  /\ sync.pc = "replies" /\ answer # NoAnswer /\ answer.ok
  /\ delivered' = Larger(delivered, answer.through)
  /\ UNCHANGED <<protocol, homeRows, homeRelay, thread, toWorker, start, stop, shown,
                 remoteVars, late, faults>>
  /\ Proceed({}, checkpoint)

-----------------------------------------------------------------------------
(* A call that fails, and crashes *)

SyncRefused ==
  /\ sync.pc \in {"pull", "ack", "replies"} /\ answer # NoAnswer /\ ~answer.ok
  /\ EndSync
  /\ UNCHANGED <<protocol, homeRows, homeRelay, homeReplies, start, stop, shown,
                 remoteVars, late, faults>>

(* What an abandoned call leaves behind: a request that is served later, or *)
(* never.  A late pull has no effect and is not kept.                       *)
SyncLeftovers ==
  (IF answer = NoAnswer /\ sync.pc = "ack"
   THEN {[call |-> "ack", through |-> sync.cursor, settlements |-> sync.settlements]} ELSE {})
  \cup (IF answer = NoAnswer /\ sync.pc = "replies"
        THEN {[call |-> "replies", due |-> sync.due]} ELSE {})

SyncTimedOut ==
  /\ Fault
  /\ sync.pc \in {"pull", "ack", "replies"}
  /\ late' = late \cup SyncLeftovers
  /\ EndSync
  /\ UNCHANGED <<protocol, homeRows, homeRelay, homeReplies, start, stop, shown, remoteVars>>

Leftovers == SyncLeftovers
             \cup (IF start = "asked" /\ attach = "absent" THEN {[call |-> "start"]} ELSE {})
             \cup (IF stop = "asked" THEN {[call |-> "stop"]} ELSE {})

(* The Run home's process dies: its calls are answered to nobody.  A page   *)
(* may be half imported.                                                    *)
LoseHomeMemory ==
  /\ Fault
  /\ sync' = Idle /\ answer' = NoAnswer /\ checkpoint' = NoCheckpoint
  /\ start' = "none" /\ stop' = "none" /\ shown' = NotShown
  /\ closing' = IF closing = "awaited" THEN "unheard" ELSE closing
  /\ late' = late \cup Leftovers

HomeCrash ==
  /\ LoseHomeMemory
  /\ UNCHANGED <<protocol, homeRows, homeRelay, homeReplies,
                 attach, toHome, released, question, taken, acks, epoch, told>>

(* The worker server's process restarts with another runtime id. *)
RemoteCrash ==
  /\ Fault
  /\ epoch < MaxEpoch
  /\ epoch' = epoch + 1
  /\ closing' = "no"
  /\ UNCHANGED <<protocol, homeRows, homeRelay, homeReplies, homeMemory,
                 attach, toHome, released, question, taken, acks, told, late>>

-----------------------------------------------------------------------------
(* Answering a question: answerQuestion, then enqueueFederationRelay *)

QueueReply(m) ==
  /\ Len(toWorker) < MaxReplies
  /\ toWorker' = Append(toWorker, m)

(* The same answer again is a duplicate and is queued again. *)
AnswerQuestion(m) ==
  /\ HomeFree
  /\ thread[m] \in {"pending", "answered"}
  /\ thread' = [thread EXCEPT ![m] = "answered"]
  /\ QueueReply(m)
  /\ UNCHANGED <<protocol, homeRows, homeRelay, delivered, homeMemory, remoteVars, late, faults>>

(* The process dies between the two transactions. *)
AnswerTorn(m) ==
  /\ HomeFree
  /\ thread[m] = "pending"
  /\ thread' = [thread EXCEPT ![m] = "answered"]
  /\ LoseHomeMemory
  /\ UNCHANGED <<protocol, homeRows, homeRelay, toWorker, delivered,
                 attach, toHome, released, question, taken, acks, epoch, told>>

-----------------------------------------------------------------------------
(* Stop *)

(* beginWorkerStop, then the call to federationStop. *)
BeginStop ==
  /\ "stop" \in HomeOps /\ HomeFree
  /\ worker \in {"ready", "start_unknown"}
  /\ worker' = "stopping" /\ task' = Interrupted
  /\ CloseThreads
  /\ stop' = "asked"
  /\ UNCHANGED <<protocol, ctx, result, homeRelay, toWorker, delivered, sync, answer,
                 checkpoint, start, shown, remoteVars, late, faults>>

(* beginRemoteAttachmentStop: refused while starting, stopping or in doubt. *)
ServeStop(heard) ==
  IF attach \in {"ready", "start_unknown"}
  THEN /\ attach' = "stopping"
       /\ closing' = IF heard THEN "awaited" ELSE "unheard"
       /\ stop' = IF heard THEN "serving" ELSE stop
  ELSE /\ stop' = IF ~heard THEN stop
                  ELSE IF attach \in SettledAttach THEN attach ELSE "refused"
       /\ UNCHANGED <<attach, closing>>

RemoteStop ==
  /\ stop = "asked"
  /\ ServeStop(TRUE)
  /\ UNCHANGED <<protocol, homeRows, homeRelay, homeReplies, sync, answer, checkpoint, start,
                 shown, toHome, released, question, taken, acks, epoch, told, late, faults>>

LateStop ==
  /\ [call |-> "stop"] \in late
  /\ late' = late \ {[call |-> "stop"]}
  /\ ServeStop(FALSE)
  /\ UNCHANGED <<protocol, homeRows, homeRelay, homeReplies, sync, answer, checkpoint, start,
                 shown, toHome, released, question, taken, acks, epoch, told, faults>>

(* closeTerminal returned: settleRemoteAttachmentStop when the process is   *)
(* known to be gone, else markRemoteAttachmentStopUnknown.                  *)
RemoteStopped ==
  /\ closing # "no"
  /\ attach' \in {"stopped", "stop_unknown"}
  /\ stop' = IF closing = "awaited" THEN attach' ELSE stop
  /\ closing' = "no"
  /\ UNCHANGED <<protocol, homeRows, homeRelay, homeReplies, sync, answer, checkpoint, start,
                 shown, toHome, released, question, taken, acks, epoch, told, late, faults>>

(* reconcileFederatedWorkerStop *)
SettleHomeStop ==
  /\ worker' = "stopped"
  /\ ctx' = IF ctx \in {"pending", "dispatched"} THEN "failed" ELSE ctx
  /\ task' = Interrupted

(* workerStop after its call.  A worker that settled first is resumed, for  *)
(* its report to arrive (resumeFederatedWorkerForTerminalRelay, and a sync  *)
(* like the timer's); anything unclear leaves the stop in doubt.            *)
StopAnswered ==
  /\ HomeFree
  /\ stop \in SettledAttach \cup {"stop_unknown", "refused"}
  /\ stop' = "none"
  /\ IF worker # "stopping" THEN UNCHANGED <<worker, ctx, task>>
     ELSE \/ stop = "stopped" /\ SettleHomeStop
          \/ /\ stop \in {"succeeded", "failed", "startFailed"}
             /\ worker' = "ready"
             /\ task' = IF task = "blocked" THEN "dispatched" ELSE task
             /\ UNCHANGED ctx
          \/ /\ stop \in {"stop_unknown", "refused"}
             /\ worker' = "stop_unknown" /\ UNCHANGED <<ctx, task>>
  /\ UNCHANGED <<protocol, result, homeRelay, homeReplies, sync, answer, checkpoint, start,
                 shown, remoteVars, late, faults>>

StopTimedOut ==
  /\ HomeFree /\ Fault
  /\ stop # "none"
  /\ stop' = "none"
  /\ worker' = IF worker = "stopping" THEN "stop_unknown" ELSE worker
  /\ late' = IF stop = "asked" THEN late \cup {[call |-> "stop"]} ELSE late
  /\ closing' = IF closing = "awaited" THEN "unheard" ELSE closing
  /\ UNCHANGED <<protocol, ctx, task, result, homeRelay, homeReplies, sync, answer, checkpoint,
                 start, shown, attach, toHome, released, question, taken, acks, epoch, told>>

-----------------------------------------------------------------------------
(* worker-show and worker-abandon, and a retry of the Task *)

(* federationShow: what it read may be old when the Run home uses it. *)
RemoteShow ==
  /\ "show" \in HomeOps
  /\ shown.state = "none" /\ attach # "absent"
  /\ shown' = [state |-> attach, epoch |-> epoch]
  /\ UNCHANGED <<protocol, homeRows, homeRelay, homeReplies, sync, answer, checkpoint, start,
                 stop, remoteVars, late, faults>>

(* reconcileFederatedWorkerStart with what was shown. *)
ReconcileStart ==
  IF worker \notin {"starting", "start_unknown"} THEN UNCHANGED <<worker, ctx, task, thread>>
  ELSE \/ /\ shown.state = "ready"
          /\ worker' = "ready"
          /\ ctx' = IF ctx = "pending" THEN "dispatched" ELSE ctx
          /\ task' = IF task = "blocked" THEN "dispatched" ELSE task
          /\ UNCHANGED thread
       \/ /\ shown.state = "stopped"
          /\ worker' = "stopped" /\ ctx' = "failed"
          /\ task' = IF task \in {"dispatched", "blocked"} THEN "failed" ELSE task
          /\ CloseThreads
       \/ shown.state \in {"failed", "startFailed"} /\ FailHomeStart
       \/ /\ shown.state \notin {"ready", "stopped", "failed", "startFailed"}
          /\ UNCHANGED <<worker, ctx, task, thread>>

(* workerShow after its call.  A report that is only queued is left to a    *)
(* sync like the timer's.                                                   *)
ShowAnswered ==
  LET reported == shown.state = "succeeded" \/ (shown.state = "failed" /\ ~Settling)
      stopped  == shown.state = "stopped" /\ worker \in {"stopping", "stop_unknown"}
  IN
  /\ HomeFree
  /\ shown.state # "none"
  /\ shown' = NotShown
  /\ IF reported THEN UNCHANGED <<worker, ctx, task, thread>>
     ELSE IF stopped THEN SettleHomeStop /\ UNCHANGED thread
     ELSE ReconcileStart
  /\ epochSeen' = IF shown.state = "ready" THEN shown.epoch ELSE epochSeen
  /\ UNCHANGED <<protocol, result, imported, acknowledged, inbox, toWorker, delivered, sync,
                 answer, checkpoint, start, stop, remoteVars, late, faults>>

(* abandonWorkerDispatch of the Task's newest dispatch. *)
Abandon ==
  /\ "abandon" \in HomeOps /\ HomeFree
  /\ worker \notin {"abandoned", "stopping", "succeeded"}
  /\ task # "retried"
  /\ worker' = "abandoned"
  /\ ctx' = IF ctx \in {"pending", "dispatched"} THEN "failed" ELSE ctx
  /\ task' = Interrupted
  /\ CloseThreads
  /\ UNCHANGED <<protocol, result, homeRelay, toWorker, delivered, homeMemory, remoteVars,
                 late, faults>>

(* createStartingWorkerDispatch with retryOf this dispatch: the Task is     *)
(* another dispatch's from here on.                                         *)
Retry ==
  /\ "retry" \in HomeOps /\ HomeFree
  /\ worker \in {"failed", "stopped", "abandoned"}
  /\ task \in {"failed", "blocked"}
  /\ task' = "retried"
  /\ UNCHANGED <<protocol, worker, ctx, result, homeRelay, homeReplies, homeMemory, remoteVars,
                 late, faults>>

-----------------------------------------------------------------------------
RelayStep == SyncTick \/ PullAnswered \/ ImportItem \/ ImportThrows \/ PageImported
             \/ AckAnswered \/ RepliesAnswered \/ SyncRefused
ServeRelay == RemotePull \/ RemoteAck \/ RemoteImport
HomeStep == StartAnswered \/ StopAnswered \/ BeginStop \/ RemoteShow \/ ShowAnswered
            \/ Abandon \/ Retry \/ (\E m \in Message : AnswerQuestion(m))
RemoteStep == RemoteAttach \/ RemoteStarted \/ RemoteStop \/ RemoteStopped
              \/ (\E kind \in Kinds : WorkerSend(kind))
FaultStep == StartTimedOut \/ StopTimedOut \/ SyncTimedOut \/ HomeCrash \/ RemoteCrash
             \/ LateAck \/ LateImport \/ LateStop \/ (\E m \in Message : AnswerTorn(m))

Next == RelayStep \/ ServeRelay \/ HomeStep \/ RemoteStep \/ FaultStep

Spec == Init /\ [][Next]_vars

(* The timer ticks and each call of a sync ends; the worker server serves   *)
(* the calls that reach it.  No command and no message is ever promised.    *)
RelaySpec == Spec /\ WF_vars(RelayStep) /\ WF_vars(ServeRelay)

-----------------------------------------------------------------------------
(* Properties *)

Calls == {"pull", "page", "ack", "replies"}

(* Every column and local holds a value of its type. *)
TypeOK ==
  /\ protocol \in Protocols
  /\ worker \in WorkerStates
  /\ ctx \in {"pending", "dispatched", "completed", "failed"}
  /\ task \in {"dispatched", "blocked", "completed", "failed", "retried"}
  /\ result \in Sequence /\ imported \in Sequence /\ acknowledged \in Sequence
  /\ epochSeen \in 0..MaxEpoch /\ epoch \in 1..MaxEpoch /\ faults \in 0..MaxFaults
  /\ inbox \in Seq([id : Message, rejected : BOOLEAN])
  /\ thread \in [Message -> {"none", "pending", "answered", "closed"}]
  /\ question \in [Message -> {"none", "pending", "answered"}]
  /\ toWorker \in Seq(Message) /\ delivered \in 0..Len(toWorker) /\ taken \in 0..Len(toWorker)
  /\ sync.pc \in Calls \cup {"idle"}
  /\ checkpoint \in [epoch : 0..MaxEpoch, through : Sequence]
  /\ attach \in AttachStates
  /\ toHome \in Seq([id : Message, kind : Kinds]) /\ released \in 0..Len(toHome)
  /\ told \in [Message -> Verdicts \cup {"none", "waiting"}]
  /\ closing \in {"no", "awaited", "unheard"}

(* "Converges without loss or duplication": the Run home's inbox is the     *)
(* imported prefix of what the worker sent, in order, whatever was lost,    *)
(* repeated or cut short in between.                                        *)
ImportedInOrder ==
  /\ Len(inbox) = imported
  /\ \A s \in 1..imported : inbox[s].id = toHome[s].id

(* The worker server never stops offering an item the Run home lacks, and   *)
(* the Run home's durable and remembered watermarks, which suppress         *)
(* acknowledgments, never claim more than the worker server has released.   *)
ReleasedOnceImported ==
  /\ released <= imported
  /\ acknowledged <= released
  /\ checkpoint.through <= released

(* A settled attachment agrees with the outcome the Run home decided: the   *)
(* worker server settles only by the Run home's verdict.                    *)
OutcomeFromRunHome ==
  Settling /\ attach \in Reports =>
    ctx = StatusOf(attach) /\ (worker = attach \/ worker = "abandoned")

(* The worker that waits for its report is never told it settled, unless    *)
(* the Run home has settled the dispatch with that outcome.                 *)
ToldTheVerdict ==
  Settling => \A m \in Message : told[m] \in Reports => ctx = StatusOf(told[m])

(* A worker that was withdrawn at the Run home never settles its Task: no   *)
(* late, replayed or reordered report turns a stopped, abandoned or         *)
(* retried dispatch into a completed one.                                   *)
WithdrawnStays ==
  [][(worker \in {"stopped", "abandoned"})
       => (result' = result /\ worker' \in {worker, "abandoned"})]_vars

(* An answer reaches the worker only if the coordinator gave it, and every  *)
(* answer the Run home counts as delivered is recorded on the worker server.*)
AnswersAgree ==
  /\ \A m \in Message : question[m] = "answered" => thread[m] = "answered"
  /\ delivered <= taken
  /\ \A s \in 1..taken : question[toWorker[s]] = "answered"

(* While syncs run, a report the worker server holds is released with its   *)
(* verdict, unless the Run home has given the worker up without it.  Once   *)
(* imported it is released even though the import ended the dispatch.       *)
ReportsAnswered ==
  \A s \in 1..MaxMessages :
    (s \in Pending /\ toHome[s].kind \in Reports)
      ~> (s <= released \/ (worker \notin LiveStates /\ imported < s))

(* Polling ends: once the Run home has ended a dispatch, the acknowledgment *)
(* of what it imported is recorded and the dispatch leaves the relay.       *)
PollingEnds == (worker \notin LiveStates) ~> ~Eligible

(* The abstract channel: what is in the inbox, and who decided what. *)
Channel == INSTANCE RelayChannel WITH
  Messages <- Message,
  sent     <- [s \in 1..Len(toHome) |-> toHome[s].id],
  received <- [s \in 1..Len(inbox) |-> inbox[s].id],
  decided  <- IF result # 0 THEN IF ctx = "completed" THEN "succeeded" ELSE "failed"
              ELSE IF ctx = "failed" THEN "withdrawn" ELSE "open",
  adopted  <- IF Settling /\ attach \in Reports THEN attach ELSE "open"

ImplementsChannel == Channel!ChannelSpec
==============================================================================
