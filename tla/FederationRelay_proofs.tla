------------------------ MODULE FederationRelay_proofs ------------------------
(***************************************************************************)
(* Theorems about FederationRelay, for every protocol, every bound on      *)
(* messages, answers, pages, faults and process runs, and every set of     *)
(* operator commands.                                                      *)
(*                                                                         *)
(* The inductive invariant has a part per group of variables: the rows of  *)
(* the dispatch and of its attachment, the watermarks of the relay, the    *)
(* answers on their way to the worker, and the calls in flight with what   *)
(* they carry.  Every part is preserved on its own, because a step of      *)
(* another group only moves the facts it uses forward: watermarks grow,    *)
(* a settled outcome stays settled, an answered question stays answered.   *)
(***************************************************************************)
EXTENDS FederationRelay, FiniteSetTheorems, SequenceTheorems, WellFoundedInduction, TLAPS

-----------------------------------------------------------------------------
(* The invariant *)

(* The dispatch of the Run home: worker, dispatch and Task move together.   *)
(* A dispatch that failed together with its Task failed by a report, or its *)
(* attachment ended without one.                                            *)
Lost == {"startFailed", "stopped"}

RowsOK ==
  /\ worker \in LiveStates => ctx \in {"pending", "dispatched"} /\ result = 0
  /\ worker \in {"starting", "start_unknown"} => ctx = "pending"
  /\ worker \in {"starting", "ready"} => task = "dispatched"
  /\ worker \in {"start_unknown", "stopping", "stop_unknown"} => task = "blocked"
  /\ worker = "succeeded" => ctx = "completed" /\ task = "completed" /\ result # 0
  /\ worker = "failed" => ctx = "failed" /\ task \in {"failed", "retried"}
  /\ worker \in {"stopped", "abandoned"} =>
       ctx = "failed" /\ task \in {"blocked", "failed", "retried"}
  /\ ctx = "failed" /\ task = "failed" =>
       attach \in Lost \/ (result # 0 /\ worker \in {"failed", "abandoned"})

(* A settled attachment stays as it is, and what was heard of it is true.   *)
AttachOK ==
  /\ start \in {"none", "asked", "ready", "startFailed", "start_unknown"}
  /\ shown \in [state : AttachStates \cup {"none"}, epoch : 0..MaxEpoch]
  /\ closing # "no" => attach = "stopping"
  /\ start = "startFailed" => attach = "startFailed"
  /\ stop \in SettledAttach => attach = stop
  /\ shown.state \in SettledAttach => attach = shown.state

RowTypes ==
  /\ protocol \in Protocols
  /\ worker \in WorkerStates
  /\ ctx \in {"pending", "dispatched", "completed", "failed"}
  /\ task \in {"dispatched", "blocked", "completed", "failed", "retried"}
  /\ result \in Sequence
  /\ epochSeen \in 0..MaxEpoch /\ epoch \in 1..MaxEpoch
  /\ attach \in AttachStates
  /\ closing \in {"no", "awaited", "unheard"}

RowsInv == RowTypes /\ RowsOK /\ AttachOK /\ OutcomeFromRunHome

(* The Run home settled the dispatch with outcome v, or the attachment      *)
(* ended without a report.                                                  *)
Decided(v) ==
  /\ ctx = StatusOf(v)
  /\ attach \in Lost \/ (result # 0 /\ worker \in {v, "abandoned"})

(* The watermarks of the relay and what the worker was told.                *)
MarksInv ==
  /\ imported \in Sequence /\ acknowledged \in Sequence
  /\ inbox \in Seq([id : Message, rejected : BOOLEAN])
  /\ checkpoint \in [epoch : 0..MaxEpoch, through : Sequence]
  /\ toHome \in Seq([id : Message, kind : Kinds]) /\ released \in 0..Len(toHome)
  /\ told \in [Message -> Verdicts \cup {"none", "waiting"}]
  /\ ReleasedOnceImported
  /\ imported <= Len(toHome)
  /\ \A ack \in acks : ack.through \in Nat /\ ack.through <= released
  /\ ToldTheVerdict
  /\ \A m \in Message : told[m] # "none" <=> m <= MessagesSent
  /\ \A s \in DOMAIN toHome : told[toHome[s].id] # "none"
  /\ Len(toHome) <= MessagesSent

(* Answers to the worker's questions.                                       *)
RepliesInv ==
  /\ thread \in [Message -> {"none", "pending", "answered", "closed"}]
  /\ question \in [Message -> {"none", "pending", "answered"}]
  /\ toWorker \in Seq(Message) /\ delivered \in 0..Len(toWorker) /\ taken \in 0..Len(toWorker)
  /\ AnswersAgree
  /\ \A s \in DOMAIN toWorker : thread[toWorker[s]] = "answered"
  /\ \A m \in Message : thread[m] # "none" => told[m] # "none"

(* What a call carries: items of the relay, verdicts the Run home gave,     *)
(* answers without a gap after those the worker server has.                 *)
ItemType       == [sequence : Sequence, id : Message, kind : Kinds]
SettlementType == [sequence : Sequence, verdict : Verdicts]

ItemOK(item) == item.sequence \in 1..Len(toHome) /\ told[item.id] # "none"
SettlementsOK(S) ==
  /\ S \subseteq SettlementType
  /\ \A st \in S : /\ st.sequence \in 1..Len(toHome)
                   /\ st.verdict \in Reports => Decided(st.verdict)
DueOK(due) ==
  /\ due \subseteq 1..Len(toWorker)
  /\ \A s \in due : (taken + 1)..s \subseteq due

PullType ==
  [pc : {"pull"}, after : Sequence, durable : Sequence, seen : 0..MaxEpoch, pages : 1..MaxPages]
PageType ==
  [pc : {"page", "ack"}, items : Seq(ItemType), epoch : 1..MaxEpoch, done : Nat,
   cursor : Sequence, full : BOOLEAN, settlements : SUBSET SettlementType, acked : Nat,
   pages : 1..MaxPages]
RepliesType == [pc : {"replies"}, due : SUBSET Nat, full : BOOLEAN, pages : 1..MaxPages]

PageOK ==
  /\ \A i \in DOMAIN sync.items : ItemOK(sync.items[i])
  /\ sync.cursor <= imported
  /\ SettlementsOK(sync.settlements)
  /\ sync.pc = "ack" => sync.cursor > 0

SyncOK ==
  \/ sync = Idle
  \/ sync \in PullType /\ sync.after <= imported
  \/ sync \in PageType /\ PageOK
  \/ sync \in RepliesType /\ DueOK(sync.due)

(* The answer to the current call, once the worker server gave one.         *)
PulledOK ==
  /\ answer \in [ok : {TRUE}, epoch : 1..MaxEpoch, items : Seq(ItemType)]
  /\ \A i \in DOMAIN answer.items : ItemOK(answer.items[i])
  /\ Settling /\ answer.items # <<>> => answer.items[1].sequence - 1 <= imported

AnswerOK ==
  /\ sync.pc = "pull" => answer \in {NoAnswer, Refusal} \/ PulledOK
  /\ sync.pc = "page" => answer = NoAnswer
  /\ sync.pc = "ack" => \/ answer = NoAnswer
                        \/ /\ answer \in [ok : BOOLEAN, through : {sync.cursor}]
                           /\ answer.ok => answer.through <= released
  /\ sync.pc = "replies" => answer = NoAnswer \/ answer \in [ok : BOOLEAN, through : 0..taken]

(* Requests that are served late, or never.                                 *)
RequestOK(request) ==
  /\ request.call = "ack" => /\ request.through \in Nat /\ request.through <= imported
                             /\ SettlementsOK(request.settlements)
  /\ request.call = "replies" => DueOK(request.due)
LateOK == \A request \in late : RequestOK(request)

RelayInv ==
  /\ RowsInv /\ MarksInv /\ RepliesInv
  /\ SyncOK /\ AnswerOK /\ LateOK
  /\ faults \in 0..MaxFaults

-----------------------------------------------------------------------------
(* The rows *)

rowVars == <<protocol, homeRows, epochSeen, attach, closing, epoch, start, stop, shown>>

(* What has been decided of the dispatch stays decided.                     *)
Settles ==
  /\ protocol' = protocol
  /\ ctx \in {"completed", "failed"} => ctx' = ctx
  /\ \A v \in Reports : Decided(v) => Decided(v)'

RowsStep == RowsInv' /\ Settles

LEMMA RowsQuiet ==
  ASSUME RowsInv, UNCHANGED rowVars
  PROVE  RowsStep
BY DEF rowVars, homeRows, RowsStep, Settles, RowsInv, RowTypes, RowsOK, AttachOK,
       OutcomeFromRunHome, Settling, Decided

LEMMA StartAnsweredRows ==
  ASSUME RowsInv, StartAnswered
  PROVE  RowsStep
<1>1. epochSeen' \in 0..MaxEpoch /\ epoch' = epoch
  <2>1. \A e \in 1..epoch : e \in 0..MaxEpoch
    BY RelayAssumption DEF RowsInv, RowTypes
  <2> QED
    BY <2>1 DEF StartAnswered, RowsInv, RowTypes, remoteVars
<1>2. /\ start \in {"ready", "startFailed", "start_unknown"} /\ start' = "none"
      /\ IF worker # "starting" THEN UNCHANGED <<worker, ctx, task>>
         ELSE \/ start = "ready" /\ worker' = "ready" /\ ctx' = "dispatched" /\ task' = task
              \/ start = "startFailed" /\ worker' = "failed" /\ ctx' = "failed"
                 /\ task' = IF task \in {"dispatched", "blocked"} THEN "failed" ELSE task
              \/ start = "start_unknown" /\ worker' = "start_unknown" /\ task' = "blocked"
                 /\ ctx' = ctx
      /\ UNCHANGED <<protocol, result, stop, shown, attach, closing>>
  BY DEF StartAnswered, FailHomeStart, DoubtHomeStart, remoteVars
<1> QED
  BY <1>1, <1>2 DEF RowsStep, Settles, RowsInv, RowTypes, RowsOK, AttachOK, WorkerStates,
     LiveStates, AttachStates, SettledAttach, OutcomeFromRunHome, Settling, Decided, StatusOf,
     Reports, Lost

LEMMA StartTimedOutRows ==
  ASSUME RowsInv, StartTimedOut
  PROVE  RowsStep
BY DEF StartTimedOut, DoubtHomeStart, CloseThreads, remoteVars, homeRelay,
       RowsStep, Settles, RowsInv, RowTypes, RowsOK, AttachOK, WorkerStates, LiveStates,
       AttachStates, SettledAttach, OutcomeFromRunHome, Settling, Decided, StatusOf, Reports, Lost

LEMMA StopAnsweredRows ==
  ASSUME RowsInv, StopAnswered
  PROVE  RowsStep
BY DEF StopAnswered, SettleHomeStop, Interrupted, remoteVars, homeRelay,
       RowsStep, Settles, RowsInv, RowTypes, RowsOK, AttachOK, WorkerStates, LiveStates,
       AttachStates, SettledAttach, OutcomeFromRunHome, Settling, Decided, StatusOf, Reports, Lost

LEMMA StopTimedOutRows ==
  ASSUME RowsInv, StopTimedOut
  PROVE  RowsStep
BY DEF StopTimedOut, homeRelay, homeReplies,
       RowsStep, Settles, RowsInv, RowTypes, RowsOK, AttachOK, WorkerStates, LiveStates,
       AttachStates, SettledAttach, OutcomeFromRunHome, Settling, Decided, StatusOf, Reports, Lost

LEMMA BeginStopRows ==
  ASSUME RowsInv, BeginStop
  PROVE  RowsStep
BY DEF BeginStop, Interrupted, remoteVars, homeRelay,
       RowsStep, Settles, RowsInv, RowTypes, RowsOK, AttachOK, WorkerStates, LiveStates,
       AttachStates, SettledAttach, OutcomeFromRunHome, Settling, Decided, StatusOf, Reports, Lost

LEMMA RemoteShowRows ==
  ASSUME RowsInv, RemoteShow
  PROVE  RowsStep
BY DEF RemoteShow, NotShown, homeRows, homeRelay, remoteVars,
       RowsStep, Settles, RowsInv, RowTypes, RowsOK, AttachOK, WorkerStates, LiveStates,
       AttachStates, SettledAttach, OutcomeFromRunHome, Settling, Decided, StatusOf, Reports, Lost

LEMMA ShowAnsweredRows ==
  ASSUME RowsInv, ShowAnswered
  PROVE  RowsStep
BY RelayAssumption
   DEF ShowAnswered, NotShown, SettleHomeStop, Interrupted, ReconcileStart, FailHomeStart,
       CloseThreads, remoteVars,
       RowsStep, Settles, RowsInv, RowTypes, RowsOK, AttachOK, WorkerStates, LiveStates,
       AttachStates, SettledAttach, OutcomeFromRunHome, Settling, Decided, StatusOf, Reports, Lost

LEMMA AbandonRows ==
  ASSUME RowsInv, Abandon
  PROVE  RowsStep
BY DEF Abandon, Interrupted, homeRelay, homeMemory, remoteVars,
       RowsStep, Settles, RowsInv, RowTypes, RowsOK, AttachOK, WorkerStates, LiveStates,
       AttachStates, SettledAttach, OutcomeFromRunHome, Settling, Decided, StatusOf, Reports, Lost

LEMMA RetryRows ==
  ASSUME RowsInv, Retry
  PROVE  RowsStep
BY DEF Retry, homeRelay, homeMemory, remoteVars,
       RowsStep, Settles, RowsInv, RowTypes, RowsOK, AttachOK, WorkerStates, LiveStates,
       AttachStates, SettledAttach, OutcomeFromRunHome, Settling, Decided, StatusOf, Reports, Lost

LEMMA RemoteAttachRows ==
  ASSUME RowsInv, RemoteAttach
  PROVE  RowsStep
BY DEF RemoteAttach, homeRows, homeRelay, homeMemory,
       RowsStep, Settles, RowsInv, RowTypes, RowsOK, AttachOK, WorkerStates, LiveStates,
       AttachStates, SettledAttach, OutcomeFromRunHome, Settling, Decided, StatusOf, Reports, Lost

LEMMA RemoteStartedRows ==
  ASSUME RowsInv, RemoteStarted
  PROVE  RowsStep
BY DEF RemoteStarted, homeRows, homeRelay,
       RowsStep, Settles, RowsInv, RowTypes, RowsOK, AttachOK, WorkerStates, LiveStates,
       AttachStates, SettledAttach, OutcomeFromRunHome, Settling, Decided, StatusOf, Reports, Lost

LEMMA RemoteStopRows ==
  ASSUME RowsInv, RemoteStop
  PROVE  RowsStep
BY DEF RemoteStop, ServeStop, homeRows, homeRelay,
       RowsStep, Settles, RowsInv, RowTypes, RowsOK, AttachOK, WorkerStates, LiveStates,
       AttachStates, SettledAttach, OutcomeFromRunHome, Settling, Decided, StatusOf, Reports, Lost

LEMMA LateStopRows ==
  ASSUME RowsInv, LateStop
  PROVE  RowsStep
BY DEF LateStop, ServeStop, homeRows, homeRelay,
       RowsStep, Settles, RowsInv, RowTypes, RowsOK, AttachOK, WorkerStates, LiveStates,
       AttachStates, SettledAttach, OutcomeFromRunHome, Settling, Decided, StatusOf, Reports, Lost

LEMMA RemoteStoppedRows ==
  ASSUME RowsInv, RemoteStopped
  PROVE  RowsStep
BY DEF RemoteStopped, homeRows, homeRelay,
       RowsStep, Settles, RowsInv, RowTypes, RowsOK, AttachOK, WorkerStates, LiveStates,
       AttachStates, SettledAttach, OutcomeFromRunHome, Settling, Decided, StatusOf, Reports, Lost

LEMMA RemoteCrashRows ==
  ASSUME RowsInv, RemoteCrash
  PROVE  RowsStep
BY RelayAssumption
   DEF RemoteCrash, homeRows, homeRelay, homeMemory,
       RowsStep, Settles, RowsInv, RowTypes, RowsOK, AttachOK, WorkerStates, LiveStates,
       AttachStates, SettledAttach, OutcomeFromRunHome, Settling, Decided, StatusOf, Reports, Lost

LEMMA HomeCrashRows ==
  ASSUME RowsInv, LoseHomeMemory,
         UNCHANGED <<protocol, homeRows, epochSeen, attach, epoch>>
  PROVE  RowsStep
BY RelayAssumption
   DEF LoseHomeMemory, NotShown, homeRows,
       RowsStep, Settles, RowsInv, RowTypes, RowsOK, AttachOK, WorkerStates, LiveStates,
       AttachStates, SettledAttach, OutcomeFromRunHome, Settling, Decided, StatusOf, Reports, Lost

LEMMA WorkerSendRows ==
  ASSUME RowsInv, NEW kind \in Kinds, WorkerSend(kind)
  PROVE  RowsStep
BY DEF WorkerSend, MaySend, SettleAsQueued, homeRows, homeRelay, homeMemory,
       RowsStep, Settles, RowsInv, RowTypes, RowsOK, AttachOK, WorkerStates, LiveStates,
       AttachStates, SettledAttach, OutcomeFromRunHome, Settling, Decided, StatusOf, Reports, Lost

(* An acknowledgment settles a ready attachment with a verdict it carries.  *)
LEMMA AcknowledgeAttach ==
  ASSUME attach \in AttachStates, NEW through, NEW S, Acknowledge(through, S)
  PROVE  \/ attach' = attach
         \/ attach = "ready" /\ \E st \in S : st.verdict \in Reports /\ attach' = st.verdict
<1>1. CASE attach = "ready" /\ \E st \in S : st.verdict \in Reports
  <2> DEFINE P(a) == \E st \in S : st.verdict \in Reports /\ a = st.verdict
  <2>1. \E a \in AttachStates : P(a)
    BY <1>1 DEF Reports, AttachStates
  <2>2. P(CHOOSE a \in AttachStates : P(a))
    BY <2>1
  <2>3. attach' = attach \/ attach' = CHOOSE a \in AttachStates : P(a)
    BY <1>1 DEF Acknowledge
  <2> QED
    BY <1>1, <2>2, <2>3
<1>2. CASE attach = "ready" /\ ~\E st \in S : st.verdict \in Reports
  <2>1. (CHOOSE a \in AttachStates : a = attach) = attach
    BY <1>2 DEF AttachStates
  <2> QED
    BY <1>2, <2>1 DEF Acknowledge
<1>3. CASE attach # "ready"
  BY <1>3 DEF Acknowledge
<1> QED
  BY <1>1, <1>2, <1>3

(* A report is adopted only when the Run home decided it. *)
LEMMA AcknowledgeRows ==
  ASSUME RowsInv, NEW through, NEW S, SettlementsOK(S), Acknowledge(through, S),
         UNCHANGED <<protocol, homeRows, epochSeen, closing, epoch, start, stop, shown>>
  PROVE  RowsStep
<1>1. \/ attach' = attach
      \/ attach = "ready" /\ \E st \in S : st.verdict \in Reports /\ attach' = st.verdict
  BY AcknowledgeAttach DEF RowsInv, RowTypes
<1>2. CASE attach' = attach
  BY <1>2, RowsQuiet DEF rowVars
<1>3. CASE attach = "ready" /\ \E v \in Reports : Decided(v) /\ attach' = v
  BY <1>3 DEF homeRows, RowsStep, Settles, RowsInv, RowTypes, RowsOK, AttachOK, WorkerStates, LiveStates,
       AttachStates, SettledAttach, OutcomeFromRunHome, Settling, Decided, StatusOf, Reports, Lost
<1> QED
  BY <1>1, <1>2, <1>3 DEF SettlementsOK

(* The item a page is about to import. *)
LEMMA CurrentItem ==
  ASSUME SyncOK, sync.pc = "page", sync.done < Len(sync.items)
  PROVE  /\ sync \in PageType /\ PageOK
         /\ sync.items[sync.done + 1] \in ItemType
         /\ ItemOK(sync.items[sync.done + 1])
<1>1. sync \in PageType /\ PageOK
  BY DEF SyncOK, PullType, RepliesType, Idle
<1>2. sync.items \in Seq(ItemType) /\ sync.done + 1 \in 1..Len(sync.items)
  BY <1>1 DEF PageType
<1> QED
  BY <1>1, <1>2 DEF PageOK

(* A report that is imported is decided, or rejected. *)
LEMMA ImportItemRows ==
  ASSUME RowsInv, SyncOK, ImportItem, NEW item, item = sync.items[sync.done + 1]
  PROVE  /\ RowsStep
         /\ item.kind \in Reports /\ Verdict(item.kind) # "rejected" =>
              Verdict(item.kind) = item.kind /\ Decided(item.kind)'
<1>1. item.id \in Message
  BY CurrentItem DEF ImportItem, ItemType
<1>2. item.id \in Sequence /\ item.id # 0 /\ UNCHANGED <<protocol, epochSeen, remoteVars, start, stop, shown>>
  BY <1>1, RelayAssumption DEF ImportItem, Message, Sequence
<1>3. CASE item.kind \in Reports /\ CanSettle /\ ~Recorded(item.kind)
  <2>1. /\ ctx' = StatusOf(item.kind) /\ task' = StatusOf(item.kind) /\ result' = item.id
        /\ worker' = IF worker = "ready" THEN item.kind ELSE worker
    BY <1>3 DEF ImportItem, SettleReport
  <2> QED
    BY <1>2, <1>3, <2>1 DEF CanSettle, Verdict, remoteVars, RowsStep, Settles, RowsInv, RowTypes, RowsOK, AttachOK, WorkerStates, LiveStates,
       AttachStates, SettledAttach, OutcomeFromRunHome, Settling, Decided, StatusOf, Reports, Lost
<1>4. CASE item.kind \in Reports /\ ~(CanSettle /\ ~Recorded(item.kind))
  <2>1. UNCHANGED homeRows
    BY <1>4 DEF ImportItem, SettleReport
  <2>2. RowsStep
    BY <1>2, <2>1, RowsQuiet DEF rowVars, remoteVars
  <2> QED
    BY <1>2, <1>4, <2>1, <2>2 DEF Verdict, Recorded, homeRows, remoteVars, RowsStep, Settles, RowsInv, RowTypes, RowsOK, AttachOK, WorkerStates, LiveStates,
       AttachStates, SettledAttach, OutcomeFromRunHome, Settling, Decided, StatusOf, Reports, Lost
<1>5. CASE item.kind \notin Reports
  <2>1. UNCHANGED homeRows
    BY <1>5 DEF ImportItem
  <2> QED
    BY <1>2, <1>5, <2>1, RowsQuiet DEF rowVars, remoteVars
<1> QED
  BY <1>3, <1>4, <1>5

LEMMA AckAnsweredRows ==
  ASSUME RowsInv, SyncOK, AckAnswered
  PROVE  RowsStep
<1>1. sync.epoch \in 1..MaxEpoch
  BY DEF AckAnswered, SyncOK, PageType, PullType, RepliesType, Idle
<1>2. /\ epochSeen' \in 0..MaxEpoch
      /\ UNCHANGED <<protocol, homeRows, attach, closing, epoch, start, stop, shown>>
  BY <1>1 DEF AckAnswered, remoteVars
<1> QED
  BY <1>2 DEF homeRows, RowsStep, Settles, RowsInv, RowTypes, RowsOK, AttachOK,
       OutcomeFromRunHome, Settling, Decided

(* Between them the steps of the dispatch: the rows keep their invariant    *)
(* and nothing that was decided is undecided.                               *)
LEMMA RowsPreserved ==
  ASSUME RelayInv, [Next]_vars
  PROVE  RowsStep
<1>1. RowsInv /\ SyncOK /\ LateOK
  BY DEF RelayInv
<1>2. ASSUME \/ UNCHANGED vars
             \/ SyncTick \/ PullAnswered \/ ImportThrows \/ PageImported \/ RepliesAnswered
             \/ SyncRefused \/ RemotePull \/ RemoteImport \/ SyncTimedOut \/ LateImport
             \/ (\E m \in Message : AnswerQuestion(m))
      PROVE  RowsStep
  <2>1. UNCHANGED rowVars
    BY <1>2 DEF vars, SyncTick, SyncStart, PullAnswered, ImportThrows, PageImported,
       RepliesAnswered, SyncRefused, RemotePull, RemoteImport, SyncTimedOut, LateImport,
       AnswerQuestion, rowVars, homeRows, homeRelay, homeMemory, remoteVars
  <2> QED
    BY <1>1, <2>1, RowsQuiet
<1>3. ASSUME ImportItem PROVE RowsStep
  BY <1>1, <1>3, ImportItemRows
<1>4. ASSUME RemoteAck PROVE RowsStep
  <2>1. SettlementsOK(sync.settlements)
    BY <1>1, <1>4 DEF RemoteAck, SyncOK, PageOK, PullType, RepliesType, Idle
  <2> QED
    BY <1>1, <1>4, <2>1, AcknowledgeRows DEF RemoteAck, homeRelay
<1>5. ASSUME LateAck PROVE RowsStep
  <2>1. PICK request \in late : request.call = "ack" /\ Acknowledge(request.through, request.settlements)
    BY <1>5 DEF LateAck
  <2>2. SettlementsOK(request.settlements)
    BY <1>1, <2>1 DEF LateOK, RequestOK
  <2> QED
    BY <1>1, <1>5, <2>1, <2>2, AcknowledgeRows DEF LateAck, homeRelay, homeMemory
<1>6. ASSUME HomeCrash \/ \E m \in Message : AnswerTorn(m) PROVE RowsStep
  BY <1>1, <1>6, HomeCrashRows DEF HomeCrash, AnswerTorn, homeRelay
<1>7. ASSUME HomeStep PROVE RowsStep
  BY <1>1, <1>2, <1>7, StartAnsweredRows, StopAnsweredRows, BeginStopRows, RemoteShowRows,
     ShowAnsweredRows, AbandonRows, RetryRows DEF HomeStep
<1>8. ASSUME RemoteStep PROVE RowsStep
  BY <1>1, <1>8, RemoteAttachRows, RemoteStartedRows, RemoteStopRows, RemoteStoppedRows,
     WorkerSendRows DEF RemoteStep
<1>9. ASSUME FaultStep PROVE RowsStep
  BY <1>1, <1>2, <1>5, <1>6, <1>9, StartTimedOutRows, StopTimedOutRows, RemoteCrashRows,
     LateStopRows DEF FaultStep
<1>10. ASSUME RelayStep \/ ServeRelay PROVE RowsStep
  BY <1>1, <1>2, <1>3, <1>4, <1>10, AckAnsweredRows DEF RelayStep, ServeRelay
<1> QED
  BY <1>2, <1>7, <1>8, <1>9, <1>10 DEF Next

-----------------------------------------------------------------------------
(* The watermarks *)

markVars == <<imported, acknowledged, inbox, toHome, released, told, acks>>

(* What is imported, released, queued or sent stays so.                     *)
Advances ==
  /\ imported <= imported' /\ released <= released' /\ Len(toHome) <= Len(toHome)'
  /\ \A m \in Message : told[m] # "none" => told'[m] # "none"

MarksStep == MarksInv' /\ Advances

(* The Run home may forget what it remembered of acknowledgments.           *)
LEMMA MarksQuiet ==
  ASSUME MarksInv, Settles, UNCHANGED markVars, checkpoint' \in {checkpoint, NoCheckpoint}
  PROVE  MarksStep
<1>1. UNCHANGED <<imported, acknowledged, inbox, toHome, released, told, acks>>
  BY DEF markVars
<1>2. checkpoint' \in [epoch : 0..MaxEpoch, through : Sequence] /\ checkpoint'.through <= released
  BY RelayAssumption DEF MarksInv, ReleasedOnceImported, NoCheckpoint, Sequence
<1>3. ToldTheVerdict'
  BY <1>1 DEF MarksInv, ToldTheVerdict, Settles, Settling, StatusOf
<1>4. ReleasedOnceImported'
  BY <1>1, <1>2 DEF MarksInv, ReleasedOnceImported
<1>5. MessagesSent' = MessagesSent
  BY <1>1 DEF MessagesSent
<1>6. MarksInv'
  BY <1>1, <1>2, <1>3, <1>4, <1>5 DEF MarksInv
<1>7. Advances
  BY <1>1 DEF Advances, MarksInv, Sequence
<1> QED
  BY <1>6, <1>7 DEF MarksStep

LEMMA ImportItemMarks ==
  ASSUME MarksInv, SyncOK, Settles, ImportItem
  PROVE  MarksStep
<1> DEFINE item == sync.items[sync.done + 1]
<1>1. item \in ItemType /\ ItemOK(item)
  BY CurrentItem DEF ImportItem
<1>2. UNCHANGED <<acknowledged, checkpoint, toHome, released, told, acks>>
  BY DEF ImportItem, remoteVars
<1>3. imported' \in Sequence /\ imported <= imported' /\ imported' <= Len(toHome)
  <2>1. imported \in Nat /\ imported <= Len(toHome) /\ item.sequence \in Sequence
        /\ item.sequence \in 1..Len(toHome)
    BY <1>1, RelayAssumption DEF ItemOK, ItemType, Sequence, MarksInv
  <2>2. imported' = Larger(imported, item.sequence)
    BY DEF ImportItem
  <2> QED
    BY <2>1, <2>2, RelayAssumption DEF Larger, Sequence, MarksInv
<1>4. inbox' \in Seq([id : Message, rejected : BOOLEAN])
  <2>1. inbox' = inbox \/ \E r \in BOOLEAN : inbox' = Append(inbox, [id |-> item.id, rejected |-> r])
    BY DEF ImportItem, ImportMessage
  <2> QED
    <3>1. ASSUME NEW r \in BOOLEAN
          PROVE  Append(inbox, [id |-> item.id, rejected |-> r]) \in Seq([id : Message, rejected : BOOLEAN])
      <4>1. [id |-> item.id, rejected |-> r] \in [id : Message, rejected : BOOLEAN]
        BY <1>1 DEF ItemType
      <4> QED
        BY <4>1, AppendProperties DEF MarksInv
    <3> QED
      BY <2>1, <3>1 DEF MarksInv
<1>5. ToldTheVerdict'
  BY <1>2 DEF MarksInv, ToldTheVerdict, Settles, Settling, StatusOf
<1>6. ReleasedOnceImported'
  BY <1>2, <1>3 DEF MarksInv, ReleasedOnceImported, Sequence
<1>7. MessagesSent' = MessagesSent
  BY <1>2 DEF MessagesSent
<1>8. MarksInv'
  BY <1>2, <1>3, <1>4, <1>5, <1>6, <1>7 DEF MarksInv
<1>9. Advances
  BY <1>2, <1>3 DEF Advances, MarksInv
<1> QED
  BY <1>8, <1>9 DEF MarksStep

(* The messages that were sent are 1..MessagesSent. *)
LEMMA SentCount ==
  ASSUME NEW f, NEW n \in 0..MaxMessages, \A m \in Message : f[m] # "none" <=> m <= n
  PROVE  Cardinality({m \in Message : f[m] # "none"}) = n
<1>1. {m \in Message : f[m] # "none"} = 1..n
  BY RelayAssumption DEF Message
<1>2. Cardinality(1..n) = n
  BY FS_Interval
<1> QED
  BY <1>1, <1>2

LEMMA SentBound == MessagesSent \in 0..MaxMessages
<1>1. IsFiniteSet(Message) /\ Cardinality(Message) = MaxMessages
  BY RelayAssumption, FS_Interval DEF Message
<1>2. {m \in Message : told[m] # "none"} \subseteq Message
  OBVIOUS
<1> QED
  BY <1>1, <1>2, FS_Subset, FS_CardinalityType DEF MessagesSent

LEMMA QueueBound ==
  ASSUME MarksInv
  PROVE  Len(toHome) \in Nat /\ Len(toHome) <= MaxMessages
BY SentBound, LenProperties, RelayAssumption DEF MarksInv

LEMMA SentId ==
  ASSUME MarksInv, NEW s \in DOMAIN toHome
  PROVE  toHome[s].id \in Message /\ toHome[s].kind \in Kinds
<1>1. toHome \in Seq([id : Message, kind : Kinds]) /\ s \in 1..Len(toHome)
  BY LenProperties DEF MarksInv
<1>2. toHome[s] \in [id : Message, kind : Kinds]
  BY <1>1, ElementOfSeq
<1> QED
  BY <1>2

(* A settled report's message was sent, so telling the worker its verdict   *)
(* sends nothing new.                                                       *)
LEMMA AcknowledgeMarks ==
  ASSUME MarksInv, Settles, NEW through, NEW S, SettlementsOK(S), Acknowledge(through, S),
         through \in Nat, through <= imported,
         UNCHANGED <<imported, acknowledged, inbox, checkpoint, toHome, ctx>>
  PROVE  /\ MarksStep
         /\ AckAccepted(through, S) => through <= released'
         /\ released' \in released..imported
         /\ \A m \in Message : told'[m] # "none" <=> told[m] # "none"
<1>1. CASE Known(through) # {} \/ ~AckAllowed(through, S)
  <2>1. UNCHANGED markVars
    BY <1>1 DEF Acknowledge, markVars
  <2>2. AckAccepted(through, S) => through <= released
    BY <1>1 DEF AckAccepted, MarksInv, Known
  <2>3. released \in released..imported
    BY LenProperties DEF MarksInv, ReleasedOnceImported, Sequence
  <2> QED
    BY <2>1, <2>2, <2>3, MarksQuiet DEF markVars
<1>2. CASE Known(through) = {} /\ AckAllowed(through, S)
  <2> DEFINE settled(m) == \E st \in S : toHome[st.sequence].id = m
             pick(m) == CHOOSE st \in S : toHome[st.sequence].id = m
  <2>1. /\ acks' = acks \cup {[through |-> through, settlements |-> S]}
        /\ released' = Larger(released, through)
        /\ told' = [m \in Message |-> IF settled(m) THEN pick(m).verdict ELSE told[m]]
    BY <1>2 DEF Acknowledge, ReleaseThrough
  <2>2. released' \in 0..Len(toHome) /\ released <= released' /\ through <= released' /\ released' <= imported
    BY <2>1 DEF Larger, MarksInv, ReleasedOnceImported, Sequence
  <2>3. ASSUME NEW m \in Message, settled(m)
        PROVE  pick(m) \in S /\ pick(m).verdict \in Verdicts /\ told[m] # "none"
    <3>1. pick(m) \in S /\ toHome[pick(m).sequence].id = m
      BY <2>3
    <3> QED
      BY <3>1 DEF SettlementsOK, SettlementType, MarksInv
  <2>4. told' \in [Message -> Verdicts \cup {"none", "waiting"}]
    BY <2>1, <2>3 DEF MarksInv
  <2>5. \A m \in Message : told'[m] # "none" <=> told[m] # "none"
    BY <2>1, <2>3 DEF Verdicts, Reports
  <2>6. MessagesSent' = MessagesSent
    BY <2>5 DEF MessagesSent
  <2>7. ToldTheVerdict'
    <3> SUFFICES ASSUME Settling', NEW m \in Message, told'[m] \in Reports
                 PROVE  ctx' = StatusOf(told'[m])
      BY DEF ToldTheVerdict
    <3>1. CASE settled(m)
      BY <2>1, <2>3, <3>1 DEF SettlementsOK, Decided
    <3>2. CASE ~settled(m)
      BY <2>1, <3>2 DEF MarksInv, ToldTheVerdict, Settling, Settles
    <3> QED
      BY <3>1, <3>2
  <2>8. ReleasedOnceImported'
    BY <2>2 DEF MarksInv, ReleasedOnceImported, Sequence
  <2>9. \A ack \in acks' : ack.through \in Nat /\ ack.through <= released'
    BY <2>1, <2>2 DEF MarksInv
  <2>10. \A s \in DOMAIN toHome : told'[toHome[s].id] # "none"
    BY <2>5, SentId DEF MarksInv
  <2>11. MarksInv'
    BY <2>2, <2>4, <2>5, <2>6, <2>7, <2>8, <2>9, <2>10 DEF MarksInv
  <2>12. Advances
    BY <2>2, <2>5 DEF Advances, MarksInv, Sequence
  <2>13. released' \in released..imported
    BY <2>2, LenProperties DEF MarksInv, Sequence
  <2> QED
    BY <2>2, <2>5, <2>11, <2>12, <2>13 DEF MarksStep
<1> QED
  BY <1>1, <1>2

LEMMA AckAnsweredMarks ==
  ASSUME MarksInv, SyncOK, AnswerOK, Settles, AckAnswered
  PROVE  MarksStep
<1>1. sync \in PageType /\ PageOK /\ sync.pc = "ack"
  BY DEF AckAnswered, SyncOK, PullType, RepliesType, Idle
<1>2. answer.through = sync.cursor /\ answer.through <= released
  BY <1>1 DEF AckAnswered, AnswerOK
<1> DEFINE through == IF sync.full /\ sync.pages = 1 THEN answer.through - 1 ELSE answer.through
           mark == [epoch |-> sync.epoch, through |-> through]
<1>3. through \in Sequence /\ through <= released
  BY <1>1, <1>2, RelayAssumption DEF PageType, PageOK, Sequence, MarksInv
<1>4. mark \in [epoch : 0..MaxEpoch, through : Sequence]
  BY <1>1, <1>3 DEF PageType
<1>5. UNCHANGED <<imported, inbox, toHome, released, told, acks>>
  BY DEF AckAnswered, remoteVars
<1>6. acknowledged' \in {acknowledged, through}
  BY DEF AckAnswered, Larger
<1>7. checkpoint' \in {checkpoint, mark, NoCheckpoint}
  BY DEF AckAnswered, Proceed
<1>8. checkpoint' \in [epoch : 0..MaxEpoch, through : Sequence] /\ checkpoint'.through <= released
  BY <1>3, <1>4, <1>7, RelayAssumption DEF MarksInv, ReleasedOnceImported, NoCheckpoint, Sequence
<1>9. acknowledged' \in Sequence /\ acknowledged' <= released
  BY <1>3, <1>6 DEF MarksInv, ReleasedOnceImported
<1>10. ReleasedOnceImported'
  BY <1>5, <1>8, <1>9 DEF MarksInv, ReleasedOnceImported
<1>11. ToldTheVerdict' /\ MessagesSent' = MessagesSent
  BY <1>5 DEF MarksInv, ToldTheVerdict, Settles, Settling, StatusOf, MessagesSent
<1>12. MarksInv'
  BY <1>5, <1>8, <1>9, <1>10, <1>11 DEF MarksInv
<1>13. Advances
  BY <1>5 DEF Advances, MarksInv, Sequence
<1> QED
  BY <1>12, <1>13 DEF MarksStep

(* A new message has the next number, and it takes a new place in the queue *)
(* or that of a heartbeat.                                                  *)
LEMMA WorkerSendMarks ==
  ASSUME MarksInv, Settles, NEW kind \in Kinds, WorkerSend(kind)
  PROVE  /\ MarksStep
         /\ told[MessagesSent + 1] = "none" /\ MessagesSent + 1 \in Message
         /\ MessagesSent' = MessagesSent + 1
<1> DEFINE id == MessagesSent + 1
<1>1. id \in Message /\ told[id] = "none"
  BY SentBound, RelayAssumption DEF WorkerSend, Message, MarksInv
<1>2. UNCHANGED <<imported, acknowledged, inbox, checkpoint, released, acks, ctx>>
  BY DEF WorkerSend, homeRows, homeRelay, homeMemory
<1>3. PICK x \in Reports \cup {"waiting"} :
        told' = [told EXCEPT ![id] = x] /\ (Settling => x = "waiting")
  BY DEF WorkerSend, Waits
<1>4. told' \in [Message -> Verdicts \cup {"none", "waiting"}]
  BY <1>1, <1>3 DEF MarksInv, Verdicts
<1>5. \A m \in Message : told'[m] # "none" <=> m <= id
  BY <1>1, <1>3, SentBound DEF MarksInv, Reports, Message
<1>6. MessagesSent' = id
  <2>1. id \in 0..MaxMessages
    BY <1>1 DEF Message
  <2> QED
    BY <1>5, <2>1, SentCount DEF MessagesSent
<1>7. /\ toHome' \in Seq([id : Message, kind : Kinds])
      /\ Len(toHome) <= Len(toHome') /\ Len(toHome') <= Len(toHome) + 1
      /\ \A s \in DOMAIN toHome' : toHome'[s].id = id \/ (s \in DOMAIN toHome /\ toHome'[s] = toHome[s])
  <2> DEFINE item == [id |-> id, kind |-> kind]
  <2>1. item \in [id : Message, kind : Kinds] /\ toHome \in Seq([id : Message, kind : Kinds])
    BY <1>1 DEF MarksInv
  <2>2. CASE Queue(id, kind)
    <3>1. toHome' = Append(toHome, item)
      BY <2>2 DEF Queue
    <3> QED
      BY <2>1, <3>1, AppendProperties, LenProperties
  <2>3. CASE OverwriteHeartbeat(id, kind)
    <3>1. PICK n : toHome' = [toHome EXCEPT ![n] = item]
      BY <2>3 DEF OverwriteHeartbeat
    <3>2. toHome' \in [1..Len(toHome) -> [id : Message, kind : Kinds]]
      BY <2>1, <3>1, LenProperties
    <3>3. toHome' \in Seq([id : Message, kind : Kinds]) /\ Len(toHome') = Len(toHome)
      BY <2>1, <3>2, SeqDef, LenProperties
    <3> QED
      BY <2>1, <3>1, <3>3, LenProperties
  <2> QED
    BY <2>2, <2>3 DEF WorkerSend
<1>8. ToldTheVerdict'
  BY <1>1, <1>2, <1>3 DEF MarksInv, ToldTheVerdict, Settling, Settles, Reports
<1>9. ReleasedOnceImported'
  BY <1>2 DEF MarksInv, ReleasedOnceImported
<1>10. \A s \in DOMAIN toHome' : told'[toHome'[s].id] # "none"
  <2> SUFFICES ASSUME NEW s \in DOMAIN toHome' PROVE told'[toHome'[s].id] # "none"
    OBVIOUS
  <2>1. CASE toHome'[s].id = id
    BY <1>1, <1>5, <2>1 DEF Message
  <2>2. CASE s \in DOMAIN toHome /\ toHome'[s] = toHome[s]
    <3>1. toHome[s].id \in Message /\ told[toHome[s].id] # "none"
      BY <2>2, SentId DEF MarksInv
    <3> QED
      BY <1>1, <1>3, <2>2, <3>1 DEF MarksInv
  <2> QED
    BY <1>7, <2>1, <2>2
<1>11. MarksInv'
  <2>1. released' \in 0..Len(toHome)' /\ imported' <= Len(toHome)'
    BY <1>2, <1>7, LenProperties DEF MarksInv, Sequence
  <2>2. Len(toHome)' <= MessagesSent'
    BY <1>6, <1>7, SentBound, LenProperties DEF MarksInv
  <2> QED
    BY <2>2, <1>2, <1>4, <1>5, <1>6, <1>7, <1>8, <1>9, <1>10, <2>1 DEF MarksInv
<1>12. Advances
  BY <1>1, <1>2, <1>3, <1>7 DEF Advances, MarksInv, Sequence, Reports
<1> QED
  BY <1>1, <1>6, <1>11, <1>12 DEF MarksStep

LEMMA MarksPreserved ==
  ASSUME RelayInv, RowsStep, [Next]_vars
  PROVE  MarksStep
<1>1. MarksInv /\ SyncOK /\ AnswerOK /\ LateOK /\ Settles
  BY DEF RelayInv, RowsStep
<1>2. ASSUME \/ UNCHANGED vars
             \/ SyncTick \/ PullAnswered \/ ImportThrows \/ PageImported \/ RepliesAnswered
             \/ SyncRefused
             \/ RemotePull \/ RemoteImport
             \/ HomeStep
             \/ RemoteAttach \/ RemoteStarted \/ RemoteStop \/ RemoteStopped
             \/ StartTimedOut \/ StopTimedOut \/ SyncTimedOut \/ HomeCrash \/ RemoteCrash
             \/ LateImport \/ LateStop
             \/ (\E m \in Message : AnswerTorn(m))
      PROVE  MarksStep
  <2>1. UNCHANGED markVars /\ checkpoint' \in {checkpoint, NoCheckpoint}
    <3>1. CASE \/ UNCHANGED vars \/ SyncTick \/ PullAnswered \/ ImportThrows \/ PageImported
               \/ RepliesAnswered \/ SyncRefused \/ RemotePull \/ RemoteImport
      BY <3>1 DEF vars, SyncTick, SyncStart, PullAnswered, ImportThrows, PageImported,
         RepliesAnswered, SyncRefused, RemotePull, RemoteImport, Proceed, EndSync,
         markVars, homeRelay, homeMemory, remoteVars
    <3>2. CASE HomeStep
      BY <3>2 DEF HomeStep, StartAnswered, StopAnswered, BeginStop, RemoteShow, ShowAnswered,
         Abandon, Retry, AnswerQuestion, markVars, homeRelay, homeMemory, remoteVars
    <3>3. CASE \/ RemoteAttach \/ RemoteStarted \/ RemoteStop \/ RemoteStopped \/ StartTimedOut
               \/ StopTimedOut \/ SyncTimedOut \/ HomeCrash \/ RemoteCrash \/ LateImport \/ LateStop
               \/ (\E m \in Message : AnswerTorn(m))
      BY <3>3 DEF RemoteAttach, RemoteStarted, RemoteStop, RemoteStopped, StartTimedOut,
         StopTimedOut, SyncTimedOut, HomeCrash, LoseHomeMemory, RemoteCrash, LateImport, LateStop,
         AnswerTorn, EndSync, markVars, homeRelay, homeMemory, remoteVars
    <3> QED
      BY <1>2, <3>1, <3>2, <3>3
  <2> QED
    BY <1>1, <2>1, MarksQuiet
<1>3. ASSUME ImportItem PROVE MarksStep
  BY <1>1, <1>3, ImportItemMarks
<1>4. ASSUME RemoteAck PROVE MarksStep
  <2>1. sync \in PageType /\ PageOK
    BY <1>1, <1>4 DEF RemoteAck, SyncOK, PullType, RepliesType, Idle
  <2>2. SettlementsOK(sync.settlements) /\ sync.cursor \in Nat /\ sync.cursor <= imported
    BY <2>1, RelayAssumption DEF PageOK, PageType, Sequence
  <2> QED
    BY <1>1, <1>4, <2>2, AcknowledgeMarks DEF RemoteAck, homeRelay, homeRows
<1>5. ASSUME LateAck PROVE MarksStep
  <2>1. PICK request \in late : request.call = "ack" /\ Acknowledge(request.through, request.settlements)
    BY <1>5 DEF LateAck
  <2>2. /\ SettlementsOK(request.settlements) /\ request.through \in Nat
        /\ request.through <= imported
    BY <1>1, <2>1 DEF LateOK, RequestOK
  <2> QED
    BY <1>1, <1>5, <2>1, <2>2, AcknowledgeMarks DEF LateAck, homeRelay, homeRows, homeMemory
<1>6. ASSUME NEW kind \in Kinds, WorkerSend(kind) PROVE MarksStep
  BY <1>1, <1>6, WorkerSendMarks
<1>7. ASSUME AckAnswered PROVE MarksStep
  BY <1>1, <1>7, AckAnsweredMarks
<1> QED
  BY <1>2, <1>3, <1>4, <1>5, <1>6, <1>7 DEF Next, RelayStep, ServeRelay, RemoteStep, FaultStep

-----------------------------------------------------------------------------
(* Answers to questions *)

replyVars == <<thread, toWorker, delivered, question, taken>>

(* Answers are only added, and taken ones stay taken.                       *)
Delivers == taken <= taken' /\ Len(toWorker) <= Len(toWorker)'

RepliesStep == RepliesInv' /\ Delivers

(* The threads of a dispatch change without unanswering a question.         *)
LEMMA ThreadsMove ==
  ASSUME RepliesInv, MarksStep, UNCHANGED <<toWorker, delivered, question, taken>>,
         thread' \in [Message -> {"none", "pending", "answered", "closed"}],
         \A m \in Message : /\ thread[m] = "answered" => thread'[m] = "answered"
                            /\ thread'[m] # "none" => thread[m] # "none" \/ told[m] # "none"
  PROVE  RepliesStep
<1>1. AnswersAgree'
  BY DEF RepliesInv, AnswersAgree
<1>2. \A s \in DOMAIN toWorker : toWorker[s] \in Message
  BY DEF RepliesInv
<1>3. \A s \in DOMAIN toWorker' : thread'[toWorker'[s]] = "answered"
  BY <1>2 DEF RepliesInv
<1>4. \A m \in Message : thread'[m] # "none" => told'[m] # "none"
  BY DEF RepliesInv, MarksStep, Advances
<1>5. RepliesInv'
  BY <1>1, <1>3, <1>4 DEF RepliesInv
<1>6. Delivers
  BY DEF Delivers, RepliesInv
<1> QED
  BY <1>5, <1>6 DEF RepliesStep

LEMMA RepliesQuiet ==
  ASSUME RepliesInv, MarksStep, UNCHANGED replyVars
  PROVE  RepliesStep
BY ThreadsMove DEF replyVars, RepliesInv

LEMMA CloseThreadsReplies ==
  ASSUME RepliesInv, MarksStep, CloseThreads, UNCHANGED <<toWorker, delivered, question, taken>>
  PROVE  RepliesStep
BY ThreadsMove DEF CloseThreads, RepliesInv

LEMMA ImportItemReplies ==
  ASSUME RepliesInv, MarksStep, SyncOK, ImportItem
  PROVE  RepliesStep
<1> DEFINE item == sync.items[sync.done + 1]
<1>1. item.id \in Message /\ told[item.id] # "none"
  BY CurrentItem DEF ImportItem, ItemType, ItemOK
<1>2. UNCHANGED <<toWorker, delivered, question, taken>>
  BY DEF ImportItem, remoteVars
<1> DEFINE registered == IF item.kind = "question" /\ thread[item.id] = "none"
                         THEN [thread EXCEPT ![item.id] = "pending"] ELSE thread
           settles == item.kind \in Reports /\ CanSettle
<1>3. thread' = [m \in Message |-> IF settles /\ registered[m] = "pending"
                                   THEN "closed" ELSE registered[m]]
  BY DEF ImportItem, ImportThread
<1>4. /\ registered \in [Message -> {"none", "pending", "answered", "closed"}]
      /\ \A m \in Message : /\ thread[m] = "answered" => registered[m] = "answered"
                            /\ registered[m] # "none" => thread[m] # "none" \/ told[m] # "none"
  BY <1>1 DEF RepliesInv
<1> HIDE DEF registered, settles
<1>5. /\ thread' \in [Message -> {"none", "pending", "answered", "closed"}]
      /\ \A m \in Message : /\ thread[m] = "answered" => thread'[m] = "answered"
                            /\ thread'[m] # "none" => thread[m] # "none" \/ told[m] # "none"
  BY <1>3, <1>4
<1> QED
  BY <1>2, <1>5, ThreadsMove

LEMMA AnswerReplies ==
  ASSUME RepliesInv, MarksStep, NEW m \in Message, thread[m] \in {"pending", "answered"},
         thread' = [thread EXCEPT ![m] = "answered"],
         toWorker' = toWorker \/ toWorker' = Append(toWorker, m),
         UNCHANGED <<delivered, question, taken>>
  PROVE  RepliesStep
<1>1. /\ thread' \in [Message -> {"none", "pending", "answered", "closed"}]
      /\ thread'[m] = "answered"
      /\ \A k \in Message : /\ thread[k] = "answered" => thread'[k] = "answered"
                            /\ thread'[k] # "none" => told'[k] # "none"
  BY DEF RepliesInv, MarksStep, Advances
<1>2. CASE toWorker' = toWorker
  BY <1>1, <1>2, ThreadsMove DEF RepliesInv
<1>3. CASE toWorker' = Append(toWorker, m)
  <2>1. /\ toWorker' \in Seq(Message) /\ Len(toWorker') = Len(toWorker) + 1
        /\ \A s \in 1..Len(toWorker) : toWorker'[s] = toWorker[s] /\ toWorker[s] \in Message
        /\ toWorker'[Len(toWorker) + 1] = m
    BY <1>3, AppendProperties, ElementOfSeq DEF RepliesInv
  <2>2. Len(toWorker) \in Nat /\ taken \in 0..Len(toWorker) /\ delivered \in 0..Len(toWorker)
    BY LenProperties DEF RepliesInv
  <2>3. \A s \in DOMAIN toWorker' : thread'[toWorker'[s]] = "answered"
    <3> SUFFICES ASSUME NEW s \in 1..(Len(toWorker) + 1) PROVE thread'[toWorker'[s]] = "answered"
      BY <2>1, LenProperties
    <3>1. CASE s \in 1..Len(toWorker)
      BY <1>1, <2>1, <3>1, LenProperties DEF RepliesInv
    <3>2. CASE s = Len(toWorker) + 1
      BY <1>1, <2>1, <3>2
    <3> QED
      BY <2>2, <3>1, <3>2
  <2>4. AnswersAgree'
    <3>1. \A k \in Message : question'[k] = "answered" => thread'[k] = "answered"
      BY <1>1 DEF RepliesInv, AnswersAgree
    <3>2. \A s \in 1..taken : question'[toWorker'[s]] = "answered"
      BY <2>1, <2>2 DEF RepliesInv, AnswersAgree
    <3> QED
      BY <3>1, <3>2 DEF RepliesInv, AnswersAgree
  <2>5. RepliesInv'
    BY <1>1, <2>1, <2>2, <2>3, <2>4 DEF RepliesInv
  <2>6. Delivers
    BY <2>1, <2>2 DEF Delivers
  <2> QED
    BY <2>5, <2>6 DEF RepliesStep
<1> QED
  BY <1>2, <1>3

(* A bounded set of numbers has a greatest one. *)
LEMMA GreatestExists ==
  ASSUME NEW n \in Nat, NEW S \in SUBSET (0..n), S # {}
  PROVE  \E m \in S : \A k \in S : k <= m
<1> DEFINE T == {n - k : k \in S}
<1>1. T \subseteq Nat
  BY SMT
<1>2. T # {}
  OBVIOUS
<1>3. PICK x \in T : \A y \in T : ~(<<y, x>> \in OpToRel(<, Nat))
  BY <1>1, <1>2, NatLessThanWellFounded, WFMin
<1>4. \A y \in T : ~(y < x)
  BY <1>1, <1>3 DEF OpToRel
<1>5. PICK m \in S : x = n - m
  OBVIOUS
<1>6. ASSUME NEW k \in S PROVE k <= m
  <2>1. n - k \in T
    OBVIOUS
  <2> QED
    BY <1>4, <1>5, <2>1
<1> QED
  BY <1>6

(* The answers are taken up to the last one of the request, without a gap.  *)
LEMMA TakeRepliesReplies ==
  ASSUME RepliesInv, MarksStep, NEW due, DueOK(due), TakeReplies(due),
         UNCHANGED <<thread, toWorker, delivered>>
  PROVE  RepliesStep
<1>1. CASE ~Importing(due)
  BY <1>1, RepliesQuiet DEF TakeReplies, replyVars
<1>2. CASE Importing(due)
  <2> DEFINE all == due \cup {taken}
             most(s) == \A r \in all : r <= s
  <2>1. all \in SUBSET (0..Len(toWorker)) /\ all # {} /\ Len(toWorker) \in Nat
    BY LenProperties DEF DueOK, RepliesInv
  <2>2. taken' \in all /\ most(taken')
    <3>1. \E s \in all : most(s)
      BY <2>1, GreatestExists
    <3>2. taken' = CHOOSE s \in all : most(s)
      BY <1>2 DEF TakeReplies
    <3> QED
      BY <3>1, <3>2
  <2>3. taken' \in 0..Len(toWorker) /\ taken <= taken'
    BY <2>1, <2>2
  <2>4. question' = [m \in Message |->
          IF \E s \in NewReplies(due) : toWorker[s] = m THEN "answered" ELSE question[m]]
    BY <1>2 DEF TakeReplies
  <2>5. \A s \in 1..Len(toWorker) : toWorker[s] \in Message /\ thread[toWorker[s]] = "answered"
    BY LenProperties, ElementOfSeq DEF RepliesInv
  <2>6. \A m \in Message : question'[m] = "answered" => thread[m] = "answered"
    BY <2>4, <2>5 DEF RepliesInv, AnswersAgree, NewReplies, DueOK
  <2>7. ASSUME NEW s \in 1..taken' PROVE question'[toWorker[s]] = "answered"
    <3>1. s \in 1..Len(toWorker) /\ toWorker[s] \in Message
      BY <2>1, <2>3, <2>5
    <3>2. CASE s <= taken
      BY <2>4, <3>1, <3>2 DEF RepliesInv, AnswersAgree
    <3>3. CASE s > taken
      <4>1. taken' \in due
        BY <2>1, <2>2, <3>3, <2>3
      <4>2. s \in (taken + 1)..taken'
        BY <2>3, <3>1, <3>3 DEF RepliesInv
      <4>3. s \in NewReplies(due)
        BY <3>3, <4>1, <4>2 DEF DueOK, NewReplies
      <4> QED
        BY <2>4, <3>1, <4>3
    <3> QED
      BY <3>1, <3>2, <3>3 DEF RepliesInv
  <2>8. AnswersAgree'
    BY <2>3, <2>6, <2>7 DEF AnswersAgree, RepliesInv
  <2>9. \A m \in Message : thread'[m] # "none" => told'[m] # "none"
    BY DEF RepliesInv, MarksStep, Advances
  <2>10. question' \in [Message -> {"none", "pending", "answered"}]
    BY <2>4 DEF RepliesInv
  <2>11. RepliesInv'
    BY <2>3, <2>8, <2>9, <2>10 DEF RepliesInv
  <2>12. Delivers
    BY <2>1, <2>3 DEF Delivers
  <2> QED
    BY <2>11, <2>12 DEF RepliesStep
<1> QED
  BY <1>1, <1>2

LEMMA RepliesAnsweredReplies ==
  ASSUME RepliesInv, MarksStep, AnswerOK, RepliesAnswered
  PROVE  RepliesStep
<1>1. answer.through \in 0..taken
  BY DEF RepliesAnswered, AnswerOK
<1>2. delivered' \in {delivered, answer.through} /\ UNCHANGED <<thread, toWorker, question, taken>>
  BY DEF RepliesAnswered, Larger, remoteVars
<1>3. delivered' \in 0..Len(toWorker) /\ delivered' <= taken
  BY <1>1, <1>2 DEF RepliesInv, AnswersAgree
<1>4. \A m \in Message : thread'[m] # "none" => told'[m] # "none"
  BY <1>2 DEF RepliesInv, MarksStep, Advances
<1>5. AnswersAgree'
  BY <1>2, <1>3 DEF RepliesInv, AnswersAgree
<1>6. RepliesInv'
  BY <1>2, <1>3, <1>4, <1>5 DEF RepliesInv
<1>7. Delivers
  BY <1>2, LenProperties DEF Delivers, RepliesInv
<1> QED
  BY <1>6, <1>7 DEF RepliesStep

(* A question that is asked has not been answered before. *)
LEMMA WorkerSendReplies ==
  ASSUME RepliesInv, MarksInv, MarksStep, Settles, NEW kind \in Kinds, WorkerSend(kind)
  PROVE  RepliesStep
<1> DEFINE id == MessagesSent + 1
<1>1. id \in Message /\ told[id] = "none"
  BY WorkerSendMarks
<1>2. question[id] # "answered"
  BY <1>1 DEF RepliesInv, AnswersAgree
<1>3. question' \in {question, [question EXCEPT ![id] = "pending"]}
  BY DEF WorkerSend, Queue, OverwriteHeartbeat
<1>4. UNCHANGED <<thread, toWorker, delivered, taken>>
  BY DEF WorkerSend, homeReplies
<1>5. /\ question' \in [Message -> {"none", "pending", "answered"}]
      /\ \A m \in Message : question'[m] = "answered" <=> question[m] = "answered"
  BY <1>1, <1>2, <1>3 DEF RepliesInv
<1>6. \A s \in 1..taken : toWorker[s] \in Message
  BY LenProperties, ElementOfSeq DEF RepliesInv
<1>7. AnswersAgree'
  BY <1>4, <1>5, <1>6 DEF RepliesInv, AnswersAgree
<1>8. \A m \in Message : thread'[m] # "none" => told'[m] # "none"
  BY <1>4 DEF RepliesInv, MarksStep, Advances
<1>9. RepliesInv'
  BY <1>4, <1>5, <1>7, <1>8 DEF RepliesInv
<1>10. Delivers
  BY <1>4, LenProperties DEF Delivers, RepliesInv
<1> QED
  BY <1>9, <1>10 DEF RepliesStep

LEMMA RepliesPreserved ==
  ASSUME RelayInv, RowsStep, MarksStep, [Next]_vars
  PROVE  RepliesStep
<1>1. RepliesInv /\ MarksInv /\ SyncOK /\ AnswerOK /\ LateOK /\ Settles
  BY DEF RelayInv, RowsStep
<1>2. ASSUME \/ UNCHANGED vars
             \/ SyncTick \/ PullAnswered \/ ImportThrows \/ PageImported \/ AckAnswered
             \/ SyncRefused \/ RemotePull \/ RemoteAck
             \/ StopAnswered \/ RemoteShow \/ Retry
             \/ RemoteAttach \/ RemoteStarted \/ RemoteStop \/ RemoteStopped
             \/ StopTimedOut \/ SyncTimedOut \/ HomeCrash \/ RemoteCrash \/ LateAck \/ LateStop
      PROVE  RepliesStep
  <2>1. UNCHANGED replyVars
    <3>1. CASE \/ UNCHANGED vars
               \/ SyncTick \/ PullAnswered \/ ImportThrows \/ PageImported \/ AckAnswered
               \/ SyncRefused \/ RemotePull \/ RemoteAck
               \/ StopAnswered \/ RemoteShow \/ Retry
      BY <3>1 DEF vars, SyncTick, SyncStart, PullAnswered, ImportThrows, PageImported,
         AckAnswered, SyncRefused, RemotePull, RemoteAck, StopAnswered, RemoteShow, Retry,
         replyVars, homeReplies, remoteVars
    <3>2. CASE \/ RemoteAttach \/ RemoteStarted \/ RemoteStop \/ RemoteStopped
               \/ StopTimedOut \/ SyncTimedOut \/ HomeCrash \/ RemoteCrash \/ LateAck \/ LateStop
      BY <3>2 DEF RemoteAttach, RemoteStarted, RemoteStop, RemoteStopped, StopTimedOut,
         SyncTimedOut, HomeCrash, RemoteCrash, LateAck, LateStop, replyVars, homeReplies, remoteVars
    <3> QED
      BY <1>2, <3>1, <3>2
  <2> QED
    BY <1>1, <2>1, RepliesQuiet
<1>3. ASSUME StartAnswered \/ StartTimedOut \/ BeginStop \/ ShowAnswered \/ Abandon
      PROVE  RepliesStep
  <2>1. UNCHANGED <<toWorker, delivered, question, taken>>
    BY <1>3 DEF StartAnswered, StartTimedOut, BeginStop, ShowAnswered, Abandon, remoteVars
  <2>2. CloseThreads \/ UNCHANGED thread
    BY <1>3 DEF StartAnswered, StartTimedOut, BeginStop, ShowAnswered, Abandon, FailHomeStart,
       DoubtHomeStart, ReconcileStart
  <2> QED
    BY <1>1, <2>1, <2>2, CloseThreadsReplies, RepliesQuiet DEF replyVars
<1>4. ASSUME ImportItem PROVE RepliesStep
  BY <1>1, <1>4, ImportItemReplies
<1>5. ASSUME NEW m \in Message, AnswerQuestion(m) \/ AnswerTorn(m) PROVE RepliesStep
  BY <1>1, <1>5, AnswerReplies DEF AnswerQuestion, AnswerTorn, QueueReply, remoteVars
<1>6. ASSUME RemoteImport PROVE RepliesStep
  <2>1. DueOK(sync.due)
    BY <1>1, <1>6 DEF RemoteImport, SyncOK, PullType, PageType, Idle
  <2> QED
    BY <1>1, <1>6, <2>1, TakeRepliesReplies DEF RemoteImport, homeReplies
<1>7. ASSUME LateImport PROVE RepliesStep
  <2>1. PICK request \in late : request.call = "replies" /\ TakeReplies(request.due)
    BY <1>7 DEF LateImport
  <2>2. DueOK(request.due)
    BY <1>1, <2>1 DEF LateOK, RequestOK
  <2> QED
    BY <1>1, <1>7, <2>1, <2>2, TakeRepliesReplies DEF LateImport, homeReplies
<1>8. ASSUME RepliesAnswered PROVE RepliesStep
  BY <1>1, <1>8, RepliesAnsweredReplies
<1>9. ASSUME NEW kind \in Kinds, WorkerSend(kind) PROVE RepliesStep
  BY <1>1, <1>9, WorkerSendReplies
<1> QED
  BY <1>2, <1>3, <1>4, <1>5, <1>6, <1>7, <1>8, <1>9
     DEF Next, RelayStep, ServeRelay, HomeStep, RemoteStep, FaultStep

-----------------------------------------------------------------------------
(* The calls in flight *)

(* What a call carries stays true while others step. *)
LEMMA ItemKept ==
  ASSUME MarksInv, MarksStep, NEW item \in ItemType, ItemOK(item)
  PROVE  item.sequence \in 1..Len(toHome') /\ told'[item.id] # "none"
<1>1. item.id \in Message /\ Len(toHome) \in Nat /\ Len(toHome') \in Nat
  BY LenProperties DEF ItemType, MarksInv, MarksStep
<1> QED
  BY <1>1 DEF ItemOK, MarksStep, Advances

LEMMA SettlementsKept ==
  ASSUME MarksInv, MarksStep, RowsStep, NEW S, SettlementsOK(S)
  PROVE  /\ S \subseteq SettlementType
         /\ \A st \in S : /\ st.sequence \in 1..Len(toHome')
                          /\ st.verdict \in Reports => Decided(st.verdict)'
<1>1. Len(toHome) \in Nat /\ Len(toHome') \in Nat /\ Len(toHome) <= Len(toHome')
  BY LenProperties DEF MarksInv, MarksStep, Advances
<1> QED
  BY <1>1 DEF SettlementsOK, RowsStep, Settles

LEMMA LaterInterval ==
  ASSUME NEW m \in Nat, NEW n \in Nat, m <= n, NEW s \in Nat
  PROVE  (n + 1)..s \subseteq (m + 1)..s
OBVIOUS

LEMMA DueKept ==
  ASSUME RepliesInv, RepliesStep, NEW due, DueOK(due)
  PROVE  /\ due \subseteq 1..Len(toWorker')
         /\ \A s \in due : (taken' + 1)..s \subseteq due
<1>1. /\ Len(toWorker) \in Nat /\ Len(toWorker') \in Nat /\ Len(toWorker) <= Len(toWorker')
      /\ taken \in Nat /\ taken' \in Nat /\ taken <= taken'
  BY LenProperties DEF RepliesInv, RepliesStep, Delivers
<1>2. due \subseteq 1..Len(toWorker')
  BY <1>1 DEF DueOK
<1>3. ASSUME NEW s \in due PROVE (taken' + 1)..s \subseteq due
  <2>1. s \in Nat
    BY <1>1 DEF DueOK
  <2>2. (taken' + 1)..s \subseteq (taken + 1)..s
    BY <1>1, <2>1, LaterInterval
  <2> QED
    BY <2>2 DEF DueOK
<1> QED
  BY <1>2, <1>3

LEMMA ImportedGrows ==
  ASSUME MarksInv, MarksStep
  PROVE  imported \in Nat /\ imported' \in Nat /\ imported <= imported'
BY RelayAssumption DEF MarksInv, MarksStep, Advances, Sequence

(* The shapes of sync exclude each other. *)
LEMMA SyncShape ==
  ASSUME SyncOK
  PROVE  /\ sync.pc = "pull" => sync \in PullType /\ sync.after <= imported
         /\ sync.pc \in {"page", "ack"} => sync \in PageType /\ PageOK
         /\ sync.pc = "replies" => sync \in RepliesType /\ DueOK(sync.due)
         /\ sync.pc \in Calls \cup {"idle"}
BY DEF SyncOK, PullType, PageType, RepliesType, Idle, Calls

LEMMA PageItem ==
  ASSUME NEW items \in Seq(ItemType), NEW i \in DOMAIN items
  PROVE  items[i] \in ItemType
BY ElementOfSeq, LenProperties

LEMMA PageKept ==
  ASSUME MarksInv, MarksStep, RowsStep, sync \in PageType, PageOK, sync' = sync
  PROVE  PageOK'
<1>1. sync.items \in Seq(ItemType) /\ sync.cursor \in Sequence
  BY DEF PageType
<1>2. ASSUME NEW i \in DOMAIN sync'.items PROVE ItemOK(sync.items[i])'
  <2>1. i \in DOMAIN sync.items /\ sync.items[i] \in ItemType /\ ItemOK(sync.items[i])
    BY <1>1, <1>2, PageItem DEF PageOK
  <2> QED
    BY <2>1, ItemKept DEF ItemOK
<1>3. sync'.cursor <= imported'
  BY <1>1, ImportedGrows, RelayAssumption DEF PageOK, Sequence
<1>4. SettlementsOK(sync.settlements)'
  BY SettlementsKept DEF PageOK, SettlementsOK
<1> QED
  BY <1>2, <1>3, <1>4 DEF PageOK

LEMMA SyncKept ==
  ASSUME RelayInv, RowsStep, MarksStep, RepliesStep, sync' = sync
  PROVE  SyncOK'
<1>1. RowsInv /\ MarksInv /\ RepliesInv /\ SyncOK
  BY DEF RelayInv
<1>2. CASE sync = Idle
  BY <1>2 DEF SyncOK
<1>3. CASE sync \in PullType /\ sync.after <= imported
  <2>1. sync.after \in Nat
    BY <1>3, RelayAssumption DEF PullType, Sequence
  <2>2. sync.after <= imported'
    BY <1>1, <1>3, <2>1, ImportedGrows
  <2> QED
    BY <1>3, <2>2 DEF SyncOK
<1>4. CASE sync \in PageType /\ PageOK
  BY <1>1, <1>4, PageKept DEF SyncOK
<1>5. CASE sync \in RepliesType /\ DueOK(sync.due)
  <2>1. DueOK(sync.due)'
    BY <1>1, <1>5, DueKept DEF DueOK
  <2> QED
    BY <1>5, <2>1 DEF SyncOK
<1> QED
  BY <1>1, <1>2, <1>3, <1>4, <1>5 DEF SyncOK

LEMMA AnswerKept ==
  ASSUME RelayInv, RowsStep, MarksStep, RepliesStep, sync' = sync, answer' = answer
  PROVE  AnswerOK'
<1>1. RowsInv /\ MarksInv /\ RepliesInv /\ SyncOK /\ AnswerOK
  BY DEF RelayInv
<1>2. CASE sync.pc = "pull"
  <2>1. CASE answer \in {NoAnswer, Refusal}
    BY <1>2, <2>1 DEF AnswerOK
  <2>2. CASE PulledOK
    <3>1. answer.items \in Seq(ItemType)
      BY <2>2 DEF PulledOK
    <3>2. ASSUME NEW i \in DOMAIN answer'.items PROVE ItemOK(answer.items[i])'
      <4>1. i \in DOMAIN answer.items /\ answer.items[i] \in ItemType /\ ItemOK(answer.items[i])
        BY <2>2, <3>1, <3>2, PageItem DEF PulledOK
      <4> QED
        BY <1>1, <4>1, ItemKept DEF ItemOK
    <3>3. Settling' /\ answer'.items # <<>> => answer'.items[1].sequence - 1 <= imported'
      <4> SUFFICES ASSUME Settling', answer.items # <<>>
                   PROVE  answer.items[1].sequence - 1 <= imported'
        OBVIOUS
      <4>1. 1 \in DOMAIN answer.items
        BY <3>1, LenProperties, EmptySeq
      <4>2. answer.items[1] \in ItemType
        BY <3>1, <4>1, PageItem
      <4>3. answer.items[1].sequence \in Nat
        BY <4>2, RelayAssumption DEF ItemType, Sequence
      <4>4. answer.items[1].sequence - 1 <= imported
        BY <2>2 DEF PulledOK, Settling, RowsStep, Settles
      <4> QED
        BY <1>1, <4>3, <4>4, ImportedGrows
    <3>4. PulledOK'
      BY <2>2, <3>2, <3>3 DEF PulledOK
    <3> QED
      BY <1>2, <3>4 DEF AnswerOK
  <2> QED
    BY <1>1, <1>2, <2>1, <2>2 DEF AnswerOK
<1>3. CASE sync.pc = "ack"
  <2>1. sync.cursor \in Nat
    BY <1>1, <1>3, SyncShape, RelayAssumption DEF PageType, Sequence
  <2>2. released \in Nat /\ released' \in Nat /\ released <= released'
    BY <1>1, LenProperties DEF MarksInv, MarksStep, Advances
  <2> QED
    BY <1>1, <1>3, <2>1, <2>2 DEF AnswerOK
<1>4. CASE sync.pc = "replies"
  <2>1. taken \in Nat /\ taken' \in Nat /\ taken <= taken'
    BY <1>1, LenProperties DEF RepliesInv, RepliesStep, Delivers
  <2>2. 0..taken \subseteq 0..taken'
    BY <2>1
  <2> QED
    BY <1>1, <1>4, <2>2 DEF AnswerOK
<1>5. CASE sync.pc \notin {"pull", "ack", "replies"}
  BY <1>1, <1>5 DEF AnswerOK
<1> QED
  BY <1>2, <1>3, <1>4, <1>5

LEMMA NoAnswerOK ==
  ASSUME answer' = NoAnswer
  PROVE  AnswerOK'
BY DEF AnswerOK

LEMMA EndSyncOK ==
  ASSUME sync' = Idle, answer' = NoAnswer
  PROVE  SyncOK' /\ AnswerOK'
BY NoAnswerOK DEF SyncOK

LEMMA SyncStartOK ==
  ASSUME RelayInv, SyncStart
  PROVE  SyncOK' /\ AnswerOK'
<1>1. sync' \in PullType /\ sync'.after = imported /\ imported' = imported /\ answer' = NoAnswer
  BY RelayAssumption DEF SyncStart, Page, PullType, RelayInv, RowsInv, RowTypes, MarksInv, homeRelay
<1> QED
  BY <1>1, NoAnswerOK, RelayAssumption DEF SyncOK, RelayInv, MarksInv, Sequence

(* The answers that wait follow those the worker server is known to have.   *)
LEMMA RepliesDueOK ==
  ASSUME RepliesInv
  PROVE  DueOK(RepliesDue)
<1>1. delivered \in Nat /\ taken \in Nat /\ Len(toWorker) \in Nat /\ delivered <= taken
  BY LenProperties DEF RepliesInv, AnswersAgree
<1>2. Smaller(delivered + PageSize, Len(toWorker)) \in Nat
      /\ Smaller(delivered + PageSize, Len(toWorker)) <= Len(toWorker)
  BY <1>1, RelayAssumption DEF Smaller
<1> QED
  BY <1>1, <1>2 DEF RepliesDue, DueOK

LEMMA ProceedOK ==
  ASSUME MarksInv, RowsStep, MarksStep, imported' = imported, NEW due, NEW mark,
         Proceed(due, mark), sync \in PageType \cup RepliesType,
         due # {} => /\ due \subseteq 1..Len(toWorker')
                     /\ \A s \in due : (taken' + 1)..s \subseteq due
  PROVE  SyncOK' /\ AnswerOK'
<1>1. AnswerOK'
  BY NoAnswerOK DEF Proceed
<1>2. sync.full \in BOOLEAN /\ sync.pages \in 1..MaxPages
  BY DEF PageType, RepliesType
<1>3. CASE due # {}
  <2>1. sync' = [pc |-> "replies", due |-> due, full |-> sync.full, pages |-> sync.pages]
    BY <1>3 DEF Proceed
  <2>2. due \in SUBSET Nat
    BY <1>3
  <2>3. sync' \in RepliesType /\ sync'.due = due
    BY <1>2, <2>1, <2>2 DEF RepliesType
  <2>4. DueOK(sync.due)'
    BY <1>3, <2>3 DEF DueOK
  <2> QED
    BY <1>1, <2>3, <2>4 DEF SyncOK
<1>4. CASE due = {} /\ sync.full /\ sync.pages > 1
  <2>1. sync' = Page(imported, acknowledged', epochSeen', sync.pages - 1)
    BY <1>4 DEF Proceed
  <2>2. /\ imported \in Sequence /\ acknowledged' \in Sequence /\ epochSeen' \in 0..MaxEpoch
        /\ sync.pages - 1 \in 1..MaxPages
    <3>1. sync.pages - 1 \in 1..MaxPages
      BY <1>2, <1>4, RelayAssumption
    <3> QED
      BY <3>1 DEF MarksInv, MarksStep, RowsStep, RowsInv, RowTypes
  <2>3. sync' \in PullType /\ sync'.after = imported
    BY <2>1, <2>2 DEF Page, PullType
  <2>4. sync'.after <= imported'
    BY <2>2, <2>3, RelayAssumption DEF Sequence
  <2> QED
    BY <1>1, <2>3, <2>4 DEF SyncOK
<1>5. CASE due = {} /\ ~(sync.full /\ sync.pages > 1)
  BY <1>1, <1>5 DEF Proceed, SyncOK
<1> QED
  BY <1>3, <1>4, <1>5

(* A page arrives as the worker server read it. *)
LEMMA RemotePullOK ==
  ASSUME RelayInv, RowsStep, MarksStep, RepliesStep, RemotePull
  PROVE  SyncOK' /\ AnswerOK'
<1>1. SyncOK'
  BY SyncKept DEF RemotePull
<1>2. /\ sync.pc = "pull" /\ sync' = sync /\ sync \in PullType /\ sync.after <= imported
      /\ MarksInv /\ RowsInv
  BY SyncShape DEF RemotePull, RelayInv
<1> DEFINE from == IF Settling THEN released ELSE sync.after
           to == Smaller(from + PageSize, Len(toHome))
           items == [i \in 1..(to - from) |-> [sequence |-> from + i,
                                               id |-> toHome[from + i].id,
                                               kind |-> toHome[from + i].kind]]
<1>3. answer' = Refusal \/ answer' = [ok |-> TRUE, epoch |-> epoch, items |-> items]
  BY DEF RemotePull
<1>4. /\ from \in Nat /\ from <= imported /\ from <= Len(toHome) /\ Len(toHome) \in Nat
      /\ Len(toHome) <= MaxMessages
  <2>1. sync.after \in Nat
    BY <1>2, RelayAssumption DEF PullType, Sequence
  <2>2. released \in Nat /\ imported \in Nat /\ released <= imported /\ imported <= Len(toHome)
    BY <1>2, RelayAssumption, LenProperties DEF MarksInv, ReleasedOnceImported, Sequence
  <2> QED
    BY <1>2, <2>1, <2>2, QueueBound DEF MarksInv
<1>5. to \in Nat /\ to <= Len(toHome) /\ from <= to
  BY <1>4, RelayAssumption DEF Smaller
<1> HIDE DEF from, to
<1>6. ASSUME NEW i \in 1..(to - from)
      PROVE  /\ from + i \in DOMAIN toHome /\ from + i \in Sequence
             /\ items[i] \in ItemType /\ items[i].sequence = from + i /\ told[items[i].id] # "none"
  <2>1. from + i \in 1..Len(toHome)
    BY <1>4, <1>5
  <2>2. from + i \in DOMAIN toHome /\ from + i \in Sequence
    BY <1>2, <1>4, <2>1, LenProperties, RelayAssumption DEF MarksInv, Sequence
  <2>3. /\ toHome[from + i].id \in Message /\ toHome[from + i].kind \in Kinds
        /\ told[toHome[from + i].id] # "none"
    BY <1>2, <2>2, SentId DEF MarksInv
  <2>4. items[i] = [sequence |-> from + i, id |-> toHome[from + i].id, kind |-> toHome[from + i].kind]
    OBVIOUS
  <2> QED
    BY <2>2, <2>3, <2>4 DEF ItemType
<1>7. items \in Seq(ItemType) /\ DOMAIN items = 1..(to - from) /\ Len(items) = to - from
  <2>1. to - from \in Nat
    BY <1>4, <1>5
  <2>2. items \in [1..(to - from) -> ItemType]
    BY <1>6
  <2> QED
    BY <2>1, <2>2, SeqDef, LenProperties
<1> HIDE DEF items
<1>8. CASE answer' = Refusal
  BY <1>1, <1>2, <1>8 DEF AnswerOK, Calls
<1>9. CASE answer' = [ok |-> TRUE, epoch |-> epoch, items |-> items]
  <2>1. answer'.items = items /\ answer' \in [ok : {TRUE}, epoch : 1..MaxEpoch, items : Seq(ItemType)]
    BY <1>2, <1>7, <1>9 DEF RowsInv, RowTypes
  <2>2. UNCHANGED <<imported, toHome, told>>
    BY DEF RemotePull, homeRelay, remoteVars
  <2>3. \A i \in DOMAIN answer'.items : ItemOK(answer.items[i])'
    <3> SUFFICES ASSUME NEW i \in DOMAIN items PROVE ItemOK(answer.items[i])'
      BY <2>1
    <3>1. from + i \in 1..Len(toHome) /\ items[i].sequence = from + i /\ told[items[i].id] # "none"
      BY <1>2, <1>6, <1>7, LenProperties DEF MarksInv
    <3> QED
      BY <2>1, <2>2, <3>1 DEF ItemOK
  <2>4. Settling' /\ answer'.items # <<>> => answer'.items[1].sequence - 1 <= imported'
    <3> SUFFICES ASSUME items # <<>> PROVE items[1].sequence - 1 <= imported
      BY <2>1, <2>2
    <3>1. 1 \in 1..(to - from) /\ 1 \in DOMAIN items
      BY <1>4, <1>5, <1>7, EmptySeq
    <3>2. items[1].sequence = from + 1
      BY <1>6, <1>7, <3>1
    <3> QED
      BY <1>4, <3>2
  <2>5. PulledOK'
    BY <2>1, <2>3, <2>4 DEF PulledOK
  <2> QED
    BY <1>1, <1>2, <2>5 DEF AnswerOK
<1> QED
  BY <1>3, <1>8, <1>9

LEMMA PullAnsweredOK ==
  ASSUME RelayInv, PullAnswered
  PROVE  SyncOK' /\ AnswerOK'
<1>1. /\ sync \in PullType /\ sync.after <= imported /\ sync.pc = "pull" /\ PulledOK
      /\ MarksInv /\ RowsInv
  BY SyncShape DEF PullAnswered, RelayInv, AnswerOK, Refusal
<1>2. UNCHANGED <<protocol, imported, toHome, told>>
  BY DEF PullAnswered, homeRelay, remoteVars
<1> DEFINE before == IF Settling /\ answer.items # <<>>
                     THEN answer.items[1].sequence - 1 ELSE sync.after
           known == Larger(IF checkpoint.epoch = answer.epoch THEN checkpoint.through ELSE 0,
                           IF sync.seen = answer.epoch THEN sync.durable ELSE 0)
<1>3. sync' = [pc |-> "page", items |-> answer.items, epoch |-> answer.epoch, done |-> 0,
               cursor |-> before, full |-> Len(answer.items) = PageSize,
               settlements |-> {}, acked |-> known, pages |-> sync.pages]
  BY DEF PullAnswered
<1>4. before \in Sequence /\ before <= imported
  <2>1. CASE Settling /\ answer.items # <<>>
    <3>1. 1 \in DOMAIN answer.items /\ answer.items \in Seq(ItemType)
      BY <1>1, <2>1, LenProperties, EmptySeq DEF PulledOK
    <3>2. answer.items[1] \in ItemType
      BY <3>1, PageItem
    <3>3. answer.items[1].sequence \in Sequence /\ answer.items[1].sequence >= 1
      BY <1>1, <3>1, <3>2 DEF ItemType, PulledOK, ItemOK
    <3> QED
      BY <1>1, <2>1, <3>3, RelayAssumption DEF PulledOK, Sequence
  <2>2. CASE ~(Settling /\ answer.items # <<>>)
    BY <1>1, <2>2 DEF PullType
  <2> QED
    BY <2>1, <2>2
<1>5. known \in Nat
  BY <1>1, RelayAssumption DEF Larger, PullType, MarksInv, Sequence
<1>6. /\ answer.items \in Seq(ItemType) /\ answer.epoch \in 1..MaxEpoch /\ sync.pages \in 1..MaxPages
      /\ \A i \in DOMAIN answer.items : ItemOK(answer.items[i])
  BY <1>1 DEF PulledOK, PullType
<1> HIDE DEF before, known
<1>7. sync' \in PageType
  BY <1>3, <1>4, <1>5, <1>6 DEF PageType
<1>8. PageOK'
  <2>1. sync'.items = answer.items /\ sync'.cursor = before /\ sync'.settlements = {} /\ sync'.pc = "page"
    BY <1>3
  <2>2. \A i \in DOMAIN sync'.items : ItemOK(sync.items[i])'
    BY <1>2, <1>6, <2>1 DEF ItemOK
  <2> QED
    BY <1>2, <1>4, <2>1, <2>2 DEF PageOK, SettlementsOK
<1> QED
  BY <1>7, <1>8, NoAnswerOK DEF SyncOK, PullAnswered

(* An imported report adds its verdict, which the Run home has just given.  *)
LEMMA ImportItemOK ==
  ASSUME RelayInv, RowsStep, MarksStep, ImportItem
  PROVE  SyncOK' /\ AnswerOK'
<1> PICK item : item = sync.items[sync.done + 1]
  OBVIOUS
<1>1. /\ sync \in PageType /\ PageOK /\ item \in ItemType /\ ItemOK(item) /\ sync.pc = "page"
      /\ RowsInv /\ MarksInv /\ SyncOK /\ AnswerOK /\ sync.done < Len(sync.items)
  BY CurrentItem DEF RelayInv, ImportItem
<1>2. UNCHANGED <<toHome, told, answer>> /\ imported' = Larger(imported, item.sequence)
  BY DEF ImportItem, remoteVars
<1> PICK st : st = [sequence |-> item.sequence, verdict |-> Verdict(item.kind)]
  OBVIOUS
<1> PICK new : new = IF Settling /\ item.kind \in Reports THEN sync.settlements \cup {st}
                                                          ELSE sync.settlements
  OBVIOUS
<1>3. sync' = [sync EXCEPT !.done = @ + 1, !.cursor = item.sequence, !.settlements = new]
  BY DEF ImportItem
<1>4. /\ new \subseteq SettlementType
      /\ \A s \in new : /\ s.sequence \in 1..Len(toHome')
                        /\ s.verdict \in Reports => Decided(s.verdict)'
  <2>1. /\ sync.settlements \subseteq SettlementType
        /\ \A s \in sync.settlements : /\ s.sequence \in 1..Len(toHome')
                                       /\ s.verdict \in Reports => Decided(s.verdict)'
    BY <1>1, SettlementsKept DEF PageOK
  <2>2. CASE Settling /\ item.kind \in Reports
    <3>1. Verdict(item.kind) \in Verdicts
      BY <2>2 DEF Verdict, Verdicts
    <3>2. st \in SettlementType /\ st.sequence = item.sequence /\ st.verdict = Verdict(item.kind)
      BY <1>1, <3>1 DEF SettlementType, ItemType
    <3>3. st.verdict \in Reports => st.verdict = item.kind /\ Decided(item.kind)'
      BY <1>1, <2>2, <3>2, ImportItemRows DEF Reports
    <3>4. st.verdict \in Reports => Decided(st.verdict)'
      <4> SUFFICES ASSUME st.verdict \in Reports PROVE Decided(st.verdict)'
        OBVIOUS
      <4>1. st.verdict = item.kind
        BY <3>3
      <4>2. Decided(item.kind)'
        BY <3>3
      <4> QED
        BY <4>1, <4>2 DEF Decided
    <3>5. st.sequence \in 1..Len(toHome')
      BY <1>1, <1>2, <3>2 DEF ItemOK
    <3> QED
      BY <2>1, <2>2, <3>2, <3>4, <3>5
  <2> QED
    BY <2>1, <2>2
<1>5. item.sequence \in Sequence /\ item.sequence <= imported'
  BY <1>1, <1>2, RelayAssumption DEF ItemType, Larger, Sequence, MarksInv
<1>6. /\ sync' \in PageType /\ sync'.items = sync.items /\ sync'.cursor = item.sequence
      /\ sync'.settlements = new /\ sync'.pc = "page"
  <2>1. new \subseteq SettlementType /\ item.sequence \in Sequence /\ sync \in PageType
    BY <1>1, <1>4, <1>5
  <2>2. sync.pc = "page" /\ sync.done + 1 \in Nat
    BY <1>1 DEF PageType
  <2> QED
    BY <1>3, <2>1, <2>2 DEF PageType
<1>7. PageOK'
  <2>1. \A i \in DOMAIN sync'.items : ItemOK(sync.items[i])'
    BY <1>1, <1>2, <1>6 DEF PageOK, ItemOK
  <2>2. SettlementsOK(sync.settlements)'
    BY <1>4, <1>6 DEF SettlementsOK
  <2> QED
    BY <1>5, <1>6, <2>1, <2>2 DEF PageOK
<1>8. AnswerOK'
  BY <1>1, <1>2, NoAnswerOK DEF AnswerOK
<1> QED
  BY <1>6, <1>7, <1>8 DEF SyncOK

LEMMA PageImportedOK ==
  ASSUME RelayInv, RowsStep, MarksStep, RepliesStep, PageImported
  PROVE  SyncOK' /\ AnswerOK'
<1>1. /\ sync \in PageType /\ PageOK /\ sync.pc = "page" /\ answer = NoAnswer
      /\ MarksInv /\ RowsInv /\ RepliesInv
  BY SyncShape DEF PageImported, RelayInv, AnswerOK
<1>2. UNCHANGED <<imported, toHome, told, protocol, homeRows, toWorker, taken, attach>>
  BY DEF PageImported, homeRelay, homeReplies, remoteVars
<1>3. CASE sync.cursor > sync.acked /\ sync' = [sync EXCEPT !.pc = "ack"] /\ UNCHANGED answer
  <2>1. sync.cursor > 0
    BY <1>1, <1>3, RelayAssumption DEF PageType, Sequence
  <2>2. /\ sync' \in PageType /\ sync'.items = sync.items /\ sync'.cursor = sync.cursor
        /\ sync'.settlements = sync.settlements /\ sync'.pc = "ack"
    BY <1>1, <1>3 DEF PageType
  <2>3. \A i \in DOMAIN sync'.items : ItemOK(sync.items[i])'
    BY <1>1, <1>2, <2>2 DEF PageOK, ItemOK
  <2>4. SettlementsOK(sync.settlements)'
    BY <1>1, <2>2, SettlementsKept DEF PageOK, SettlementsOK
  <2>5. PageOK'
    BY <1>1, <1>2, <2>1, <2>2, <2>3, <2>4 DEF PageOK
  <2> QED
    BY <1>1, <1>3, <2>2, <2>5, NoAnswerOK DEF SyncOK
<1>4. CASE Proceed(RepliesDue, checkpoint)
  BY <1>1, <1>2, <1>4, RepliesDueOK, ProceedOK DEF DueOK
<1> QED
  BY <1>3, <1>4 DEF PageImported

LEMMA RemoteAckOK ==
  ASSUME RelayInv, RowsStep, MarksStep, RepliesStep, RemoteAck
  PROVE  SyncOK' /\ AnswerOK'
<1>1. SyncOK'
  BY SyncKept DEF RemoteAck
<1>2. /\ sync \in PageType /\ PageOK /\ sync.pc = "ack" /\ sync' = sync
      /\ MarksInv /\ RowsInv /\ Settles
  BY SyncShape DEF RemoteAck, RelayInv, RowsStep
<1>3. answer' = [ok |-> AckAccepted(sync.cursor, sync.settlements), through |-> sync.cursor]
  BY DEF RemoteAck
<1>4. sync.cursor \in Nat /\ sync.cursor <= imported /\ SettlementsOK(sync.settlements)
  BY <1>2, RelayAssumption DEF PageType, PageOK, Sequence
<1>5. AckAccepted(sync.cursor, sync.settlements) => sync.cursor <= released'
  BY <1>2, <1>4, AcknowledgeMarks DEF RemoteAck, homeRelay, homeRows
<1>6. AckAccepted(sync.cursor, sync.settlements) \in BOOLEAN
  <2>1. AckAllowed(sync.cursor, sync.settlements) \in BOOLEAN
    BY Zenon DEF AckAllowed
  <2>2. CASE Known(sync.cursor) = {}
    <3>1. AckAccepted(sync.cursor, sync.settlements) = AckAllowed(sync.cursor, sync.settlements)
      BY <2>2 DEF AckAccepted
    <3> QED
      BY <2>1, <3>1
  <2>3. CASE Known(sync.cursor) # {}
    <3>1. AckAccepted(sync.cursor, sync.settlements)
            = ([through |-> sync.cursor, settlements |-> sync.settlements] \in acks)
      BY <2>3 DEF AckAccepted
    <3>2. ([through |-> sync.cursor, settlements |-> sync.settlements] \in acks) \in BOOLEAN
      OBVIOUS
    <3> QED
      BY <3>1, <3>2, Zenon
  <2> QED
    BY <2>2, <2>3
<1> QED
  BY <1>1, <1>2, <1>3, <1>5, <1>6 DEF AnswerOK

LEMMA RemoteImportOK ==
  ASSUME RelayInv, RowsStep, MarksStep, RepliesStep, RemoteImport
  PROVE  SyncOK' /\ AnswerOK'
<1>1. SyncOK'
  BY SyncKept DEF RemoteImport
<1>2. sync.pc = "replies" /\ sync' = sync /\ answer' = [ok |-> Importing(sync.due), through |-> taken']
  BY DEF RemoteImport
<1>3. taken' \in 0..taken'
  BY LenProperties DEF RepliesStep, RepliesInv
<1>4. Importing(sync.due) \in BOOLEAN
  BY DEF Importing
<1> QED
  BY <1>1, <1>2, <1>3, <1>4 DEF AnswerOK

LEMMA CallsPreserved ==
  ASSUME RelayInv, RowsStep, MarksStep, RepliesStep, [Next]_vars
  PROVE  SyncOK' /\ AnswerOK'
<1>1. ASSUME \/ UNCHANGED vars \/ HomeStep \/ RemoteStep
             \/ StartTimedOut \/ StopTimedOut \/ RemoteCrash \/ LateAck \/ LateImport \/ LateStop
      PROVE  SyncOK' /\ AnswerOK'
  <2>1. sync' = sync /\ answer' = answer
    <3>1. CASE UNCHANGED vars \/ HomeStep
      BY <3>1 DEF vars, HomeStep, StartAnswered, StopAnswered, BeginStop, RemoteShow, ShowAnswered,
         Abandon, Retry, AnswerQuestion, homeMemory
    <3>2. CASE RemoteStep
      BY <3>2 DEF RemoteStep, RemoteAttach, RemoteStarted, RemoteStop, RemoteStopped, WorkerSend,
         homeMemory
    <3>3. CASE StartTimedOut \/ StopTimedOut \/ RemoteCrash \/ LateAck \/ LateImport \/ LateStop
      BY <3>3 DEF StartTimedOut, StopTimedOut, RemoteCrash, LateAck, LateImport, LateStop, homeMemory
    <3> QED
      BY <1>1, <3>1, <3>2, <3>3
  <2> QED
    BY <2>1, SyncKept, AnswerKept
<1>2. ASSUME \/ ImportThrows \/ SyncRefused \/ SyncTimedOut \/ HomeCrash
             \/ (\E m \in Message : AnswerTorn(m))
      PROVE  SyncOK' /\ AnswerOK'
  BY <1>2, EndSyncOK DEF ImportThrows, SyncRefused, SyncTimedOut, HomeCrash, AnswerTorn,
     LoseHomeMemory, EndSync
<1>3. ASSUME SyncTick PROVE SyncOK' /\ AnswerOK'
  BY <1>3, SyncStartOK DEF SyncTick
<1>4. ASSUME AckAnswered PROVE SyncOK' /\ AnswerOK'
  <2>1. sync \in PageType /\ MarksInv /\ RepliesInv
    BY <1>4, SyncShape DEF AckAnswered, RelayInv
  <2>2. PICK mark : Proceed(RepliesDue, mark)
    BY <1>4 DEF AckAnswered
  <2>3. UNCHANGED <<imported, toWorker, taken>>
    BY <1>4 DEF AckAnswered, homeReplies, remoteVars
  <2> QED
    BY <2>1, <2>2, <2>3, RepliesDueOK, ProceedOK DEF DueOK
<1>5. ASSUME RepliesAnswered PROVE SyncOK' /\ AnswerOK'
  <2>1. sync \in RepliesType /\ MarksInv
    BY <1>5, SyncShape DEF RepliesAnswered, RelayInv
  <2>2. Proceed({}, checkpoint) /\ imported' = imported
    BY <1>5 DEF RepliesAnswered, homeRelay
  <2> QED
    BY <2>1, <2>2, ProceedOK
<1> QED
  BY <1>1, <1>2, <1>3, <1>4, <1>5, PullAnsweredOK, ImportItemOK, PageImportedOK, RemotePullOK,
     RemoteAckOK, RemoteImportOK DEF Next, RelayStep, ServeRelay, FaultStep

-----------------------------------------------------------------------------
(* Requests served late, and the invariant as a whole *)

LEMMA RequestKept ==
  ASSUME RelayInv, RowsStep, MarksStep, RepliesStep, NEW request, RequestOK(request)
  PROVE  RequestOK(request)'
<1>1. RowsInv /\ MarksInv /\ RepliesInv
  BY DEF RelayInv
<1>2. ASSUME request.call = "ack"
      PROVE  /\ request.through \in Nat /\ request.through <= imported'
             /\ SettlementsOK(request.settlements)'
  <2>1. request.through \in Nat /\ request.through <= imported /\ SettlementsOK(request.settlements)
    BY <1>2 DEF RequestOK
  <2>2. request.through <= imported'
    BY <1>1, <2>1, ImportedGrows
  <2> QED
    BY <1>1, <2>1, <2>2, SettlementsKept DEF SettlementsOK
<1>3. ASSUME request.call = "replies" PROVE DueOK(request.due)'
  <2>1. DueOK(request.due)
    BY <1>3 DEF RequestOK
  <2> QED
    BY <1>1, <2>1, DueKept DEF DueOK
<1> QED
  BY <1>2, <1>3 DEF RequestOK

(* What an abandoned call leaves behind is what it carried.                 *)
LEMMA LeftoversOK ==
  ASSUME RelayInv, NEW request \in Leftovers
  PROVE  RequestOK(request)
<1>1. MarksInv /\ SyncOK
  BY DEF RelayInv
<1>2. CASE sync.pc = "ack" /\ request = [call |-> "ack", through |-> sync.cursor,
                                         settlements |-> sync.settlements]
  <2>1. sync \in PageType /\ PageOK
    BY <1>1, <1>2, SyncShape
  <2>2. sync.cursor \in Nat /\ sync.cursor <= imported /\ SettlementsOK(sync.settlements)
    BY <2>1, RelayAssumption DEF PageType, PageOK, Sequence
  <2>3. /\ request.call = "ack" /\ request.through = sync.cursor
        /\ request.settlements = sync.settlements
    BY <1>2
  <2> QED
    BY <2>2, <2>3 DEF RequestOK
<1>3. CASE sync.pc = "replies" /\ request = [call |-> "replies", due |-> sync.due]
  <2>1. DueOK(sync.due)
    BY <1>1, <1>3, SyncShape
  <2>2. request.call = "replies" /\ request.due = sync.due
    BY <1>3
  <2> QED
    BY <2>1, <2>2 DEF RequestOK
<1>4. CASE request \in {[call |-> "start"], [call |-> "stop"]}
  BY <1>4 DEF RequestOK
<1> QED
  BY <1>2, <1>3, <1>4 DEF Leftovers, SyncLeftovers

LEMMA LatePreserved ==
  ASSUME RelayInv, RowsStep, MarksStep, RepliesStep, [Next]_vars
  PROVE  LateOK' /\ faults' \in 0..MaxFaults
<1>1. late' \subseteq late \cup Leftovers \cup {[call |-> "start"], [call |-> "stop"]}
  <2>1. CASE UNCHANGED vars \/ RelayStep
    BY <2>1 DEF vars, RelayStep, SyncTick, SyncStart, PullAnswered, ImportItem, ImportThrows,
       PageImported, AckAnswered, RepliesAnswered, SyncRefused
  <2>2. CASE ServeRelay \/ RemoteStep
    BY <2>2 DEF ServeRelay, RemotePull, RemoteAck, RemoteImport, RemoteStep, RemoteAttach,
       RemoteStarted, RemoteStop, RemoteStopped, WorkerSend
  <2>3. CASE HomeStep
    BY <2>3 DEF HomeStep, StartAnswered, StopAnswered, BeginStop, RemoteShow, ShowAnswered,
       Abandon, Retry, AnswerQuestion
  <2>4. CASE FaultStep
    BY <2>4 DEF FaultStep, StartTimedOut, StopTimedOut, SyncTimedOut, HomeCrash, RemoteCrash,
       LateAck, LateImport, LateStop, AnswerTorn, LoseHomeMemory, Leftovers
  <2> QED
    BY <2>1, <2>2, <2>3, <2>4 DEF Next
<1>2. ASSUME NEW request \in late' PROVE RequestOK(request)'
  <2>1. RequestOK(request)
    BY <1>1, <1>2, LeftoversOK DEF RelayInv, LateOK, RequestOK
  <2> QED
    BY <2>1, RequestKept
<1>3. faults' \in 0..MaxFaults
  <2>1. faults' = faults \/ (faults < MaxFaults /\ faults' = faults + 1)
    <3>1. CASE UNCHANGED vars \/ RelayStep
      BY <3>1 DEF vars, RelayStep, SyncTick, SyncStart, PullAnswered, ImportItem, ImportThrows,
         PageImported, AckAnswered, RepliesAnswered, SyncRefused
    <3>2. CASE ServeRelay \/ RemoteStep
      BY <3>2 DEF ServeRelay, RemotePull, RemoteAck, RemoteImport, RemoteStep, RemoteAttach,
         RemoteStarted, RemoteStop, RemoteStopped, WorkerSend
    <3>3. CASE HomeStep
      BY <3>3 DEF HomeStep, StartAnswered, StopAnswered, BeginStop, RemoteShow, ShowAnswered,
         Abandon, Retry, AnswerQuestion
    <3>4. CASE FaultStep
      BY <3>4 DEF FaultStep, StartTimedOut, StopTimedOut, SyncTimedOut, HomeCrash, RemoteCrash,
         LateAck, LateImport, LateStop, AnswerTorn, LoseHomeMemory, Fault
    <3> QED
      BY <3>1, <3>2, <3>3, <3>4 DEF Next
  <2> QED
    BY <2>1, RelayAssumption DEF RelayInv
<1> QED
  BY <1>2, <1>3 DEF LateOK

LEMMA RelayInit ==
  ASSUME Init
  PROVE  RelayInv
<1>1. RowsInv
  BY RelayAssumption DEF Init, RowsInv, RowTypes, RowsOK, AttachOK, OutcomeFromRunHome, WorkerStates,
     AttachStates, LiveStates, SettledAttach, Lost, NotShown, Sequence, Reports
<1>2. MarksInv
  <2>1. /\ Len(toHome) = 0 /\ DOMAIN toHome = {} /\ toHome \in Seq([id : Message, kind : Kinds])
        /\ inbox \in Seq([id : Message, rejected : BOOLEAN])
    BY EmptySeq DEF Init
  <2>2. /\ told \in [Message -> Verdicts \cup {"none", "waiting"}]
        /\ \A m \in Message : told[m] = "none"
    BY DEF Init
  <2>3. MessagesSent = 0
    <3>1. {m \in Message : told[m] # "none"} = {}
      BY <2>2
    <3> QED
      BY <3>1, FS_EmptySet DEF MessagesSent
  <2>4. /\ imported = 0 /\ acknowledged = 0 /\ released = 0 /\ acks = {}
        /\ checkpoint = [epoch |-> 0, through |-> 0]
    BY DEF Init, NoCheckpoint
  <2>5. /\ imported \in Sequence /\ acknowledged \in Sequence
        /\ checkpoint \in [epoch : 0..MaxEpoch, through : Sequence] /\ checkpoint.through = 0
    BY <2>4, RelayAssumption DEF Sequence
  <2>6. \A m \in Message : told[m] # "none" <=> m <= MessagesSent
    BY <2>2, <2>3 DEF Message
  <2>7. ToldTheVerdict
    BY <2>2 DEF ToldTheVerdict, Reports
  <2>8. ReleasedOnceImported
    BY <2>4, <2>5 DEF ReleasedOnceImported
  <2> QED
    BY <2>1, <2>2, <2>3, <2>4, <2>5, <2>6, <2>7, <2>8 DEF MarksInv
<1>3. RepliesInv
  <2>1. /\ Len(toWorker) = 0 /\ DOMAIN toWorker = {} /\ toWorker \in Seq(Message)
    BY EmptySeq DEF Init
  <2>2. delivered = 0 /\ taken = 0
    BY DEF Init
  <2> QED
    BY <2>1, <2>2 DEF Init, RepliesInv, AnswersAgree
<1>4. SyncOK /\ AnswerOK /\ LateOK /\ faults \in 0..MaxFaults
  BY RelayAssumption DEF Init, SyncOK, AnswerOK, LateOK, Idle
<1> QED
  BY <1>1, <1>2, <1>3, <1>4 DEF RelayInv

(* A step preserves the invariant: rows first, then watermarks, then        *)
(* answers, then what is in flight.                                         *)
LEMMA RelayPreserved ==
  ASSUME RelayInv, [Next]_vars
  PROVE  RelayInv' /\ RowsStep /\ MarksStep /\ RepliesStep
<1>1. RowsStep
  BY RowsPreserved
<1>2. MarksStep
  BY <1>1, MarksPreserved
<1>3. RepliesStep
  BY <1>1, <1>2, RepliesPreserved
<1>4. SyncOK' /\ AnswerOK'
  BY <1>1, <1>2, <1>3, CallsPreserved
<1>5. LateOK' /\ faults' \in 0..MaxFaults
  BY <1>1, <1>2, <1>3, LatePreserved
<1> QED
  BY <1>1, <1>2, <1>3, <1>4, <1>5 DEF RelayInv, RowsStep, MarksStep, RepliesStep

LEMMA RelayInvariant == Spec => []RelayInv
<1>1. Init => RelayInv
  BY RelayInit
<1>2. RelayInv /\ [Next]_vars => RelayInv'
  BY RelayPreserved
<1> QED
  BY <1>1, <1>2, PTL DEF Spec

-----------------------------------------------------------------------------
(* Theorems *)

(* Every column and local of both servers holds a value of its type.        *)
THEOREM TypeCorrect == Spec => []TypeOK
<1>1. RelayInv => TypeOK
  <2> SUFFICES ASSUME RelayInv PROVE TypeOK
    OBVIOUS
  <2>1. RowTypes /\ MarksInv /\ RepliesInv /\ SyncOK /\ faults \in 0..MaxFaults
    BY DEF RelayInv, RowsInv
  <2>2. sync.pc \in Calls \cup {"idle"}
    BY <2>1, SyncShape
  <2> QED
    BY <2>1, <2>2 DEF RowTypes, MarksInv, RepliesInv, TypeOK
<1> QED
  BY <1>1, RelayInvariant, PTL

(* No acknowledgment, repeated, late or remembered, releases an item of the *)
(* relay that the Run home has not imported.                                *)
THEOREM NothingLost == Spec => []ReleasedOnceImported
<1>1. RelayInv => ReleasedOnceImported
  BY DEF RelayInv, MarksInv
<1> QED
  BY <1>1, RelayInvariant, PTL

(* A settled attachment has the outcome that the Run home recorded.         *)
THEOREM OutcomesAgree == Spec => []OutcomeFromRunHome
<1>1. RelayInv => OutcomeFromRunHome
  BY DEF RelayInv, RowsInv
<1> QED
  BY <1>1, RelayInvariant, PTL

(* A worker that is told its report settled the Task was told so by the Run *)
(* home that settled it.                                                    *)
THEOREM VerdictsAgree == Spec => []ToldTheVerdict
<1>1. RelayInv => ToldTheVerdict
  BY DEF RelayInv, MarksInv
<1> QED
  BY <1>1, RelayInvariant, PTL

(* Answers reach the worker only if given, and none that the Run home       *)
(* counts as delivered is missing on the worker server.                     *)
THEOREM AnswersDelivered == Spec => []AnswersAgree
<1>1. RelayInv => AnswersAgree
  BY DEF RelayInv, RepliesInv
<1> QED
  BY <1>1, RelayInvariant, PTL

(* The result of a withdrawn dispatch, and that it was withdrawn, stay.     *)
LEMMA WithdrawnKept ==
  ASSUME RelayInv, [Next]_vars, worker \in {"stopped", "abandoned"}
  PROVE  result' = result /\ worker' \in {worker, "abandoned"}
<1>1. ctx = "failed" /\ RowsInv
  BY DEF RelayInv, RowsInv, RowsOK
<1>2. CASE UNCHANGED vars \/ ServeRelay \/ RemoteStep
  BY <1>2 DEF vars, ServeRelay, RemotePull, RemoteAck, RemoteImport, RemoteStep, RemoteAttach,
     RemoteStarted, RemoteStop, RemoteStopped, WorkerSend, homeRows
<1>3. CASE RelayStep
  <2>1. CASE ImportItem
    <3>1. ~CanSettle
      BY <1>1 DEF CanSettle
    <3> QED
      BY <2>1, <3>1 DEF ImportItem, SettleReport, homeRows
  <2>2. CASE ~ImportItem
    BY <1>3, <2>2 DEF RelayStep, SyncTick, SyncStart, PullAnswered, ImportThrows, PageImported,
       AckAnswered, RepliesAnswered, SyncRefused, homeRows
  <2> QED
    BY <2>1, <2>2
<1>4. CASE HomeStep
  BY <1>1, <1>4 DEF HomeStep, StartAnswered, StopAnswered, BeginStop, RemoteShow, ShowAnswered,
     ReconcileStart, SettleHomeStop, Abandon, Retry, AnswerQuestion, homeRows
<1>5. CASE FaultStep
  BY <1>1, <1>5 DEF FaultStep, StartTimedOut, StopTimedOut, SyncTimedOut, HomeCrash, RemoteCrash,
     LateAck, LateImport, LateStop, AnswerTorn, LoseHomeMemory, homeRows
<1> QED
  BY <1>2, <1>3, <1>4, <1>5 DEF Next

(* No late, replayed or reordered report, and no answer of a call that was  *)
(* out when the operator withdrew the worker, settles its Task.             *)
THEOREM WithdrawnForGood == Spec => WithdrawnStays
<1>1. RelayInv /\ [Next]_vars =>
        [(worker \in {"stopped", "abandoned"})
           => (result' = result /\ worker' \in {worker, "abandoned"})]_vars
  BY WithdrawnKept
<1> QED
  BY <1>1, RelayInvariant, PTL DEF Spec, WithdrawnStays

==============================================================================
