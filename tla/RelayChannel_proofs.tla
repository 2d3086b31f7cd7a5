------------------------- MODULE RelayChannel_proofs -------------------------
(***************************************************************************)
(* FederationRelay implements RelayChannel as long as the worker sends no  *)
(* heartbeat: messages arrive each once and in order.  With heartbeats it  *)
(* does not, since a report takes the place of a heartbeat in a full queue *)
(* even when the Run home has imported that heartbeat already.             *)
(***************************************************************************)
EXTENDS FederationRelay_proofs

NoHeartbeats == "heartbeat" \notin Kinds

(* The n-th message the worker sent is the n-th item of the relay, wherever *)
(* the item is: in the queue, in the inbox, in a page.                      *)
RowsInOrder ==
  /\ Len(toHome) = MessagesSent /\ Len(inbox) = imported
  /\ \A s \in DOMAIN toHome : toHome[s].id = s
  /\ \A s \in DOMAIN inbox : inbox[s].id = s

Ordered(items) == \A i \in DOMAIN items : items[i].id = items[i].sequence
PageInOrder ==
  /\ sync.pc \in {"page", "ack"} => Ordered(sync.items)
  /\ sync.pc = "pull" /\ answer \notin {NoAnswer, Refusal} => Ordered(answer.items)

InOrder == RowsInOrder /\ PageInOrder

-----------------------------------------------------------------------------
(* Messages keep their places *)

LEMMA SendInOrder ==
  ASSUME NoHeartbeats, RelayInv, RowsInOrder, RowsStep, NEW kind \in Kinds, WorkerSend(kind)
  PROVE  /\ RowsInOrder'
         /\ toHome' = Append(toHome, [id |-> MessagesSent + 1, kind |-> kind])
         /\ MessagesSent + 1 \in Message
<1>1. MarksInv /\ Settles
  BY DEF RelayInv, RowsStep
<1>2. MessagesSent + 1 \in Message /\ MessagesSent' = MessagesSent + 1
  BY <1>1, WorkerSendMarks
<1>3. ~OverwriteHeartbeat(MessagesSent + 1, kind)
  <2>1. \A s \in DOMAIN toHome : toHome[s].kind # "heartbeat"
    BY <1>1, SentId DEF NoHeartbeats
  <2>2. Pending \subseteq DOMAIN toHome
    BY <1>1, LenProperties DEF Pending, MarksInv
  <2>3. Unacked("heartbeat") = {}
    BY <2>1, <2>2 DEF Unacked
  <2> QED
    BY <2>3 DEF OverwriteHeartbeat
<1> DEFINE item == [id |-> MessagesSent + 1, kind |-> kind]
<1>4. toHome' = Append(toHome, item)
  BY <1>3 DEF WorkerSend, Queue
<1>5. item \in [id : Message, kind : Kinds] /\ toHome \in Seq([id : Message, kind : Kinds])
  BY <1>1, <1>2 DEF MarksInv
<1>6. /\ Len(toHome') = Len(toHome) + 1 /\ DOMAIN toHome' = 1..(Len(toHome) + 1)
      /\ \A s \in 1..Len(toHome) : toHome'[s] = toHome[s]
      /\ toHome'[Len(toHome) + 1] = item
      /\ DOMAIN toHome = 1..Len(toHome) /\ Len(toHome) \in Nat
  BY <1>4, <1>5, AppendProperties, LenProperties
<1>7. UNCHANGED <<inbox, imported>>
  BY DEF WorkerSend, homeRelay
<1>8. \A s \in DOMAIN toHome' : toHome'[s].id = s
  <2> SUFFICES ASSUME NEW s \in 1..(Len(toHome) + 1) PROVE toHome'[s].id = s
    BY <1>6
  <2>1. CASE s = Len(toHome) + 1
    BY <1>6, <2>1 DEF RowsInOrder
  <2>2. CASE s \in 1..Len(toHome)
    BY <1>6, <2>2 DEF RowsInOrder
  <2> QED
    BY <1>6, <2>1, <2>2
<1>9. Len(toHome') = MessagesSent'
  BY <1>2, <1>6 DEF RowsInOrder
<1> QED
  BY <1>2, <1>4, <1>7, <1>8, <1>9 DEF RowsInOrder

(* An item that is imported is the next one, or one imported before.        *)
LEMMA ImportInOrder ==
  ASSUME RelayInv, RowsInOrder, PageInOrder, ImportItem
  PROVE  /\ RowsInOrder' /\ PageInOrder'
         /\ UNCHANGED <<toHome, released, attach, protocol>>
         /\ \/ inbox' = inbox
            \/ \E message \in [id : Message, rejected : BOOLEAN] :
                 /\ message.id = imported + 1 /\ inbox' = Append(inbox, message)
                 /\ imported < Len(toHome)
<1> PICK item : item = sync.items[sync.done + 1]
  OBVIOUS
<1>1. /\ sync \in PageType /\ item \in ItemType /\ ItemOK(item) /\ sync.pc = "page" /\ MarksInv
      /\ sync.done < Len(sync.items)
  BY CurrentItem DEF RelayInv, ImportItem
<1>2. item.id = item.sequence
  <2>1. sync.done + 1 \in DOMAIN sync.items
    BY <1>1, LenProperties DEF PageType
  <2> QED
    BY <1>1, <2>1 DEF PageInOrder, Ordered
<1>3. /\ imported' = Larger(imported, item.sequence)
      /\ UNCHANGED <<toHome, told, answer, released, attach, protocol>>
      /\ sync'.pc = sync.pc /\ sync'.items = sync.items
      /\ Duplicate(item) => InInbox(item.id)
      /\ ~Duplicate(item) => item.sequence = imported + 1
  BY <1>1 DEF ImportItem, Importable, remoteVars, PageType
<1>4. /\ inbox \in Seq([id : Message, rejected : BOOLEAN]) /\ Len(inbox) = imported
      /\ DOMAIN inbox = 1..imported /\ imported \in Nat
      /\ item.id \in Message /\ item.sequence \in Nat /\ item.sequence \in 1..Len(toHome)
      /\ Len(toHome) \in Nat /\ \A s \in DOMAIN inbox : inbox[s].id = s
  BY <1>1, LenProperties, RelayAssumption
     DEF MarksInv, RowsInOrder, Sequence, ItemType, ItemOK, Message
<1>5. PageInOrder'
  BY <1>1, <1>3 DEF PageInOrder
<1>6. MessagesSent' = MessagesSent
  BY <1>3 DEF MessagesSent
<1>7. CASE Duplicate(item)
  <2>1. inbox' = inbox
    BY <1>3, <1>7 DEF ImportItem, ImportMessage
  <2>2. imported' = imported
    BY <1>3, <1>4, <1>7 DEF Duplicate, Larger
  <2> QED
    BY <1>3, <1>5, <1>6, <2>1, <2>2 DEF RowsInOrder
<1>8. CASE ~Duplicate(item)
  <2>1. item.sequence = imported + 1 /\ imported' = imported + 1 /\ imported < Len(toHome)
    BY <1>3, <1>4, <1>8 DEF Larger
  <2>2. ~InInbox(item.id)
    BY <1>2, <1>4, <2>1 DEF InInbox
  <2>3. PICK message : inbox' = Append(inbox, message) /\ message.id = item.id
                       /\ message \in [id : Message, rejected : BOOLEAN]
    <3> DEFINE rejects == item.kind \in Reports /\ Verdict(item.kind) = "rejected"
    <3>1. inbox' = Append(inbox, [id |-> item.id, rejected |-> rejects])
      BY <2>2 DEF ImportItem, ImportMessage
    <3>2. rejects \in BOOLEAN
      OBVIOUS
    <3> HIDE DEF rejects
    <3> QED
      BY <1>4, <3>1, <3>2
  <2>4. /\ Len(inbox') = imported + 1 /\ DOMAIN inbox' = 1..(imported + 1)
        /\ \A s \in 1..imported : inbox'[s] = inbox[s]
        /\ inbox'[imported + 1] = message
    BY <1>4, <2>3, AppendProperties, LenProperties
  <2>5. \A s \in DOMAIN inbox' : inbox'[s].id = s
    <3> SUFFICES ASSUME NEW s \in 1..(imported + 1) PROVE inbox'[s].id = s
      BY <2>4
    <3>1. CASE s = imported + 1
      BY <1>2, <2>1, <2>3, <2>4, <3>1
    <3>2. CASE s \in 1..imported
      BY <1>4, <2>4, <3>2
    <3> QED
      BY <1>4, <3>1, <3>2
  <2>6. RowsInOrder'
    BY <1>3, <1>6, <2>1, <2>4, <2>5 DEF RowsInOrder
  <2> QED
    BY <1>2, <1>3, <1>5, <2>1, <2>3, <2>6
<1> QED
  BY <1>7, <1>8

(* An acknowledgment tells the worker of messages sent before.              *)
LEMMA AckStep ==
  ASSUME RelayInv, Settles, RemoteAck \/ LateAck
  PROVE  /\ UNCHANGED <<protocol, homeRows, inbox, imported, toHome>>
         /\ released' \in released..imported
         /\ MessagesSent' = MessagesSent
         /\ \/ attach' = attach
            \/ attach = "ready" /\ \E v \in Reports : Decided(v) /\ attach' = v
<1>1. /\ MarksInv /\ SyncOK /\ LateOK /\ attach \in AttachStates
      /\ UNCHANGED <<protocol, homeRows, homeRelay, checkpoint, toHome>>
  BY DEF RelayInv, RowsInv, RowTypes, RemoteAck, LateAck, homeMemory
<1>2. PICK through, S : /\ Acknowledge(through, S) /\ SettlementsOK(S)
                        /\ through \in Nat /\ through <= imported
  <2>1. CASE RemoteAck
    <3>1. sync \in PageType /\ PageOK
      BY <1>1, <2>1, SyncShape DEF RemoteAck
    <3> QED
      BY <2>1, <3>1, RelayAssumption DEF RemoteAck, PageType, PageOK, Sequence
  <2>2. CASE LateAck
    BY <1>1, <2>2 DEF LateAck, LateOK, RequestOK
  <2> QED
    BY <2>1, <2>2
<1>3. /\ released' \in released..imported
      /\ \A m \in Message : told'[m] # "none" <=> told[m] # "none"
  BY <1>1, <1>2, AcknowledgeMarks DEF homeRows, homeRelay
<1>4. MessagesSent' = MessagesSent
  BY <1>3 DEF MessagesSent
<1>5. \/ attach' = attach
      \/ attach = "ready" /\ \E st \in S : st.verdict \in Reports /\ attach' = st.verdict
  BY <1>1, <1>2, AcknowledgeAttach
<1> QED
  BY <1>1, <1>2, <1>3, <1>4, <1>5 DEF SettlementsOK, homeRelay

(* The steps that neither send, nor import, nor acknowledge.                *)
OtherStep ==
  \/ UNCHANGED vars
  \/ SyncTick \/ PullAnswered \/ ImportThrows \/ PageImported \/ AckAnswered \/ RepliesAnswered
  \/ SyncRefused \/ RemotePull \/ RemoteImport \/ HomeStep
  \/ RemoteAttach \/ RemoteStarted \/ RemoteStop \/ RemoteStopped
  \/ StartTimedOut \/ StopTimedOut \/ SyncTimedOut \/ HomeCrash \/ RemoteCrash
  \/ LateImport \/ LateStop \/ (\E m \in Message : AnswerTorn(m))

LEMMA StepKinds ==
  ASSUME [Next]_vars
  PROVE  \/ OtherStep \/ ImportItem \/ RemoteAck \/ LateAck
         \/ \E kind \in Kinds : WorkerSend(kind)
BY DEF Next, RelayStep, ServeRelay, RemoteStep, FaultStep, OtherStep

LEMMA OtherKeepsMessages ==
  ASSUME OtherStep
  PROVE  UNCHANGED <<toHome, told, inbox, imported, released>>
<1>1. CASE \/ UNCHANGED vars \/ SyncTick \/ PullAnswered \/ ImportThrows \/ PageImported \/ AckAnswered
           \/ RepliesAnswered \/ SyncRefused \/ RemotePull \/ RemoteImport
  BY <1>1 DEF vars, SyncTick, SyncStart, PullAnswered, ImportThrows, PageImported, AckAnswered,
     RepliesAnswered, SyncRefused, RemotePull, RemoteImport, homeRelay, remoteVars
<1>2. CASE HomeStep
  BY <1>2 DEF HomeStep, StartAnswered, StopAnswered, BeginStop, RemoteShow, ShowAnswered,
     Abandon, Retry, AnswerQuestion, homeRelay, remoteVars
<1>3. CASE \/ RemoteAttach \/ RemoteStarted \/ RemoteStop \/ RemoteStopped \/ StartTimedOut
           \/ StopTimedOut \/ SyncTimedOut \/ HomeCrash \/ RemoteCrash \/ LateImport \/ LateStop
           \/ (\E m \in Message : AnswerTorn(m))
  BY <1>3 DEF RemoteAttach, RemoteStarted, RemoteStop, RemoteStopped, StartTimedOut, StopTimedOut,
     SyncTimedOut, HomeCrash, RemoteCrash, LateImport, LateStop, AnswerTorn, homeRelay, remoteVars
<1> QED
  BY <1>1, <1>2, <1>3 DEF OtherStep

-----------------------------------------------------------------------------
(* A page carries the messages in order *)

LEMMA PullInOrder ==
  ASSUME RelayInv, RowsInOrder, PageInOrder, RemotePull
  PROVE  PageInOrder'
<1>1. /\ sync.pc = "pull" /\ sync' = sync /\ sync \in PullType /\ sync.after <= imported
      /\ MarksInv
  BY SyncShape DEF RemotePull, RelayInv
<1> DEFINE from == IF Settling THEN released ELSE sync.after
           to == Smaller(from + PageSize, Len(toHome))
           items == [i \in 1..(to - from) |-> [sequence |-> from + i,
                                               id |-> toHome[from + i].id,
                                               kind |-> toHome[from + i].kind]]
<1>2. answer' = Refusal \/ answer' = [ok |-> TRUE, epoch |-> epoch, items |-> items]
  BY DEF RemotePull
<1>3. from \in Nat /\ Len(toHome) \in Nat /\ DOMAIN toHome = 1..Len(toHome)
  BY <1>1, LenProperties, RelayAssumption DEF PullType, Sequence, MarksInv
<1>4. to \in Nat /\ to <= Len(toHome)
  BY <1>3, RelayAssumption DEF Smaller
<1> HIDE DEF from, to
<1>5. Ordered(items)
  <2> SUFFICES ASSUME NEW i \in 1..(to - from) PROVE items[i].id = items[i].sequence
    BY DEF Ordered
  <2>1. from + i \in DOMAIN toHome
    BY <1>3, <1>4
  <2> QED
    BY <2>1 DEF RowsInOrder
<1> HIDE DEF items
<1>6. answer' # Refusal => answer'.items = items
  BY <1>2
<1> QED
  BY <1>1, <1>5, <1>6 DEF PageInOrder

LEMMA PagesInOrder ==
  ASSUME RelayInv, RowsInOrder, PageInOrder, OtherStep
  PROVE  PageInOrder'
<1>1. CASE RemotePull
  BY <1>1, PullInOrder
<1>2. CASE PullAnswered
  <2>1. /\ sync'.pc = "page" /\ sync'.items = answer.items
        /\ sync.pc = "pull" /\ answer \notin {NoAnswer, Refusal}
    BY <1>2 DEF PullAnswered, NoAnswer, Refusal
  <2> QED
    BY <2>1 DEF PageInOrder
<1>3. CASE PageImported
  <2>1. CASE sync' = [sync EXCEPT !.pc = "ack"] /\ UNCHANGED answer
    <3>1. sync \in PageType /\ sync.pc = "page"
      BY <1>3, SyncShape DEF PageImported, RelayInv
    <3>2. sync'.items = sync.items /\ sync'.pc = "ack"
      BY <2>1, <3>1 DEF PageType
    <3> QED
      BY <3>1, <3>2 DEF PageInOrder
  <2>2. CASE Proceed(RepliesDue, checkpoint)
    BY <2>2 DEF Proceed, Page, Idle, PageInOrder
  <2> QED
    BY <1>3, <2>1, <2>2 DEF PageImported
<1>4. CASE AckAnswered \/ RepliesAnswered
  BY <1>4 DEF AckAnswered, RepliesAnswered, Proceed, Page, Idle, PageInOrder
<1>5. CASE \/ SyncTick \/ ImportThrows \/ SyncRefused \/ SyncTimedOut \/ HomeCrash
           \/ (\E m \in Message : AnswerTorn(m))
  BY <1>5 DEF SyncTick, SyncStart, ImportThrows, SyncRefused, SyncTimedOut, HomeCrash, AnswerTorn,
     LoseHomeMemory, EndSync, Page, Idle, PageInOrder
<1>6. CASE RemoteImport
  BY <1>6 DEF RemoteImport, PageInOrder
<1>7. CASE \/ UNCHANGED vars \/ HomeStep
           \/ RemoteAttach \/ RemoteStarted \/ RemoteStop \/ RemoteStopped
           \/ StartTimedOut \/ StopTimedOut \/ RemoteCrash \/ LateImport \/ LateStop
  <2>1. UNCHANGED <<sync, answer>>
    <3>1. CASE UNCHANGED vars \/ HomeStep
      BY <3>1 DEF vars, HomeStep, StartAnswered, StopAnswered, BeginStop, RemoteShow, ShowAnswered,
         Abandon, Retry, AnswerQuestion, homeMemory
    <3>2. CASE ~(UNCHANGED vars \/ HomeStep)
      BY <1>7, <3>2 DEF RemoteAttach, RemoteStarted, RemoteStop, RemoteStopped, StartTimedOut,
         StopTimedOut, RemoteCrash, LateImport, LateStop, homeMemory
    <3> QED
      BY <3>1, <3>2
  <2> QED
    BY <2>1 DEF PageInOrder
<1> QED
  BY <1>1, <1>2, <1>3, <1>4, <1>5, <1>6, <1>7 DEF OtherStep

LEMMA OrderPreserved ==
  ASSUME NoHeartbeats, RelayInv, InOrder, [Next]_vars
  PROVE  InOrder'
<1>1. RowsInOrder /\ PageInOrder /\ RowsStep
  BY RowsPreserved DEF InOrder
<1>2. CASE OtherStep
  <2>1. UNCHANGED <<toHome, told, inbox, imported>>
    BY <1>2, OtherKeepsMessages
  <2>2. MessagesSent' = MessagesSent
    BY <2>1 DEF MessagesSent
  <2> QED
    BY <1>1, <1>2, <2>1, <2>2, PagesInOrder DEF InOrder, RowsInOrder
<1>3. CASE ImportItem
  BY <1>1, <1>3, ImportInOrder DEF InOrder
<1>4. CASE RemoteAck \/ LateAck
  <2>1. UNCHANGED <<toHome, inbox, imported>> /\ MessagesSent' = MessagesSent
    BY <1>1, <1>4, AckStep DEF RowsStep
  <2>2. PageInOrder'
    BY <1>1, <1>4 DEF RemoteAck, LateAck, homeMemory, PageInOrder
  <2> QED
    BY <1>1, <2>1, <2>2 DEF InOrder, RowsInOrder
<1>5. ASSUME NEW kind \in Kinds, WorkerSend(kind) PROVE InOrder'
  <2>1. PageInOrder'
    BY <1>1, <1>5 DEF WorkerSend, homeMemory, PageInOrder
  <2> QED
    BY <1>1, <1>5, <2>1, SendInOrder DEF InOrder
<1> QED
  BY <1>2, <1>3, <1>4, <1>5, StepKinds

LEMMA OrderInvariant ==
  ASSUME NoHeartbeats
  PROVE  Spec => [](RelayInv /\ InOrder)
<1>1. Init => InOrder
  <2> SUFFICES ASSUME Init PROVE InOrder
    OBVIOUS
  <2>1. /\ Len(toHome) = 0 /\ DOMAIN toHome = {} /\ Len(inbox) = 0 /\ DOMAIN inbox = {}
        /\ imported = 0 /\ sync.pc = "idle"
    BY EmptySeq DEF Init, Idle
  <2>2. MessagesSent = 0
    <3>1. {m \in Message : told[m] # "none"} = {}
      BY DEF Init
    <3> QED
      BY <3>1, FS_EmptySet DEF MessagesSent
  <2> QED
    BY <2>1, <2>2 DEF InOrder, RowsInOrder, PageInOrder
<1>2. RelayInv /\ InOrder /\ [Next]_vars => InOrder'
  BY OrderPreserved
<1> QED
  BY <1>1, <1>2, RelayInvariant, PTL DEF Spec

(* The Run home's inbox is the imported prefix of what the worker sent, in  *)
(* order, whatever was lost, repeated or cut short in between.              *)
THEOREM OrderKept ==
  ASSUME NoHeartbeats
  PROVE  Spec => []ImportedInOrder
<1>1. RelayInv /\ InOrder => ImportedInOrder
  <2> SUFFICES ASSUME RelayInv, InOrder PROVE ImportedInOrder
    OBVIOUS
  <2>1. /\ imported \in Nat /\ Len(toHome) \in Nat /\ imported <= Len(toHome)
        /\ DOMAIN toHome = 1..Len(toHome) /\ DOMAIN inbox = 1..imported
    BY LenProperties, RelayAssumption DEF RelayInv, MarksInv, Sequence, InOrder, RowsInOrder
  <2> QED
    BY <2>1 DEF InOrder, RowsInOrder, ImportedInOrder
<1> QED
  BY <1>1, OrderInvariant, PTL

-----------------------------------------------------------------------------
(* The refinement *)

Ids(seq) == [s \in 1..Len(seq) |-> seq[s].id]

(* The outcome at the Run home, and on the worker server, as the channel    *)
(* sees them.                                                               *)
DecidedHere == IF result # 0 THEN IF ctx = "completed" THEN "succeeded" ELSE "failed"
               ELSE IF ctx = "failed" THEN "withdrawn" ELSE "open"
AdoptedThere == IF Settling /\ attach \in Reports THEN attach ELSE "open"

ChannelStep == [Channel!ChannelNext]_(Channel!channelVars)

LEMMA RowIds ==
  /\ \A e \in [id : Message, rejected : BOOLEAN] : e.id \in Message
  /\ \A e \in [id : Message, kind : Kinds] : e.id \in Message
OBVIOUS

LEMMA IdsSeq ==
  ASSUME NEW S, NEW seq \in Seq(S), \A e \in S : e.id \in Message
  PROVE  Ids(seq) \in Seq(Message) /\ Len(Ids(seq)) = Len(seq)
<1>1. Len(seq) \in Nat /\ \A s \in 1..Len(seq) : seq[s] \in S
  BY LenProperties, ElementOfSeq
<1>2. Ids(seq) \in [1..Len(seq) -> Message]
  BY <1>1 DEF Ids
<1>3. Ids(seq) \in Seq(Message)
  BY <1>1, <1>2, SeqDef
<1>4. DOMAIN Ids(seq) = 1..Len(seq) /\ DOMAIN Ids(seq) = 1..Len(Ids(seq)) /\ Len(Ids(seq)) \in Nat
  BY <1>2, <1>3, LenProperties
<1> QED
  BY <1>1, <1>3, <1>4

LEMMA IdsAppend ==
  ASSUME NEW S, NEW seq \in Seq(S), NEW e \in S, \A x \in S : x.id \in Message
  PROVE  Ids(Append(seq, e)) = Append(Ids(seq), e.id)
<1>1. Append(seq, e) \in Seq(S) /\ e.id \in Message
  BY AppendProperties
<1>2. /\ Ids(seq) \in Seq(Message) /\ Len(Ids(seq)) = Len(seq)
      /\ Ids(Append(seq, e)) \in Seq(Message)
      /\ Len(Ids(Append(seq, e))) = Len(Append(seq, e))
  BY <1>1, IdsSeq
<1>3. /\ Append(Ids(seq), e.id) \in Seq(Message)
      /\ Len(Append(Ids(seq), e.id)) = Len(seq) + 1
      /\ \A i \in 1..Len(seq) : Append(Ids(seq), e.id)[i] = Ids(seq)[i]
      /\ Append(Ids(seq), e.id)[Len(seq) + 1] = e.id
  BY <1>1, <1>2, AppendProperties
<1>4. /\ Len(Append(seq, e)) = Len(seq) + 1 /\ Len(seq) \in Nat
      /\ \A i \in 1..Len(seq) : Append(seq, e)[i] = seq[i]
      /\ Append(seq, e)[Len(seq) + 1] = e
  BY AppendProperties, LenProperties
<1>5. ASSUME NEW i \in 1..(Len(seq) + 1) PROVE Ids(Append(seq, e))[i] = Append(Ids(seq), e.id)[i]
  <2>1. CASE i = Len(seq) + 1
    BY <1>3, <1>4, <2>1 DEF Ids
  <2>2. CASE i \in 1..Len(seq)
    BY <1>3, <1>4, <2>2 DEF Ids
  <2>3. i = Len(seq) + 1 \/ i \in 1..Len(seq)
    BY <1>4, <1>5
  <2> QED
    BY <2>1, <2>2, <2>3
<1> QED
  BY <1>2, <1>3, <1>4, <1>5, SeqEqual

(* A dispatch with a result is settled, and a settled one stays so.         *)
LEMMA DecidedMoves ==
  ASSUME RowsInv, RowsStep, result' = result
  PROVE  \/ DecidedHere' = DecidedHere
         \/ DecidedHere = "open" /\ DecidedHere' = "withdrawn" /\ ctx # "failed" /\ ctx' = "failed"
BY DEF RowsStep, Settles, RowsInv, RowsOK, RowTypes, WorkerStates, LiveStates, DecidedHere

(* Only an acknowledgment, or the report of an older protocol, settles the  *)
(* attachment.                                                              *)
LEMMA AdoptedKept ==
  ASSUME RelayInv, Settles, OtherStep
  PROVE  AdoptedThere' = AdoptedThere
<1>1. RowsInv /\ protocol' = protocol
  BY DEF RelayInv, Settles
<1>2. attach' = attach \/ (attach \notin Reports /\ attach' \notin Reports)
  <2>1. CASE \/ UNCHANGED vars \/ SyncTick \/ PullAnswered \/ ImportThrows \/ PageImported
             \/ AckAnswered \/ RepliesAnswered \/ SyncRefused \/ RemotePull \/ RemoteImport
    BY <2>1 DEF vars, SyncTick, SyncStart, PullAnswered, ImportThrows, PageImported, AckAnswered,
       RepliesAnswered, SyncRefused, RemotePull, RemoteImport, remoteVars
  <2>2. CASE HomeStep
    BY <2>2 DEF HomeStep, StartAnswered, StopAnswered, BeginStop, RemoteShow, ShowAnswered,
       Abandon, Retry, AnswerQuestion, remoteVars
  <2>3. CASE RemoteAttach \/ RemoteStarted \/ RemoteStop \/ LateStop \/ RemoteStopped
    BY <1>1, <2>3 DEF RemoteAttach, RemoteStarted, RemoteStop, LateStop, ServeStop, RemoteStopped,
       RowsInv, AttachOK, Reports
  <2>4. CASE \/ StartTimedOut \/ StopTimedOut \/ SyncTimedOut \/ HomeCrash \/ RemoteCrash
             \/ LateImport \/ (\E m \in Message : AnswerTorn(m))
    BY <2>4 DEF StartTimedOut, StopTimedOut, SyncTimedOut, HomeCrash, RemoteCrash, LateImport,
       AnswerTorn, remoteVars
  <2> QED
    BY <2>1, <2>2, <2>3, <2>4 DEF OtherStep
<1> QED
  BY <1>1, <1>2 DEF AdoptedThere, Settling

(* Steps other than an import leave the result of the Task alone, and those *)
(* that end the dispatch at the Run home leave the worker server alone.     *)
LEMMA ResultKept ==
  ASSUME OtherStep
  PROVE  result' = result
<1>1. CASE \/ UNCHANGED vars \/ SyncTick \/ PullAnswered \/ ImportThrows \/ PageImported
           \/ AckAnswered \/ RepliesAnswered \/ SyncRefused \/ RemotePull \/ RemoteImport
  BY <1>1 DEF vars, SyncTick, SyncStart, PullAnswered, ImportThrows, PageImported, AckAnswered,
     RepliesAnswered, SyncRefused, RemotePull, RemoteImport, homeRows
<1>2. CASE HomeStep
  BY <1>2 DEF HomeStep, StartAnswered, StopAnswered, BeginStop, RemoteShow, ShowAnswered,
     Abandon, Retry, AnswerQuestion, homeRows
<1>3. CASE \/ RemoteAttach \/ RemoteStarted \/ RemoteStop \/ RemoteStopped \/ StartTimedOut
           \/ StopTimedOut \/ SyncTimedOut \/ HomeCrash \/ RemoteCrash \/ LateImport \/ LateStop
           \/ (\E m \in Message : AnswerTorn(m))
  BY <1>3 DEF RemoteAttach, RemoteStarted, RemoteStop, RemoteStopped, StartTimedOut, StopTimedOut,
     SyncTimedOut, HomeCrash, RemoteCrash, LateImport, LateStop, AnswerTorn, homeRows
<1> QED
  BY <1>1, <1>2, <1>3 DEF OtherStep

(* The channel's steps, in the terms of the relay.                          *)
LEMMA ChannelStutters ==
  ASSUME UNCHANGED <<Ids(toHome), Ids(inbox), released, DecidedHere, AdoptedThere>>
  PROVE  ChannelStep
BY DEF ChannelStep, Channel!channelVars, Ids, DecidedHere, AdoptedThere

LEMMA ChannelWithdraws ==
  ASSUME UNCHANGED <<Ids(toHome), Ids(inbox), released, AdoptedThere>>,
         DecidedHere = "open", DecidedHere' = "withdrawn"
  PROVE  ChannelStep
BY DEF ChannelStep, Channel!ChannelNext, Channel!Withdraw, Ids, DecidedHere, AdoptedThere

LEMMA ChannelDecides ==
  ASSUME UNCHANGED <<Ids(toHome), Ids(inbox), released, AdoptedThere>>,
         DecidedHere = "open", DecidedHere' \in Reports
  PROVE  ChannelStep
BY DEF ChannelStep, Channel!ChannelNext, Channel!DecideLate, Channel!Outcomes, Reports, Ids,
       DecidedHere, AdoptedThere

LEMMA ChannelReceives ==
  ASSUME UNCHANGED <<Ids(toHome), released, AdoptedThere>>,
         Len(Ids(inbox)) < Len(Ids(toHome)),
         Ids(inbox)' = Append(Ids(inbox), Ids(toHome)[Len(Ids(inbox)) + 1]),
         \/ DecidedHere' = DecidedHere /\ DecidedHere \in Reports \cup {"open", "withdrawn"}
         \/ DecidedHere = "open" /\ DecidedHere' \in Reports
  PROVE  ChannelStep
BY DEF ChannelStep, Channel!ChannelNext, Channel!Receive, Channel!Outcomes, Reports, Ids,
       DecidedHere, AdoptedThere

LEMMA ChannelSends ==
  ASSUME UNCHANGED <<Ids(inbox), released, DecidedHere, AdoptedThere>>,
         NEW m \in Message, Ids(toHome)' = Append(Ids(toHome), m)
  PROVE  ChannelStep
BY DEF ChannelStep, Channel!ChannelNext, Channel!Send, Ids, DecidedHere, AdoptedThere

LEMMA ChannelReleases ==
  ASSUME UNCHANGED <<Ids(toHome), Ids(inbox), DecidedHere>>,
         released' \in released..Len(Ids(inbox)),
         \/ AdoptedThere' = AdoptedThere
         \/ AdoptedThere = "open" /\ DecidedHere \in Reports /\ AdoptedThere' = DecidedHere
  PROVE  ChannelStep
BY DEF ChannelStep, Channel!ChannelNext, Channel!Release, Channel!Outcomes, Reports, Ids,
       DecidedHere, AdoptedThere

LEMMA ImportRefines ==
  ASSUME RelayInv, RowsInOrder, PageInOrder, RowsStep, ImportItem
  PROVE  ChannelStep
<1> PICK item : item = sync.items[sync.done + 1]
  OBVIOUS
<1>1. RowsInv /\ MarksInv /\ item \in ItemType
  BY CurrentItem DEF RelayInv, ImportItem
<1>2. UNCHANGED <<toHome, released, attach, protocol>>
  BY ImportInOrder
<1>3. \/ DecidedHere' = DecidedHere /\ DecidedHere \in Reports \cup {"open", "withdrawn"}
      \/ DecidedHere = "open" /\ DecidedHere' \in Reports
  <2>1. CASE item.kind \in Reports /\ CanSettle /\ ~Recorded(item.kind)
    <3>1. ctx' = StatusOf(item.kind) /\ result' = item.id /\ item.id # 0
      BY <1>1, <2>1 DEF ImportItem, SettleReport, ItemType, Message
    <3>2. result = 0 /\ ctx = "dispatched"
      BY <1>1, <2>1 DEF CanSettle, RowsInv, RowsOK, RowTypes, WorkerStates, LiveStates
    <3> QED
      BY <3>1, <3>2 DEF DecidedHere, Reports
  <2>2. CASE ~(item.kind \in Reports /\ CanSettle /\ ~Recorded(item.kind))
    <3>1. UNCHANGED homeRows
      BY <2>2 DEF ImportItem, SettleReport
    <3> QED
      BY <3>1 DEF homeRows, DecidedHere, Reports
  <2> QED
    BY <2>1, <2>2
<1>4. Ids(toHome)' = Ids(toHome) /\ AdoptedThere' = AdoptedThere
  BY <1>2 DEF Ids, AdoptedThere, Settling
<1>5. CASE inbox' = inbox
  <2>1. Ids(inbox)' = Ids(inbox)
    BY <1>5 DEF Ids
  <2> QED
    BY <1>2, <1>3, <1>4, <2>1, ChannelStutters, ChannelDecides
<1>6. ASSUME NEW message \in [id : Message, rejected : BOOLEAN], message.id = imported + 1,
             inbox' = Append(inbox, message), imported < Len(toHome)
      PROVE  ChannelStep
  <2>1. /\ inbox \in Seq([id : Message, rejected : BOOLEAN])
        /\ toHome \in Seq([id : Message, kind : Kinds]) /\ Len(inbox) = imported
    BY <1>1 DEF MarksInv, RowsInOrder
  <2>2. Len(Ids(inbox)) = imported /\ Len(Ids(toHome)) = Len(toHome)
    BY <2>1, IdsSeq, RowIds
  <2>3. Ids(inbox)' = Append(Ids(inbox), imported + 1)
    <3>1. Ids(Append(inbox, message)) = Append(Ids(inbox), message.id)
      BY <2>1, IdsAppend, RowIds
    <3> QED
      BY <1>6, <3>1 DEF Ids
  <2>4. Ids(toHome)[imported + 1] = imported + 1
    <3>1. imported + 1 \in 1..Len(toHome) /\ imported + 1 \in DOMAIN toHome
      BY <1>1, <1>6, <2>1, LenProperties, RelayAssumption DEF MarksInv, Sequence
    <3> QED
      BY <3>1 DEF Ids, RowsInOrder
  <2> QED
    BY <1>2, <1>3, <1>4, <1>6, <2>2, <2>3, <2>4, ChannelReceives
<1> QED
  BY <1>5, <1>6, ImportInOrder

LEMMA SendRefines ==
  ASSUME NoHeartbeats, RelayInv, RowsInOrder, RowsStep, NEW kind \in Kinds, WorkerSend(kind)
  PROVE  ChannelStep
<1> DEFINE item == [id |-> MessagesSent + 1, kind |-> kind]
<1>1. toHome' = Append(toHome, item) /\ MessagesSent + 1 \in Message
  BY SendInOrder
<1>2. toHome \in Seq([id : Message, kind : Kinds]) /\ item \in [id : Message, kind : Kinds]
  BY <1>1 DEF RelayInv, MarksInv
<1>3. Ids(toHome)' = Append(Ids(toHome), MessagesSent + 1)
  <2>1. Ids(Append(toHome, item)) = Append(Ids(toHome), item.id)
    BY <1>2, IdsAppend, RowIds
  <2> QED
    BY <1>1, <2>1 DEF Ids
<1>4. UNCHANGED <<inbox, released, ctx, result>> /\ AdoptedThere' = AdoptedThere
  BY DEF WorkerSend, SettleAsQueued, homeRows, homeRelay, AdoptedThere, Settling
<1> QED
  BY <1>1, <1>3, <1>4, ChannelSends DEF Ids, DecidedHere

LEMMA AckRefines ==
  ASSUME RelayInv, RowsInOrder, RowsStep, RemoteAck \/ LateAck
  PROVE  ChannelStep
<1>1. /\ UNCHANGED <<protocol, homeRows, inbox, imported, toHome>>
      /\ released' \in released..imported
      /\ \/ attach' = attach
         \/ attach = "ready" /\ \E v \in Reports : Decided(v) /\ attach' = v
  BY AckStep DEF RowsStep
<1>2. UNCHANGED <<Ids(toHome), Ids(inbox), DecidedHere>>
  BY <1>1 DEF Ids, DecidedHere, homeRows
<1>3. \/ AdoptedThere' = AdoptedThere
      \/ AdoptedThere = "open" /\ DecidedHere \in Reports /\ AdoptedThere' = DecidedHere
  <2>1. CASE attach' = attach
    BY <1>1, <2>1 DEF AdoptedThere, Settling
  <2>2. ASSUME attach = "ready", NEW v \in Reports, Decided(v), attach' = v
        PROVE  \/ AdoptedThere' = AdoptedThere
               \/ AdoptedThere = "open" /\ DecidedHere \in Reports /\ AdoptedThere' = DecidedHere
    <3>1. DecidedHere = v
      BY <2>2 DEF Decided, DecidedHere, StatusOf, Reports, Lost
    <3>2. AdoptedThere = "open" /\ AdoptedThere' \in {"open", v}
      BY <2>2 DEF AdoptedThere, Reports
    <3> QED
      BY <3>1, <3>2
  <2> QED
    BY <1>1, <2>1, <2>2
<1>4. Len(Ids(inbox)) = imported
  <2>1. inbox \in Seq([id : Message, rejected : BOOLEAN]) /\ Len(inbox) = imported
    BY DEF RelayInv, MarksInv, RowsInOrder
  <2> QED
    BY <2>1, IdsSeq, RowIds
<1> QED
  BY <1>1, <1>2, <1>3, <1>4, ChannelReleases

LEMMA OtherRefines ==
  ASSUME RelayInv, RowsStep, OtherStep
  PROVE  ChannelStep
<1>1. RowsInv /\ Settles /\ UNCHANGED <<toHome, inbox, released, result>>
  BY OtherKeepsMessages, ResultKept DEF RelayInv, RowsStep
<1>2. AdoptedThere' = AdoptedThere
  BY <1>1, AdoptedKept
<1>3. UNCHANGED <<Ids(toHome), Ids(inbox)>>
  BY <1>1 DEF Ids
<1>4. DecidedHere' = DecidedHere \/ (DecidedHere = "open" /\ DecidedHere' = "withdrawn")
  BY <1>1, DecidedMoves
<1> QED
  BY <1>1, <1>2, <1>3, <1>4, ChannelStutters, ChannelWithdraws

(* The two databases, the calls between them and their failures keep what   *)
(* RelayChannel promises: every message once and in order, nothing          *)
(* forgotten before it arrived, and one outcome, decided at the Run home.   *)
THEOREM ChannelRefinement ==
  ASSUME NoHeartbeats
  PROVE  Spec => ImplementsChannel
<1>1. Init => Channel!ChannelInit
  <2> SUFFICES ASSUME Init PROVE Channel!ChannelInit
    OBVIOUS
  <2>1. /\ Ids(toHome) \in Seq(Message) /\ Len(Ids(toHome)) = 0
        /\ Ids(inbox) \in Seq(Message) /\ Len(Ids(inbox)) = 0
    <3>1. /\ toHome \in Seq([id : Message, kind : Kinds]) /\ Len(toHome) = 0
          /\ inbox \in Seq([id : Message, rejected : BOOLEAN]) /\ Len(inbox) = 0
      BY EmptySeq DEF Init
    <3> QED
      BY <3>1, IdsSeq, RowIds
  <2>2. Ids(toHome) = <<>> /\ Ids(inbox) = <<>>
    BY <2>1, EmptySeq
  <2>3. released = 0 /\ DecidedHere = "open" /\ AdoptedThere = "open"
    BY DEF Init, DecidedHere, AdoptedThere, Reports
  <2> QED
    BY <2>2, <2>3 DEF Channel!ChannelInit, Ids, DecidedHere, AdoptedThere
<1>2. RelayInv /\ InOrder /\ [Next]_vars => [Channel!ChannelNext]_(Channel!channelVars)
  <2> SUFFICES ASSUME RelayInv, InOrder, [Next]_vars PROVE ChannelStep
    BY DEF ChannelStep
  <2>1. RowsInOrder /\ PageInOrder /\ RowsStep
    BY RowsPreserved DEF InOrder
  <2> QED
    BY <2>1, StepKinds, ImportRefines, SendRefines, AckRefines, OtherRefines
<1> QED
  BY <1>1, <1>2, OrderInvariant, PTL DEF Spec, ImplementsChannel, Channel!ChannelSpec

=============================================================================
