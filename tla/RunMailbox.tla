----------------------------- MODULE RunMailbox -----------------------------
(***************************************************************************)
(* The mailbox of one Run: the rows addressed to it, the coordinator pane  *)
(* bound to it as its consumer, the Delivery handed to that consumer until *)
(* it is acknowledged, and the orchestration.check calls that read it      *)
(* (src/main/runtime/orchestration/db/runs, rpc/methods/orchestration.ts). *)
(*                                                                         *)
(* The tables survive a restart of the app; calls and waiters do not, and  *)
(* every terminal handle is minted anew while panes keep their identity.   *)
(* A check is interrupted at each of its awaits: between routing pages and *)
(* while it waits.  An agent may lose any answer, and acknowledges only    *)
(* Deliveries it was told of.  Runs share no rows; a pane that binds       *)
(* another Run leaves this one.                                            *)
(***************************************************************************)
EXTENDS Naturals, Sequences, FiniteSets

CONSTANTS Panes,         \* panes that coordinate or work
          Calls,         \* check requests outstanding at once
          Types,         \* message types
          Filters,       \* --types arguments, sets of types; {} wakes on any
          BatchLimit,    \* ORCHESTRATION_DELIVERY_BATCH_LIMIT (50 in the code)
          MaxRows,       \* bound: messages ever sent
          MaxGeneration, \* bound: consumer generations
          MaxBoots       \* bound: runs of the app

ASSUME MailboxAssumption ==
  /\ Panes # {} /\ <<"none", 0>> \notin Panes
  /\ Calls # {} /\ Filters \subseteq SUBSET Types
  /\ BatchLimit \in Nat \ {0} /\ MaxRows \in Nat
  /\ MaxGeneration \in Nat \ {0} /\ MaxBoots \in Nat \ {0}

VARIABLES
  consumer, handle,  \* runs.coordinator_pane_key, coordinator_handle; None when unbound
  generation,        \* runs.consumer_generation
  known,             \* run_coordinator_handles
  assigned,          \* handles with an active dispatch of this Run
  rows,              \* messages by sequence: [toRun, to, type, read]; toRun: sent to the Run
  deliveries,        \* deliveries by id: [generation, ids, status]
  calls,             \* check calls
  held,              \* Delivery ids each pane's agent was told
  boots              \* runs of the app so far

binding == <<consumer, handle, generation, known>>
vars    == <<binding, assigned, rows, deliveries, calls, held, boots>>

None       == <<"none", 0>>
RunBox     == <<"run", 0>>
DispatchBox == <<"dispatch", 0>>
Handles    == Panes \X (1..MaxBoots)
Handle(p)  == <<p, boots>>        \* the live handle of a pane
Addresses  == {RunBox, DispatchBox} \cup Handles
Ids        == 1..MaxRows
Statuses   == {"outstanding", "acknowledged", "fenced"}

IdleCall == [pc |-> "idle"]

Init ==
  /\ \E p \in Panes : consumer = p /\ handle = <<p, 1>> /\ known = {<<p, 1>>}
  /\ generation = 1 /\ assigned = {} /\ rows = <<>> /\ deliveries = <<>>
  /\ calls = [c \in Calls |-> IdleCall]
  /\ held = [p \in Panes |-> {}] /\ boots = 1

-----------------------------------------------------------------------------
(* Rows and waiters *)

Unread(to)  == {m \in DOMAIN rows : rows[m].to = to /\ ~rows[m].read}
Matches(type, filter) == filter = {} \/ type \in filter

(* The first n of a set of sequence numbers. *)
First(S, n) == {m \in S : Cardinality({k \in S : k < m}) < n}
Latest(S)   == IF S = {} THEN 0 ELSE CHOOSE m \in S : \A k \in S : k <= m

Readdress(S, to) == [m \in DOMAIN rows |-> IF m \in S THEN [rows[m] EXCEPT !.to = to] ELSE rows[m]]
MarkRead(S)      == [m \in DOMAIN rows |-> IF m \in S THEN [rows[m] EXCEPT !.read = TRUE] ELSE rows[m]]

Waiting == {c \in Calls : calls[c].pc = "waiting"}

(* notifyMessageArrived on the Run mailbox, for rows of these types. *)
WakeNone(types) == calls  \* faulty: the row is stored and nobody is told
Wake(types) ==
  [c \in Calls |-> IF c \in Waiting /\ \E t \in types : Matches(t, calls[c].filter)
                   THEN [calls[c] EXCEPT !.pc = "woken"] ELSE calls[c]]
TypesOf(S) == {rows[m].type : m \in S}

-----------------------------------------------------------------------------
(* Sending *)

(* trg_messages_route_coordinator_mail: mail for a handle that coordinated  *)
(* this Run goes to the Run, unless the handle works on one of its Tasks.   *)
Routable(h) == h \in known /\ h \notin assigned

Live(h)  == h = Handle(h[1])
Bound(h) == Live(h) /\ consumer = h[1]
(* The dispatch of a live pane is found by the pane, of a dead handle by the handle. *)
Works(h) == h \in assigned \/ (Live(h) /\ \E g \in assigned : g[1] = h[1])

(* resolveBareOrchestrationRecipient, or no recipient. *)
Recipient(h) ==
  CASE Bound(h) -> RunBox
    [] ~Bound(h) /\ Works(h) -> DispatchBox
    [] ~Bound(h) /\ ~Works(h) /\ h \in known -> RunBox
    [] OTHER -> IF Live(h) THEN h ELSE None

Insert(to, type) == Append(rows, [toRun |-> to = RunBox, to |-> to, type |-> type, read |-> FALSE])

Deliver(to, type) ==
  /\ Len(rows) < MaxRows
  /\ rows' = Insert(to, type)
  /\ calls' = IF to = RunBox THEN Wake({type}) ELSE calls
  /\ UNCHANGED <<binding, assigned, deliveries, held, boots>>

(* orchestration.send to the Run, or to a terminal. *)
Send(type) ==
  \E to \in {RunBox} \cup {Recipient(h) : h \in Handles} : to # None /\ Deliver(to, type)

(* Where notifyMessageArrived moves the direct mail of a handle: to the Run *)
(* for its bound pane, to the Dispatch for its worker.                      *)
Owner(h) ==
  CASE Bound(h) -> IF h \in assigned THEN h ELSE RunBox
    [] OTHER    -> IF Works(h) THEN DispatchBox ELSE h

(* orchestration.reply addresses the sender's handle as it was. *)
Reply(h, type) ==
  LET added == Insert(h, type)
      mail  == Unread(h) \cup {Len(rows) + 1}
  IN
  IF Routable(h) THEN Deliver(RunBox, type)
  ELSE
  /\ Len(rows) < MaxRows
  /\ rows' = [m \in DOMAIN added |->
                IF m \in mail THEN [added[m] EXCEPT !.to = Owner(h)] ELSE added[m]]
  /\ calls' = IF Bound(h) THEN Wake({type} \cup (IF Owner(h) = RunBox THEN TypesOf(Unread(h)) ELSE {}))
              ELSE calls
  /\ UNCHANGED <<binding, assigned, deliveries, held, boots>>

(* reply and answerQuestion mark the message they answer. *)
Answer(m) ==
  /\ rows[m].to = RunBox /\ ~rows[m].read
  /\ rows' = MarkRead({m})
  /\ UNCHANGED <<binding, assigned, deliveries, calls, held, boots>>

-----------------------------------------------------------------------------
(* Dispatches of this Run *)

(* A dispatch of one of the Run's Tasks to a pane, its dispatch mailbox,    *)
(* and the end of the dispatch.                                             *)
Assign(p) ==
  /\ assigned = {}
  /\ assigned' = {Handle(p)}
  /\ UNCHANGED <<binding, rows, deliveries, calls, held, boots>>

Settle ==
  /\ assigned # {}
  /\ assigned' = {}
  /\ UNCHANGED <<binding, rows, deliveries, calls, held, boots>>

(* The worker's check returns its mailbox and marks it read. *)
WorkerCheck ==
  /\ assigned # {}
  /\ Unread(DispatchBox) # {}
  /\ rows' = MarkRead(Unread(DispatchBox))
  /\ UNCHANGED <<binding, assigned, deliveries, calls, held, boots>>

(* A worker's check that finds its dispatch over gives its mail to the Run. *)
DispatchMailReturns ==
  /\ assigned = {}
  /\ Unread(DispatchBox) # {}
  /\ rows' = Readdress(Unread(DispatchBox), RunBox)
  /\ calls' = Wake(TypesOf(Unread(DispatchBox)))
  /\ UNCHANGED <<binding, assigned, deliveries, held, boots>>

-----------------------------------------------------------------------------
(* Binding *)

(* fenceOutstandingDelivery *)
KeepOutstanding == deliveries  \* faulty: the batch of the old consumer stays outstanding
FenceOutstanding ==
  [d \in DOMAIN deliveries |-> IF deliveries[d].status = "outstanding"
                               THEN [deliveries[d] EXCEPT !.status = "fenced"] ELSE deliveries[d]]

(* cancelMessageWaiters *)
KeepCancelled ==  \* faulty: a cancelled waiter stays registered
  [c \in Calls |-> IF c \in Waiting THEN [calls[c] EXCEPT !.pc = "cancelled"] ELSE calls[c]]
CancelWaiters == [c \in Calls |-> IF c \in Waiting THEN IdleCall ELSE calls[c]]

(* routeAllUnreadDirectMessagesToRunMailbox *)
DirectMail(handles) == UNION {Unread(h) : h \in handles \ assigned}

(* bindRun: a new consumer, or the same one under a new handle. *)
Use(p) ==
  LET handles == {handle, Handle(p)} \ {None} IN
  /\ known' = known \cup handles
  /\ rows' = Readdress(DirectMail(handles), RunBox)
  /\ calls' = CancelWaiters
  /\ IF consumer = p /\ handle = Handle(p)
     THEN UNCHANGED <<consumer, handle, generation, deliveries>>
     ELSE /\ generation < MaxGeneration
          /\ consumer' = p /\ handle' = Handle(p)
          /\ generation' = generation + 1
          /\ deliveries' = FenceOutstanding
  /\ UNCHANGED <<assigned, held, boots>>

(* unbindOtherRunsForPane: the consumer creates or binds another Run. *)
Leave ==
  /\ consumer # None
  /\ generation < MaxGeneration
  /\ rows' = Readdress(DirectMail({handle}), RunBox)
  /\ consumer' = None /\ handle' = None
  /\ generation' = generation + 1
  /\ deliveries' = FenceOutstanding
  /\ calls' = CancelWaiters
  /\ UNCHANGED <<known, assigned, held, boots>>

-----------------------------------------------------------------------------
(* orchestration.check of the coordinator *)

(* One page of the snapshot of direct mail taken for the call's handle. *)
Snapshot(h, through) == IF h \in assigned THEN {} ELSE {m \in Unread(h) : m <= through}
RoutePage(call) ==
  rows' = Readdress(First(Snapshot(call.from, call.through), BatchLimit), RunBox)
Routing(call, h) == [call EXCEPT !.from = h, !.through = Latest(Unread(h))]

(* resolveRunScope, then the mail of the caller's handle. *)
CheckStart(c, p, ack, filter) ==
  LET call == Routing([pc |-> "routing", pane |-> p, generation |-> generation,
                       stored |-> handle, from |-> handle, through |-> 0,
                       ack |-> ack, filter |-> filter], Handle(p))
  IN
  /\ calls[c].pc = "idle"
  /\ consumer = p
  /\ ack \in held[p] \cup {0}
  /\ calls' = [calls EXCEPT ![c] = call]
  /\ RoutePage(call)
  /\ UNCHANGED <<binding, assigned, deliveries, held, boots>>

(* After a yield: the next page, then the mail of the stored handle. *)
RouteMore(c) ==
  LET call == calls[c]
      next == Routing(call, call.stored)
  IN
  /\ call.pc = "routing"
  /\ IF Snapshot(call.from, call.through) # {}
     THEN RoutePage(call) /\ UNCHANGED calls
     ELSE /\ call.from # call.stored
          /\ calls' = [calls EXCEPT ![c] = next]
          /\ RoutePage(next)
  /\ UNCHANGED <<binding, assigned, deliveries, held, boots>>

Routed(call) ==
  call.pc = "routing" /\ call.from = call.stored /\ Snapshot(call.from, call.through) = {}

Outstanding == {d \in DOMAIN deliveries : deliveries[d].status = "outstanding"}

(* acknowledgeRunDelivery: an acknowledged Delivery of this generation is a duplicate. *)
AckAny(call) == call.ack \in DOMAIN deliveries  \* faulty: a fenced batch is acknowledged
MayAcknowledge(call) ==
  deliveries[call.ack].generation = call.generation /\ deliveries[call.ack].status # "fenced"
AckKeepsRows(call) == rows  \* faulty: acknowledged mail stays unread
AckedRows(call) ==
  IF call.ack = 0 \/ deliveries[call.ack].status = "acknowledged" THEN rows
  ELSE MarkRead({m \in DOMAIN rows : m \in deliveries[call.ack].ids})
AckedDeliveries(call) ==
  IF call.ack = 0 THEN deliveries ELSE [deliveries EXCEPT ![call.ack].status = "acknowledged"]

(* The call ends: refused, timed out, or its caller gone. *)
End(c) == calls' = [calls EXCEPT ![c] = IdleCall]

(* getOrCreateRunDelivery over these tables: the outstanding Delivery       *)
(* again, or the oldest unread mail, once mail of a wanted type is there.   *)
NewestUnread(S) == {m \in S : Cardinality({k \in S : k > m}) < BatchLimit}  \* faulty order
OldestUnread(S) == First(S, BatchLimit)

Answered(c, p, d) ==
  /\ End(c)
  /\ held' \in {held, [held EXCEPT ![p] = @ \cup {d}]}

ReadDelivery(c, mail, tables, wanted, otherwise) ==
  LET call == calls[c]
      open == {d \in DOMAIN tables : tables[d].status = "outstanding"}
      unread == {m \in DOMAIN mail : mail[m].to = RunBox /\ ~mail[m].read}
  IN
  /\ rows' = mail
  /\ IF open # {}
     THEN /\ deliveries' = tables
          /\ IF \A d \in open : tables[d].generation = call.generation
             THEN Answered(c, call.pane, CHOOSE d \in open : TRUE)
             ELSE End(c) /\ UNCHANGED held
     ELSE IF \E m \in unread : Matches(mail[m].type, wanted)
     THEN /\ deliveries' = Append(tables, [generation |-> call.generation,
                                           ids |-> OldestUnread(unread), status |-> "outstanding"])
          /\ Answered(c, call.pane, Len(tables) + 1)
     ELSE /\ deliveries' = tables
          /\ otherwise /\ UNCHANGED held

(* waitForMessage: one waiter of the Run at a time.  A check without --wait *)
(* is one without filter that gives up as soon as it waits.                 *)
Waiter(call) == [pc |-> "waiting", pane |-> call.pane, generation |-> call.generation,
                 filter |-> call.filter]
WaitOrEnd(c) ==
  calls' = [calls EXCEPT ![c] = IF Waiting = {} THEN Waiter(calls[c]) ELSE IdleCall]

(* After the last page: fenced, or acknowledge and read, in one step. *)
CheckRead(c) ==
  LET call == calls[c] IN
  /\ Routed(call)
  /\ consumer = call.pane /\ generation = call.generation
  /\ call.ack # 0 => MayAcknowledge(call)
  /\ ReadDelivery(c, AckedRows(call), AckedDeliveries(call), call.filter, WaitOrEnd(c))
  /\ UNCHANGED <<binding, assigned, boots>>

CheckRefused(c) ==
  LET call == calls[c] IN
  /\ Routed(call)
  /\ \/ consumer # call.pane \/ generation # call.generation
     \/ call.ack # 0 /\ ~MayAcknowledge(call)
  /\ End(c)
  /\ UNCHANGED <<binding, assigned, rows, deliveries, held, boots>>

(* A woken call reads once more, unless its consumer was replaced. *)
WokenRead(c) ==
  LET call == calls[c] IN
  /\ call.pc = "woken"
  /\ IF generation # call.generation
     THEN End(c) /\ UNCHANGED <<rows, deliveries, held>>
     ELSE ReadDelivery(c, rows, deliveries, call.filter, End(c))
  /\ UNCHANGED <<binding, assigned, boots>>

(* The wait times out or the caller's connection closes. *)
CheckGivenUp(c) ==
  /\ calls[c].pc \in {"routing", "waiting"}
  /\ End(c)
  /\ UNCHANGED <<binding, assigned, rows, deliveries, held, boots>>

Restart ==
  /\ boots < MaxBoots
  /\ boots' = boots + 1
  /\ calls' = [c \in Calls |-> IdleCall]
  /\ UNCHANGED <<binding, assigned, rows, deliveries, held>>

-----------------------------------------------------------------------------
Check(c) ==
  \/ \E p \in Panes, ack \in 0..Len(deliveries), filter \in Filters : CheckStart(c, p, ack, filter)
  \/ RouteMore(c) \/ CheckRead(c) \/ CheckRefused(c) \/ WokenRead(c) \/ CheckGivenUp(c)

Mail ==
  \/ \E type \in Types : Send(type) \/ \E h \in Handles : Reply(h, type)
  \/ \E m \in DOMAIN rows : Answer(m)
  \/ WorkerCheck \/ DispatchMailReturns

Next ==
  \/ Mail \/ Settle \/ Leave \/ Restart
  \/ \E p \in Panes : Use(p) \/ Assign(p)
  \/ \E c \in Calls : Check(c)

Spec == Init /\ [][Next]_vars

-----------------------------------------------------------------------------
(* Properties *)

RoutingType ==
  [pc : {"routing"}, pane : Panes, generation : 1..MaxGeneration, stored : Handles,
   from : Handles, through : 0..MaxRows, ack : Nat, filter : Filters]
WaiterType ==
  [pc : {"waiting", "woken"}, pane : Panes, generation : 1..MaxGeneration,
   filter : Filters]

TypeOK ==
  /\ consumer \in Panes \cup {None} /\ handle \in Handles \cup {None}
  /\ generation \in 1..MaxGeneration /\ boots \in 1..MaxBoots
  /\ known \subseteq Handles /\ assigned \subseteq Handles
  /\ rows \in Seq([toRun : BOOLEAN, to : Addresses, type : Types, read : BOOLEAN])
  /\ Len(rows) <= MaxRows
  /\ deliveries \in Seq([generation : 1..MaxGeneration, ids : SUBSET Ids, status : Statuses])
  /\ calls \in [Calls -> RoutingType \cup WaiterType \cup {IdleCall}]
  /\ held \in [Panes -> SUBSET (1..Len(deliveries))]

(* At most one Delivery is outstanding, and it is the current consumer's:   *)
(* otherwise every later check of the Run is refused as fenced.             *)
OneOutstanding ==
  /\ Cardinality(Outstanding) <= 1
  /\ \A d \in Outstanding : deliveries[d].generation = generation /\ consumer # None

(* A message is in one batch at a time: once handed out it is in no other   *)
(* batch, unless the consumer that held it was replaced.                    *)
HandedOutOnce ==
  \A m \in DOMAIN rows :
    Cardinality({d \in DOMAIN deliveries :
                   m \in deliveries[d].ids /\ deliveries[d].status # "fenced"}) <= 1

(* "The bound Run's oldest FIFO Delivery": no acknowledged batch leaves an  *)
(* older message of the Run unread behind it.                               *)
OldestFirst ==
  \A d \in DOMAIN deliveries : deliveries[d].status = "acknowledged" =>
    \A m \in deliveries[d].ids, k \in DOMAIN rows :
      rows[k].toRun /\ k < m => rows[k].read

(* A waiting check never sleeps over mail it asked for: what was sent to    *)
(* the Run is read, or already handed out to another call of the consumer.  *)
WaiterNotMissed ==
  \A c \in Waiting, m \in Unread(RunBox) :
    rows[m].toRun /\ Matches(rows[m].type, calls[c].filter) => \E d \in Outstanding : m \in deliveries[d].ids

(* Mail of the Run is read by the acknowledgment of its current consumer,   *)
(* who was told of the batch, or by an answer; never by a replaced one.     *)
AckedByItsReader ==
  [][\A d \in DOMAIN deliveries :
       (deliveries[d].status # deliveries'[d].status /\ deliveries'[d].status = "acknowledged")
         => /\ d \in held[consumer]
            /\ deliveries[d].generation = generation
            /\ \A m \in deliveries[d].ids : rows'[m].read]_vars
=============================================================================
