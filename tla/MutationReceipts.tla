-------------------------- MODULE MutationReceipts --------------------------
(* The durable mutation ledger: a mutating orchestration call carries a     *)
(* request id, and a caller that lost the answer repeats the call with the  *)
(* same id instead of doing the thing twice.                                *)
(*                                                                          *)
(* OrchestrationMutationExecutor.run writes a pending receipt, runs the     *)
(* handler, and completes the receipt with its answer; a repeated call      *)
(* joins the handler in flight, replays the completed answer, or is told    *)
(* that the outcome is unknown when a restart left the receipt pending.     *)
(* The methods use their receipt in different ways, the kinds below.        *)
(*                                                                          *)
(* A request id stands for one caller, method and payload.                  *)
EXTENDS Naturals, FiniteSets

CONSTANTS
  Requests,     \* request ids
  NoRequest,    \* not one of them
  Kind,         \* how the method of a request uses its receipt
  MaxRows,      \* MUTATION_RECEIPT_MAX_ROWS
  PruneBatch,   \* MUTATION_RECEIPT_PRUNE_BATCH_SIZE
  MaxCalls,     \* bound: calls made, retries included
  MaxBoots      \* bound: runs of the desktop runtime

CallIds == 1..MaxCalls

(* plain: commits and returns (run-create, task-create, gates, ...).        *)
(* early: completes the receipt when it commits (a group send, ask, a check *)
(*   that acknowledges).                                                    *)
(* dispatch: dispatch --inject commits, then waits for the prompt.          *)
(* settle: worker-stop and federationStop wait for the process after their  *)
(*   commit, a reply queues for a server; found done, they say so.           *)
(* start: worker-start and federationAttachStart write the receipt in the   *)
(*   transaction that accepts the dispatch, then wait for the worker.       *)
(* release: worker-release, idempotent, is run again from a pending receipt.*)
Kinds   == {"plain", "early", "dispatch", "settle", "start", "release"}
Guarded == {"dispatch", "settle", "start"}  \* whose effect a row must admit

ASSUME KindAssumption == NoRequest \notin Requests /\ Kind \in [Requests -> Kinds]
ASSUME BoundsAssumption ==
  /\ MaxRows \in Nat \ {0} /\ PruneBatch \in Nat
  /\ MaxCalls \in Nat \ {0} /\ MaxBoots \in Nat \ {0}

VARIABLES
  receipt,    \* mutation_receipts: its state, or "absent"
  answer,     \* the effect the receipt's answer describes, 0 for none
  inFlight,   \* the executor's map: the call whose handler runs, or 0
  made,       \* the calls made so far, numbered from 1
  call,       \* each call: request, place, the effect it made or was told of,
              \* and how it was answered
  effects,    \* how often the effect of a request was applied
  target,     \* the row its effect needs (a ready Task, a live worker, an open
              \* question): "open" to it, "held" by it, or "closed" to it
  forgotten,  \* history: the requests whose completed receipt was pruned
  boots

ledger == <<receipt, answer, forgotten>>
vars   == <<ledger, inFlight, made, call, effects, target, boots>>

-----------------------------------------------------------------------------
(* The ledger *)

Present   == {r \in Requests : receipt[r] # "absent"}
Completed == {r \in Requests : receipt[r] = "completed"}

(* ensureMutationReceiptCapacity: completed receipts make room for a new    *)
(* one.  Which are the oldest depends on a clock of whole seconds: any.     *)
(* (The 30-day expiry removes completed receipts too.)                      *)
Surplus == Cardinality(Present) - MaxRows + PruneBatch
Prunings ==
  IF Cardinality(Present) < MaxRows THEN {{}}
  ELSE {P \in SUBSET Completed :
          Cardinality(P) = Surplus \/ (P = Completed /\ Cardinality(P) < Surplus)}
FullLate(P) == Cardinality(Present \ P) > MaxRows  \* faulty: one row too many
Full(P) == Cardinality(Present \ P) >= MaxRows

(* The insert of both begin transactions, after the capacity check. *)
InsertPending(r, n, P) ==
  /\ ~Full(P)
  /\ receipt' = [x \in Requests |-> IF x = r THEN "pending"
                                    ELSE IF x \in P THEN "absent" ELSE receipt[x]]
  /\ answer'  = [x \in Requests |-> IF x = r THEN n ELSE IF x \in P THEN 0 ELSE answer[x]]
  /\ forgotten' = forgotten \union P

(* completeMutationReceipt of a receipt that is still there. *)
Complete(r, n) ==
  /\ receipt' = [receipt EXCEPT ![r] = "completed"]
  /\ answer'  = [answer EXCEPT ![r] = n]
  /\ UNCHANGED forgotten

(* discardPendingMutationReceipt *)
Discard(r) ==
  IF receipt[r] # "pending" THEN UNCHANGED ledger
  ELSE /\ receipt' = [receipt EXCEPT ![r] = "absent"]
       /\ answer'  = [answer EXCEPT ![r] = 0]
       /\ UNCHANGED forgotten

-----------------------------------------------------------------------------
(* A call begins *)

Reached(c, pc) == call[c].pc = pc
Of(c) == call[c].req

(* Call c is for request r; where it is, whose handler it waits for, the    *)
(* effect it is about (0: none) and what it was told.                       *)
New(r, pc, on, effect, told) ==
  /\ made' = made + 1
  /\ call' = [call EXCEPT ![made + 1] =
                [req |-> r, pc |-> pc, on |-> on, effect |-> effect, told |-> told]]

Runs(r) ==
  /\ New(r, "running", 0, 0, "nothing")
  /\ inFlight' = [inFlight EXCEPT ![r] = made + 1]
Refuses(r, told) == New(r, "done", 0, 0, told) /\ UNCHANGED inFlight

(* No receipt: begin one, unless unresolved receipts fill the ledger.       *)
(* worker-start only looks, and inserts when its dispatch is accepted.      *)
BeginFresh(r) ==
  /\ receipt[r] = "absent"
  /\ IF Kind[r] = "start" THEN Runs(r) /\ UNCHANGED ledger
     ELSE \E P \in Prunings : \/ Full(P) /\ Refuses(r, "error") /\ UNCHANGED ledger
                              \/ InsertPending(r, 0, P) /\ Runs(r)

(* A receipt and a handler in flight: wait for that handler. *)
Joins(r) == receipt[r] # "absent" /\ inFlight[r] # 0
BeginJoined(r) ==
  /\ Joins(r)
  /\ New(r, "joined", inFlight[r], 0, "nothing")
  /\ UNCHANGED <<ledger, inFlight>>

RepliesStored(r) == receipt[r] # "absent"  \* faulty: a pending receipt is replayed
Replays(r) == receipt[r] = "completed"
BeginReplayed(r) ==
  /\ Replays(r) /\ ~Joins(r)
  /\ New(r, "done", 0, answer[r], "answer")
  /\ UNCHANGED <<ledger, inFlight>>

(* A pending receipt nobody is working on: its process is gone. *)
ResumesAll(r) == TRUE  \* faulty: every method is run again
Resumes(r) == Kind[r] = "release"
BeginPending(r) ==
  /\ receipt[r] = "pending" /\ ~Joins(r)
  /\ IF Resumes(r) THEN Runs(r) ELSE Refuses(r, "unknown")
  /\ UNCHANGED ledger

Begin(r) ==
  /\ made < MaxCalls
  /\ BeginFresh(r) \/ BeginJoined(r) \/ BeginReplayed(r) \/ BeginPending(r)
  /\ UNCHANGED <<effects, target, boots>>

-----------------------------------------------------------------------------
(* Its handler runs *)

(* The handler's promise settles: its own call is told one thing, the calls *)
(* that joined it another, and the map forgets the request.                 *)
Settle(c, own, joined) ==
  /\ call' = [x \in CallIds |->
       IF x = c THEN [call[c] EXCEPT !.pc = "done", !.told = own]
       ELSE IF call[x].on = c
       THEN [call[x] EXCEPT !.pc = "done", !.on = 0, !.told = joined, !.effect = call[c].effect]
       ELSE call[x]]
  /\ inFlight' = [inFlight EXCEPT ![Of(c)] = 0]
  /\ UNCHANGED made

(* Call c has made effect n of its request. *)
Applies(c, n) ==
  /\ effects' = [effects EXCEPT ![Of(c)] = n]
  /\ call' = [call EXCEPT ![c].pc = "applied", ![c].effect = n]
  /\ UNCHANGED <<inFlight, made>>

(* A method without a row to look at; the early ones record their answer.   *)
Apply(c) ==
  LET r == Of(c) IN
  /\ Reached(c, "running") /\ Kind[r] \in {"plain", "early"}
  /\ Kind[r] = "early" => receipt[r] # "absent"
  /\ Applies(c, effects[r] + 1)
  /\ IF Kind[r] = "early" THEN Complete(r, effects[r] + 1) ELSE UNCHANGED ledger
  /\ UNCHANGED <<target, boots>>

(* Recording an early answer throws when the receipt is gone: an earlier    *)
(* handler of the request outlived its pruned receipt and discarded this.   *)
ApplyUnrecorded(c) ==
  LET r == Of(c) IN
  /\ Reached(c, "running") /\ Kind[r] = "early" /\ receipt[r] = "absent"
  /\ effects' = [effects EXCEPT ![r] = @ + 1]
  /\ Settle(c, "error", "error")
  /\ UNCHANGED <<ledger, target, boots>>

(* createDispatchContext, beginWorkerStop, answerQuestion: the row is read  *)
(* and taken in one transaction.  If it is not open, they throw (Fail).     *)
Admits(r) == target[r] = "open"
Takes(r)  == target' = [target EXCEPT ![r] = "held"]
ApplyGuarded(c) ==
  LET r == Of(c) IN
  /\ Reached(c, "running") /\ Kind[r] \in {"dispatch", "settle"}
  /\ Admits(r) /\ Takes(r)
  /\ Applies(c, effects[r] + 1)
  /\ UNCHANGED <<ledger, boots>>

(* A stop that finds the worker settled, a reply that finds its own answer. *)
(* (A stop that is still under way throws: Fail.)                           *)
FindDone(c) ==
  LET r == Of(c) IN
  /\ Reached(c, "running") /\ Kind[r] = "settle" /\ ~Admits(r)
  /\ Applies(c, effects[r])
  /\ UNCHANGED <<ledger, target, boots>>

(* worker-release: repeating it changes nothing more. *)
ApplyRelease(c) ==
  /\ Reached(c, "running") /\ Kind[Of(c)] = "release"
  /\ Applies(c, 1)
  /\ UNCHANGED <<ledger, target, boots>>

(* createStartingWorkerDispatch: receipt and dispatch are inserted          *)
(* together; a receipt that is already there makes the outcome unknown, and *)
(* a Task that is not ready is refused (Fail).                              *)
Unaccepted(r) == receipt[r] = "absent"
Accept(c) ==
  LET r == Of(c) IN
  /\ Reached(c, "running") /\ Kind[r] = "start"
  /\ Unaccepted(r) /\ Admits(r) /\ Takes(r)
  /\ \E P \in Prunings : InsertPending(r, effects[r] + 1, P)
  /\ Applies(c, effects[r] + 1)
  /\ UNCHANGED boots

(* operation_unknown keeps the receipt. *)
DiscardsUnknown(r) == Discard(r)  \* faulty: every error discards
KeepsUnknown(r) == UNCHANGED ledger
AcceptedAlready(c) ==
  /\ Reached(c, "running") /\ Kind[Of(c)] = "start" /\ ~Unaccepted(Of(c))
  /\ Settle(c, "unknown", "unknown")
  /\ KeepsUnknown(Of(c))
  /\ UNCHANGED <<effects, target, boots>>

(* A handler throws before its effect, or, if it goes on after it, later:   *)
(* a prompt is rejected, a stop was settled by others, a relay queue is     *)
(* full.  A started worker that no longer starts (its agent exited) makes   *)
(* markWorkerDispatchReady throw, and failWorkerStart again.                *)
Stands(c) == target[Of(c)] = "held" /\ call[c].effect = effects[Of(c)]
Throws(c) ==
  \/ Reached(c, "running")
  \/ /\ Reached(c, "applied")
     /\ \/ Kind[Of(c)] \in {"early", "dispatch", "settle", "release"}
        \/ Kind[Of(c)] = "start" /\ ~Stands(c)

(* failDispatch of the dispatch whose prompt was rejected: its Task is      *)
(* ready again, or failed if that was one failure too many.                 *)
GivesBack(c) ==
  IF Reached(c, "applied") /\ Kind[Of(c)] = "dispatch" /\ Stands(c)
  THEN \E s \in {"open", "closed"} : target' = [target EXCEPT ![Of(c)] = s]
  ELSE UNCHANGED target

(* The executor discards a pending receipt; an early answer stays. *)
Fail(c) ==
  /\ Throws(c) /\ GivesBack(c)
  /\ Settle(c, "error", "error")
  /\ Discard(Of(c))
  /\ UNCHANGED <<effects, boots>>

(* A plain handler throws operation_unknown: a remote report was queued and *)
(* its delivery is not known.                                               *)
Unknown(c) ==
  /\ Reached(c, "running") \/ Reached(c, "applied")
  /\ Kind[Of(c)] = "plain"
  /\ Settle(c, "unknown", "unknown")
  /\ KeepsUnknown(Of(c))
  /\ UNCHANGED <<effects, target, boots>>

(* A stop is settled; a worker whose start failed or is in doubt leaves its *)
(* Task failed or blocked, and the handler answers so.                      *)
Finishes(c) ==
  \/ UNCHANGED target
  \/ /\ Kind[Of(c)] \in {"settle", "start"} /\ Stands(c)
     /\ target' = [target EXCEPT ![Of(c)] = "closed"]

(* The handler returns.  A receipt that is gone makes its own call fail,    *)
(* while the calls that joined it are answered.                             *)
Return(c) ==
  /\ Reached(c, "applied") /\ Finishes(c)
  /\ IF receipt[Of(c)] # "absent"
     THEN Complete(Of(c), call[c].effect) /\ Settle(c, "answer", "answer")
     ELSE Settle(c, "error", "answer") /\ UNCHANGED ledger
  /\ UNCHANGED <<effects, boots>>

(* Other calls and events change the row: the agent exits and its Task is   *)
(* ready again, another coordinator or the operator takes it, a report      *)
(* completes it, a stop in doubt is resumed.                                *)
Elsewhere(r) ==
  /\ Kind[r] \in Guarded
  /\ \E s \in {"open", "closed"} \ {target[r]} : target' = [target EXCEPT ![r] = s]
  /\ UNCHANGED <<ledger, inFlight, made, call, effects, boots>>

(* The runtime stops and starts again: handlers and joins are gone. *)
Restart ==
  /\ boots < MaxBoots
  /\ boots' = boots + 1
  /\ inFlight' = [r \in Requests |-> 0]
  /\ call' = [c \in CallIds |->
       IF call[c].pc \in {"none", "done"} THEN call[c]
       ELSE [call[c] EXCEPT !.pc = "done", !.on = 0, !.told = "lost"]]
  /\ UNCHANGED <<ledger, made, effects, target>>

-----------------------------------------------------------------------------
NoCall == [req |-> NoRequest, pc |-> "none", on |-> 0, effect |-> 0, told |-> "nothing"]

Init ==
  /\ receipt   = [r \in Requests |-> "absent"]
  /\ answer    = [r \in Requests |-> 0]
  /\ inFlight  = [r \in Requests |-> 0]
  /\ made      = 0
  /\ call      = [c \in CallIds |-> NoCall]
  /\ effects   = [r \in Requests |-> 0]
  /\ target    = [r \in Requests |-> "open"]
  /\ forgotten = {}
  /\ boots     = 1

Next ==
  \/ \E r \in Requests : Begin(r) \/ Elsewhere(r)
  \/ \E c \in CallIds :
       \/ Apply(c) \/ ApplyUnrecorded(c) \/ ApplyGuarded(c) \/ FindDone(c)
       \/ ApplyRelease(c) \/ Accept(c) \/ AcceptedAlready(c)
       \/ Fail(c) \/ Unknown(c) \/ Return(c)
  \/ Restart

Spec == Init /\ [][Next]_vars

-----------------------------------------------------------------------------
(* Properties *)

CallType ==
  [req : Requests \cup {NoRequest}, pc : {"none", "running", "applied", "joined", "done"},
   on : 0..MaxCalls, effect : Nat, told : {"nothing", "answer", "error", "unknown", "lost"}]

(* Type invariant; the ledger never outgrows its limit, and the executor's  *)
(* map names handlers that run.                                             *)
TypeOK ==
  /\ receipt \in [Requests -> {"absent", "pending", "completed"}]
  /\ answer \in [Requests -> Nat] /\ effects \in [Requests -> Nat]
  /\ target \in [Requests -> {"open", "held", "closed"}]
  /\ Cardinality(Present) <= MaxRows
  /\ forgotten \subseteq Requests
  /\ made \in 0..MaxCalls
  /\ inFlight \in [Requests -> 0..made]
  /\ call \in [CallIds -> CallType]
  /\ \A r \in Requests :
       inFlight[r] # 0 => call[inFlight[r]].pc \in {"running", "applied"}
  /\ \A c \in CallIds :
       call[c].pc = "joined" => call[c].on # 0 /\ call[call[c].on].pc \in {"running", "applied"}
  /\ boots \in 1..MaxBoots

(* Some call of request r was told that it failed, and it is the one that   *)
(* made effect n.  Concurrent starts share one receipt, which any of them   *)
(* discards when it fails.                                                  *)
ToldFailed(r, n) ==
  \E c \in CallIds :
    Of(c) = r /\ call[c].told = "error" /\ (call[c].effect = n \/ Kind[r] = "start")

(* The effect of a request happens once, however often and however          *)
(* concurrently it is repeated and wherever the runtime restarts, until its *)
(* completed receipt is pruned.  Only a handler that goes on after its      *)
(* commit (orchestration.ts:1704, dispatch_inactive) makes a repetition     *)
(* possible: when the error it throws then was told to its caller.          *)
EffectOnce ==
  \A r \in Requests \ forgotten :
    IF Kind[r] \in Guarded THEN \A n \in 1..(effects[r] - 1) : ToldFailed(r, n)
    ELSE effects[r] <= 1

(* What happened is remembered: the receipt of a request whose effect is    *)
(* committed stays until it is completed and pruned, through late errors,   *)
(* restarts and unknown outcomes.  The methods of the row that is looked at *)
(* lose it in one case: their caller was told that the latest effect        *)
(* failed.  (A release leaves its outcome in its own row.)                  *)
EffectRemembered ==
  \A r \in Requests \ forgotten :
    effects[r] > 0 /\ receipt[r] = "absent" /\ Kind[r] # "release"
    => Kind[r] \in Guarded /\ ToldFailed(r, effects[r])

(* All callers of a request that are given an answer are given the same:    *)
(* the one that ran it, those that joined it, and those it was replayed to; *)
(* and it describes an effect that happened, unless it says that there was  *)
(* nothing left to do.  For starts: unless one of its calls failed.         *)
Answered(c) == call[c].told = "answer"
SameAnswer ==
  \A b, c \in CallIds :
    /\ Answered(b) /\ Answered(c) /\ Of(b) = Of(c) /\ Of(b) \notin forgotten
    /\ Kind[Of(b)] = "start" => ~ToldFailed(Of(b), 0)
    => /\ call[b].effect = call[c].effect
       /\ call[b].effect > 0 \/ Kind[Of(b)] = "settle"

=============================================================================
