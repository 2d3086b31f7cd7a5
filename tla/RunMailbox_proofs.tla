------------------------- MODULE RunMailbox_proofs --------------------------
(***************************************************************************)
(* The Run mailbox for any panes, calls, message types, batch limit and    *)
(* bounds.                                                                 *)
(*                                                                         *)
(* What makes the properties inductive: the rows of an acknowledged        *)
(* Delivery are read, the rows of the outstanding one were the oldest      *)
(* unread when it was made, mail sent to the Run never leaves its mailbox, *)
(* and a call of the current generation belongs to the current consumer.   *)
(***************************************************************************)
EXTENDS RunMailbox, FiniteSetTheorems, SequenceTheorems, WellFoundedInduction, TLAPS

RowType  == [toRun : BOOLEAN, to : Addresses, type : Types, read : BOOLEAN]
Delivery == [generation : 1..MaxGeneration, ids : SUBSET Ids, status : Statuses]

(* Mail sent to the Run stays in its mailbox. *)
RowsOK(rs) ==
  /\ rs \in Seq(RowType) /\ Len(rs) <= MaxRows
  /\ \A m \in DOMAIN rs : rs[m].toRun => rs[m].to = RunBox

(* One outstanding Delivery; acknowledged rows are read; a batch holds the  *)
(* oldest mail of the Run that was unread; batches are disjoint.            *)
BatchesOK(rs, ds) ==
  /\ ds \in Seq(Delivery)
  /\ \A d, e \in DOMAIN ds :
       ds[d].status = "outstanding" /\ ds[e].status = "outstanding" => d = e
  /\ \A d \in DOMAIN ds : ds[d].status # "fenced" =>
       /\ ds[d].ids \subseteq DOMAIN rs
       /\ ds[d].status = "acknowledged" => \A m \in ds[d].ids : rs[m].read
       /\ \A m \in ds[d].ids, k \in DOMAIN rs : rs[k].toRun /\ k < m =>
            rs[k].read \/ (ds[d].status = "outstanding" /\ k \in ds[d].ids)
  /\ \A d, e \in DOMAIN ds : ds[d].status # "fenced" /\ ds[e].status # "fenced" /\ d # e =>
       ds[d].ids \cap ds[e].ids = {}

CurrentOK(ds) ==
  \A d \in DOMAIN ds : ds[d].status = "outstanding" =>
    ds[d].generation = generation /\ consumer # None

(* WaiterNotMissed, of these tables and calls. *)
WaitersOK(rs, ds, cs) ==
  \A c \in Calls, m \in DOMAIN rs :
    /\ cs[c].pc = "waiting" /\ rs[m].toRun /\ ~rs[m].read
    /\ Matches(rs[m].type, cs[c].filter)
    => \E d \in DOMAIN ds : ds[d].status = "outstanding" /\ m \in ds[d].ids

BindingOK ==
  /\ consumer \in Panes \cup {None} /\ handle \in Handles \cup {None}
  /\ consumer # None => handle # None
  /\ generation \in 1..MaxGeneration /\ boots \in 1..MaxBoots
  /\ known \subseteq Handles /\ assigned \subseteq Handles

(* A call of the current generation is the current consumer's, and a call   *)
(* acknowledges what its pane was told.                                     *)
CallType == RoutingType \cup WaiterType \cup {IdleCall}
CallOK(call) ==
  /\ call.pc # "idle" => /\ call.generation <= generation
                         /\ call.generation = generation => consumer = call.pane
  /\ call.pc = "routing" => call.ack \in held[call.pane] \cup {0}

CallsOK ==
  /\ calls \in [Calls -> CallType]
  /\ \A c \in Calls : CallOK(calls[c])

HeldOK == held \in [Panes -> SUBSET (1..Len(deliveries))]

IInv ==
  /\ BindingOK /\ RowsOK(rows) /\ BatchesOK(rows, deliveries) /\ CurrentOK(deliveries)
  /\ CallsOK /\ HeldOK /\ WaitersOK(rows, deliveries, calls)

-----------------------------------------------------------------------------
(* Sets of sequence numbers *)

(* A nonempty set of numbers up to n has a greatest element. *)
LEMMA GreatestExists ==
  ASSUME NEW n \in Nat, NEW S \in SUBSET (1..n), S # {}
  PROVE  \E m \in S : \A k \in S : k <= m
<1> DEFINE T == {n - k : k \in S}
<1>1. T \subseteq Nat
  BY SMT
<1>2. T # {}
  OBVIOUS
<1>3. PICK x \in T : \A y \in T : ~(<<y, x>> \in OpToRel(<, Nat))
  BY <1>1, <1>2, NatLessThanWellFounded, WFMin
<1>4. \A y \in T : ~(y < x)
  BY <1>1, <1>3 DEF OpToRel
<1>5. PICK m \in S : x = n - m
  OBVIOUS
<1>6. \A k \in S : k <= m
  <2> SUFFICES ASSUME NEW k \in S PROVE k <= m
    OBVIOUS
  <2>1. n - k \in T
    OBVIOUS
  <2> QED
    BY <1>4, <1>5, <2>1
<1> QED
  BY <1>6

LEMMA LatestInRange ==
  ASSUME NEW n \in Nat, NEW S \in SUBSET (1..n)
  PROVE  Latest(S) \in 0..n
<1>1. CASE S # {}
  <2>1. \E m \in S : \A k \in S : k <= m
    BY <1>1, GreatestExists
  <2>2. Latest(S) \in S
    BY <1>1, <2>1 DEF Latest
  <2>3. \A x \in S : x \in 0..n
    OBVIOUS
  <2> QED
    BY <2>2, <2>3
<1>2. CASE S = {}
  BY <1>2 DEF Latest
<1> QED
  BY <1>1, <1>2

(* First takes the smallest: what is before a taken number is taken too.    *)
LEMMA FirstIsPrefix ==
  ASSUME NEW N \in Nat, NEW S \in SUBSET (1..N), NEW n \in Nat,
         NEW m \in First(S, n), NEW k \in S, k < m
  PROVE  k \in First(S, n)
<1> DEFINE A == {j \in S : j < k}
           B == {j \in S : j < m}
<1>1. A \subseteq B /\ IsFiniteSet(S)
  <2>1. IsFiniteSet(1..N)
    BY FS_Interval
  <2>2. IsFiniteSet(S)
    BY <2>1, FS_Subset
  <2>3. m \in Nat /\ k \in Nat /\ \A j \in S : j \in Nat
    BY DEF First
  <2>4. A \subseteq B
    <3> SUFFICES ASSUME NEW j \in S, j < k PROVE j < m
      OBVIOUS
    <3> QED
      BY <2>3
  <2> QED
    BY <2>2, <2>4
<1>2. IsFiniteSet(B) /\ Cardinality(A) <= Cardinality(B)
  BY <1>1, FS_Subset
<1>3. IsFiniteSet(A) /\ Cardinality(A) \in Nat /\ Cardinality(B) \in Nat
  BY <1>1, <1>2, FS_Subset, FS_CardinalityType
<1>4. Cardinality(B) < n
  BY DEF First
<1>5. Cardinality(A) < n
  BY <1>2, <1>3, <1>4
<1> QED
  BY <1>5 DEF First

-----------------------------------------------------------------------------
(* The rows *)

LEMMA RowsDomain ==
  ASSUME NEW rs, RowsOK(rs)
  PROVE  /\ DOMAIN rs = 1..Len(rs) /\ Len(rs) \in 0..MaxRows /\ DOMAIN rs \subseteq Ids
         /\ rs \in [1..Len(rs) -> RowType] /\ MaxRows \in Nat
<1>1. /\ DOMAIN rs = 1..Len(rs) /\ Len(rs) \in Nat /\ rs \in [1..Len(rs) -> RowType]
  BY LenProperties DEF RowsOK
<1>2. Len(rs) <= MaxRows /\ MaxRows \in Nat
  BY MailboxAssumption DEF RowsOK, MailboxAssumption
<1>3. \A m \in DOMAIN rs : m \in Ids
  BY <1>1, <1>2 DEF Ids
<1> QED
  BY <1>1, <1>2, <1>3

(* Addresses of handles and of the dispatch mailbox are not the Run's. *)
LEMMA NotTheRun ==
  /\ None \notin Handles /\ RunBox \notin Handles /\ DispatchBox \notin Handles
  /\ RunBox # DispatchBox /\ None # RunBox /\ None # DispatchBox /\ None \notin Addresses
  /\ None \notin Panes
<1>1. None \notin Handles /\ RunBox \notin Handles /\ DispatchBox \notin Handles
  BY MailboxAssumption DEF Handles, None, RunBox, DispatchBox, MailboxAssumption
<1>2. RunBox # DispatchBox /\ None # RunBox /\ None # DispatchBox
  BY DEF None, RunBox, DispatchBox
<1> QED
  BY <1>1, <1>2, MailboxAssumption DEF Addresses, MailboxAssumption, None

(* A step of the rows: later rows may be added; mail sent to the Run stays  *)
(* there, and what is read stays read.                                      *)
Later(rs, new) ==
  /\ Len(rs) <= Len(new)
  /\ \A m \in DOMAIN rs :
       /\ m \in DOMAIN new
       /\ new[m].toRun = rs[m].toRun /\ new[m].type = rs[m].type
       /\ rs[m].read => new[m].read

Readdressed(rs, S, to) ==
  [m \in DOMAIN rs |-> IF m \in S THEN [rs[m] EXCEPT !.to = to] ELSE rs[m]]

LEMMA ReaddressedRows ==
  ASSUME NEW rs, RowsOK(rs), NEW S, NEW to \in Addresses,
         \A m \in DOMAIN rs : m \in S => ~rs[m].toRun,
         NEW new, new = Readdressed(rs, S, to)
  PROVE  /\ RowsOK(new) /\ Later(rs, new) /\ Len(new) = Len(rs) /\ DOMAIN new = DOMAIN rs
<1>1. /\ DOMAIN rs = 1..Len(rs) /\ Len(rs) \in Nat /\ Len(rs) <= MaxRows
      /\ rs \in [1..Len(rs) -> RowType]
  BY RowsDomain
<1>2. \A m \in 1..Len(rs) : new[m] = IF m \in S THEN [rs[m] EXCEPT !.to = to] ELSE rs[m]
  BY <1>1 DEF Readdressed
<1>3. \A m \in 1..Len(rs) :
        /\ new[m] \in RowType /\ new[m].toRun = rs[m].toRun
        /\ new[m].type = rs[m].type /\ new[m].read = rs[m].read
        /\ m \notin S => new[m].to = rs[m].to
  BY <1>1, <1>2 DEF RowType
<1>4. new \in [1..Len(rs) -> RowType]
  BY <1>1, <1>3 DEF Readdressed
<1>5. new \in Seq(RowType) /\ Len(new) = Len(rs) /\ DOMAIN new = 1..Len(rs)
  BY <1>1, <1>4, SeqDef, LenProperties
<1> QED
  BY <1>1, <1>3, <1>5 DEF RowsOK, Later

LEMMA ReaddressRows ==
  ASSUME RowsOK(rows), NEW S, NEW to \in Addresses,
         \A m \in DOMAIN rows : m \in S => ~rows[m].toRun,
         NEW new, new = Readdress(S, to)
  PROVE  RowsOK(new) /\ Later(rows, new) /\ Len(new) = Len(rows) /\ DOMAIN new = DOMAIN rows
<1>1. Readdress(S, to) = Readdressed(rows, S, to)
  BY DEF Readdress, Readdressed
<1> QED
  BY <1>1, ReaddressedRows

LEMMA MarkReadRows ==
  ASSUME RowsOK(rows), NEW S, NEW new, new = MarkRead(S)
  PROVE  /\ RowsOK(new) /\ Later(rows, new) /\ Len(new) = Len(rows)
         /\ \A m \in DOMAIN rows : m \in S => new[m].read
         /\ \A m \in DOMAIN rows : new[m].to = rows[m].to
<1>1. /\ DOMAIN rows = 1..Len(rows) /\ Len(rows) \in Nat /\ Len(rows) <= MaxRows
      /\ rows \in [1..Len(rows) -> RowType]
  BY RowsDomain
<1>2. \A m \in 1..Len(rows) :
        new[m] = IF m \in S THEN [rows[m] EXCEPT !.read = TRUE] ELSE rows[m]
  BY <1>1 DEF MarkRead
<1>3. \A m \in 1..Len(rows) :
        /\ new[m] \in RowType /\ new[m].toRun = rows[m].toRun
        /\ new[m].type = rows[m].type /\ new[m].to = rows[m].to
        /\ m \in S \/ rows[m].read => new[m].read
  BY <1>1, <1>2 DEF RowType
<1>4. new \in [1..Len(rows) -> RowType]
  BY <1>1, <1>3 DEF MarkRead
<1>5. new \in Seq(RowType) /\ Len(new) = Len(rows) /\ DOMAIN new = 1..Len(rows)
  BY <1>1, <1>4, SeqDef, LenProperties
<1> QED
  BY <1>1, <1>3, <1>5 DEF RowsOK, Later

LEMMA InsertRows ==
  ASSUME RowsOK(rows), Len(rows) < MaxRows, NEW to \in Addresses, NEW type \in Types,
         NEW new, new = Insert(to, type)
  PROVE  /\ RowsOK(new) /\ Later(rows, new) /\ Len(new) = Len(rows) + 1
         /\ new[Len(rows) + 1] = [toRun |-> to = RunBox, to |-> to, type |-> type, read |-> FALSE]
         /\ \A m \in DOMAIN rows : new[m] = rows[m]
<1> DEFINE row == [toRun |-> to = RunBox, to |-> to, type |-> type, read |-> FALSE]
<1>1. /\ DOMAIN rows = 1..Len(rows) /\ Len(rows) \in Nat /\ MaxRows \in Nat
      /\ rows \in Seq(RowType)
  BY RowsDomain DEF RowsOK
<1>2. row \in RowType
  BY DEF RowType
<1>3. new = Append(rows, row)
  BY DEF Insert
<1> HIDE DEF row
<1>4. /\ new \in Seq(RowType) /\ Len(new) = Len(rows) + 1 /\ new[Len(rows) + 1] = row
      /\ \A m \in 1..Len(rows) : new[m] = rows[m]
  BY <1>1, <1>2, <1>3, AppendProperties
<1>5. DOMAIN new = 1..(Len(rows) + 1)
  BY <1>4, LenProperties
<1>6. Later(rows, new)
  BY <1>1, <1>4, <1>5 DEF Later
<1>7. RowsOK(new)
  <2>1. Len(new) <= MaxRows
    BY <1>1, <1>4
  <2>2. ASSUME NEW m \in DOMAIN new, new[m].toRun PROVE new[m].to = RunBox
    <3>1. CASE m = Len(rows) + 1
      <4>1. new[m] = row
        BY <1>4, <3>1
      <4>2. row.toRun => row.to = RunBox
        BY DEF row
      <4> QED
        BY <2>2, <4>1, <4>2
    <3>2. CASE m # Len(rows) + 1
      <4>1. m \in DOMAIN rows /\ new[m] = rows[m]
        BY <1>1, <1>4, <1>5, <3>2
      <4> QED
        BY <2>2, <4>1 DEF RowsOK
    <3> QED
      BY <3>1, <3>2
  <2> QED
    BY <1>4, <2>1, <2>2 DEF RowsOK
<1> QED
  BY <1>1, <1>4, <1>6, <1>7 DEF row

(* Batches survive any such step of the rows. *)
LEMMA LaterBatches ==
  ASSUME NEW rs, NEW new, NEW ds, RowsOK(rs), RowsOK(new), Later(rs, new), BatchesOK(rs, ds)
  PROVE  BatchesOK(new, ds)
<1>1. DOMAIN rs = 1..Len(rs) /\ DOMAIN new = 1..Len(new) /\ Len(rs) \in Nat /\ Len(new) \in Nat
  BY RowsDomain
<1>2. DOMAIN rs \subseteq DOMAIN new
  BY DEF Later
<1>3. \A d \in DOMAIN ds : ds[d].status # "fenced" =>
        /\ ds[d].ids \subseteq DOMAIN new
        /\ ds[d].status = "acknowledged" => \A m \in ds[d].ids : new[m].read
  BY <1>2 DEF BatchesOK, Later
<1>4. ASSUME NEW d \in DOMAIN ds, ds[d].status # "fenced", NEW m \in ds[d].ids,
             NEW k \in DOMAIN new, new[k].toRun, k < m
      PROVE  new[k].read \/ (ds[d].status = "outstanding" /\ k \in ds[d].ids)
  <2>1. m \in DOMAIN rs
    BY <1>4 DEF BatchesOK
  <2>2. k \in DOMAIN rs
    BY <1>1, <1>4, <2>1
  <2> QED
    BY <1>4, <2>2 DEF BatchesOK, Later
<1> QED
  BY <1>3, <1>4 DEF BatchesOK

(* So do waiters, when whoever wanted a new row of the Run was woken.       *)
LEMMA LaterWaiters ==
  ASSUME NEW rs, NEW new, NEW ds, NEW cs, NEW ncs, Later(rs, new), WaitersOK(rs, ds, cs),
         \A c \in Calls : ncs[c].pc = "waiting" =>
           /\ ncs[c] = cs[c]
           /\ \A m \in DOMAIN new \ DOMAIN rs :
                new[m].toRun => ~Matches(new[m].type, ncs[c].filter)
  PROVE  WaitersOK(new, ds, ncs)
BY DEF WaitersOK, Later

-----------------------------------------------------------------------------
(* The calls *)

LEMMA CallsStep ==
  ASSUME CallsOK, UNCHANGED <<consumer, generation>>,
         \A p \in Panes : held[p] \subseteq held'[p],
         calls' \in [Calls -> CallType],
         \A c \in Calls :
           \/ calls'[c] = calls[c] \/ calls'[c] = IdleCall
           \/ calls[c].pc = "waiting" /\ calls'[c] = [calls[c] EXCEPT !.pc = "woken"]
  PROVE  CallsOK'
<1> SUFFICES ASSUME NEW c \in Calls PROVE CallOK(calls[c])'
  BY DEF CallsOK
<1>1. CallOK(calls[c]) /\ calls[c] \in CallType
  BY DEF CallsOK
<1>2. CASE calls'[c] = calls[c]
  <2>1. calls[c].pc = "routing" => calls[c].pane \in Panes
    BY <1>1 DEF CallType, RoutingType, WaiterType, IdleCall
  <2> QED
    BY <1>1, <1>2, <2>1 DEF CallOK
<1>3. CASE calls'[c] = IdleCall
  BY <1>3 DEF CallOK, IdleCall
<1>4. CASE calls[c].pc = "waiting" /\ calls'[c] = [calls[c] EXCEPT !.pc = "woken"]
  <2>1. calls[c] \in WaiterType
    BY <1>1, <1>4 DEF CallType, RoutingType, IdleCall
  <2>2. /\ calls'[c].pc = "woken" /\ calls'[c].generation = calls[c].generation
        /\ calls'[c].pane = calls[c].pane
    BY <1>4, <2>1 DEF WaiterType
  <2> QED
    BY <1>1, <1>4, <2>2 DEF CallOK
<1> QED
  BY <1>2, <1>3, <1>4

LEMMA WakeCalls ==
  ASSUME CallsOK, NEW types, calls' = Wake(types), UNCHANGED <<consumer, generation, held>>
  PROVE  /\ CallsOK'
         /\ \A c \in Calls : calls'[c].pc = "waiting" =>
              calls'[c] = calls[c] /\ \A t \in types : ~Matches(t, calls'[c].filter)
<1>1. \A c \in Calls :
        calls'[c] = IF calls[c].pc = "waiting" /\ \E t \in types : Matches(t, calls[c].filter)
                    THEN [calls[c] EXCEPT !.pc = "woken"] ELSE calls[c]
  BY DEF Wake, Waiting
<1>2. \A c \in Calls : calls[c].pc = "waiting" =>
        [calls[c] EXCEPT !.pc = "woken"] \in WaiterType /\ [calls[c] EXCEPT !.pc = "woken"].pc = "woken"
  <2> SUFFICES ASSUME NEW c \in Calls, calls[c].pc = "waiting"
               PROVE  /\ [calls[c] EXCEPT !.pc = "woken"] \in WaiterType
                      /\ [calls[c] EXCEPT !.pc = "woken"].pc = "woken"
    OBVIOUS
  <2>1. calls[c] \in WaiterType
    BY DEF CallsOK, CallType, RoutingType, IdleCall
  <2> QED
    BY <2>1 DEF WaiterType
<1>3. calls' \in [Calls -> CallType]
  <2>1. \A c \in Calls : calls'[c] \in CallType
    BY <1>1, <1>2 DEF CallsOK, CallType
  <2> QED
    BY <2>1 DEF Wake
<1>4. CallsOK'
  BY <1>1, <1>3, CallsStep
<1> QED
  BY <1>1, <1>2, <1>4

LEMMA EndCalls ==
  ASSUME CallsOK, NEW c \in Calls, End(c), UNCHANGED <<consumer, generation>>,
         \A p \in Panes : held[p] \subseteq held'[p]
  PROVE  CallsOK' /\ \A x \in Calls : calls'[x].pc = "waiting" => calls'[x] = calls[x]
<1>1. /\ calls' = [calls EXCEPT ![c] = IdleCall] /\ calls \in [Calls -> CallType]
      /\ IdleCall \in CallType
  BY DEF End, CallsOK, CallType
<1>2. calls' \in [Calls -> CallType] /\ \A x \in Calls : calls'[x] = calls[x] \/ calls'[x] = IdleCall
  BY <1>1
<1>3. CallsOK'
  BY <1>2, CallsStep
<1> QED
  BY <1>2, <1>3 DEF IdleCall

-----------------------------------------------------------------------------
(* Steps of the rows and the calls *)

LEMMA TableStep ==
  ASSUME IInv, RowsOK(rows'), Later(rows, rows'), CallsOK',
         UNCHANGED <<binding, deliveries, held, boots>>, assigned' \subseteq Handles,
         \A c \in Calls : calls'[c].pc = "waiting" =>
           /\ calls'[c] = calls[c]
           /\ \A m \in DOMAIN rows' \ DOMAIN rows :
                rows'[m].toRun => ~Matches(rows'[m].type, calls'[c].filter)
  PROVE  IInv'
<1>1. BatchesOK(rows', deliveries) /\ WaitersOK(rows', deliveries, calls')
  BY LaterBatches, LaterWaiters DEF IInv
<1>2. BindingOK' /\ CurrentOK(deliveries)' /\ HeldOK'
  BY DEF IInv, binding, BindingOK, CurrentOK, HeldOK
<1>3. deliveries' = deliveries
  OBVIOUS
<1> QED
  BY <1>1, <1>2, <1>3 DEF IInv

LEMMA DeliverKeeps ==
  ASSUME IInv, NEW to \in Addresses, NEW type \in Types, Deliver(to, type)
  PROVE  IInv'
<1>1. /\ Len(rows) < MaxRows /\ rows' = Insert(to, type)
      /\ calls' = IF to = RunBox THEN Wake({type}) ELSE calls
      /\ UNCHANGED <<binding, assigned, deliveries, held, boots>>
      /\ RowsOK(rows) /\ CallsOK /\ assigned \subseteq Handles
  BY DEF Deliver, IInv, BindingOK
<1>2. /\ RowsOK(rows') /\ Later(rows, rows') /\ Len(rows') = Len(rows) + 1
      /\ rows'[Len(rows) + 1] = [toRun |-> to = RunBox, to |-> to, type |-> type, read |-> FALSE]
  BY <1>1, InsertRows
<1>3. \A m \in DOMAIN rows' \ DOMAIN rows : m = Len(rows) + 1
  BY <1>1, <1>2, RowsDomain
<1>4. UNCHANGED <<consumer, generation, held>>
  BY <1>1 DEF binding
<1>5. CASE to = RunBox
  <2>1. /\ CallsOK'
        /\ \A c \in Calls : calls'[c].pc = "waiting" =>
             calls'[c] = calls[c] /\ ~Matches(type, calls'[c].filter)
    BY <1>1, <1>4, <1>5, WakeCalls
  <2>2. \A m \in DOMAIN rows' \ DOMAIN rows : rows'[m].type = type
    BY <1>2, <1>3
  <2> QED
    BY <1>1, <1>2, <2>1, <2>2, TableStep
<1>6. CASE to # RunBox
  <2>1. calls' = calls
    BY <1>1, <1>6
  <2>2. CallsOK'
    BY <1>1, <1>4, <2>1 DEF CallsOK, CallOK
  <2>3. \A m \in DOMAIN rows' \ DOMAIN rows : ~rows'[m].toRun
    <3>1. rows'[Len(rows) + 1].toRun = (to = RunBox)
      BY <1>2
    <3> QED
      BY <1>3, <1>6, <3>1
  <2> QED
    BY <1>1, <1>2, <2>1, <2>2, <2>3, TableStep
<1> QED
  BY <1>5, <1>6

(* Handles and the mailboxes mail may be moved to are addresses. *)
LEMMA AddressesOf ==
  /\ RunBox \in Addresses /\ DispatchBox \in Addresses
  /\ \A h \in Handles : h \in Addresses /\ h # RunBox /\ h # None
  /\ \A h \in Handles : Recipient(h) \in Addresses \cup {None}
  /\ \A h \in Handles : Owner(h) \in Addresses
  /\ BindingOK => \A p \in Panes : Handle(p) \in Handles
<1>1. RunBox \in Addresses /\ DispatchBox \in Addresses
  BY DEF Addresses
<1>2. \A h \in Handles : h \in Addresses /\ h # RunBox /\ h # None
  BY NotTheRun DEF Addresses
<1>3. \A h \in Handles : Recipient(h) \in Addresses \cup {None}
  BY <1>1, <1>2 DEF Recipient
<1>4. \A h \in Handles : Owner(h) \in Addresses
  BY <1>1, <1>2 DEF Owner
<1>5. BindingOK => \A p \in Panes : Handle(p) \in Handles
  BY DEF BindingOK, Handle, Handles
<1> QED
  BY <1>1, <1>2, <1>3, <1>4, <1>5

(* Mail of any mailbox but the Run's was not sent to the Run. *)
LEMMA UnreadElsewhere ==
  ASSUME RowsOK(rows), NEW h, h # RunBox
  PROVE  \A m \in DOMAIN rows : m \in Unread(h) => ~rows[m].toRun
BY DEF Unread, RowsOK

LEMMA SendKeeps == ASSUME IInv, NEW type \in Types, Send(type) PROVE IInv'
<1>1. PICK to \in {RunBox} \cup {Recipient(h) : h \in Handles} : to # None /\ Deliver(to, type)
  BY DEF Send
<1>2. to \in Addresses
  BY <1>1, AddressesOf
<1> QED
  BY <1>1, <1>2, DeliverKeeps

LEMMA ReplyKeeps ==
  ASSUME IInv, NEW h \in Handles, NEW type \in Types, Reply(h, type)
  PROVE  IInv'
<1> DEFINE added == Insert(h, type)
           mail  == Unread(h) \cup {Len(rows) + 1}
<1>1. CASE Routable(h)
  <2>1. Deliver(RunBox, type)
    BY <1>1 DEF Reply
  <2> QED
    BY <2>1, DeliverKeeps, AddressesOf
<1>2. CASE ~Routable(h)
  <2>1. /\ Len(rows) < MaxRows /\ rows' = Readdressed(added, mail, Owner(h))
        /\ \/ calls' = calls
           \/ \E ts : calls' = Wake(ts)
        /\ UNCHANGED <<binding, assigned, deliveries, held, boots>>
    BY <1>2 DEF Reply, Readdressed
  <2>2. RowsOK(rows) /\ CallsOK /\ assigned \subseteq Handles /\ UNCHANGED <<consumer, generation, held>>
    BY <2>1 DEF IInv, BindingOK, binding
  <2>3. /\ RowsOK(added) /\ Later(rows, added) /\ Len(added) = Len(rows) + 1
        /\ added[Len(rows) + 1] = [toRun |-> h = RunBox, to |-> h, type |-> type, read |-> FALSE]
        /\ \A m \in DOMAIN rows : added[m] = rows[m]
    BY <2>1, <2>2, InsertRows, AddressesOf
  <2> HIDE DEF added
  <2>4. \A m \in DOMAIN added : m \in DOMAIN rows \/ m = Len(rows) + 1
    BY <2>2, <2>3, RowsDomain
  <2>5. ~added[Len(rows) + 1].toRun
    <3>1. added[Len(rows) + 1].toRun = (h = RunBox)
      BY <2>3
    <3> QED
      BY <3>1, AddressesOf
  <2>6. \A m \in DOMAIN added : m \in mail => ~added[m].toRun
    <3> SUFFICES ASSUME NEW m \in DOMAIN added, m \in mail PROVE ~added[m].toRun
      OBVIOUS
    <3>1. CASE m = Len(rows) + 1
      BY <3>1, <2>5
    <3>2. CASE m # Len(rows) + 1
      <4>1. m \in DOMAIN rows /\ m \in Unread(h) /\ added[m] = rows[m]
        BY <3>2, <2>3, <2>4
      <4> QED
        BY <4>1, <2>2, UnreadElsewhere, AddressesOf
    <3> QED
      BY <3>1, <3>2
  <2>7. Owner(h) \in Addresses
    BY AddressesOf
  <2>8. /\ RowsOK(rows') /\ Later(added, rows') /\ Len(rows') = Len(added)
        /\ DOMAIN rows' = DOMAIN added
    BY <2>1, <2>3, <2>6, <2>7, ReaddressedRows
  <2>9. Later(rows, rows')
    BY <2>3, <2>8 DEF Later
  <2>10. \A m \in DOMAIN rows' \ DOMAIN rows : ~rows'[m].toRun
    BY <2>4, <2>5, <2>8 DEF Later
  <2>11. CallsOK' /\ \A c \in Calls : calls'[c].pc = "waiting" => calls'[c] = calls[c]
    <3>1. CASE calls' = calls
      BY <3>1, <2>2 DEF CallsOK, CallOK
    <3>2. CASE \E ts : calls' = Wake(ts)
      BY <3>2, <2>2, WakeCalls
    <3> QED
      BY <3>1, <3>2, <2>1
  <2> QED
    BY <2>1, <2>2, <2>8, <2>9, <2>10, <2>11, TableStep
<1> QED
  BY <1>1, <1>2

(* Reading mail, and dispatches that come and go. *)
LEMMA SameCalls ==
  ASSUME CallsOK, UNCHANGED <<calls, consumer, generation, held>> PROVE CallsOK'
BY DEF CallsOK, CallOK

LEMMA SameRows == ASSUME RowsOK(rows), rows' = rows PROVE RowsOK(rows') /\ Later(rows, rows')
BY RowsDomain DEF Later

LEMMA MarkKeeps ==
  ASSUME IInv, NEW S, rows' = MarkRead(S),
         UNCHANGED <<binding, assigned, deliveries, calls, held, boots>>
  PROVE  IInv'
<1>1. RowsOK(rows) /\ CallsOK /\ assigned' \subseteq Handles
  BY DEF IInv, BindingOK
<1>2. RowsOK(rows') /\ Later(rows, rows') /\ Len(rows') = Len(rows)
  BY <1>1, MarkReadRows
<1>3. DOMAIN rows' = DOMAIN rows
  BY <1>1, <1>2, RowsDomain
<1>4. CallsOK'
  BY <1>1, SameCalls DEF binding
<1> QED
  BY <1>1, <1>2, <1>3, <1>4, TableStep

LEMMA MailKeeps ==
  ASSUME IInv, \/ \E m \in DOMAIN rows : Answer(m)
               \/ WorkerCheck \/ DispatchMailReturns \/ Settle
               \/ \E p \in Panes : Assign(p)
  PROVE  IInv'
<1>1. RowsOK(rows) /\ CallsOK /\ assigned \subseteq Handles
  BY DEF IInv, BindingOK
<1>2. CASE \E m \in DOMAIN rows : Answer(m)
  BY <1>2, MarkKeeps DEF Answer
<1>3. CASE WorkerCheck
  BY <1>3, MarkKeeps DEF WorkerCheck
<1>4. CASE DispatchMailReturns
  <2>1. /\ rows' = Readdress(Unread(DispatchBox), RunBox)
        /\ calls' = Wake(TypesOf(Unread(DispatchBox)))
        /\ UNCHANGED <<binding, assigned, deliveries, held, boots>>
    BY <1>4 DEF DispatchMailReturns
  <2>2. \A m \in DOMAIN rows : m \in Unread(DispatchBox) => ~rows[m].toRun
    BY <1>1, UnreadElsewhere, NotTheRun
  <2>3. RowsOK(rows') /\ Later(rows, rows') /\ DOMAIN rows' = DOMAIN rows
    BY <1>1, <2>1, <2>2, ReaddressRows, AddressesOf
  <2>4. UNCHANGED <<consumer, generation, held>>
    BY <2>1 DEF binding
  <2>5. CallsOK' /\ \A c \in Calls : calls'[c].pc = "waiting" => calls'[c] = calls[c]
    BY <1>1, <2>1, <2>4, WakeCalls
  <2> QED
    BY <1>1, <2>1, <2>3, <2>5, TableStep
<1>5. CASE Settle
  <2>1. UNCHANGED <<binding, rows, deliveries, calls, held, boots>> /\ assigned' = {}
    BY <1>5 DEF Settle
  <2> QED
    BY <1>1, <2>1, SameRows, SameCalls, TableStep DEF binding
<1>6. CASE \E p \in Panes : Assign(p)
  <2>1. UNCHANGED <<binding, rows, deliveries, calls, held, boots>> /\ assigned' \subseteq Handles
    BY <1>6, AddressesOf DEF Assign, IInv
  <2> QED
    BY <1>1, <2>1, SameRows, SameCalls, TableStep DEF binding
<1> QED
  BY <1>2, <1>3, <1>4, <1>5, <1>6

-----------------------------------------------------------------------------
(* A check reads its way to the Run's mailbox *)

LEMMA RoutingCall ==
  ASSUME RowsOK(rows), NEW call \in RoutingType, NEW h \in Handles
  PROVE  /\ Routing(call, h) \in RoutingType /\ Routing(call, h).pc = "routing"
         /\ Routing(call, h).pane = call.pane /\ Routing(call, h).ack = call.ack
         /\ Routing(call, h).generation = call.generation
         /\ Routing(call, h).from = h
<1>1. Unread(h) \in SUBSET (1..Len(rows)) /\ Len(rows) \in 0..MaxRows /\ MaxRows \in Nat
  BY RowsDomain DEF Unread
<1>2. Latest(Unread(h)) \in 0..Len(rows)
  BY <1>1, LatestInRange
<1>3. Latest(Unread(h)) \in 0..MaxRows
  BY <1>1, <1>2
<1> QED
  BY <1>3 DEF Routing, RoutingType

LEMMA RoutePageRows ==
  ASSUME IInv, NEW call, call.from \in Handles, RoutePage(call)
  PROVE  RowsOK(rows') /\ Later(rows, rows') /\ DOMAIN rows' = DOMAIN rows
<1>1. RowsOK(rows)
  BY DEF IInv
<1>2. \A m \in DOMAIN rows : m \in Unread(call.from) => ~rows[m].toRun
  BY <1>1, UnreadElsewhere, AddressesOf
<1>3. First(Snapshot(call.from, call.through), BatchLimit) \subseteq Unread(call.from)
  BY DEF First, Snapshot
<1> QED
  BY <1>1, <1>2, <1>3, ReaddressRows, AddressesOf DEF RoutePage

LEMMA StoreCall ==
  ASSUME CallsOK, NEW c \in Calls, NEW call \in RoutingType, CallOK(call),
         calls' = [calls EXCEPT ![c] = call], UNCHANGED <<consumer, generation, held>>
  PROVE  CallsOK' /\ \A x \in Calls : calls'[x].pc = "waiting" => calls'[x] = calls[x]
<1>1. calls' \in [Calls -> CallType]
  BY DEF CallsOK, CallType
<1>2. \A x \in Calls : calls'[x] = IF x = c THEN call ELSE calls[x]
  BY DEF CallsOK
<1>3. \A x \in Calls : CallOK(calls[x])'
  BY <1>2 DEF CallsOK, CallOK
<1>4. call.pc = "routing"
  BY DEF RoutingType
<1> QED
  BY <1>1, <1>2, <1>3, <1>4 DEF CallsOK

LEMMA CheckStartKeeps ==
  ASSUME IInv, NEW c \in Calls, NEW p \in Panes, NEW ack \in 0..Len(deliveries),
         NEW filter \in Filters, CheckStart(c, p, ack, filter)
  PROVE  IInv'
<1> DEFINE base == [pc |-> "routing", pane |-> p, generation |-> generation,
                    stored |-> handle, from |-> handle, through |-> 0,
                    ack |-> ack, filter |-> filter]
           call == Routing(base, Handle(p))
<1>1. /\ consumer = p /\ ack \in held[p] \cup {0} /\ calls' = [calls EXCEPT ![c] = call]
      /\ RoutePage(call)
      /\ UNCHANGED <<binding, assigned, deliveries, held, boots>>
  BY DEF CheckStart
<1>2. /\ BindingOK /\ RowsOK(rows) /\ BatchesOK(rows, deliveries) /\ CallsOK
      /\ MaxRows \in Nat
  BY MailboxAssumption DEF IInv, MailboxAssumption
<1>3. handle \in Handles /\ Handle(p) \in Handles /\ generation \in 1..MaxGeneration
  BY <1>1, <1>2, NotTheRun, AddressesOf DEF BindingOK
<1>4. ack \in Nat
  BY <1>2, LenProperties DEF BatchesOK
<1>5. base \in RoutingType /\ base.pane = p /\ base.generation = generation /\ base.ack = ack
  BY <1>2, <1>3, <1>4 DEF RoutingType
<1> HIDE DEF base
<1>6. /\ call \in RoutingType /\ call.pane = p /\ call.generation = generation
      /\ call.ack = ack /\ call.from \in Handles
  BY <1>2, <1>3, <1>5, RoutingCall
<1> HIDE DEF call
<1>7. CallOK(call)
  BY <1>1, <1>3, <1>6 DEF CallOK
<1>8. RowsOK(rows') /\ Later(rows, rows') /\ DOMAIN rows' = DOMAIN rows
  BY <1>1, <1>6, RoutePageRows
<1>9. CallsOK' /\ \A x \in Calls : calls'[x].pc = "waiting" => calls'[x] = calls[x]
  BY <1>1, <1>2, <1>6, <1>7, StoreCall DEF binding
<1> QED
  BY <1>1, <1>2, <1>8, <1>9, TableStep DEF BindingOK

LEMMA RouteMoreKeeps == ASSUME IInv, NEW c \in Calls, RouteMore(c) PROVE IInv'
<1> DEFINE call == calls[c]
           next == Routing(call, call.stored)
<1>1. /\ BindingOK /\ RowsOK(rows) /\ CallsOK /\ CallOK(call)
      /\ UNCHANGED <<binding, assigned, deliveries, held, boots>>
  BY DEF IInv, CallsOK, RouteMore
<1>2. call.pc = "routing" /\ call \in RoutingType
  BY <1>1 DEF RouteMore, CallsOK, CallType, WaiterType, IdleCall
<1>3. call.from \in Handles /\ call.stored \in Handles
  BY <1>2 DEF RoutingType
<1>4. CASE Snapshot(call.from, call.through) # {}
  <2>1. RoutePage(call) /\ calls' = calls
    BY <1>4 DEF RouteMore
  <2>2. RowsOK(rows') /\ Later(rows, rows') /\ DOMAIN rows' = DOMAIN rows
    BY <1>3, <2>1, RoutePageRows
  <2>3. CallsOK'
    BY <1>1, <2>1, SameCalls DEF binding
  <2> QED
    BY <1>1, <2>1, <2>2, <2>3, TableStep DEF BindingOK
<1>5. CASE Snapshot(call.from, call.through) = {}
  <2>1. RoutePage(next) /\ calls' = [calls EXCEPT ![c] = next]
    BY <1>5 DEF RouteMore
  <2>2. /\ next \in RoutingType /\ next.pane = call.pane /\ next.ack = call.ack
        /\ next.generation = call.generation /\ next.from \in Handles /\ next.pc = "routing"
    BY <1>1, <1>2, <1>3, RoutingCall
  <2>3. CallOK(next)
    BY <1>1, <1>2, <2>2 DEF CallOK
  <2> HIDE DEF next
  <2>4. RowsOK(rows') /\ Later(rows, rows') /\ DOMAIN rows' = DOMAIN rows
    BY <2>1, <2>2, RoutePageRows
  <2>5. CallsOK' /\ \A x \in Calls : calls'[x].pc = "waiting" => calls'[x] = calls[x]
    BY <1>1, <2>1, <2>2, <2>3, StoreCall DEF binding
  <2> QED
    BY <1>1, <2>1, <2>4, <2>5, TableStep DEF BindingOK
<1> QED
  BY <1>4, <1>5

(* A call is refused, given up, or lost in a restart. *)
LEMMA EndKeeps ==
  ASSUME IInv, NEW c \in Calls, CheckRefused(c) \/ CheckGivenUp(c)
  PROVE  IInv'
<1>1. End(c) /\ UNCHANGED <<binding, assigned, rows, deliveries, held, boots>>
  BY DEF CheckRefused, CheckGivenUp
<1>2. RowsOK(rows) /\ CallsOK /\ assigned \subseteq Handles
  BY DEF IInv, BindingOK
<1>3. CallsOK' /\ \A x \in Calls : calls'[x].pc = "waiting" => calls'[x] = calls[x]
  BY <1>1, <1>2, EndCalls DEF binding
<1> QED
  BY <1>1, <1>2, <1>3, SameRows, TableStep

LEMMA RestartKeeps == ASSUME IInv, Restart PROVE IInv'
<1>1. /\ boots' \in 1..MaxBoots /\ calls' = [c \in Calls |-> IdleCall]
      /\ UNCHANGED <<binding, assigned, rows, deliveries, held>>
  <2>1. boots \in 1..MaxBoots /\ MaxBoots \in Nat
    BY MailboxAssumption DEF IInv, BindingOK, MailboxAssumption
  <2>2. /\ boots < MaxBoots /\ boots' = boots + 1 /\ calls' = [c \in Calls |-> IdleCall]
        /\ UNCHANGED <<binding, assigned, rows, deliveries, held>>
    BY DEF Restart
  <2> QED
    BY <2>1, <2>2
<1>2. BindingOK' /\ CurrentOK(deliveries)' /\ HeldOK'
  BY <1>1 DEF IInv, BindingOK, binding, CurrentOK, HeldOK
<1>3. RowsOK(rows)' /\ BatchesOK(rows, deliveries)'
  BY <1>1 DEF IInv
<1>4. CallsOK' /\ WaitersOK(rows, deliveries, calls)'
  BY <1>1 DEF CallsOK, CallOK, CallType, IdleCall, WaitersOK
<1> QED
  BY <1>2, <1>3, <1>4 DEF IInv

-----------------------------------------------------------------------------
(* A new consumer *)

LEMMA FenceBatches ==
  ASSUME NEW rs, BatchesOK(rs, deliveries), NEW new, new = FenceOutstanding
  PROVE  /\ BatchesOK(rs, new) /\ Len(new) = Len(deliveries)
         /\ \A d \in DOMAIN new : new[d].status # "outstanding"
<1>1. /\ DOMAIN deliveries = 1..Len(deliveries) /\ Len(deliveries) \in Nat
      /\ deliveries \in [1..Len(deliveries) -> Delivery]
  BY LenProperties DEF BatchesOK
<1>2. \A d \in 1..Len(deliveries) :
        new[d] = IF deliveries[d].status = "outstanding"
                 THEN [deliveries[d] EXCEPT !.status = "fenced"] ELSE deliveries[d]
  BY <1>1 DEF FenceOutstanding
<1>3. \A d \in 1..Len(deliveries) :
        /\ new[d] \in Delivery /\ new[d].status # "outstanding"
        /\ new[d].status # "fenced" => new[d] = deliveries[d]
  BY <1>1, <1>2 DEF Delivery, Statuses
<1>4. new \in [1..Len(deliveries) -> Delivery]
  BY <1>1, <1>3 DEF FenceOutstanding
<1>5. new \in Seq(Delivery) /\ Len(new) = Len(deliveries) /\ DOMAIN new = 1..Len(deliveries)
  BY <1>1, <1>4, SeqDef, LenProperties
<1> QED
  BY <1>1, <1>3, <1>5 DEF BatchesOK

LEMMA CancelCalls ==
  ASSUME CallsOK, BindingOK, calls' = CancelWaiters, held' = held,
         UNCHANGED <<consumer, generation>> \/ generation' = generation + 1
  PROVE  CallsOK' /\ \A c \in Calls : calls'[c].pc # "waiting"
<1>1. \A c \in Calls : calls'[c] = IF calls[c].pc = "waiting" THEN IdleCall ELSE calls[c]
  BY DEF CancelWaiters, Waiting
<1>2. IdleCall \in CallType /\ IdleCall.pc = "idle"
  BY DEF CallType, IdleCall
<1>3. calls' \in [Calls -> CallType]
  <2>1. \A c \in Calls : calls'[c] \in CallType
    BY <1>1, <1>2 DEF CallsOK
  <2> QED
    BY <2>1 DEF CancelWaiters
<1>4. ASSUME NEW c \in Calls PROVE CallOK(calls[c])'
  <2>1. CASE calls'[c].pc = "idle"
    BY <2>1 DEF CallOK
  <2>2. CASE calls'[c].pc # "idle"
    <3>1. calls'[c] = calls[c] /\ CallOK(calls[c]) /\ calls[c] \in CallType
      BY <1>1, <1>2, <2>2 DEF CallsOK
    <3>2. calls[c].generation \in Nat /\ calls[c].generation <= generation /\ generation \in Nat
      BY <3>1, <2>2 DEF CallOK, CallType, RoutingType, WaiterType, IdleCall, BindingOK
    <3> QED
      BY <2>2, <3>1, <3>2 DEF CallOK
  <2> QED
    BY <2>1, <2>2
<1> QED
  BY <1>1, <1>2, <1>3, <1>4 DEF CallsOK

LEMMA DirectMailRows ==
  ASSUME RowsOK(rows), NEW hs, hs \subseteq Handles, rows' = Readdress(DirectMail(hs), RunBox)
  PROVE  RowsOK(rows') /\ Later(rows, rows')
<1>1. \A m \in DOMAIN rows : m \in DirectMail(hs) => ~rows[m].toRun
  BY UnreadElsewhere, AddressesOf DEF DirectMail
<1> QED
  BY <1>1, ReaddressRows, AddressesOf

LEMMA RebindKeeps ==
  ASSUME IInv, NEW hs, hs \subseteq Handles, rows' = Readdress(DirectMail(hs), RunBox),
         calls' = CancelWaiters, BindingOK', held' = held,
         \/ UNCHANGED <<consumer, generation, deliveries>>
         \/ generation' = generation + 1 /\ deliveries' = FenceOutstanding
  PROVE  IInv'
<1>1. RowsOK(rows') /\ Later(rows, rows') /\ RowsOK(rows)
  BY DirectMailRows DEF IInv
<1>2. CallsOK' /\ \A c \in Calls : calls'[c].pc # "waiting"
  BY CancelCalls DEF IInv
<1>3. WaitersOK(rows, deliveries, calls)'
  BY <1>2 DEF WaitersOK
<1>4. BatchesOK(rows', deliveries)
  BY <1>1, LaterBatches DEF IInv
<1>5. CASE UNCHANGED <<consumer, generation, deliveries>>
  <2>1. CurrentOK(deliveries)' /\ HeldOK'
    BY <1>5 DEF IInv, CurrentOK, HeldOK
  <2> QED
    BY <1>1, <1>2, <1>3, <1>4, <1>5, <2>1 DEF IInv
<1>6. CASE generation' = generation + 1 /\ deliveries' = FenceOutstanding
  <2>1. /\ BatchesOK(rows', deliveries') /\ Len(deliveries') = Len(deliveries)
        /\ \A d \in DOMAIN deliveries' : deliveries'[d].status # "outstanding"
    BY <1>4, <1>6, FenceBatches
  <2>2. CurrentOK(deliveries)' /\ HeldOK'
    BY <2>1 DEF IInv, CurrentOK, HeldOK
  <2> QED
    BY <1>1, <1>2, <1>3, <2>1, <2>2 DEF IInv
<1> QED
  BY <1>5, <1>6

LEMMA UseKeeps == ASSUME IInv, NEW p \in Panes, Use(p) PROVE IInv'
<1> DEFINE hs == {handle, Handle(p)} \ {None}
<1>1. hs \subseteq Handles /\ Handle(p) \in Handles /\ Handle(p) # None
  BY AddressesOf DEF IInv, BindingOK
<1>2. /\ known' = known \cup hs /\ rows' = Readdress(DirectMail(hs), RunBox)
      /\ calls' = CancelWaiters /\ UNCHANGED <<assigned, held, boots>>
  BY DEF Use
<1>3. \/ UNCHANGED <<consumer, handle, generation, deliveries>>
      \/ /\ generation < MaxGeneration /\ generation' = generation + 1
         /\ consumer' = p /\ handle' = Handle(p) /\ deliveries' = FenceOutstanding
  BY DEF Use
<1>4. generation \in 1..MaxGeneration /\ MaxGeneration \in Nat
  BY MailboxAssumption DEF IInv, BindingOK, MailboxAssumption
<1>5. generation' \in 1..MaxGeneration
  BY <1>3, <1>4
<1>6. BindingOK'
  BY <1>1, <1>2, <1>3, <1>5 DEF IInv, BindingOK
<1> QED
  BY <1>1, <1>2, <1>3, <1>6, RebindKeeps

LEMMA LeaveKeeps == ASSUME IInv, Leave PROVE IInv'
<1>1. /\ consumer # None /\ generation < MaxGeneration /\ consumer' = None /\ handle' = None
      /\ rows' = Readdress(DirectMail({handle}), RunBox) /\ calls' = CancelWaiters
      /\ generation' = generation + 1 /\ deliveries' = FenceOutstanding
      /\ UNCHANGED <<known, assigned, held, boots>>
  BY DEF Leave
<1>2. {handle} \subseteq Handles
  BY <1>1 DEF IInv, BindingOK
<1>3. generation \in 1..MaxGeneration /\ MaxGeneration \in Nat
  BY MailboxAssumption DEF IInv, BindingOK, MailboxAssumption
<1>4. generation' \in 1..MaxGeneration
  BY <1>1, <1>3
<1>5. BindingOK'
  BY <1>1, <1>4 DEF IInv, BindingOK
<1> QED
  BY <1>1, <1>2, <1>5, RebindKeeps

-----------------------------------------------------------------------------
(* A check acknowledges and reads *)

Open(ds)  == {d \in DOMAIN ds : ds[d].status = "outstanding"}
Mine(rs)  == {m \in DOMAIN rs : rs[m].to = RunBox /\ ~rs[m].read}
Batch(rs, gen) == [generation |-> gen, ids |-> OldestUnread(Mine(rs)), status |-> "outstanding"]

(* The oldest unread rows make a batch of their own. *)
LEMMA AppendBatch ==
  ASSUME NEW rs, NEW ds, RowsOK(rs), BatchesOK(rs, ds), Open(ds) = {},
         NEW gen, gen \in 1..MaxGeneration
  PROVE  /\ BatchesOK(rs, Append(ds, Batch(rs, gen)))
         /\ Len(Append(ds, Batch(rs, gen))) = Len(ds) + 1
         /\ \A d \in DOMAIN Append(ds, Batch(rs, gen)) :
              Append(ds, Batch(rs, gen))[d].status = "outstanding" =>
              Append(ds, Batch(rs, gen))[d].generation = gen
<1> DEFINE new == Append(ds, Batch(rs, gen))
<1> HIDE DEF new
<1> DEFINE b == Batch(rs, gen)
           k == Len(ds) + 1
<1>1. /\ DOMAIN rs = 1..Len(rs) /\ Len(rs) \in Nat /\ DOMAIN rs \subseteq Ids
      /\ BatchLimit \in Nat
  BY RowsDomain, MailboxAssumption DEF MailboxAssumption
<1>2. /\ b.ids \subseteq Mine(rs) /\ Mine(rs) \in SUBSET (1..Len(rs))
      /\ b.status = "outstanding" /\ b.generation = gen /\ b.ids = First(Mine(rs), BatchLimit)
  BY <1>1 DEF Batch, OldestUnread, First, Mine
<1>3. b \in Delivery
  BY <1>1, <1>2 DEF Batch, Delivery, Statuses, Mine
<1> HIDE DEF b
<1>4. /\ new \in Seq(Delivery) /\ Len(new) = k /\ new[k] = b
      /\ \A d \in 1..Len(ds) : new[d] = ds[d]
      /\ DOMAIN ds = 1..Len(ds) /\ Len(ds) \in Nat
  BY <1>3, AppendProperties, LenProperties DEF BatchesOK, b, new
<1>5. DOMAIN new = 1..k
  BY <1>4, LenProperties
<1>6. \A d \in DOMAIN new : d = k \/ (d # k /\ d \in DOMAIN ds /\ new[d] = ds[d])
  BY <1>4, <1>5
<1>7. \A d \in DOMAIN ds : ds[d].status # "outstanding"
  BY DEF Open
<1>8. \A d \in DOMAIN ds : ds[d].status # "fenced" => ds[d].status = "acknowledged"
  <2>1. \A d \in DOMAIN ds : ds[d] \in Delivery
    BY <1>4, LenProperties DEF BatchesOK
  <2> QED
    BY <1>7, <2>1 DEF Delivery, Statuses
<1>9. \A d \in DOMAIN ds : ds[d].status # "fenced" => ds[d].ids \cap b.ids = {}
  BY <1>2, <1>8 DEF BatchesOK, Mine
<1>10. ASSUME NEW m \in b.ids, NEW j \in DOMAIN rs, rs[j].toRun, j < m
       PROVE  rs[j].read \/ j \in b.ids
  <2>1. CASE ~rs[j].read
    <3>1. j \in Mine(rs)
      BY <1>10, <2>1 DEF Mine, RowsOK
    <3> QED
      BY <1>1, <1>2, <1>10, <3>1, FirstIsPrefix
  <2> QED
    BY <2>1
<1>11. \A d, e \in DOMAIN new :
         new[d].status = "outstanding" /\ new[e].status = "outstanding" => d = e
  BY <1>6, <1>7
<1>12. \A d \in DOMAIN new : new[d].status # "fenced" =>
         /\ new[d].ids \subseteq DOMAIN rs
         /\ new[d].status = "acknowledged" => \A m \in new[d].ids : rs[m].read
         /\ \A m \in new[d].ids, j \in DOMAIN rs : rs[j].toRun /\ j < m =>
              rs[j].read \/ (new[d].status = "outstanding" /\ j \in new[d].ids)
  <2> SUFFICES ASSUME NEW d \in DOMAIN new, new[d].status # "fenced"
               PROVE  /\ new[d].ids \subseteq DOMAIN rs
                      /\ new[d].status = "acknowledged" => \A m \in new[d].ids : rs[m].read
                      /\ \A m \in new[d].ids, j \in DOMAIN rs : rs[j].toRun /\ j < m =>
                           rs[j].read \/ (new[d].status = "outstanding" /\ j \in new[d].ids)
    OBVIOUS
  <2>1. CASE d = k
    BY <2>1, <1>2, <1>4, <1>10 DEF Mine
  <2>2. CASE d # k
    BY <2>2, <1>6 DEF BatchesOK
  <2> QED
    BY <2>1, <2>2
<1>13. \A d, e \in DOMAIN new :
         new[d].status # "fenced" /\ new[e].status # "fenced" /\ d # e =>
         new[d].ids \cap new[e].ids = {}
  <2> SUFFICES ASSUME NEW d \in DOMAIN new, NEW e \in DOMAIN new, d # e,
                      new[d].status # "fenced", new[e].status # "fenced"
               PROVE  new[d].ids \cap new[e].ids = {}
    OBVIOUS
  <2>1. CASE d # k /\ e # k
    BY <2>1, <1>6 DEF BatchesOK
  <2>2. CASE d = k
    <3>1. e \in DOMAIN ds /\ new[e] = ds[e] /\ new[d] = b
      BY <2>2, <1>4, <1>6
    <3> QED
      BY <3>1, <1>9
  <2>3. CASE e = k
    <3>1. d \in DOMAIN ds /\ new[d] = ds[d] /\ new[e] = b
      BY <2>3, <1>4, <1>6
    <3> QED
      BY <3>1, <1>9
  <2> QED
    BY <2>1, <2>2, <2>3
<1>14. \A d \in DOMAIN new : new[d].status = "outstanding" => new[d].generation = gen
  BY <1>2, <1>4, <1>6, <1>7
<1> QED
  BY <1>4, <1>11, <1>12, <1>13, <1>14 DEF BatchesOK, new

(* The tables a check reads: its acknowledgment is in them. *)
ReadOK(c, rs, ds) ==
  /\ RowsOK(rs) /\ BatchesOK(rs, ds) /\ CurrentOK(ds) /\ WaitersOK(rs, ds, calls)
  /\ Len(ds) = Len(deliveries)
  /\ calls[c].generation = generation /\ consumer = calls[c].pane /\ calls[c].pane \in Panes

LEMMA ReadEnds ==
  ASSUME IInv, NEW c \in Calls, RowsOK(rows'), BatchesOK(rows', deliveries'),
         CurrentOK(deliveries'), WaitersOK(rows', deliveries', calls), Len(deliveries') >= Len(deliveries),
         End(c), UNCHANGED <<binding, assigned, boots>>,
         \/ held' = held
         \/ \E p \in Panes, d \in 1..Len(deliveries') : held' = [held EXCEPT ![p] = @ \cup {d}]
  PROVE  IInv'
<1>1. HeldOK /\ CallsOK /\ Len(deliveries) \in Nat /\ Len(deliveries') \in Nat
  BY LenProperties DEF IInv, BatchesOK
<1>2. HeldOK' /\ \A p \in Panes : held[p] \subseteq held'[p]
  <2>1. held \in [Panes -> SUBSET (1..Len(deliveries'))]
    <3>1. \A x : x \in 1..Len(deliveries) => x \in 1..Len(deliveries')
      BY <1>1
    <3> QED
      BY <1>1, <3>1 DEF HeldOK
  <2> QED
    BY <2>1 DEF HeldOK
<1>3. CallsOK' /\ \A x \in Calls : calls'[x].pc = "waiting" => calls'[x] = calls[x]
  BY <1>1, <1>2, EndCalls DEF binding
<1>4. WaitersOK(rows', deliveries', calls')
  BY <1>3 DEF WaitersOK
<1>5. BindingOK' /\ CurrentOK(deliveries)'
  BY DEF IInv, BindingOK, binding, CurrentOK
<1> QED
  BY <1>2, <1>3, <1>4, <1>5 DEF IInv

LEMMA ReadWaits ==
  ASSUME IInv, NEW c \in Calls, NEW rs, NEW ds, ReadOK(c, rs, ds), calls[c].pc = "routing",
         rows' = rs, deliveries' = ds, held' = held, UNCHANGED <<binding, assigned, boots>>,
         \A m \in Mine(rs) : ~Matches(rs[m].type, calls[c].filter),
         WaitOrEnd(c)
  PROVE  IInv'
<1>1. CASE Waiting # {}
  <2>1. End(c)
    BY <1>1 DEF WaitOrEnd, End
  <2>2. Len(ds) \in Nat /\ Len(deliveries) = Len(ds)
    BY LenProperties DEF ReadOK, BatchesOK
  <2>3. Len(deliveries') >= Len(deliveries)
    BY <2>2
  <2> QED
    BY <2>1, <2>3, ReadEnds DEF ReadOK
<1>2. CASE Waiting = {}
  <2> DEFINE w == Waiter(calls[c])
  <2>1. calls' = [calls EXCEPT ![c] = w] /\ CallsOK
    BY <1>2 DEF WaitOrEnd, IInv
  <2>2. calls[c] \in RoutingType
    BY <2>1 DEF CallsOK, CallType, WaiterType, IdleCall
  <2>3. /\ w \in WaiterType /\ w.pc = "waiting" /\ w.filter = calls[c].filter
        /\ w.generation = generation /\ w.pane = consumer
    BY <2>2 DEF Waiter, WaiterType, RoutingType, ReadOK
  <2> HIDE DEF w
  <2>4. calls' \in [Calls -> CallType] /\ \A x \in Calls : calls'[x] = IF x = c THEN w ELSE calls[x]
    BY <2>1, <2>3 DEF CallsOK, CallType
  <2>5. generation \in Nat /\ UNCHANGED <<consumer, generation>>
    BY DEF IInv, BindingOK, binding
  <2>6. \A x \in Calls : CallOK(calls[x])'
    BY <2>1, <2>3, <2>4, <2>5 DEF CallsOK, CallOK
  <2>7. WaitersOK(rs, ds, calls')
    BY <2>3, <2>4 DEF WaitersOK, ReadOK, Mine, RowsOK
  <2>8. BindingOK' /\ CurrentOK(deliveries)' /\ HeldOK'
    BY DEF IInv, BindingOK, binding, CurrentOK, HeldOK, ReadOK
  <2> QED
    BY <2>4, <2>6, <2>7, <2>8 DEF IInv, CallsOK, ReadOK
<1> QED
  BY <1>1, <1>2

LEMMA ReadKeeps ==
  ASSUME IInv, NEW c \in Calls, NEW rs, NEW ds, ReadOK(c, rs, ds),
         \/ ReadDelivery(c, rs, ds, calls[c].filter, End(c))
         \/ /\ calls[c].pc = "routing"
            /\ ReadDelivery(c, rs, ds, calls[c].filter, WaitOrEnd(c)),
         UNCHANGED <<binding, assigned, boots>>
  PROVE  IInv'
<1>1. /\ Len(ds) \in Nat /\ Len(deliveries) = Len(ds) /\ DOMAIN ds = 1..Len(ds)
      /\ generation \in 1..MaxGeneration /\ calls[c].pane \in Panes
  BY LenProperties DEF ReadOK, BatchesOK, IInv, BindingOK
<1>2. CASE Open(ds) # {}
  <2>1. /\ rows' = rs /\ deliveries' = ds /\ End(c)
        /\ held' \in {held, [held EXCEPT ![calls[c].pane] = @ \cup {CHOOSE d \in Open(ds) : TRUE}]}
    BY <1>2 DEF ReadDelivery, Open, Answered
  <2>2. (CHOOSE d \in Open(ds) : TRUE) \in 1..Len(ds)
    <3>1. (CHOOSE d \in Open(ds) : TRUE) \in Open(ds)
      BY <1>2
    <3> QED
      BY <3>1, <1>1 DEF Open
  <2>3. Len(deliveries') >= Len(deliveries)
    BY <1>1, <2>1
  <2> QED
    BY <1>1, <2>1, <2>2, <2>3, ReadEnds DEF ReadOK
<1>3. CASE Open(ds) = {} /\ \E m \in Mine(rs) : Matches(rs[m].type, calls[c].filter)
  <2>1. /\ rows' = rs /\ deliveries' = Append(ds, Batch(rs, generation)) /\ End(c)
        /\ held' \in {held, [held EXCEPT ![calls[c].pane] = @ \cup {Len(ds) + 1}]}
    BY <1>3 DEF ReadDelivery, Open, Answered, Mine, Batch, ReadOK
  <2>2. /\ BatchesOK(rs, deliveries') /\ Len(deliveries') = Len(ds) + 1
        /\ \A d \in DOMAIN deliveries' :
             deliveries'[d].status = "outstanding" => deliveries'[d].generation = generation
    <3>1. RowsOK(rs) /\ BatchesOK(rs, ds) /\ Open(ds) = {} /\ generation \in 1..MaxGeneration
      BY <1>1, <1>3 DEF ReadOK
    <3> DEFINE new == Append(ds, Batch(rs, generation))
    <3>2. /\ BatchesOK(rs, new) /\ Len(new) = Len(ds) + 1
          /\ \A d \in DOMAIN new : new[d].status = "outstanding" => new[d].generation = generation
      BY <3>1, AppendBatch, Zenon
    <3> HIDE DEF new
    <3>3. deliveries' = new
      BY <2>1 DEF new
    <3> QED
      BY <3>2, <3>3
  <2>3. CurrentOK(deliveries')
    BY <2>2, NotTheRun DEF CurrentOK, ReadOK
  <2>4. WaitersOK(rs, deliveries', calls)
    BY <1>3 DEF WaitersOK, ReadOK, Open
  <2>5. Len(deliveries') >= Len(deliveries) /\ Len(ds) + 1 \in 1..Len(deliveries')
    BY <1>1, <2>2
  <2> QED
    BY <1>1, <2>1, <2>2, <2>3, <2>4, <2>5, ReadEnds DEF ReadOK
<1>4. CASE Open(ds) = {} /\ \A m \in Mine(rs) : ~Matches(rs[m].type, calls[c].filter)
  <2>1. /\ rows' = rs /\ deliveries' = ds /\ held' = held
        /\ End(c) \/ (calls[c].pc = "routing" /\ WaitOrEnd(c))
    BY <1>4 DEF ReadDelivery, Open, Mine
  <2>2. CASE End(c)
    <3>1. Len(deliveries') >= Len(deliveries)
      BY <1>1, <2>1
    <3> QED
      BY <2>1, <2>2, <3>1, ReadEnds DEF ReadOK
  <2>3. CASE calls[c].pc = "routing" /\ WaitOrEnd(c)
    BY <1>4, <2>1, <2>3, ReadWaits
  <2> QED
    BY <2>1, <2>2, <2>3
<1> QED
  BY <1>2, <1>3, <1>4

(* The acknowledgment: its rows are read and its Delivery is closed, and    *)
(* nobody else's mail is.                                                   *)
LEMMA Acknowledged ==
  ASSUME IInv, NEW c \in Calls, calls[c].pc = "routing",
         calls[c].ack # 0 => MayAcknowledge(calls[c]),
         consumer = calls[c].pane, generation = calls[c].generation
  PROVE  /\ ReadOK(c, AckedRows(calls[c]), AckedDeliveries(calls[c]))
         /\ \A d \in DOMAIN deliveries :
              AckedDeliveries(calls[c])[d].status # deliveries[d].status =>
              /\ d \in held[consumer] /\ deliveries[d].generation = generation
              /\ \A m \in deliveries[d].ids : AckedRows(calls[c])[m].read
<1> DEFINE call == calls[c]
           a == call.ack
           rs == AckedRows(call)
           ds == AckedDeliveries(call)
<1>1. /\ RowsOK(rows) /\ BatchesOK(rows, deliveries) /\ CurrentOK(deliveries)
      /\ WaitersOK(rows, deliveries, calls) /\ HeldOK
  BY DEF IInv
<1>2. call \in RoutingType /\ a \in held[call.pane] \cup {0}
  BY DEF IInv, CallsOK, CallOK, CallType, WaiterType, IdleCall
<1>3. call.pane \in Panes
  BY <1>2 DEF RoutingType
<1>4. /\ DOMAIN deliveries = 1..Len(deliveries) /\ Len(deliveries) \in Nat
      /\ deliveries \in [1..Len(deliveries) -> Delivery]
  BY <1>1, LenProperties DEF BatchesOK
<1>5. CASE a = 0
  <2>1. rs = rows /\ ds = deliveries
    BY <1>5 DEF AckedRows, AckedDeliveries
  <2> QED
    BY <1>1, <1>3, <2>1 DEF ReadOK
<1>6. CASE a # 0
  <2>1. /\ a \in DOMAIN deliveries /\ deliveries[a].status # "fenced"
        /\ deliveries[a].generation = generation
    <3>1. a \in held[call.pane] /\ held[call.pane] \subseteq 1..Len(deliveries)
      BY <1>1, <1>2, <1>3, <1>6 DEF HeldOK
    <3>2. MayAcknowledge(call) /\ call.generation = generation
      BY <1>6
    <3> QED
      BY <1>4, <3>1, <3>2 DEF MayAcknowledge
  <2>2. deliveries[a].ids \subseteq DOMAIN rows
    BY <1>1, <2>1 DEF BatchesOK
  <2>3. deliveries[a].status \in {"outstanding", "acknowledged"}
    BY <1>4, <2>1 DEF Delivery, Statuses
  <2>4. /\ RowsOK(rs) /\ Later(rows, rs)
        /\ \A m \in deliveries[a].ids : rs[m].read
    <3>1. CASE deliveries[a].status = "acknowledged"
      <4>1. rs = rows
        BY <3>1 DEF AckedRows
      <4>2. \A m \in deliveries[a].ids : rows[m].read
        BY <1>1, <2>1, <3>1 DEF BatchesOK
      <4> QED
        BY <1>1, <4>1, <4>2, RowsDomain DEF Later
    <3>2. CASE deliveries[a].status = "outstanding"
      <4>1. rs = MarkRead({m \in DOMAIN rows : m \in deliveries[a].ids})
        BY <1>6, <3>2 DEF AckedRows
      <4> HIDE DEF rs
      <4> QED
        BY <1>1, <2>2, <4>1, MarkReadRows
    <3> QED
      BY <2>3, <3>1, <3>2
  <2>5. ds = [deliveries EXCEPT ![a].status = "acknowledged"]
    BY <1>6 DEF AckedDeliveries
  <2> HIDE DEF rs, ds
  <2>6. BatchesOK(rs, deliveries)
    BY <1>1, <2>4, LaterBatches
  <2>7. /\ \A d \in 1..Len(deliveries) :
             ds[d] = IF d = a THEN [deliveries[a] EXCEPT !.status = "acknowledged"] ELSE deliveries[d]
        /\ [deliveries[a] EXCEPT !.status = "acknowledged"] \in Delivery
    BY <1>4, <2>1, <2>5 DEF Delivery, Statuses
  <2>8. /\ \A d \in 1..Len(deliveries) :
             /\ ds[d].ids = deliveries[d].ids /\ ds[d].generation = deliveries[d].generation
             /\ d # a => ds[d] = deliveries[d]
        /\ ds[a].status = "acknowledged"
    BY <1>4, <2>1, <2>7 DEF Delivery
  <2>9. ds \in [1..Len(deliveries) -> Delivery]
    BY <1>4, <2>5, <2>7
  <2>10. ds \in Seq(Delivery) /\ Len(ds) = Len(deliveries) /\ DOMAIN ds = 1..Len(deliveries)
    BY <1>4, <2>9, SeqDef, LenProperties
  <2>11. \A d, e \in DOMAIN ds :
           ds[d].status = "outstanding" /\ ds[e].status = "outstanding" => d = e
    BY <1>1, <1>4, <2>8, <2>10 DEF BatchesOK
  <2>12. \A d \in DOMAIN ds : ds[d].status # "fenced" =>
           /\ ds[d].ids \subseteq DOMAIN rs
           /\ ds[d].status = "acknowledged" => \A m \in ds[d].ids : rs[m].read
           /\ \A m \in ds[d].ids, k \in DOMAIN rs : rs[k].toRun /\ k < m =>
                rs[k].read \/ (ds[d].status = "outstanding" /\ k \in ds[d].ids)
    <3> SUFFICES ASSUME NEW d \in DOMAIN ds, ds[d].status # "fenced"
                 PROVE  /\ ds[d].ids \subseteq DOMAIN rs
                        /\ ds[d].status = "acknowledged" => \A m \in ds[d].ids : rs[m].read
                        /\ \A m \in ds[d].ids, k \in DOMAIN rs : rs[k].toRun /\ k < m =>
                             rs[k].read \/ (ds[d].status = "outstanding" /\ k \in ds[d].ids)
      OBVIOUS
    <3>1. CASE d = a
      BY <3>1, <1>4, <2>1, <2>4, <2>6, <2>8, <2>10 DEF BatchesOK
    <3>2. CASE d # a
      BY <3>2, <1>4, <2>6, <2>8, <2>10 DEF BatchesOK
    <3> QED
      BY <3>1, <3>2
  <2>13. \A d \in DOMAIN ds : ds[d].status # "fenced" => deliveries[d].status # "fenced"
    BY <2>1, <2>8, <2>10
  <2>14. \A d, e \in DOMAIN ds : ds[d].status # "fenced" /\ ds[e].status # "fenced" /\ d # e =>
           ds[d].ids \cap ds[e].ids = {}
    BY <1>1, <1>4, <2>8, <2>10, <2>13 DEF BatchesOK
  <2>15. CurrentOK(ds)
    BY <1>1, <1>4, <2>8, <2>10 DEF CurrentOK
  <2>16. WaitersOK(rs, ds, calls)
    <3> SUFFICES ASSUME NEW x \in Calls, NEW m \in DOMAIN rs, calls[x].pc = "waiting",
                        rs[m].toRun, ~rs[m].read, Matches(rs[m].type, calls[x].filter)
                 PROVE  \E d \in DOMAIN ds : ds[d].status = "outstanding" /\ m \in ds[d].ids
      BY DEF WaitersOK
    <3>1. WaitersOK(rs, deliveries, calls)
      <4>1. DOMAIN rs = DOMAIN rows
        <5>1. CASE deliveries[a].status = "acknowledged"
          BY <5>1 DEF rs, AckedRows
        <5>2. CASE deliveries[a].status = "outstanding"
          BY <5>2, <1>6 DEF rs, AckedRows, MarkRead
        <5> QED
          BY <5>1, <5>2, <2>3
      <4> QED
        BY <1>1, <2>4, <4>1, LaterWaiters
    <3>2. PICK d \in DOMAIN deliveries : deliveries[d].status = "outstanding" /\ m \in deliveries[d].ids
      BY <3>1 DEF WaitersOK
    <3>3. d # a
      BY <3>2, <2>4
    <3> QED
      BY <3>2, <3>3, <1>4, <2>8, <2>10
  <2>17. ReadOK(c, rs, ds)
    BY <1>3, <2>4, <2>10, <2>11, <2>12, <2>14, <2>15, <2>16 DEF ReadOK, BatchesOK
  <2>18. \A d \in DOMAIN deliveries : ds[d].status # deliveries[d].status =>
           /\ d \in held[consumer] /\ deliveries[d].generation = generation
           /\ \A m \in deliveries[d].ids : rs[m].read
    <3> SUFFICES ASSUME NEW d \in DOMAIN deliveries, ds[d].status # deliveries[d].status
                 PROVE  d = a
      BY <1>2, <1>6, <2>1, <2>4
    <3> QED
      BY <1>4, <2>8
  <2> QED
    BY <2>17, <2>18 DEF rs, ds
<1> QED
  BY <1>5, <1>6

LEMMA CheckReadKeeps == ASSUME IInv, NEW c \in Calls, CheckRead(c) PROVE IInv'
<1>1. /\ calls[c].pc = "routing" /\ consumer = calls[c].pane /\ generation = calls[c].generation
      /\ calls[c].ack # 0 => MayAcknowledge(calls[c])
      /\ ReadDelivery(c, AckedRows(calls[c]), AckedDeliveries(calls[c]), calls[c].filter, WaitOrEnd(c))
      /\ UNCHANGED <<binding, assigned, boots>>
  BY DEF CheckRead, Routed
<1>2. ReadOK(c, AckedRows(calls[c]), AckedDeliveries(calls[c]))
  BY <1>1, Acknowledged
<1> QED
  BY <1>1, <1>2, ReadKeeps

LEMMA WokenReadKeeps == ASSUME IInv, NEW c \in Calls, WokenRead(c) PROVE IInv'
<1>1. calls[c].pc = "woken" /\ UNCHANGED <<binding, assigned, boots>> /\ CallOK(calls[c])
  BY DEF WokenRead, IInv, CallsOK
<1>2. CASE generation # calls[c].generation
  <2>1. End(c) /\ UNCHANGED <<rows, deliveries, held>>
    BY <1>2 DEF WokenRead
  <2>2. Len(deliveries') >= Len(deliveries)
    BY <2>1, LenProperties DEF IInv, BatchesOK
  <2> QED
    BY <1>1, <2>1, <2>2, ReadEnds DEF IInv
<1>3. CASE generation = calls[c].generation
  <2>1. ReadDelivery(c, rows, deliveries, calls[c].filter, End(c))
    BY <1>3 DEF WokenRead
  <2>2. calls[c] \in WaiterType
    BY <1>1 DEF IInv, CallsOK, CallType, RoutingType, IdleCall
  <2>3. consumer = calls[c].pane /\ calls[c].pane \in Panes
    BY <1>1, <1>3, <2>2 DEF CallOK, WaiterType
  <2>4. ReadOK(c, rows, deliveries)
    BY <1>3, <2>3 DEF ReadOK, IInv
  <2> QED
    BY <1>1, <2>1, <2>4, ReadKeeps
<1> QED
  BY <1>2, <1>3

-----------------------------------------------------------------------------
(* The invariant *)

LEMMA InitHolds == ASSUME Init PROVE IInv
<1>1. PICK p \in Panes : consumer = p /\ handle = <<p, 1>> /\ known = {<<p, 1>>}
  BY DEF Init
<1>2. /\ generation = 1 /\ assigned = {} /\ rows = <<>> /\ deliveries = <<>>
      /\ calls = [c \in Calls |-> IdleCall] /\ held = [q \in Panes |-> {}] /\ boots = 1
  BY DEF Init
<1>3. /\ MaxGeneration \in Nat \ {0} /\ MaxBoots \in Nat \ {0} /\ MaxRows \in Nat
  BY MailboxAssumption DEF MailboxAssumption
<1>4. <<p, 1>> \in Handles
  BY <1>3 DEF Handles
<1>5. BindingOK
  BY <1>1, <1>2, <1>3, <1>4, NotTheRun DEF BindingOK
<1>6. RowsOK(rows) /\ BatchesOK(rows, deliveries) /\ CurrentOK(deliveries)
  <2>1. DOMAIN rows = {} /\ DOMAIN deliveries = {} /\ Len(rows) = 0
    BY <1>2
  <2>2. rows \in Seq(RowType) /\ deliveries \in Seq(Delivery)
    BY <1>2, EmptySeq
  <2> QED
    BY <1>3, <2>1, <2>2 DEF RowsOK, BatchesOK, CurrentOK
<1>7. CallsOK
  BY <1>2 DEF CallsOK, CallOK, CallType, IdleCall
<1>8. HeldOK /\ WaitersOK(rows, deliveries, calls)
  BY <1>2 DEF HeldOK, WaitersOK, IdleCall
<1> QED
  BY <1>5, <1>6, <1>7, <1>8 DEF IInv

LEMMA StutterKeeps == ASSUME IInv, UNCHANGED vars PROVE IInv'
<1>1. UNCHANGED <<consumer, handle, generation, known, assigned, rows, deliveries, calls, held, boots>>
  BY DEF vars, binding
<1> QED
  BY <1>1 DEF IInv, BindingOK, CurrentOK, CallsOK, CallOK, HeldOK

LEMMA NextKeeps == ASSUME IInv, [Next]_vars PROVE IInv'
<1>1. CASE UNCHANGED vars
  BY <1>1, StutterKeeps
<1>2. CASE Mail
  BY <1>2, SendKeeps, ReplyKeeps, MailKeeps DEF Mail
<1>3. ASSUME NEW c \in Calls, Check(c) PROVE IInv'
  BY <1>3, CheckStartKeeps, RouteMoreKeeps, CheckReadKeeps, EndKeeps, WokenReadKeeps DEF Check
<1>4. CASE Settle \/ \E p \in Panes : Assign(p)
  BY <1>4, MailKeeps
<1>5. CASE Leave \/ \E p \in Panes : Use(p)
  BY <1>5, LeaveKeeps, UseKeeps
<1>6. CASE Restart
  BY <1>6, RestartKeeps
<1> QED
  BY <1>1, <1>2, <1>3, <1>4, <1>5, <1>6 DEF Next

THEOREM MailboxInvariant == Spec => []IInv
<1>1. Init => IInv
  BY InitHolds
<1>2. IInv /\ [Next]_vars => IInv'
  BY NextKeeps
<1> QED
  BY <1>1, <1>2, PTL DEF Spec

-----------------------------------------------------------------------------
(* What it implies *)

LEMMA AtMostOne ==
  ASSUME NEW S, \A x, y \in S : x = y
  PROVE  Cardinality(S) <= 1
<1>1. CASE S = {}
  BY <1>1, FS_EmptySet
<1>2. CASE S # {}
  <2>1. PICK x \in S : S = {x}
    BY <1>2
  <2> QED
    BY <2>1, FS_Singleton
<1> QED
  BY <1>1, <1>2

(* The tables, the binding, the calls and what agents hold keep their       *)
(* shape, and the number of rows, generations and boots its bounds.         *)
THEOREM MailboxTypeCorrect == Spec => []TypeOK
<1>1. IInv => TypeOK
  BY DEF IInv, TypeOK, BindingOK, RowsOK, BatchesOK, CallsOK, CallType, HeldOK, RowType, Delivery
<1> QED
  BY <1>1, MailboxInvariant, PTL

(* However often a Run is rebound and its agents restart or lose answers,   *)
(* bindRun fences what getOrCreateRunDelivery left open: one Delivery at    *)
(* most is outstanding, and it is the bound consumer's.                     *)
THEOREM MailboxOneOutstanding == Spec => []OneOutstanding
<1>1. IInv => OneOutstanding
  <2> SUFFICES ASSUME IInv PROVE OneOutstanding
    OBVIOUS
  <2>1. \A x, y \in Outstanding : x = y
    BY DEF IInv, BatchesOK, Outstanding
  <2>2. \A d \in Outstanding : deliveries[d].generation = generation /\ consumer # None
    BY DEF IInv, CurrentOK, Outstanding
  <2> QED
    BY <2>1, <2>2, AtMostOne DEF OneOutstanding
<1> QED
  BY <1>1, MailboxInvariant, PTL

(* Checks that interleave, retry or come back after a restart hand a row    *)
(* out in one Delivery at a time, whatever the batch limit.                 *)
THEOREM MailboxHandedOutOnce == Spec => []HandedOutOnce
<1>1. IInv => HandedOutOnce
  <2> SUFFICES ASSUME IInv, NEW m \in DOMAIN rows
               PROVE  Cardinality({d \in DOMAIN deliveries :
                        m \in deliveries[d].ids /\ deliveries[d].status # "fenced"}) <= 1
    BY DEF HandedOutOnce
  <2> DEFINE S == {d \in DOMAIN deliveries :
                     m \in deliveries[d].ids /\ deliveries[d].status # "fenced"}
  <2>1. \A x, y \in S : x = y
    BY DEF IInv, BatchesOK
  <2> QED
    BY <2>1, AtMostOne
<1> QED
  BY <1>1, MailboxInvariant, PTL

(* The Run is read in order: mail the routing pages of a check move into it *)
(* later cannot hide older mail sent to it behind an acknowledged Delivery. *)
THEOREM MailboxOldestFirst == Spec => []OldestFirst
<1>1. IInv => OldestFirst
  <2> SUFFICES ASSUME IInv, NEW d \in DOMAIN deliveries, deliveries[d].status = "acknowledged",
                      NEW m \in deliveries[d].ids, NEW k \in DOMAIN rows, rows[k].toRun, k < m
               PROVE  rows[k].read
    BY DEF OldestFirst
  <2>1. rows[k].read \/ (deliveries[d].status = "outstanding" /\ k \in deliveries[d].ids)
    BY DEF IInv, BatchesOK
  <2> QED
    BY <2>1
<1> QED
  BY <1>1, MailboxInvariant, PTL

(* Between the read of waitForMessage's caller and its wait no row of a     *)
(* wanted type is missed, and a stored row wakes whoever waits for it.      *)
THEOREM MailboxWaiterNotMissed == Spec => []WaiterNotMissed
<1>1. IInv => WaiterNotMissed
  BY DEF IInv, WaitersOK, WaiterNotMissed, Waiting, Unread, Outstanding
<1> QED
  BY <1>1, MailboxInvariant, PTL

-----------------------------------------------------------------------------
(* Who acknowledges *)

AckedByReader ==
  \A d \in DOMAIN deliveries :
    (deliveries[d].status # deliveries'[d].status /\ deliveries'[d].status = "acknowledged")
      => /\ d \in held[consumer]
         /\ deliveries[d].generation = generation
         /\ \A m \in deliveries[d].ids : rows'[m].read

LEMMA KeptDeliveries == ASSUME deliveries' = deliveries PROVE AckedByReader
BY DEF AckedByReader

LEMMA FencedDeliveries == ASSUME IInv, deliveries' = FenceOutstanding PROVE AckedByReader
<1>1. \A d \in DOMAIN deliveries :
        deliveries'[d] = IF deliveries[d].status = "outstanding"
                         THEN [deliveries[d] EXCEPT !.status = "fenced"] ELSE deliveries[d]
  BY DEF FenceOutstanding
<1>2. \A d \in DOMAIN deliveries : deliveries[d] \in Delivery
  BY LenProperties DEF IInv, BatchesOK
<1> QED
  BY <1>1, <1>2 DEF AckedByReader, Delivery

(* A read returns the tables it was given, or adds one batch to them.       *)
LEMMA ReadTables ==
  ASSUME NEW c \in Calls, NEW rs, NEW ds, NEW filter, ReadOK(c, rs, ds),
         \/ ReadDelivery(c, rs, ds, filter, End(c))
         \/ ReadDelivery(c, rs, ds, filter, WaitOrEnd(c))
  PROVE  /\ rows' = rs
         /\ \A d \in DOMAIN ds : deliveries'[d] = ds[d]
<1>1. /\ rows' = rs
      /\ deliveries' = ds \/ deliveries' = Append(ds, Batch(rs, generation))
  BY DEF ReadDelivery, Batch, Mine, ReadOK
<1>2. ds \in Seq(Delivery) /\ DOMAIN ds = 1..Len(ds) /\ Len(ds) \in Nat
  BY LenProperties DEF ReadOK, BatchesOK
<1>3. CASE deliveries' = Append(ds, Batch(rs, generation))
  <2>1. \A d \in 1..Len(ds) : Append(ds, Batch(rs, generation))[d] = ds[d]
    BY <1>2
  <2> QED
    BY <1>1, <1>2, <1>3, <2>1
<1> QED
  BY <1>1, <1>3

LEMMA CheckAcknowledges == ASSUME IInv, NEW c \in Calls, CheckRead(c) PROVE AckedByReader
<1> DEFINE rs == AckedRows(calls[c])
           ds == AckedDeliveries(calls[c])
<1>1. /\ calls[c].pc = "routing" /\ consumer = calls[c].pane /\ generation = calls[c].generation
      /\ calls[c].ack # 0 => MayAcknowledge(calls[c])
      /\ ReadDelivery(c, rs, ds, calls[c].filter, WaitOrEnd(c))
  BY DEF CheckRead, Routed
<1>2. /\ ReadOK(c, rs, ds)
      /\ \A d \in DOMAIN deliveries : ds[d].status # deliveries[d].status =>
           /\ d \in held[consumer] /\ deliveries[d].generation = generation
           /\ \A m \in deliveries[d].ids : rs[m].read
  BY <1>1, Acknowledged
<1> HIDE DEF rs, ds
<1>3. rows' = rs /\ \A d \in DOMAIN ds : deliveries'[d] = ds[d]
  BY <1>1, <1>2, ReadTables
<1>4. DOMAIN ds = DOMAIN deliveries
  BY <1>2, LenProperties DEF ReadOK, BatchesOK, IInv
<1> QED
  BY <1>2, <1>3, <1>4 DEF AckedByReader

LEMMA WokenAcknowledges == ASSUME IInv, NEW c \in Calls, WokenRead(c) PROVE AckedByReader
<1>1. calls[c].pc = "woken" /\ CallOK(calls[c])
  BY DEF WokenRead, IInv, CallsOK
<1>2. CASE generation # calls[c].generation
  BY <1>2, KeptDeliveries DEF WokenRead
<1>3. CASE generation = calls[c].generation
  <2>1. ReadDelivery(c, rows, deliveries, calls[c].filter, End(c))
    BY <1>3 DEF WokenRead
  <2>2. calls[c] \in WaiterType
    BY <1>1 DEF IInv, CallsOK, CallType, RoutingType, IdleCall
  <2>3. consumer = calls[c].pane /\ calls[c].pane \in Panes
    BY <1>1, <1>3, <2>2 DEF CallOK, WaiterType
  <2>4. ReadOK(c, rows, deliveries)
    BY <1>3, <2>3 DEF ReadOK, IInv
  <2>5. \A d \in DOMAIN deliveries : deliveries'[d] = deliveries[d]
    BY <2>1, <2>4, ReadTables
  <2> QED
    BY <2>5 DEF AckedByReader
<1> QED
  BY <1>2, <1>3

(* acknowledgeRunDelivery is the only way mail of a batch is acknowledged:  *)
(* by the pane that now consumes the Run and was told of the batch, and all *)
(* of its rows are read in the same step; a replaced consumer's late        *)
(* acknowledgment changes nothing.                                          *)
THEOREM MailboxAckedByItsReader == Spec => AckedByItsReader
<1>1. ASSUME IInv, [Next]_vars PROVE [AckedByReader]_vars
  <2>1. CASE Mail
    BY <2>1, KeptDeliveries DEF Mail, Send, Reply, Deliver, Answer, WorkerCheck, DispatchMailReturns
  <2>2. ASSUME NEW c \in Calls, Check(c) PROVE AckedByReader
    <3>1. CASE CheckRead(c)
      BY <1>1, <3>1, CheckAcknowledges
    <3>2. CASE WokenRead(c)
      BY <1>1, <3>2, WokenAcknowledges
    <3>3. CASE /\ ~CheckRead(c) /\ ~WokenRead(c)
      BY <2>2, <3>3, KeptDeliveries DEF Check, CheckStart, RouteMore, CheckRefused, CheckGivenUp
    <3> QED
      BY <3>1, <3>2, <3>3
  <2>3. CASE Settle \/ Restart \/ \E p \in Panes : Assign(p)
    BY <2>3, KeptDeliveries DEF Settle, Restart, Assign
  <2>4. CASE Leave \/ \E p \in Panes : Use(p)
    BY <1>1, <2>4, KeptDeliveries, FencedDeliveries DEF Leave, Use
  <2>5. CASE UNCHANGED vars
    BY <2>5
  <2> QED
    BY <1>1, <2>1, <2>2, <2>3, <2>4, <2>5 DEF Next
<1> QED
  BY <1>1, MailboxInvariant, PTL DEF Spec, AckedByItsReader, AckedByReader

=============================================================================
