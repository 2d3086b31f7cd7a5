----------------------- MODULE MutationReceipts_proofs -----------------------
(***************************************************************************)
(* The mutation ledger for any requests, any limits and any number of      *)
(* calls and restarts.                                                     *)
(*                                                                         *)
(* The invariant has two halves.  Bookkeeping ties a call to the request   *)
(* and to the handler it joined.  The rest speaks of a request whose       *)
(* completed receipt was never pruned.  A method that writes its receipt   *)
(* first has one handler at most, the one in the executor's map (Single),  *)
(* and its receipt tells whether an effect may be made: while it is absent *)
(* or its handler still runs, the last effect, if any, was reported as     *)
(* failed (Tells, Free).  A release has one effect by its own nature, and  *)
(* a start until one of its calls fails (Kept).                            *)
(***************************************************************************)
EXTENDS MutationReceipts, FiniteSetTheorems, TLAPS

Active(c) == call[c].pc \in {"running", "applied"}

LedgerOK ==
  /\ receipt \in [Requests -> {"absent", "pending", "completed"}]
  /\ answer \in [Requests -> Nat]
  /\ forgotten \subseteq Requests
  /\ IsFiniteSet(Present) /\ Cardinality(Present) <= MaxRows

CallsOK ==
  /\ made \in 0..MaxCalls
  /\ inFlight \in [Requests -> 0..made]
  /\ call \in [CallIds -> CallType]
  /\ \A c \in CallIds : IF c > made THEN call[c] = NoCall
                        ELSE Of(c) \in Requests /\ call[c].pc # "none"
  /\ \A r \in Requests : inFlight[r] # 0 => Active(inFlight[r]) /\ Of(inFlight[r]) = r
  /\ \A c \in CallIds : call[c].pc # "done" => call[c].told = "nothing"
  /\ \A c \in CallIds : call[c].pc # "joined" => call[c].on = 0
  /\ \A c \in CallIds : call[c].pc = "joined" =>
       call[c].on # 0 /\ Active(call[c].on) /\ Of(call[c].on) = Of(c)

(* The one effect of a release, or of a start none of whose calls failed. *)
Kept(r) ==
  /\ effects[r] <= 1
  /\ receipt[r] = "completed" => answer[r] = 1
  /\ \A c \in CallIds : Of(c) = r =>
       /\ call[c].pc = "applied" => call[c].effect = 1
       /\ call[c].told = "answer" => call[c].effect = 1

(* A method that writes its receipt before it runs has one handler at most, *)
(* the one in the executor's map.                                           *)
Single(r) ==
  /\ receipt[r] = "absent" => inFlight[r] = 0
  /\ \A c \in CallIds : Of(c) = r /\ Active(c) => inFlight[r] = c /\ receipt[r] # "absent"
  /\ \A c \in CallIds : Of(c) = r /\ call[c].told = "answer" =>
       receipt[r] = "completed" /\ call[c].effect = effects[r]
  /\ receipt[r] = "completed" => answer[r] = effects[r]

(* The last effect, if any, was reported to its caller as failed. *)
Free(r) == effects[r] > 0 => Kind[r] \in Guarded /\ ToldFailed(r, effects[r])

(* So its receipt tells whether the effect may be made. *)
Tells(r) ==
  /\ receipt[r] = "absent" => Free(r)
  /\ \A c \in CallIds : Of(c) = r =>
       /\ call[c].pc = "running" => receipt[r] = "pending" /\ Free(r)
       /\ call[c].pc = "applied" =>
            /\ call[c].effect = effects[r] /\ (effects[r] > 0 \/ Kind[r] = "settle")
            /\ receipt[r] = "pending" => Kind[r] # "early"
  /\ receipt[r] = "completed" => effects[r] > 0 \/ Kind[r] = "settle"
  /\ IF Kind[r] \in Guarded THEN \A n \in 1..(effects[r] - 1) : ToldFailed(r, n)
     ELSE effects[r] <= 1

(* The methods whose receipt is written before they run, and not run again. *)
First == {"plain", "early", "dispatch", "settle"}

(* A request whose completed receipt was not pruned. *)
RequestOK(r) ==
  r \notin forgotten =>
    /\ Kind[r] \in First => Single(r) /\ Tells(r)
    /\ Kind[r] = "release" => Kept(r)
    /\ Kind[r] = "start" /\ ~ToldFailed(r, 0) =>
         Kept(r) /\ (receipt[r] = "absent" => effects[r] = 0)

IInv ==
  /\ LedgerOK /\ CallsOK
  /\ effects \in [Requests -> Nat] /\ boots \in 1..MaxBoots
  /\ target \in [Requests -> {"open", "held", "closed"}]
  /\ \A r \in Requests : RequestOK(r)

-----------------------------------------------------------------------------
(* The ledger *)

(* Inserting a receipt after the capacity check keeps the ledger within its *)
(* limit.                                                                   *)
LEMMA InsertLedger ==
  ASSUME LedgerOK, BoundsAssumption, NEW r \in Requests, NEW n \in Nat, NEW P \in Prunings,
         receipt[r] = "absent", InsertPending(r, n, P)
  PROVE  LedgerOK' /\ P \subseteq Completed
<1>1. P \subseteq Completed
  BY DEF Prunings
<1>2. Present' = (Present \ P) \cup {r}
  BY <1>1 DEF InsertPending, Present, Completed, LedgerOK
<1>3. /\ IsFiniteSet(Present \ P) /\ Cardinality(Present \ P) \in Nat
      /\ r \notin Present \ P
  BY FS_Difference, FS_CardinalityType DEF LedgerOK, Present
<1>4. /\ IsFiniteSet(Present')
      /\ Cardinality(Present') = Cardinality(Present \ P) + 1
  BY <1>2, <1>3, FS_AddElement
<1>5. Cardinality(Present') <= MaxRows
  BY <1>3, <1>4 DEF InsertPending, Full, BoundsAssumption
<1>6. P \subseteq Requests
  BY <1>1 DEF Completed
<1> QED
  BY <1>1, <1>4, <1>5, <1>6 DEF InsertPending, LedgerOK

(* Completing and discarding a receipt. *)
LEMMA CompleteLedger ==
  ASSUME LedgerOK, NEW r \in Requests, NEW n \in Nat, receipt[r] # "absent", Complete(r, n)
  PROVE  LedgerOK'
<1>1. Present' = Present
  BY DEF Complete, Present, LedgerOK
<1> QED
  BY <1>1 DEF Complete, LedgerOK

LEMMA DiscardLedger ==
  ASSUME LedgerOK, BoundsAssumption, NEW r \in Requests, Discard(r)
  PROVE  LedgerOK'
<1>1. CASE receipt[r] # "pending"
  BY <1>1 DEF Discard, LedgerOK, ledger, Present
<1>2. CASE receipt[r] = "pending"
  <2>1. Present' = Present \ {r} /\ r \in Present
    BY <1>2 DEF Discard, Present, LedgerOK
  <2>2. IsFiniteSet(Present') /\ Cardinality(Present') = Cardinality(Present) - 1
    BY <2>1, FS_RemoveElement DEF LedgerOK
  <2>3. Cardinality(Present') <= MaxRows
    BY <2>2, FS_CardinalityType DEF LedgerOK, BoundsAssumption
  <2> QED
    BY <1>2, <2>2, <2>3 DEF Discard, LedgerOK
<1> QED
  BY <1>1, <1>2

LEMMA SameLedger == ASSUME LedgerOK, UNCHANGED ledger PROVE LedgerOK'
BY DEF LedgerOK, ledger, Present

-----------------------------------------------------------------------------
(* The calls *)

(* A new call refers to nothing, or joins a running handler of its request. *)
LEMMA NewCalls ==
  ASSUME CallsOK, BoundsAssumption, made < MaxCalls,
         NEW r \in Requests, NEW pc \in {"running", "joined", "done"}, NEW on \in 0..MaxCalls,
         NEW n \in Nat, NEW told \in {"nothing", "answer", "error", "unknown"},
         New(r, pc, on, n, told),
         IF pc = "joined" THEN on # 0 /\ Active(on) /\ Of(on) = r ELSE on = 0,
         pc # "done" => told = "nothing",
         \/ inFlight' = inFlight
         \/ pc = "running" /\ inFlight' = [inFlight EXCEPT ![r] = made + 1]
  PROVE  CallsOK'
<1> DEFINE k == made + 1
           new == [req |-> r, pc |-> pc, on |-> on, effect |-> n, told |-> told]
<1>1. k \in CallIds /\ made' = k /\ k \in 0..MaxCalls
  BY DEF CallsOK, CallIds, New, BoundsAssumption
<1>2. new \in CallType
  BY DEF CallType
<1>3. call' = [call EXCEPT ![k] = new]
  BY DEF New
<1>4. call[k] = NoCall
  BY <1>1 DEF CallsOK
<1>5. \A c \in CallIds : call'[c] = IF c = k THEN new ELSE call[c]
  BY <1>3 DEF CallsOK
<1>6. call' \in [CallIds -> CallType]
  BY <1>2, <1>3 DEF CallsOK
<1>7. inFlight' \in [Requests -> 0..made']
  BY <1>1 DEF CallsOK
<1>8. \A c \in CallIds : IF c > made' THEN call'[c] = NoCall
                         ELSE Of(c)' \in Requests /\ call'[c].pc # "none"
  BY <1>1, <1>5 DEF CallsOK, CallIds, Of
<1>9. \A c \in CallIds : Active(c) => c # k /\ Active(c)' /\ Of(c)' = Of(c)
  BY <1>4, <1>5 DEF Active, NoCall, Of
<1>10. \A q \in Requests : inFlight'[q] # 0 => Active(inFlight[q])' /\ Of(inFlight[q])' = q
  <2> SUFFICES ASSUME NEW q \in Requests, inFlight'[q] # 0
               PROVE  Active(inFlight[q])' /\ Of(inFlight[q])' = q
    OBVIOUS
  <2>1. CASE inFlight'[q] = inFlight[q]
    BY <2>1, <1>9, <1>1 DEF CallsOK, CallIds, Active, Of
  <2>2. CASE inFlight'[q] # inFlight[q]
    <3>1. q = r /\ inFlight'[q] = k /\ pc = "running"
      BY <2>2 DEF CallsOK
    <3> QED
      BY <3>1, <1>1, <1>5 DEF Active, Of
  <2> QED
    BY <2>1, <2>2
<1>11. \A c \in CallIds : call'[c].pc # "joined" => call'[c].on = 0
  BY <1>5 DEF CallsOK
<1>12. \A c \in CallIds : call'[c].pc = "joined" =>
         call'[c].on # 0 /\ Active(call[c].on)' /\ Of(call[c].on)' = Of(c)'
  <2> SUFFICES ASSUME NEW c \in CallIds, call'[c].pc = "joined"
               PROVE  call'[c].on # 0 /\ Active(call[c].on)' /\ Of(call[c].on)' = Of(c)'
    OBVIOUS
  <2>1. CASE c = k
    <3>1. on \in CallIds /\ on # 0 /\ Active(on) /\ Of(on) = r /\ call'[c] = new
      BY <2>1, <1>5 DEF CallIds
    <3> QED
      BY <3>1, <1>9 DEF Active, Of
  <2>2. CASE c # k
    <3>1. call'[c] = call[c]
      BY <2>2, <1>5
    <3>2. call[c].on \in CallIds /\ Active(call[c].on) /\ Of(call[c].on) = Of(c)
      BY <3>1 DEF CallsOK, CallType, CallIds
    <3> QED
      BY <3>1, <3>2, <1>9 DEF Active, CallIds, Of
  <2> QED
    BY <2>1, <2>2
<1>13. \A c \in CallIds : call'[c].pc # "done" => call'[c].told = "nothing"
  BY <1>5 DEF CallsOK
<1> QED
  BY <1>1, <1>6, <1>7, <1>8, <1>10, <1>11, <1>12, <1>13 DEF CallsOK

(* A handler's promise settles: it and those that joined it are answered. *)
LEMMA SettleCalls ==
  ASSUME CallsOK, NEW c \in CallIds, Active(c),
         NEW own \in {"answer", "error", "unknown"}, NEW joined \in {"answer", "error", "unknown"},
         Settle(c, own, joined)
  PROVE  /\ CallsOK'
         /\ \A x \in CallIds : Of(x)' = Of(x)
         /\ \A x \in CallIds : Active(x)' => x # c /\ call'[x] = call[x]
         /\ \A x \in CallIds : Of(x) # Of(c) => call'[x] = call[x]
         /\ \A x \in CallIds :
              \/ call'[x] = call[x]
              \/ /\ call'[x].pc = "done" /\ call[x].told = "nothing"
                 /\ call'[x].told = "answer" =>
                      "answer" \in {own, joined} /\ call'[x].effect = call[c].effect
         /\ call'[c].told = own /\ call'[c].effect = call[c].effect
         /\ Of(c) \in Requests
<1>1. ~(c > made) /\ Of(c) \in Requests /\ call[c].on = 0
  <2>1. call[c].pc # "none" /\ call[c].pc # "joined"
    BY DEF Active
  <2>2. ~(c > made)
    BY <2>1 DEF CallsOK, NoCall
  <2> QED
    BY <2>1, <2>2 DEF CallsOK
<1>2. \A x \in CallIds : call[x].on = c => call[x].pc = "joined" /\ Of(x) = Of(c) /\ x # c
  <2>1. c # 0
    BY DEF CallIds
  <2> QED
    BY <1>1, <2>1 DEF CallsOK
<1>3. \A x \in CallIds :
        /\ call[x] \in CallType
        /\ call'[x] = IF x = c THEN [call[c] EXCEPT !.pc = "done", !.told = own]
                      ELSE IF call[x].on = c
                      THEN [call[x] EXCEPT !.pc = "done", !.on = 0, !.told = joined,
                                           !.effect = call[c].effect]
                      ELSE call[x]
  BY DEF Settle, CallsOK
<1>4. call' \in [CallIds -> CallType]
  <2>1. \A x \in CallIds : call'[x] \in CallType
    <3> SUFFICES ASSUME NEW x \in CallIds PROVE call'[x] \in CallType
      OBVIOUS
    <3>1. CASE x = c
      BY <1>3, <3>1 DEF CallType
    <3>2. CASE x # c /\ call[x].on = c
      <4>1. call[x] \in CallType /\ call[c] \in CallType
        BY DEF CallsOK
      <4>2. call[c].effect \in Nat
        BY <4>1 DEF CallType
      <4>3. 0 \in 0..MaxCalls
        BY BoundsAssumption DEF BoundsAssumption
      <4>4. call'[x] = [call[x] EXCEPT !.pc = "done", !.on = 0, !.told = joined,
                                       !.effect = call[c].effect]
        BY <1>3, <3>2
      <4> QED
        BY <4>1, <4>2, <4>3, <4>4 DEF CallType
    <3>3. CASE x # c /\ call[x].on # c
      BY <1>3, <3>3
    <3> QED
      BY <3>1, <3>2, <3>3
  <2> QED
    BY <2>1 DEF Settle
<1>5. \A x \in CallIds : /\ Of(x)' = Of(x)
                         /\ Of(x) # Of(c) => call'[x] = call[x]
  <2> SUFFICES ASSUME NEW x \in CallIds
               PROVE  /\ Of(x)' = Of(x)
                      /\ Of(x) # Of(c) => call'[x] = call[x]
    OBVIOUS
  <2>1. CASE x = c
    BY <1>3, <2>1 DEF Of, CallType
  <2>2. CASE x # c /\ call[x].on = c
    <3>1. call'[x].req = call[x].req
      BY <1>3, <2>2 DEF CallType
    <3> QED
      BY <1>2, <2>2, <3>1 DEF Of
  <2>3. CASE x # c /\ call[x].on # c
    BY <1>3, <2>3 DEF Of
  <2> QED
    BY <2>1, <2>2, <2>3
<1>6. \A x \in CallIds : Active(x)' => x # c /\ call'[x] = call[x]
  BY <1>3 DEF Active, CallType
<1>7. \A x \in CallIds : Active(x) /\ x # c => call'[x] = call[x]
  BY <1>2, <1>3 DEF Active
<1>8. made' = made /\ inFlight' = [inFlight EXCEPT ![Of(c)] = 0]
  BY DEF Settle
<1>9. inFlight' \in [Requests -> 0..made']
  <2>1. 0 \in 0..made /\ inFlight \in [Requests -> 0..made]
    BY DEF CallsOK
  <2> QED
    BY <1>8, <2>1
<1>10. \A x \in CallIds : IF x > made' THEN call'[x] = NoCall
                          ELSE Of(x)' \in Requests /\ call'[x].pc # "none"
  <2> SUFFICES ASSUME NEW x \in CallIds
               PROVE  IF x > made' THEN call'[x] = NoCall
                      ELSE Of(x)' \in Requests /\ call'[x].pc # "none"
    OBVIOUS
  <2>1. CASE x > made
    <3>1. call[x] = NoCall /\ x # c
      BY <2>1, <1>1 DEF CallsOK
    <3>2. call[x].on # c
      BY <1>2, <3>1 DEF NoCall
    <3> QED
      BY <2>1, <3>1, <3>2, <1>3, <1>8
  <2>2. CASE ~(x > made)
    <3>1. Of(x) \in Requests /\ call[x].pc # "none"
      BY <2>2 DEF CallsOK
    <3>2. call'[x].pc # "none"
      BY <3>1, <1>3 DEF CallType
    <3> QED
      BY <2>2, <3>1, <3>2, <1>5, <1>8
  <2> QED
    BY <2>1, <2>2
<1>11. \A q \in Requests : inFlight'[q] # 0 => Active(inFlight[q])' /\ Of(inFlight[q])' = q
  <2> SUFFICES ASSUME NEW q \in Requests, inFlight'[q] # 0
               PROVE  Active(inFlight[q])' /\ Of(inFlight[q])' = q
    OBVIOUS
  <2>1. inFlight'[q] = inFlight[q] /\ q # Of(c)
    BY <1>8 DEF CallsOK
  <2>2. inFlight[q] \in CallIds /\ Active(inFlight[q]) /\ Of(inFlight[q]) = q
    <3>1. inFlight[q] # 0 /\ inFlight[q] \in 0..made /\ made \in 0..MaxCalls
      BY <2>1 DEF CallsOK
    <3> QED
      BY <3>1, BoundsAssumption DEF CallsOK, CallIds, BoundsAssumption
  <2>3. call'[inFlight[q]] = call[inFlight[q]]
    BY <2>1, <2>2, <1>7
  <2> QED
    BY <2>1, <2>2, <2>3 DEF Active, Of
<1>12. \A x \in CallIds : call'[x].pc # "joined" => call'[x].on = 0
  <2> SUFFICES ASSUME NEW x \in CallIds, call'[x].pc # "joined"
               PROVE  call'[x].on = 0
    OBVIOUS
  <2>1. CASE x = c
    BY <1>1, <1>3, <2>1 DEF CallType
  <2>2. CASE x # c /\ call[x].on = c
    BY <1>3, <2>2 DEF CallType
  <2>3. CASE x # c /\ call[x].on # c
    BY <1>3, <2>3 DEF CallsOK
  <2> QED
    BY <2>1, <2>2, <2>3
<1>13. \A x \in CallIds : call'[x].pc = "joined" =>
         call'[x].on # 0 /\ Active(call[x].on)' /\ Of(call[x].on)' = Of(x)'
  <2> SUFFICES ASSUME NEW x \in CallIds, call'[x].pc = "joined"
               PROVE  call'[x].on # 0 /\ Active(call[x].on)' /\ Of(call[x].on)' = Of(x)'
    OBVIOUS
  <2>1. call'[x] = call[x] /\ call[x].on # c
    BY <1>3 DEF CallType
  <2>2. call[x].on \in CallIds /\ Active(call[x].on) /\ Of(call[x].on) = Of(x)
    BY <2>1 DEF CallsOK, CallType, CallIds
  <2>3. call'[call[x].on] = call[call[x].on]
    BY <2>1, <2>2, <1>7
  <2> QED
    BY <2>1, <2>2, <2>3 DEF Active, Of, CallIds
<1>14. \A x \in CallIds :
         \/ call'[x] = call[x]
         \/ /\ call'[x].pc = "done" /\ call[x].told = "nothing"
            /\ call'[x].told = "answer" =>
                 "answer" \in {own, joined} /\ call'[x].effect = call[c].effect
  <2> SUFFICES ASSUME NEW x \in CallIds, call'[x] # call[x]
               PROVE  /\ call'[x].pc = "done" /\ call[x].told = "nothing"
                      /\ call'[x].told = "answer" =>
                           "answer" \in {own, joined} /\ call'[x].effect = call[c].effect
    OBVIOUS
  <2>1. CASE x = c
    <3>1. call[x].told = "nothing"
      BY <2>1 DEF CallsOK, Active
    <3> QED
      BY <1>3, <2>1, <3>1 DEF CallType
  <2>2. CASE x # c /\ call[x].on = c
    <3>1. call[x].told = "nothing"
      BY <1>2, <2>2 DEF CallsOK
    <3> QED
      BY <1>3, <2>2, <3>1 DEF CallType
  <2> QED
    BY <1>3, <2>1, <2>2
<1>15. \A x \in CallIds : call'[x].pc # "done" => call'[x].told = "nothing"
  BY <1>14 DEF CallsOK
<1>16. call'[c].told = own /\ call'[c].effect = call[c].effect
  BY <1>3 DEF CallType
<1> QED
  BY <1>15, <1>16, <1>1, <1>4, <1>5, <1>6, <1>8, <1>9, <1>10, <1>11, <1>12, <1>13, <1>14 DEF CallsOK

(* A handler makes its effect. *)
LEMMA AppliesCalls ==
  ASSUME CallsOK, NEW c \in CallIds, Reached(c, "running"), NEW n \in Nat, Applies(c, n)
  PROVE  /\ CallsOK'
         /\ \A x \in CallIds : x # c => call'[x] = call[x]
         /\ call'[c] = [call[c] EXCEPT !.pc = "applied", !.effect = n]
         /\ Of(c) \in Requests /\ Active(c)
<1>1. /\ call' = [call EXCEPT ![c] = [call[c] EXCEPT !.pc = "applied", !.effect = n]]
      /\ made' = made /\ inFlight' = inFlight
  BY DEF Applies, CallsOK
<1>2. Of(c) \in Requests /\ Active(c)
  BY DEF CallsOK, Reached, Active, NoCall
<1>3. \A x \in CallIds : x # c => call'[x] = call[x]
  BY <1>1 DEF CallsOK
<1>4. call'[c] = [call[c] EXCEPT !.pc = "applied", !.effect = n] /\ call[c] \in CallType
  BY <1>1 DEF CallsOK
<1>5. call' \in [CallIds -> CallType]
  BY <1>1, <1>4 DEF CallsOK, CallType
<1>6. \A x \in CallIds : /\ Of(x)' = Of(x) /\ call'[x].on = call[x].on
                         /\ Active(x) <=> Active(x)'
                         /\ call[x].pc = "joined" <=> call'[x].pc = "joined"
  BY <1>3, <1>4 DEF Of, Active, CallType, Reached
<1>7. \A x \in CallIds : IF x > made' THEN call'[x] = NoCall
                         ELSE Of(x)' \in Requests /\ call'[x].pc # "none"
  BY <1>1, <1>3, <1>4, <1>6 DEF CallsOK, Reached, NoCall, CallType
<1>8. \A q \in Requests : inFlight'[q] # 0 => Active(inFlight[q])' /\ Of(inFlight[q])' = q
  BY <1>1, <1>6 DEF CallsOK, CallIds, Active, Of
<1>9. \A x \in CallIds : call'[x].pc # "joined" => call'[x].on = 0
  BY <1>6 DEF CallsOK
<1>10. \A x \in CallIds : call'[x].pc = "joined" =>
         call'[x].on # 0 /\ Active(call[x].on)' /\ Of(call[x].on)' = Of(x)'
  <2> SUFFICES ASSUME NEW x \in CallIds, call'[x].pc = "joined"
               PROVE  call'[x].on # 0 /\ Active(call[x].on)' /\ Of(call[x].on)' = Of(x)'
    OBVIOUS
  <2>1. call[x].on \in CallIds /\ Active(call[x].on) /\ Of(call[x].on) = Of(x)
    BY <1>6 DEF CallsOK, CallType, CallIds
  <2> QED
    BY <2>1, <1>6 DEF Active, Of, CallIds
<1>11. call[c].told = "nothing"
  BY DEF CallsOK, Reached
<1>12. \A x \in CallIds : call'[x].pc # "done" => call'[x].told = "nothing"
  BY <1>3, <1>4, <1>11 DEF CallsOK, CallType
<1> QED
  BY <1>1, <1>2, <1>3, <1>4, <1>5, <1>7, <1>8, <1>9, <1>10, <1>12 DEF CallsOK

(* A restart ends every handler and every join. *)
LEMMA RestartCalls ==
  ASSUME CallsOK, BoundsAssumption, Restart
  PROVE  /\ CallsOK'
         /\ \A x \in CallIds : Of(x)' = Of(x) /\ ~Active(x)'
         /\ \A x \in CallIds :
              call'[x] = call[x] \/ (call[x].told = "nothing" /\ call'[x].told = "lost")
         /\ \A r \in Requests : inFlight'[r] = 0
<1>1. /\ made' = made /\ made \in 0..MaxCalls /\ 0 \in 0..made /\ 0 \in 0..MaxCalls
      /\ inFlight' = [r \in Requests |-> 0]
  <2>1. made \in 0..MaxCalls /\ MaxCalls \in Nat
    BY DEF CallsOK, BoundsAssumption
  <2>2. made' = made /\ inFlight' = [r \in Requests |-> 0]
    BY DEF Restart
  <2> QED
    BY <2>1, <2>2
<1>2. \A x \in CallIds :
        /\ call[x] \in CallType
        /\ call'[x] = IF call[x].pc \in {"none", "done"} THEN call[x]
                      ELSE [call[x] EXCEPT !.pc = "done", !.on = 0, !.told = "lost"]
  BY DEF Restart, CallsOK
<1>3. \A x \in CallIds :
        /\ call'[x] \in CallType /\ call'[x].req = call[x].req
        /\ call'[x] = call[x] \/ (call[x].told = "nothing" /\ call'[x].told = "lost")
        /\ call'[x].pc \in {"none", "done"} /\ (call'[x].pc = "none" => call[x].pc = "none")
        /\ call'[x].on = 0
  <2> SUFFICES ASSUME NEW x \in CallIds
               PROVE  /\ call'[x] \in CallType /\ call'[x].req = call[x].req
                      /\ call'[x] = call[x] \/ (call[x].told = "nothing" /\ call'[x].told = "lost")
                      /\ call'[x].pc \in {"none", "done"}
                      /\ call'[x].pc = "none" => call[x].pc = "none"
                      /\ call'[x].on = 0
    OBVIOUS
  <2>1. CASE call[x].pc \in {"none", "done"}
    BY <1>2, <2>1 DEF CallsOK
  <2>2. CASE call[x].pc \notin {"none", "done"}
    <3>1. call[x].told = "nothing"
      BY <2>2 DEF CallsOK
    <3> QED
      BY <1>1, <1>2, <2>2, <3>1 DEF CallType
  <2> QED
    BY <2>1, <2>2
<1>4. call' \in [CallIds -> CallType]
  BY <1>3 DEF Restart
<1>5. \A x \in CallIds : IF x > made' THEN call'[x] = NoCall
                         ELSE Of(x)' \in Requests /\ call'[x].pc # "none"
  <2> SUFFICES ASSUME NEW x \in CallIds
               PROVE  IF x > made THEN call'[x] = NoCall
                      ELSE call'[x].req \in Requests /\ call'[x].pc # "none"
    BY <1>1 DEF Of
  <2>1. CASE x > made
    <3>1. call[x] = NoCall /\ call[x].pc \in {"none", "done"}
      BY <2>1 DEF CallsOK, NoCall
    <3> QED
      BY <2>1, <3>1, <1>2
  <2>2. CASE ~(x > made)
    BY <2>2, <1>3 DEF CallsOK, Of
  <2> QED
    BY <2>1, <2>2
<1>6. \A x \in CallIds : call'[x].pc # "done" => call'[x].told = "nothing"
  BY <1>3 DEF CallsOK, Restart
<1> QED
  BY <1>1, <1>3, <1>4, <1>5, <1>6 DEF CallsOK, Active, Of

-----------------------------------------------------------------------------
(* The requests *)

(* Who was told of a failure stays told. *)
LEMMA StillFailed ==
  ASSUME NEW q \in Requests,
         \A x \in CallIds : call[x].told = "error" => call'[x] = call[x]
  PROVE  \A n \in Nat : ToldFailed(q, n) => ToldFailed(q, n)'
BY DEF ToldFailed, Of

(* A step about another request changes nothing for this one, unless it     *)
(* prunes its receipt.                                                      *)
LEMMA Untouched ==
  ASSUME NEW q \in Requests, RequestOK(q), forgotten \subseteq forgotten',
         effects'[q] = effects[q], inFlight'[q] = inFlight[q],
         q \notin forgotten' => receipt'[q] = receipt[q] /\ answer'[q] = answer[q],
         \A x \in CallIds : Of(x) = q \/ Of(x)' = q => call'[x] = call[x]
  PROVE  RequestOK(q)'
<1>1. q \notin forgotten' => q \notin forgotten
  OBVIOUS
<1>2. /\ \A x \in CallIds : Of(x)' = q => Of(x) = q /\ (Active(x)' <=> Active(x))
      /\ \A x \in CallIds : Of(x) = q => Of(x)' = q
  BY DEF Of, Active
<1>3. \A n : ToldFailed(q, n) => ToldFailed(q, n)'
  BY <1>2 DEF ToldFailed
<1>4. Kept(q) /\ q \notin forgotten' => Kept(q)'
  BY <1>2 DEF Kept
<1>5. Single(q) /\ q \notin forgotten' => Single(q)'
  BY <1>2 DEF Single
<1>6. Free(q) => Free(q)'
  BY <1>2 DEF Free, ToldFailed
<1>7. Tells(q) /\ q \notin forgotten' => Tells(q)'
  BY <1>2, <1>3, <1>6 DEF Tells
<1>8. ToldFailed(q, 0) => ToldFailed(q, 0)'
  BY <1>3
<1> QED
  BY <1>1, <1>4, <1>5, <1>7, <1>8 DEF RequestOK

(* Begin: a request without a receipt whose receipt is written first. *)
LEMMA InsertStep ==
  ASSUME IInv, BoundsAssumption, KindAssumption, NEW r \in Requests, made < MaxCalls,
         NEW P \in Prunings, Kind[r] # "start",
         receipt[r] = "absent", InsertPending(r, 0, P), Runs(r),
         UNCHANGED <<effects, target, boots>>
  PROVE  IInv'
<1> DEFINE k == made + 1
<1>1. LedgerOK' /\ P \subseteq Completed
  BY InsertLedger DEF IInv
<1>2. /\ New(r, "running", 0, 0, "nothing")
      /\ inFlight' = [inFlight EXCEPT ![r] = k]
  BY DEF Runs
<1>3. 0 \in 0..MaxCalls /\ 0 \in Nat /\ CallsOK
  BY DEF BoundsAssumption, IInv
<1>4. CallsOK'
  BY <1>2, <1>3, NewCalls
<1>5. k \in CallIds /\ call[k] = NoCall
  <2>1. k \in CallIds
    BY <1>3 DEF CallsOK, CallIds, BoundsAssumption
  <2> QED
    BY <1>3, <2>1 DEF CallsOK
<1>6. /\ call'[k] = [req |-> r, pc |-> "running", on |-> 0, effect |-> 0, told |-> "nothing"]
      /\ \A x \in CallIds : x # k => call'[x] = call[x]
  BY <1>2, <1>3, <1>5 DEF New, CallsOK
<1>7. inFlight'[r] = k /\ \A q \in Requests : q # r => inFlight'[q] = inFlight[q]
  BY <1>2, <1>3 DEF CallsOK
<1>8. r \notin P
  BY <1>1 DEF Completed
<1>9. \A x \in CallIds : call[x].told = "error" => call'[x] = call[x]
  BY <1>5, <1>6 DEF NoCall
<1>10. \A q \in Requests : RequestOK(q)'
  <2> SUFFICES ASSUME NEW q \in Requests PROVE RequestOK(q)'
    OBVIOUS
  <2>1. RequestOK(q)
    BY DEF IInv
  <2>2. CASE q # r
    <3>1. \A x \in CallIds : Of(x) = q \/ Of(x)' = q => call'[x] = call[x]
      BY <2>2, <1>5, <1>6 DEF Of, NoCall, KindAssumption
    <3>2. /\ forgotten \subseteq forgotten'
          /\ q \notin forgotten' => receipt'[q] = receipt[q] /\ answer'[q] = answer[q]
      BY <2>2 DEF InsertPending
    <3> QED
      BY <2>1, <2>2, <3>1, <3>2, <1>7, Untouched
  <2>3. CASE q = r
    <3>1. receipt'[r] = "pending" /\ (r \notin forgotten' <=> r \notin forgotten)
      BY <1>8 DEF InsertPending, IInv, LedgerOK
    <3>2. \A x \in CallIds : x # k => (Of(x)' = Of(x)) /\ (Active(x)' <=> Active(x))
      BY <1>6 DEF Of, Active
    <3>3. ASSUME Kept(r) PROVE Kept(r)'
      BY <3>1, <3>2, <3>3, <1>6 DEF Kept, Of
    <3>4. ASSUME Single(r), Tells(r) PROVE Single(r)' /\ Tells(r)'
      <4>1. /\ inFlight[r] = 0 /\ Free(r)
            /\ \A x \in CallIds : Of(x) = r => ~Active(x) /\ call[x].told # "answer"
        BY <3>4 DEF Single, Tells
      <4>2. \A x \in CallIds : Of(x)' = r /\ x # k => ~Active(x)' /\ call'[x].told # "answer"
        BY <4>1, <3>2, <1>6
      <4>3. Free(r)'
        BY <4>1, <3>2, <1>9 DEF Free, ToldFailed, Of
      <4>4. Single(r)'
        BY <3>1, <4>2, <1>6, <1>7 DEF Single
      <4>5. \A n \in Nat : ToldFailed(r, n) => ToldFailed(r, n)'
        BY <1>9, StillFailed
      <4>6. IF Kind[r] \in Guarded THEN \A n \in 1..(effects'[r] - 1) : ToldFailed(r, n)'
            ELSE effects'[r] <= 1
        BY <3>4, <4>5 DEF Tells, IInv
      <4>7. \A x \in CallIds : Of(x)' = r =>
              /\ call'[x].pc = "running" => receipt'[r] = "pending" /\ Free(r)'
              /\ call'[x].pc # "applied"
        BY <3>1, <4>2, <4>3, <1>6 DEF Active
      <4> QED
        BY <3>1, <4>4, <4>6, <4>7 DEF Tells
    <3> QED
      BY <2>1, <2>3, <3>1, <3>3, <3>4, KindAssumption DEF RequestOK, Kinds, KindAssumption
  <2> QED
    BY <2>2, <2>3
<1> QED
  BY <1>1, <1>4, <1>10 DEF IInv

(* Begin: every other case.  The ledger stays as it is, and the new call    *)
(* runs, joins, or is told something.                                       *)
LEMMA BeginStep ==
  ASSUME IInv, BoundsAssumption, KindAssumption, NEW r \in Requests, made < MaxCalls,
         NEW pc \in {"running", "joined", "done"}, NEW on \in 0..MaxCalls,
         NEW n \in Nat, NEW told \in {"nothing", "answer", "error", "unknown"},
         New(r, pc, on, n, told),
         IF pc = "joined" THEN on # 0 /\ Active(on) /\ Of(on) = r ELSE on = 0,
         pc # "done" => told = "nothing",
         \/ inFlight' = inFlight /\ pc # "running"
         \/ /\ pc = "running" /\ inFlight' = [inFlight EXCEPT ![r] = made + 1]
            /\ Kind[r] \in {"start", "release"},
         told = "answer" => receipt[r] = "completed" /\ n = answer[r],
         UNCHANGED <<ledger, effects, target, boots>>
  PROVE  IInv'
<1> DEFINE k == made + 1
<1>1. LedgerOK'
  BY SameLedger DEF IInv
<1>2. CallsOK
  BY DEF IInv
<1>3. CallsOK'
  BY <1>2, NewCalls
<1>4. k \in CallIds /\ call[k] = NoCall
  <2>1. k \in CallIds
    BY <1>2 DEF CallsOK, CallIds, BoundsAssumption
  <2> QED
    BY <1>2, <2>1 DEF CallsOK
<1>5. /\ call'[k] = [req |-> r, pc |-> pc, on |-> on, effect |-> n, told |-> told]
      /\ \A x \in CallIds : x # k => call'[x] = call[x]
  BY <1>2, <1>4 DEF New, CallsOK
<1>6. \A q \in Requests : q # r => inFlight'[q] = inFlight[q]
  BY <1>2 DEF CallsOK
<1>7. UNCHANGED <<receipt, answer, forgotten, effects, target, boots>>
  BY DEF ledger
<1>8. \A x \in CallIds : call[x].told = "error" => call'[x] = call[x]
  BY <1>4, <1>5 DEF NoCall
<1>9. \A q \in Requests : RequestOK(q)'
  <2> SUFFICES ASSUME NEW q \in Requests PROVE RequestOK(q)'
    OBVIOUS
  <2>1. RequestOK(q)
    BY DEF IInv
  <2>2. CASE q # r
    <3>1. \A x \in CallIds : Of(x) = q \/ Of(x)' = q => call'[x] = call[x]
      BY <2>2, <1>4, <1>5 DEF Of, NoCall, KindAssumption
    <3> QED
      BY <2>1, <2>2, <3>1, <1>6, <1>7, Untouched
  <2>3. CASE q = r
    <3>1. \A x \in CallIds : x # k => (Of(x)' = Of(x)) /\ (Active(x)' <=> Active(x))
      BY <1>5 DEF Of, Active
    <3>2. ASSUME Kept(r) PROVE Kept(r)'
      BY <3>1, <3>2, <1>5, <1>7 DEF Kept, Of
    <3>3. \A m \in Nat : ToldFailed(r, m) => ToldFailed(r, m)'
      BY <1>8, StillFailed
    <3>4. ASSUME Single(r), Tells(r), Kind[r] \in First PROVE Single(r)' /\ Tells(r)'
      <4>1. pc # "running" /\ inFlight' = inFlight
        BY <3>4 DEF First
      <4>2. call'[k].pc \notin {"running", "applied"}
        BY <4>1, <1>5
      <4>3. \A x \in CallIds : Active(x)' => x # k
        BY <4>2 DEF Active
      <4>4. Single(r)'
        BY <3>1, <3>4, <4>1, <4>3, <1>5, <1>7 DEF Single
      <4>5. Free(r) => Free(r)'
        BY <3>1, <1>7, <1>8 DEF Free, ToldFailed, Of
      <4>6. IF Kind[r] \in Guarded THEN \A m \in 1..(effects'[r] - 1) : ToldFailed(r, m)'
            ELSE effects'[r] <= 1
        BY <3>3, <3>4, <1>7 DEF Tells, IInv
      <4>7. \A x \in CallIds : Of(x)' = r =>
              /\ call'[x].pc = "running" => receipt'[r] = "pending" /\ Free(r)'
              /\ call'[x].pc = "applied" =>
                   /\ call'[x].effect = effects'[r] /\ (effects'[r] > 0 \/ Kind[r] = "settle")
                   /\ receipt'[r] = "pending" => Kind[r] # "early"
        BY <3>1, <3>4, <4>2, <4>5, <1>5, <1>7 DEF Tells
      <4> QED
        BY <3>4, <4>4, <4>5, <4>6, <4>7, <1>7 DEF Tells
    <3>5. ToldFailed(r, 0) => ToldFailed(r, 0)'
      BY <3>3
    <3> QED
      BY <2>1, <2>3, <3>2, <3>4, <3>5, <1>7 DEF RequestOK, First, KindAssumption, Kinds
  <2> QED
    BY <2>2, <2>3
<1> QED
  BY <1>1, <1>3, <1>7, <1>9 DEF IInv

LEMMA BeginKeeps ==
  ASSUME IInv, BoundsAssumption, KindAssumption, NEW r \in Requests, Begin(r)
  PROVE  IInv'
<1>1. made < MaxCalls /\ UNCHANGED <<effects, target, boots>> /\ 0 \in 0..MaxCalls /\ 0 \in Nat
  BY DEF Begin, BoundsAssumption
<1>2. CASE BeginFresh(r)
  <2>1. CASE Kind[r] = "start"
    <3>1. Runs(r) /\ UNCHANGED ledger
      BY <1>2, <2>1 DEF BeginFresh
    <3> QED
      BY <1>1, <2>1, <3>1, BeginStep DEF Runs
  <2>2. CASE Kind[r] # "start"
    <3>1. PICK P \in Prunings : \/ Full(P) /\ Refuses(r, "error") /\ UNCHANGED ledger
                                \/ InsertPending(r, 0, P) /\ Runs(r)
      BY <1>2, <2>2 DEF BeginFresh
    <3>2. CASE Refuses(r, "error") /\ UNCHANGED ledger
      BY <1>1, <3>2, BeginStep DEF Refuses
    <3>3. CASE InsertPending(r, 0, P) /\ Runs(r)
      BY <1>1, <1>2, <2>2, <3>3, InsertStep DEF BeginFresh
    <3> QED
      BY <3>1, <3>2, <3>3
  <2> QED
    BY <2>1, <2>2
<1>3. CASE BeginJoined(r)
  <2>1. /\ New(r, "joined", inFlight[r], 0, "nothing") /\ inFlight[r] # 0
        /\ UNCHANGED ledger /\ inFlight' = inFlight
    BY <1>3 DEF BeginJoined, Joins
  <2>2. inFlight[r] \in 0..MaxCalls /\ Active(inFlight[r]) /\ Of(inFlight[r]) = r
    BY <2>1 DEF IInv, CallsOK, BoundsAssumption
  <2> QED
    BY <1>1, <2>1, <2>2, BeginStep
<1>4. CASE BeginReplayed(r)
  <2>1. /\ New(r, "done", 0, answer[r], "answer") /\ receipt[r] = "completed"
        /\ UNCHANGED ledger /\ inFlight' = inFlight
    BY <1>4 DEF BeginReplayed, Replays
  <2>2. answer[r] \in Nat
    BY DEF IInv, LedgerOK
  <2> QED
    BY <1>1, <2>1, <2>2, BeginStep
<1>5. CASE BeginPending(r)
  <2>1. CASE Kind[r] = "release"
    <3>1. Runs(r) /\ UNCHANGED ledger
      BY <1>5, <2>1 DEF BeginPending, Resumes
    <3> QED
      BY <1>1, <2>1, <3>1, BeginStep DEF Runs
  <2>2. CASE Kind[r] # "release"
    <3>1. Refuses(r, "unknown") /\ UNCHANGED ledger
      BY <1>5, <2>2 DEF BeginPending, Resumes
    <3> QED
      BY <1>1, <3>1, BeginStep DEF Refuses
  <2> QED
    BY <2>1, <2>2
<1> QED
  BY <1>2, <1>3, <1>4, <1>5 DEF Begin

-----------------------------------------------------------------------------
(* The handler makes its effect *)

(* What a handler of a method with one handler knows. *)
LEMMA HandlerKnows ==
  ASSUME IInv, NEW c \in CallIds, Active(c), Of(c) \in Requests, Of(c) \notin forgotten,
         Kind[Of(c)] \in First
  PROVE  /\ inFlight[Of(c)] = c /\ receipt[Of(c)] # "absent"
         /\ \A x \in CallIds : Of(x) = Of(c) /\ Active(x) => x = c
         /\ Single(Of(c)) /\ Tells(Of(c)) /\ effects[Of(c)] \in Nat
<1>1. Single(Of(c)) /\ Tells(Of(c)) /\ effects[Of(c)] \in Nat
  BY DEF IInv, RequestOK
<1> QED
  BY <1>1 DEF Single

(* The frame: what such a step leaves alone.  What it does to its own       *)
(* request is shown by the lemmas of the actions.                           *)
LEMMA AppliesFrame ==
  ASSUME IInv, NEW c \in CallIds, NEW r \in Requests, Of(c) = r,
         NEW n \in Nat, Reached(c, "running"), Applies(c, n),
         LedgerOK', boots' = boots, target' \in [Requests -> {"open", "held", "closed"}],
         forgotten \subseteq forgotten',
         \A q \in Requests : q # r /\ q \notin forgotten' =>
           receipt'[q] = receipt[q] /\ answer'[q] = answer[q],
         RequestOK(r)'
  PROVE  IInv'
<1>1. /\ CallsOK'
      /\ \A x \in CallIds : x # c => call'[x] = call[x]
      /\ call'[c] = [call[c] EXCEPT !.pc = "applied", !.effect = n]
  BY AppliesCalls DEF IInv
<1>2. call'[c].req = call[c].req
  BY <1>1 DEF IInv, CallsOK, CallType
<1>3. /\ effects' = [effects EXCEPT ![r] = n] /\ inFlight' = inFlight
      /\ effects \in [Requests -> Nat]
  BY DEF Applies, IInv
<1>4. effects' \in [Requests -> Nat]
  BY <1>1, <1>3
<1>5. \A q \in Requests : RequestOK(q)'
  <2> SUFFICES ASSUME NEW q \in Requests, q # r PROVE RequestOK(q)'
    OBVIOUS
  <2>1. \A x \in CallIds : Of(x) = q \/ Of(x)' = q => call'[x] = call[x]
    BY <1>1, <1>2 DEF Of
  <2> QED
    BY <2>1, <1>3, Untouched DEF IInv
<1> QED
  BY <1>1, <1>4, <1>5 DEF IInv

(* The one handler of a request makes effect n, or finds it made. *)
LEMMA AppliesFirst ==
  ASSUME IInv, KindAssumption, NEW c \in CallIds, NEW r \in Requests, Of(c) = r,
         NEW n \in Nat, Reached(c, "running"),
         Applies(c, n), forgotten' = forgotten, Kind[r] \in First,
         n = effects[r] + 1 \/ (Kind[r] = "settle" /\ n = effects[r]),
         IF Kind[r] = "early"
         THEN receipt'[r] = "completed" /\ answer'[r] = n
         ELSE receipt' = receipt /\ answer' = answer
  PROVE  RequestOK(r)'
<1>1. /\ \A x \in CallIds : x # c => call'[x] = call[x]
      /\ call'[c] = [call[c] EXCEPT !.pc = "applied", !.effect = n]
      /\ r \in Requests /\ Active(c) /\ call[c] \in CallType
  BY AppliesCalls DEF IInv, CallsOK
<1>2. /\ call'[c].req = r /\ call'[c].pc = "applied" /\ call'[c].effect = n
      /\ call'[c].told = call[c].told /\ call[c].told = "nothing"
  BY <1>1 DEF CallType, Of, IInv, CallsOK, Reached
<1>3. /\ Of(c)' = r
      /\ \A x \in CallIds : Of(x)' = Of(x) /\ (Active(x)' <=> Active(x))
  BY <1>1, <1>2 DEF Of, Active, Reached
<1>4. effects'[r] = n /\ inFlight' = inFlight
  BY <1>1 DEF Applies, IInv
<1> SUFFICES ASSUME r \notin forgotten PROVE Single(r)' /\ Tells(r)'
  BY <1>3 DEF RequestOK, First
<1>5. /\ inFlight[r] = c /\ effects[r] \in Nat /\ Single(r) /\ Tells(r)
      /\ \A x \in CallIds : Of(x) = r /\ Active(x) => x = c
  BY <1>1, HandlerKnows
<1>6. receipt[r] = "pending" /\ Free(r)
  BY <1>5 DEF Tells, Reached
<1>7. \A x \in CallIds : Of(x) = r => call[x].told # "answer"
  BY <1>5, <1>6 DEF Single
<1>8. receipt'[r] # "absent" /\ (receipt'[r] = "completed" => answer'[r] = n)
  BY <1>5, <1>6 DEF Single
<1>9. \A x \in CallIds : Of(x)' = r =>
        /\ Active(x)' => x = c
        /\ call'[x].told # "answer"
  BY <1>1, <1>2, <1>3, <1>5, <1>7
<1>10. Single(r)'
  BY <1>4, <1>5, <1>8, <1>9 DEF Single
<1>11. \A m \in Nat : ToldFailed(r, m) => ToldFailed(r, m)'
  BY <1>1, <1>2, StillFailed
<1>12. IF Kind[r] \in Guarded THEN \A m \in 1..(n - 1) : ToldFailed(r, m)' ELSE n <= 1
  <2>1. CASE Kind[r] \in Guarded
    <3>1. \A m \in 1..(effects[r] - 1) : ToldFailed(r, m)'
      BY <1>5, <1>11, <2>1 DEF Tells
    <3>2. effects[r] > 0 => ToldFailed(r, effects[r])
      BY <1>6 DEF Free
    <3>3. \A m \in Nat : m = effects[r] /\ m > 0 => ToldFailed(r, m)'
      BY <1>11, <3>2
    <3>4. \A m \in 1..(n - 1) : m \in Nat /\ (m \in 1..(effects[r] - 1) \/ (m = effects[r] /\ m > 0))
      BY <1>5
    <3> QED
      BY <2>1, <3>1, <3>3, <3>4
  <2>2. CASE Kind[r] \notin Guarded
    <3>1. effects[r] = 0
      BY <1>5, <1>6, <2>2 DEF Free
    <3> QED
      BY <2>2, <3>1 DEF Guarded
  <2> QED
    BY <2>1, <2>2
<1>13. n > 0 \/ Kind[r] = "settle"
  BY <1>5
<1>14. receipt'[r] = "pending" => Kind[r] # "early"
  OBVIOUS
<1>15. \A x \in CallIds : Of(x)' = r =>
         /\ call'[x].pc # "running"
         /\ call'[x].pc = "applied" => call'[x].effect = n
  <2> SUFFICES ASSUME NEW x \in CallIds, Of(x)' = r
               PROVE  /\ call'[x].pc # "running"
                      /\ call'[x].pc = "applied" => call'[x].effect = n
    OBVIOUS
  <2>1. CASE x = c
    BY <1>2, <2>1
  <2>2. CASE x # c
    <3>1. ~Active(x)'
      BY <1>9, <2>2
    <3> QED
      BY <3>1 DEF Active
  <2> QED
    BY <2>1, <2>2
<1>16. Tells(r)'
  BY <1>4, <1>8, <1>12, <1>13, <1>14, <1>15 DEF Tells
<1> QED
  BY <1>10, <1>16

(* The one effect of a release, or of a start that no call of it saw fail. *)
LEMMA AppliesKept ==
  ASSUME IInv, NEW c \in CallIds, NEW r \in Requests, Of(c) = r,
         Reached(c, "running"), Applies(c, 1), Kept(r),
         receipt'[r] = "completed" => answer'[r] = 1
  PROVE  Kept(r)'
<1>1. /\ \A x \in CallIds : x # c => call'[x] = call[x]
      /\ call'[c] = [call[c] EXCEPT !.pc = "applied", !.effect = 1]
  BY AppliesCalls DEF IInv
<1>6. call[c] \in CallType
  BY DEF IInv, CallsOK
<1>2. /\ call'[c].req = r /\ call'[c].pc = "applied" /\ call'[c].effect = 1
      /\ call'[c].told = call[c].told
  BY <1>1, <1>6 DEF CallType, Of
<1>3. \A x \in CallIds : Of(x)' = Of(x)
  BY <1>1, <1>2 DEF Of
<1>4. effects'[r] = 1
  BY <1>1 DEF Applies, IInv
<1>5. \A x \in CallIds : Of(x)' = r =>
        /\ call'[x].pc = "applied" => call'[x].effect = 1
        /\ call'[x].told = "answer" => call'[x].effect = 1
  BY <1>1, <1>2, <1>3 DEF Kept
<1> QED
  BY <1>3, <1>4, <1>5 DEF Kept

LEMMA ApplyKeeps ==
  ASSUME IInv, KindAssumption, NEW c \in CallIds, NEW r \in Requests, Of(c) = r, Apply(c)
  PROVE  IInv'
<1> DEFINE n == effects[r] + 1
<1>1. /\ Reached(c, "running") /\ Kind[r] \in {"plain", "early"} /\ Applies(c, n)
      /\ UNCHANGED <<target, boots>>
  BY DEF Apply
<1>2. n \in Nat /\ LedgerOK /\ target \in [Requests -> {"open", "held", "closed"}]
  BY DEF IInv
<1>3. CASE Kind[r] = "early"
  <2>1. Complete(r, n) /\ receipt[r] # "absent"
    BY <1>3 DEF Apply
  <2>2. LedgerOK'
    BY <1>2, <2>1, CompleteLedger
  <2>3. /\ forgotten' = forgotten /\ receipt'[r] = "completed" /\ answer'[r] = n
        /\ \A q \in Requests : q # r => receipt'[q] = receipt[q] /\ answer'[q] = answer[q]
    BY <1>2, <2>1 DEF Complete, LedgerOK
  <2>4. RequestOK(r)'
    BY <1>1, <1>2, <1>3, <2>3, AppliesFirst DEF First
  <2> QED
    BY <1>1, <1>2, <2>2, <2>3, <2>4, AppliesFrame
<1>4. CASE Kind[r] = "plain"
  <2>1. UNCHANGED ledger
    BY <1>4 DEF Apply
  <2>2. UNCHANGED <<receipt, answer, forgotten>> /\ LedgerOK'
    BY <1>2, <2>1, SameLedger DEF ledger
  <2>3. RequestOK(r)'
    BY <1>1, <1>2, <1>4, <2>2, AppliesFirst DEF First
  <2> QED
    BY <1>1, <1>2, <2>2, <2>3, AppliesFrame
<1> QED
  BY <1>1, <1>3, <1>4

(* The methods that look at a row: they take it, or find it settled. *)
LEMMA ApplyGuardedKeeps ==
  ASSUME IInv, KindAssumption, NEW c \in CallIds, NEW r \in Requests, Of(c) = r,
         ApplyGuarded(c) \/ FindDone(c)
  PROVE  IInv'
<1>1. /\ Reached(c, "running") /\ UNCHANGED <<ledger, boots>>
      /\ \/ Kind[r] \in {"dispatch", "settle"} /\ Applies(c, effects[r] + 1) /\ Takes(r)
         \/ Kind[r] = "settle" /\ Applies(c, effects[r]) /\ target' = target
  BY DEF ApplyGuarded, FindDone
<1>2. effects[r] \in Nat
  BY DEF IInv
<1>3. target' \in [Requests -> {"open", "held", "closed"}]
  BY <1>1, <1>2 DEF IInv, Takes
<1>4. UNCHANGED <<receipt, answer, forgotten>> /\ LedgerOK'
  BY <1>1, SameLedger DEF ledger, IInv
<1>5. PICK n \in Nat : /\ Applies(c, n)
                       /\ n = effects[r] + 1 \/ (Kind[r] = "settle" /\ n = effects[r])
  BY <1>1, <1>2
<1>6. RequestOK(r)'
  BY <1>1, <1>2, <1>4, <1>5, AppliesFirst DEF First
<1> QED
  BY <1>1, <1>3, <1>4, <1>5, <1>6, AppliesFrame

LEMMA ApplyReleaseKeeps ==
  ASSUME IInv, NEW c \in CallIds, NEW r \in Requests, Of(c) = r, ApplyRelease(c)
  PROVE  IInv'
<1>1. /\ Reached(c, "running") /\ Kind[r] = "release" /\ Applies(c, 1)
      /\ UNCHANGED <<ledger, target, boots>>
  BY DEF ApplyRelease
<1>2. UNCHANGED <<receipt, answer, forgotten>> /\ LedgerOK'
  BY <1>1, SameLedger DEF ledger, IInv
<1>3. ASSUME r \notin forgotten PROVE Kept(r)'
  <2>1. Kept(r)
    BY <1>1, <1>3 DEF IInv, RequestOK
  <2> QED
    BY <1>1, <1>2, <2>1, AppliesKept DEF Kept
<1>4. RequestOK(r)'
  BY <1>1, <1>2, <1>3 DEF RequestOK, First
<1> QED
  BY <1>1, <1>2, <1>4, AppliesFrame DEF IInv

LEMMA AcceptKeeps ==
  ASSUME IInv, BoundsAssumption, NEW c \in CallIds, NEW r \in Requests, Of(c) = r, Accept(c)
  PROVE  IInv'
<1> DEFINE n == effects[r] + 1
<1>1. /\ Reached(c, "running") /\ Kind[r] = "start" /\ receipt[r] = "absent"
      /\ Takes(r) /\ Applies(c, n) /\ boots' = boots
      /\ \E P \in Prunings : InsertPending(r, n, P)
  BY DEF Accept, Unaccepted
<1>2. PICK P \in Prunings : InsertPending(r, n, P)
  BY <1>1
<1>3. n \in Nat
  BY DEF IInv
<1>4. LedgerOK'
  BY <1>1, <1>2, <1>3, InsertLedger DEF IInv
<1>5. /\ forgotten' = forgotten \cup P /\ receipt'[r] = "pending"
      /\ \A q \in Requests : q # r /\ q \notin P =>
           receipt'[q] = receipt[q] /\ answer'[q] = answer[q]
  BY <1>2, <1>3 DEF InsertPending, IInv, LedgerOK
<1>6. target' \in [Requests -> {"open", "held", "closed"}]
  BY <1>1, <1>3 DEF IInv, Takes
<1>7. \A x \in CallIds : call[x].told = "error" => call'[x] = call[x]
  <2>1. \A x \in CallIds : x # c => call'[x] = call[x]
    BY <1>1, <1>3, AppliesCalls DEF IInv
  <2>2. call[c].told = "nothing"
    BY <1>1 DEF IInv, CallsOK, Reached
  <2> QED
    BY <2>1, <2>2
<1>8. ASSUME r \notin forgotten', ~ToldFailed(r, 0)'
      PROVE  Kept(r)' /\ (receipt'[r] = "absent" => effects'[r] = 0)
  <2>1. ~ToldFailed(r, 0)
    BY <1>3, <1>7, <1>8, StillFailed
  <2>2. Kept(r) /\ n = 1
    BY <1>1, <1>3, <1>5, <1>8, <2>1 DEF IInv, RequestOK
  <2>3. Kept(r)'
    BY <1>1, <1>5, <2>2, AppliesKept
  <2> QED
    BY <1>5, <2>3
<1>9. RequestOK(r)'
  BY <1>1, <1>8 DEF RequestOK, First
<1> QED
  BY <1>1, <1>3, <1>4, <1>5, <1>6, <1>9, AppliesFrame

-----------------------------------------------------------------------------
(* The handler settles *)

(* The frame, as above. *)
LEMMA SettleFrame ==
  ASSUME IInv, NEW c \in CallIds, NEW r \in Requests, Of(c) = r, Active(c),
         NEW own \in {"answer", "error", "unknown"}, NEW joined \in {"answer", "error", "unknown"},
         Settle(c, own, joined),
         LedgerOK', UNCHANGED <<boots, forgotten>>, effects' \in [Requests -> Nat],
         target' \in [Requests -> {"open", "held", "closed"}],
         \A q \in Requests : q # r =>
           receipt'[q] = receipt[q] /\ answer'[q] = answer[q] /\ effects'[q] = effects[q],
         RequestOK(r)'
  PROVE  IInv'
<1>1. /\ CallsOK'
      /\ \A x \in CallIds : Of(x)' = Of(x)
      /\ \A x \in CallIds : Of(x) # r => call'[x] = call[x]
  BY SettleCalls DEF IInv
<1>2. \A q \in Requests : q # r => inFlight'[q] = inFlight[q]
  BY DEF Settle, IInv, CallsOK
<1>3. \A q \in Requests : RequestOK(q)'
  <2> SUFFICES ASSUME NEW q \in Requests, q # r PROVE RequestOK(q)'
    OBVIOUS
  <2>1. \A x \in CallIds : Of(x) = q \/ Of(x)' = q => call'[x] = call[x]
    BY <1>1
  <2> QED
    BY <2>1, <1>2, Untouched DEF IInv
<1> QED
  BY <1>1, <1>3 DEF IInv

(* The one handler of a request ends: it keeps the receipt, completes it    *)
(* with what it did, or throws and has it discarded.                        *)
LEMMA SettleFirst ==
  ASSUME IInv, NEW c \in CallIds, NEW r \in Requests, Of(c) = r, Active(c),
         NEW own \in {"answer", "error", "unknown"}, NEW joined \in {"answer", "error", "unknown"},
         Settle(c, own, joined), Kind[r] \in First, UNCHANGED <<effects, forgotten>>,
         \/ receipt' = receipt /\ answer' = answer /\ "answer" \notin {own, joined}
         \/ Reached(c, "applied") /\ receipt'[r] = "completed" /\ answer'[r] = call[c].effect
         \/ /\ Throws(c) /\ own = "error" /\ joined = "error"
            /\ receipt[r] = "pending" /\ receipt'[r] = "absent"
  PROVE  RequestOK(r)'
<1>1. /\ \A x \in CallIds : Of(x)' = Of(x)
      /\ \A x \in CallIds : Active(x)' => x # c /\ call'[x] = call[x]
      /\ \A x \in CallIds :
           \/ call'[x] = call[x]
           \/ /\ call'[x].pc = "done" /\ call[x].told = "nothing"
              /\ call'[x].told = "answer" =>
                   "answer" \in {own, joined} /\ call'[x].effect = call[c].effect
      /\ call'[c].told = own /\ call'[c].effect = call[c].effect
  BY SettleCalls DEF IInv
<1>2. inFlight'[r] = 0
  BY DEF Settle, IInv, CallsOK
<1> SUFFICES ASSUME r \notin forgotten PROVE Single(r)' /\ Tells(r)'
  BY DEF RequestOK, First
<1>3. /\ receipt[r] # "absent" /\ effects[r] \in Nat /\ Single(r) /\ Tells(r)
      /\ \A x \in CallIds : Of(x) = r /\ Active(x) => x = c
  BY HandlerKnows
<1>4. \A x \in CallIds : Of(x)' = r => ~Active(x)'
  <2> SUFFICES ASSUME NEW x \in CallIds, Of(x)' = r, Active(x)' PROVE FALSE
    OBVIOUS
  <2>1. x # c /\ Of(x) = r /\ Active(x)
    BY <1>1 DEF Active
  <2> QED
    BY <1>3, <2>1
<1>5. Reached(c, "applied") =>
        call[c].effect = effects[r] /\ (effects[r] > 0 \/ Kind[r] = "settle")
  BY <1>3 DEF Tells, Reached
<1>6. \A x \in CallIds : call[x].told = "error" => call'[x] = call[x]
  BY <1>1
<1>7. \A n \in Nat : ToldFailed(r, n) => ToldFailed(r, n)'
  BY <1>6, StillFailed
<1>8. Free(r) => Free(r)'
  BY <1>1, <1>6 DEF Free, ToldFailed
<1>9. IF Kind[r] \in Guarded THEN \A n \in 1..(effects'[r] - 1) : ToldFailed(r, n)'
      ELSE effects'[r] <= 1
  BY <1>3, <1>7 DEF Tells
<1>10. \A x \in CallIds : Of(x)' = r => call'[x].pc \notin {"running", "applied"}
  BY <1>4 DEF Active
<1>11. CASE receipt' = receipt /\ answer' = answer /\ "answer" \notin {own, joined}
  <2>1. \A x \in CallIds : Of(x)' = r /\ call'[x].told = "answer" => call'[x] = call[x] /\ Of(x) = r
    BY <1>1, <1>11
  <2>2. Single(r)'
    BY <1>2, <1>3, <1>4, <1>11, <2>1 DEF Single
  <2> QED
    BY <1>3, <1>9, <1>10, <1>11, <2>2 DEF Tells
<1>12. CASE Reached(c, "applied") /\ receipt'[r] = "completed" /\ answer'[r] = call[c].effect
  <2>1. \A x \in CallIds : Of(x)' = r /\ call'[x].told = "answer" => call'[x].effect = effects[r]
    BY <1>1, <1>3, <1>5, <1>12 DEF Single
  <2>2. Single(r)'
    BY <1>2, <1>4, <1>5, <1>12, <2>1 DEF Single
  <2> QED
    BY <1>5, <1>9, <1>10, <1>12, <2>2 DEF Tells
<1>13. CASE /\ Throws(c) /\ own = "error" /\ joined = "error"
            /\ receipt[r] = "pending" /\ receipt'[r] = "absent"
  <2>1. \A x \in CallIds : Of(x)' = r => call'[x].told # "answer"
    BY <1>1, <1>3, <1>13 DEF Single
  <2>2. Single(r)'
    BY <1>2, <1>4, <1>13, <2>1 DEF Single
  <2>3. Free(r)'
    <3>1. CASE Reached(c, "running")
      BY <1>3, <1>8, <3>1 DEF Tells, Reached
    <3>2. CASE Reached(c, "applied")
      <4>1. Kind[r] \in Guarded
        BY <1>3, <1>13, <3>2 DEF Throws, Tells, Reached, Guarded, First
      <4>2. Of(c)' = r /\ call'[c].told = "error" /\ call'[c].effect = effects'[r]
        BY <1>1, <1>5, <1>13, <3>2
      <4> QED
        BY <4>1, <4>2 DEF Free, ToldFailed
    <3> QED
      BY <1>13, <3>1, <3>2 DEF Throws
  <2> QED
    BY <1>9, <1>10, <1>13, <2>2, <2>3 DEF Tells
<1> QED
  BY <1>11, <1>12, <1>13

(* A release or a start ends. *)
LEMMA SettleKept ==
  ASSUME IInv, NEW c \in CallIds, NEW r \in Requests, Of(c) = r, Active(c),
         NEW own \in {"answer", "error", "unknown"}, NEW joined \in {"answer", "error", "unknown"},
         Settle(c, own, joined), effects' = effects, Kept(r),
         "answer" \in {own, joined} => Reached(c, "applied"),
         \/ receipt' = receipt /\ answer' = answer
         \/ receipt'[r] = "absent"
         \/ Reached(c, "applied") /\ answer'[r] = call[c].effect
  PROVE  Kept(r)'
<1>1. /\ \A x \in CallIds : Of(x)' = Of(x)
      /\ \A x \in CallIds :
           \/ call'[x] = call[x]
           \/ /\ call'[x].pc = "done"
              /\ call'[x].told = "answer" =>
                   "answer" \in {own, joined} /\ call'[x].effect = call[c].effect
  BY SettleCalls DEF IInv
<1>2. Reached(c, "applied") => call[c].effect = 1
  BY DEF Kept, Reached
<1>3. receipt'[r] = "completed" => answer'[r] = 1
  BY <1>2 DEF Kept
<1>4. \A x \in CallIds : Of(x)' = r =>
        /\ call'[x].pc = "applied" => call'[x].effect = 1
        /\ call'[x].told = "answer" => call'[x].effect = 1
  BY <1>1, <1>2 DEF Kept
<1> QED
  BY <1>3, <1>4 DEF Kept

(* A start whose call is told of an error is one of whose calls failed. *)
LEMMA StartFailed ==
  ASSUME IInv, NEW c \in CallIds, NEW r \in Requests, Of(c) = r, Active(c), Kind[r] = "start",
         NEW joined \in {"answer", "error", "unknown"}, Settle(c, "error", joined)
  PROVE  RequestOK(r)'
<1>1. Of(c)' = r /\ call'[c].told = "error"
  BY SettleCalls DEF IInv
<1>2. ToldFailed(r, 0)'
  BY <1>1 DEF ToldFailed
<1> QED
  BY <1>2 DEF RequestOK, First

LEMMA FailKeeps ==
  ASSUME IInv, BoundsAssumption, KindAssumption,
         NEW c \in CallIds, NEW r \in Requests, Of(c) = r, Fail(c)
  PROVE  IInv'
<1>1. /\ Throws(c) /\ GivesBack(c) /\ Settle(c, "error", "error") /\ Discard(r)
      /\ UNCHANGED <<effects, boots>> /\ Active(c)
  BY DEF Fail, Throws, Reached, Active
<1>2. LedgerOK'
  BY <1>1, DiscardLedger DEF IInv
<1>3. target' \in [Requests -> {"open", "held", "closed"}]
  BY <1>1 DEF GivesBack, IInv
<1>4. /\ forgotten' = forgotten
      /\ \A q \in Requests : q # r => receipt'[q] = receipt[q] /\ answer'[q] = answer[q]
      /\ \/ receipt[r] # "pending" /\ receipt' = receipt /\ answer' = answer
         \/ receipt[r] = "pending" /\ receipt'[r] = "absent"
  BY <1>1 DEF Discard, ledger, IInv, LedgerOK
<1>5. CASE Kind[r] \in First
  <2>1. RequestOK(r)'
    BY <1>1, <1>4, <1>5, SettleFirst
  <2> QED
    BY <1>1, <1>2, <1>3, <1>4, <2>1, SettleFrame DEF IInv
<1>6. CASE Kind[r] = "release"
  <2>1. ASSUME r \notin forgotten PROVE Kept(r)'
    <3>1. Kept(r)
      BY <1>6, <2>1 DEF IInv, RequestOK
    <3> QED
      BY <1>1, <1>4, <3>1, SettleKept
  <2>2. RequestOK(r)'
    BY <1>4, <1>6, <2>1 DEF RequestOK, First
  <2> QED
    BY <1>1, <1>2, <1>3, <1>4, <2>2, SettleFrame DEF IInv
<1>7. CASE Kind[r] = "start"
  <2>1. RequestOK(r)'
    BY <1>1, <1>7, StartFailed
  <2> QED
    BY <1>1, <1>2, <1>3, <1>4, <2>1, SettleFrame DEF IInv
<1> QED
  BY <1>5, <1>6, <1>7 DEF KindAssumption, Kinds, First

LEMMA ReturnKeeps ==
  ASSUME IInv, KindAssumption, NEW c \in CallIds, NEW r \in Requests, Of(c) = r, Return(c)
  PROVE  IInv'
<1>1. Reached(c, "applied") /\ Finishes(c) /\ UNCHANGED <<effects, boots>> /\ Active(c)
  BY DEF Return, Reached, Active
<1>2. call[c].effect \in Nat
  BY DEF IInv, CallsOK, CallType
<1>3. target' \in [Requests -> {"open", "held", "closed"}]
  BY <1>1 DEF Finishes, IInv
<1>4. CASE receipt[r] # "absent"
  <2>1. Complete(r, call[c].effect) /\ Settle(c, "answer", "answer")
    BY <1>4 DEF Return
  <2>2. LedgerOK'
    BY <1>2, <1>4, <2>1, CompleteLedger DEF IInv
  <2>3. /\ forgotten' = forgotten /\ receipt'[r] = "completed" /\ answer'[r] = call[c].effect
        /\ \A q \in Requests : q # r => receipt'[q] = receipt[q] /\ answer'[q] = answer[q]
    BY <2>1 DEF Complete, IInv, LedgerOK
  <2>4. RequestOK(r)'
    <3>1. CASE Kind[r] \in First
      BY <1>1, <2>1, <2>3, <3>1, SettleFirst
    <3>2. CASE Kind[r] \in {"release", "start"}
      <4>1. Kept(r) => Kept(r)'
        BY <1>1, <2>1, <2>3, SettleKept
      <4>2. ToldFailed(r, 0) => ToldFailed(r, 0)'
        <5>1. \A x \in CallIds : call[x].told = "error" => call'[x] = call[x]
          BY <1>1, <2>1, SettleCalls DEF IInv
        <5> QED
          BY <5>1, StillFailed
      <4> QED
        BY <2>3, <3>2, <4>1, <4>2 DEF IInv, RequestOK, First
    <3> QED
      BY <3>1, <3>2 DEF KindAssumption, Kinds, First
  <2> QED
    BY <1>1, <1>3, <2>1, <2>2, <2>3, <2>4, SettleFrame DEF IInv
<1>5. CASE receipt[r] = "absent"
  <2>1. Settle(c, "error", "answer") /\ UNCHANGED ledger
    BY <1>5 DEF Return
  <2>2. UNCHANGED <<receipt, answer, forgotten>> /\ LedgerOK'
    BY <2>1, SameLedger DEF ledger, IInv
  <2>3. RequestOK(r)'
    <3>1. CASE Kind[r] \in First
      <4>1. r \in forgotten
        BY <1>1, <1>5, <3>1, HandlerKnows
      <4> QED
        BY <2>2, <4>1 DEF RequestOK
    <3>2. CASE Kind[r] = "release"
      <4>1. Kept(r) => Kept(r)'
        BY <1>1, <2>1, <2>2, SettleKept
      <4> QED
        BY <2>2, <3>2, <4>1 DEF IInv, RequestOK, First
    <3>3. CASE Kind[r] = "start"
      BY <1>1, <2>1, <3>3, StartFailed
    <3> QED
      BY <3>1, <3>2, <3>3 DEF KindAssumption, Kinds, First
  <2> QED
    BY <1>1, <1>3, <2>1, <2>2, <2>3, SettleFrame DEF IInv
<1> QED
  BY <1>4, <1>5

(* operation_unknown, and the start that was accepted before. *)
LEMMA UnknownKeeps ==
  ASSUME IInv, KindAssumption, NEW c \in CallIds, NEW r \in Requests, Of(c) = r,
         Unknown(c) \/ AcceptedAlready(c)
  PROVE  IInv'
<1>1. /\ Active(c) /\ Settle(c, "unknown", "unknown") /\ Kind[r] \in {"plain", "start"}
      /\ UNCHANGED <<ledger, effects, target, boots>>
  BY DEF Unknown, AcceptedAlready, KeepsUnknown, Active, Reached
<1>2. UNCHANGED <<receipt, answer, forgotten>> /\ LedgerOK'
  BY <1>1, SameLedger DEF ledger, IInv
<1>3. RequestOK(r)'
  <2>1. CASE Kind[r] = "plain"
    BY <1>1, <1>2, <2>1, SettleFirst DEF First
  <2>2. CASE Kind[r] = "start"
    <3>1. Kept(r) => Kept(r)'
      BY <1>1, <1>2, SettleKept
    <3>2. \A x \in CallIds : call[x].told = "error" => call'[x] = call[x]
      BY <1>1, SettleCalls DEF IInv
    <3>3. ToldFailed(r, 0) => ToldFailed(r, 0)'
      BY <3>2, StillFailed
    <3> QED
      BY <1>1, <1>2, <2>2, <3>1, <3>3 DEF IInv, RequestOK, First
  <2> QED
    BY <1>1, <2>1, <2>2
<1> QED
  BY <1>1, <1>2, <1>3, SettleFrame DEF IInv

(* An early answer that cannot be recorded: only a pruned request's. *)
LEMMA ApplyUnrecordedKeeps ==
  ASSUME IInv, NEW c \in CallIds, NEW r \in Requests, Of(c) = r, ApplyUnrecorded(c)
  PROVE  IInv'
<1>1. /\ Active(c) /\ Kind[r] = "early" /\ receipt[r] = "absent"
      /\ Settle(c, "error", "error") /\ UNCHANGED <<ledger, target, boots>>
      /\ effects' = [effects EXCEPT ![r] = @ + 1]
  BY DEF ApplyUnrecorded, Active, Reached
<1>2. r \in forgotten
  BY <1>1, HandlerKnows DEF First
<1>3. UNCHANGED <<receipt, answer, forgotten>> /\ LedgerOK'
  BY <1>1, SameLedger DEF ledger, IInv
<1>4. /\ effects' \in [Requests -> Nat]
      /\ \A q \in Requests : q # r => effects'[q] = effects[q]
  BY <1>1 DEF IInv
<1>5. RequestOK(r)'
  BY <1>2, <1>3 DEF RequestOK
<1> QED
  BY <1>1, <1>3, <1>4, <1>5, SettleFrame DEF IInv

-----------------------------------------------------------------------------
(* Restarts, and what others do to the row *)

LEMMA RestartKeeps ==
  ASSUME IInv, BoundsAssumption, KindAssumption, Restart
  PROVE  IInv'
<1>1. UNCHANGED <<receipt, answer, forgotten, effects, target>> /\ LedgerOK'
  BY SameLedger DEF Restart, ledger, IInv
<1>2. /\ CallsOK'
      /\ \A x \in CallIds : Of(x)' = Of(x) /\ ~Active(x)'
      /\ \A x \in CallIds :
           call'[x] = call[x] \/ (call[x].told = "nothing" /\ call'[x].told = "lost")
      /\ \A r \in Requests : inFlight'[r] = 0
  BY RestartCalls DEF IInv
<1>3. boots' \in 1..MaxBoots
  <2>1. boots \in 1..MaxBoots /\ MaxBoots \in Nat
    BY DEF IInv, BoundsAssumption
  <2>2. boots < MaxBoots /\ boots' = boots + 1
    BY DEF Restart
  <2> QED
    BY <2>1, <2>2
<1>4. /\ \A x \in CallIds : call'[x].pc \notin {"running", "applied"}
      /\ \A x \in CallIds : call'[x].told = "answer" => call'[x] = call[x]
      /\ \A x \in CallIds : call[x].told = "error" => call'[x] = call[x]
  BY <1>2 DEF Active
<1>5. \A q \in Requests : RequestOK(q)'
  <2> SUFFICES ASSUME NEW q \in Requests PROVE RequestOK(q)'
    OBVIOUS
  <2>1. RequestOK(q) /\ effects[q] \in Nat
    BY DEF IInv
  <2>2. \A n \in Nat : ToldFailed(q, n) => ToldFailed(q, n)'
    BY <1>4, StillFailed
  <2>3. Kept(q) => Kept(q)'
    BY <1>1, <1>2, <1>4 DEF Kept
  <2>4. Single(q) => Single(q)'
    BY <1>1, <1>2, <1>4 DEF Single
  <2>5. Free(q) => Free(q)'
    BY <1>1, <2>1, <2>2 DEF Free
  <2>6. ASSUME Tells(q) PROVE Tells(q)'
    <3>1. IF Kind[q] \in Guarded THEN \A n \in 1..(effects'[q] - 1) : ToldFailed(q, n)'
          ELSE effects'[q] <= 1
      BY <1>1, <2>1, <2>2, <2>6 DEF Tells
    <3> QED
      BY <1>1, <1>4, <2>5, <2>6, <3>1 DEF Tells
  <2>7. ToldFailed(q, 0) => ToldFailed(q, 0)'
    BY <2>2
  <2> QED
    BY <1>1, <2>1, <2>3, <2>4, <2>6, <2>7 DEF RequestOK
<1> QED
  BY <1>1, <1>2, <1>3, <1>5 DEF IInv

(* Whatever happens to the row, the invariant does not speak of it. *)
LEMMA SameCalls ==
  ASSUME IInv, UNCHANGED <<ledger, inFlight, made, call, effects, boots>>,
         target' \in [Requests -> {"open", "held", "closed"}]
  PROVE  IInv'
<1>1. UNCHANGED <<receipt, answer, forgotten>> /\ LedgerOK'
  BY SameLedger DEF ledger, IInv
<1>2. CallsOK'
  BY DEF IInv, CallsOK, Active, Of
<1>3. \A q \in Requests : RequestOK(q)'
  BY <1>1, Untouched DEF IInv
<1> QED
  BY <1>1, <1>2, <1>3 DEF IInv

LEMMA ElsewhereKeeps == ASSUME IInv, NEW r \in Requests, Elsewhere(r) PROVE IInv'
<1>1. /\ UNCHANGED <<ledger, inFlight, made, call, effects, boots>>
      /\ target' \in [Requests -> {"open", "held", "closed"}]
  BY DEF Elsewhere, IInv
<1> QED
  BY <1>1, SameCalls

-----------------------------------------------------------------------------
(* The invariant *)

LEMMA StutterKeeps == ASSUME IInv, UNCHANGED vars PROVE IInv'
<1>1. /\ UNCHANGED <<ledger, inFlight, made, call, effects, boots>>
      /\ target' \in [Requests -> {"open", "held", "closed"}]
  BY DEF vars, IInv
<1> QED
  BY <1>1, SameCalls

LEMMA InitHolds == ASSUME BoundsAssumption, KindAssumption, Init PROVE IInv
<1>1. LedgerOK
  <2>1. Present = {}
    BY DEF Init, Present
  <2> QED
    BY <2>1, FS_EmptySet DEF Init, LedgerOK, BoundsAssumption
<1>2. CallsOK
  BY DEF Init, CallsOK, CallType, NoCall, CallIds, BoundsAssumption, Active, Of
<1>3. ASSUME NEW r \in Requests PROVE RequestOK(r)
  <2>1. /\ effects[r] = 0 /\ receipt[r] = "absent" /\ inFlight[r] = 0
        /\ \A c \in CallIds : Of(c) # r
    BY DEF Init, NoCall, Of, KindAssumption
  <2>2. Kept(r) /\ Single(r) /\ Free(r)
    BY <2>1 DEF Kept, Single, Free
  <2>3. Tells(r)
    BY <2>1, <2>2 DEF Tells
  <2> QED
    BY <2>1, <2>2, <2>3 DEF RequestOK
<1> QED
  BY <1>1, <1>2, <1>3 DEF Init, IInv, BoundsAssumption

LEMMA NextKeeps ==
  ASSUME IInv, BoundsAssumption, KindAssumption, [Next]_vars
  PROVE  IInv'
<1>1. CASE UNCHANGED vars
  BY <1>1, StutterKeeps
<1>2. ASSUME NEW r \in Requests, Begin(r) \/ Elsewhere(r) PROVE IInv'
  BY <1>2, BeginKeeps, ElsewhereKeeps
<1>3. ASSUME NEW c \in CallIds,
             \/ Apply(c) \/ ApplyUnrecorded(c) \/ ApplyGuarded(c) \/ FindDone(c)
             \/ ApplyRelease(c) \/ Accept(c) \/ AcceptedAlready(c)
             \/ Fail(c) \/ Unknown(c) \/ Return(c)
      PROVE  IInv'
  <2>1. Active(c)
    BY <1>3 DEF Apply, ApplyUnrecorded, ApplyGuarded, FindDone, ApplyRelease, Accept,
                AcceptedAlready, Fail, Throws, Unknown, Return, Reached, Active
  <2>2. PICK r \in Requests : Of(c) = r
    BY <2>1 DEF IInv, CallsOK, NoCall, Active
  <2> QED
    BY <1>3, <2>2, ApplyKeeps, ApplyUnrecordedKeeps, ApplyGuardedKeeps, ApplyReleaseKeeps,
       AcceptKeeps, FailKeeps, UnknownKeeps, ReturnKeeps
<1>4. CASE Restart
  BY <1>4, RestartKeeps
<1> QED
  BY <1>1, <1>2, <1>3, <1>4 DEF Next

THEOREM ReceiptsInvariant == Spec => []IInv
<1>1. Init => IInv
  BY InitHolds, BoundsAssumption, KindAssumption
<1>2. IInv /\ [Next]_vars => IInv'
  BY NextKeeps, BoundsAssumption, KindAssumption
<1> QED
  BY <1>1, <1>2, PTL DEF Spec

-----------------------------------------------------------------------------
(* What it promises *)

(* The types, the limit of the ledger (ensureMutationReceiptCapacity), and  *)
(* that the executor's map and every joined call name a handler that runs.  *)
THEOREM ReceiptsTypeCorrect == Spec => []TypeOK
<1>1. IInv => TypeOK
  BY DEF IInv, LedgerOK, CallsOK, TypeOK, Active
<1> QED
  BY <1>1, ReceiptsInvariant, PTL

(* A start none of whose calls failed has had one effect at most. *)
LEMMA StartEffects ==
  ASSUME IInv, NEW r \in Requests, r \notin forgotten, Kind[r] = "start"
  PROVE  \/ \A n \in Nat : ToldFailed(r, n)
         \/ /\ effects[r] \in Nat /\ effects[r] <= 1
            /\ receipt[r] = "absent" => effects[r] = 0
<1>1. CASE ToldFailed(r, 0)
  BY <1>1 DEF ToldFailed
<1>2. CASE ~ToldFailed(r, 0)
  BY <1>2 DEF IInv, RequestOK, Kept
<1> QED
  BY <1>1, <1>2

(* OrchestrationMutationExecutor.run: until its completed receipt is pruned *)
(* the effect of a request happens once, for any number of repeated and     *)
(* concurrent calls and of restarts.  A dispatch, a stop, a federated reply *)
(* or a start is repeated only after the error that its handler threw later *)
(* than its commit (orchestration.ts:1704, worker-dispatch-outcome.ts:15)   *)
(* was told to the caller, once for every effect but the last.              *)
THEOREM ReceiptsEffectOnce == Spec => []EffectOnce
<1>1. ASSUME IInv PROVE EffectOnce
  <2> SUFFICES ASSUME NEW r \in Requests, r \notin forgotten
               PROVE  IF Kind[r] \in Guarded THEN \A n \in 1..(effects[r] - 1) : ToldFailed(r, n)
                      ELSE effects[r] <= 1
    BY DEF EffectOnce
  <2>1. CASE Kind[r] \in First
    BY <1>1, <2>1 DEF IInv, RequestOK, Tells
  <2>2. CASE Kind[r] = "release"
    BY <1>1, <2>2 DEF IInv, RequestOK, Kept, Guarded
  <2>3. CASE Kind[r] = "start"
    <3>1. CASE \A n \in Nat : ToldFailed(r, n)
      BY <2>3, <3>1 DEF Guarded
    <3>2. CASE effects[r] \in Nat /\ effects[r] <= 1
      BY <2>3, <3>2 DEF Guarded
    <3> QED
      BY <1>1, <2>3, <3>1, <3>2, StartEffects
  <2> QED
    BY <2>1, <2>2, <2>3, KindAssumption DEF KindAssumption, Kinds, First
<1> QED
  BY <1>1, ReceiptsInvariant, PTL

(* The executor's catch (orchestration-mutation-executor.ts:112): the       *)
(* receipt of an effect that is committed stays until it is pruned, unless  *)
(* the method looks at the row of its effect and its caller was told that   *)
(* this very effect failed.                                                 *)
THEOREM ReceiptsEffectRemembered == Spec => []EffectRemembered
<1>1. ASSUME IInv PROVE EffectRemembered
  <2> SUFFICES ASSUME NEW r \in Requests, r \notin forgotten,
                      effects[r] > 0, receipt[r] = "absent", Kind[r] # "release"
               PROVE  Kind[r] \in Guarded /\ ToldFailed(r, effects[r])
    BY DEF EffectRemembered
  <2>1. CASE Kind[r] \in First
    BY <1>1, <2>1 DEF IInv, RequestOK, Tells, Free
  <2>2. CASE Kind[r] = "start"
    <3>1. effects[r] \in Nat
      BY <1>1 DEF IInv
    <3>2. \A n \in Nat : ToldFailed(r, n)
      BY <1>1, <2>2, <3>1, StartEffects
    <3> QED
      BY <2>2, <3>1, <3>2 DEF Guarded
  <2> QED
    BY <2>1, <2>2, KindAssumption DEF KindAssumption, Kinds, First
<1> QED
  BY <1>1, ReceiptsInvariant, PTL

(* Joining and replaying: all callers of a request that are answered are    *)
(* given one answer, and it describes an effect that happened.  A start     *)
(* promises it until one of its calls fails.                                *)
THEOREM ReceiptsSameAnswer == Spec => []SameAnswer
<1>1. ASSUME IInv PROVE SameAnswer
  <2> SUFFICES ASSUME NEW b \in CallIds, NEW c \in CallIds, NEW r \in Requests,
                      Answered(b), Answered(c), Of(b) = r, Of(c) = r, r \notin forgotten,
                      Kind[r] = "start" => ~ToldFailed(r, 0)
               PROVE  call[b].effect = call[c].effect /\ (call[b].effect > 0 \/ Kind[r] = "settle")
    <3>1. \A b \in CallIds : Answered(b) => Of(b) \in Requests
      BY <1>1 DEF IInv, CallsOK, Answered, NoCall
    <3> QED
      BY <3>1 DEF SameAnswer
  <2>1. CASE Kind[r] \in First
    <3>1. Single(r) /\ Tells(r)
      BY <1>1, <2>1 DEF IInv, RequestOK
    <3> QED
      BY <3>1 DEF Single, Tells, Answered
  <2>2. CASE Kind[r] \in {"release", "start"}
    <3>1. Kept(r)
      BY <1>1, <2>2 DEF IInv, RequestOK
    <3> QED
      BY <3>1 DEF Kept, Answered
  <2> QED
    BY <2>1, <2>2, KindAssumption DEF KindAssumption, Kinds, First
<1> QED
  BY <1>1, ReceiptsInvariant, PTL

=============================================================================
