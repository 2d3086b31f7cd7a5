---------------------------- MODULE DispatchLease ----------------------------
(***************************************************************************)
(* What the orchestration database promises about who works on a Task.     *)
(*                                                                         *)
(* A row of dispatch_contexts is a lease: it grants one Task to one        *)
(* terminal pane.  A lease is granted once, is exclusive for its Task and  *)
(* for its pane while it is open, and ends exactly once with an outcome    *)
(* that nothing changes afterwards.  DispatchLifecycle, the detailed       *)
(* model of the code, implements this specification.                       *)
(***************************************************************************)
EXTENDS Naturals

CONSTANTS Tasks,        \* task ids
          Panes,        \* stable pane identities of terminals
          MaxDispatch,  \* number of dispatch_contexts rows that may be created
          None          \* the null column

DispatchId == 1..MaxDispatch

VARIABLES leaseTask,   \* the Task a lease grants, None while the id is unused
          leasePane,   \* the pane it is bound to, None until one is attached
          leaseState   \* "unused", "open", or the outcome it ended with

leaseVars == <<leaseTask, leasePane, leaseState>>

Outcomes == {"completed", "failed"}

Open(d) == leaseState[d] = "open"

Init == /\ leaseTask  = [d \in DispatchId |-> None]
        /\ leasePane  = [d \in DispatchId |-> None]
        /\ leaseState = [d \in DispatchId |-> "unused"]

PaneFree(d, p) == \A e \in DispatchId \ {d} : Open(e) => leasePane[e] # p

(* A fresh id is granted the Task no open lease holds, with or without a pane. *)
Grant(d, t, p) ==
  /\ leaseState[d] = "unused"
  /\ \A e \in DispatchId : e < d => leaseState[e] # "unused"
  /\ \A e \in DispatchId : Open(e) => leaseTask[e] # t
  /\ p = None \/ PaneFree(d, p)
  /\ leaseTask'  = [leaseTask EXCEPT ![d] = t]
  /\ leasePane'  = [leasePane EXCEPT ![d] = p]
  /\ leaseState' = [leaseState EXCEPT ![d] = "open"]

(* A supervised start learns its terminal only after the lease is granted. *)
Attach(d, p) ==
  /\ Open(d)
  /\ leasePane[d] = None
  /\ PaneFree(d, p)
  /\ leasePane' = [leasePane EXCEPT ![d] = p]
  /\ UNCHANGED <<leaseTask, leaseState>>

End(d, outcome) ==
  /\ Open(d)
  /\ leaseState' = [leaseState EXCEPT ![d] = outcome]
  /\ UNCHANGED <<leaseTask, leasePane>>

Next == \E d \in DispatchId :
          \/ \E t \in Tasks, p \in Panes \cup {None} : Grant(d, t, p)
          \/ \E p \in Panes : Attach(d, p)
          \/ \E o \in Outcomes : End(d, o)

Spec == Init /\ [][Next]_leaseVars
=============================================================================
