------------------------ MODULE MCMutationReceipts ------------------------
(* MutationReceipts with one request of each kind.  Requests meet in the     *)
(* ledger only, so a behaviour calls two of them, any two, and the row of a  *)
(* request that was not called yet stands still.                             *)
EXTENDS MutationReceipts

KindOf ==
  [runCreate |-> "plain", groupSend |-> "early", workerRelease |-> "release",
   dispatchInject |-> "dispatch", workerStop |-> "settle", workerStart |-> "start"]
KindOfRequest == [r \in Requests |-> KindOf[r]]

Called == {Of(c) : c \in 1..made}
TwoAtATime ==
  /\ Cardinality(Called) <= 2
  /\ \A r \in Requests : target[r] # "open" => r \in Called

=============================================================================
