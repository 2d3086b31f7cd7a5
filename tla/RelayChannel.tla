---------------------------- MODULE RelayChannel ----------------------------
(***************************************************************************)
(* What the relay of one federated dispatch promises, whatever the network *)
(* does: the Run home receives every message the worker sent, each once    *)
(* and in order; the worker server forgets a message only after the Run    *)
(* home has it; and the worker server settles the dispatch only with the   *)
(* outcome the Run home has decided.                                       *)
(***************************************************************************)
EXTENDS Naturals, Sequences

CONSTANT Messages

VARIABLES sent,      \* messages accepted on the worker server, oldest first
          received,  \* the prefix of sent the Run home has
          released,  \* the prefix of sent the worker server no longer offers
          decided,   \* the outcome at the Run home: "open", "withdrawn" or an outcome
          adopted    \* the outcome on the worker server: "open" or an outcome

channelVars == <<sent, received, released, decided, adopted>>

Outcomes == {"succeeded", "failed"}

ChannelInit ==
  /\ sent = <<>> /\ received = <<>> /\ released = 0
  /\ decided = "open" /\ adopted = "open"

Send == \E m \in Messages :
  /\ sent' = Append(sent, m)
  /\ UNCHANGED <<received, released, decided, adopted>>

(* The next message arrives; a report may decide the outcome. *)
Receive ==
  /\ Len(received) < Len(sent)
  /\ received' = Append(received, sent[Len(received) + 1])
  /\ decided' \in IF decided = "open" THEN Outcomes \cup {"open"} ELSE {decided}
  /\ UNCHANGED <<sent, released, adopted>>

(* A report is delivered again after the dispatch became able to settle. *)
DecideLate ==
  /\ decided = "open"
  /\ decided' \in Outcomes
  /\ UNCHANGED <<sent, received, released, adopted>>

(* The Run home gives the worker up: a failed start, a stop, an abandonment. *)
Withdraw ==
  /\ decided = "open"
  /\ decided' = "withdrawn"
  /\ UNCHANGED <<sent, received, released, adopted>>

Release ==
  /\ \E n \in released .. Len(received) : released' = n
  /\ adopted' \in IF adopted = "open" /\ decided \in Outcomes
                  THEN {adopted, decided} ELSE {adopted}
  /\ UNCHANGED <<sent, received, decided>>

ChannelNext == Send \/ Receive \/ DecideLate \/ Withdraw \/ Release

ChannelSpec == ChannelInit /\ [][ChannelNext]_channelVars
==============================================================================
