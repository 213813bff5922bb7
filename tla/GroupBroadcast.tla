--------------------------- MODULE GroupBroadcast ---------------------------
(***************************************************************************)
(* What a broadcast to a group promises while connections join and leave:  *)
(* an addressed connection that is a member from the start of the call to  *)
(* its end gets the message exactly once, one that joins or leaves in      *)
(* between gets it at most once, and nobody else gets it.  The broadcasts  *)
(* of one sender reach every member in the order of the calls.             *)
(***************************************************************************)
EXTENDS Naturals, Sequences

CONSTANTS
  Connections,   \* connections of the hub
  Senders        \* threads that broadcast to the group

VARIABLES
  members,    \* the connections in the group
  sent,       \* sent[s]: broadcasts started by s
  to,         \* to[s]: whom the broadcast of s addresses
  must,       \* must[s]: members since its start that it still has to reach
  may,        \* may[s]: connections it can still reach
  received    \* received[x]: the broadcasts queued for x, as <<sender, number>>

vars == <<members, sent, to, must, may, received>>

Init ==
  /\ members = {}
  /\ sent = [s \in Senders |-> 0]
  /\ to = [s \in Senders |-> {}]
  /\ must = [s \in Senders |-> {}]
  /\ may = [s \in Senders |-> {}]
  /\ received = [x \in Connections |-> <<>>]

\* Whether a broadcast under way reaches a connection that joins or leaves is open.
Join(x) ==
  /\ x \notin members
  /\ members' = members \cup {x}
  /\ may' \in [Senders -> SUBSET Connections]
  /\ \A s \in Senders : may'[s] \in {may[s], may[s] \cup ({x} \cap to[s])}
  /\ UNCHANGED <<sent, to, must, received>>

Leave(x) ==
  /\ x \in members
  /\ members' = members \ {x}
  /\ must' = [s \in Senders |-> must[s] \ {x}]
  /\ may' \in [Senders -> SUBSET Connections]
  /\ \A s \in Senders : may'[s] \in {may[s], may[s] \ {x}}
  /\ UNCHANGED <<sent, to, received>>

Start(s, addressed) ==
  /\ must[s] = {} /\ may[s] = {}
  /\ sent' = [sent EXCEPT ![s] = @ + 1]
  /\ to' = [to EXCEPT ![s] = addressed]
  /\ must' = [must EXCEPT ![s] = addressed \cap members]
  /\ may' = [may EXCEPT ![s] = addressed \cap members]
  /\ UNCHANGED <<members, received>>

Write(s, x) ==
  /\ x \in may[s]
  /\ received' = [received EXCEPT ![x] = Append(@, <<s, sent[s]>>)]
  /\ must' = [must EXCEPT ![s] = @ \ {x}]
  /\ may' = [may EXCEPT ![s] = @ \ {x}]
  /\ UNCHANGED <<members, sent, to>>

Finish(s) ==
  /\ must[s] = {}
  /\ to' = [to EXCEPT ![s] = {}]
  /\ may' = [may EXCEPT ![s] = {}]
  /\ UNCHANGED <<members, sent, must, received>>

Next ==
  \/ \E x \in Connections : Join(x) \/ Leave(x)
  \/ \E s \in Senders :
       \/ \E addressed \in SUBSET Connections : Start(s, addressed)
       \/ \E x \in Connections : Write(s, x)
       \/ Finish(s)

Safety == Init /\ [][Next]_vars

\* A broadcast that has started reaches whom it must.
Spec == Safety /\ \A s \in Senders : WF_vars(\E x \in must[s] : Write(s, x))
=============================================================================
