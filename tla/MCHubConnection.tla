--------------------------- MODULE MCHubConnection --------------------------
(* HubConnection on small instances. *)
EXTENDS HubConnection

\* Bound: the client sends one message, handlers leave no group themselves,
\* and a connection that has sent a fire-and-forget message is in no group and
\* is not disposed of by the application: it ends by itself or is lost.
Bounded ==
  /\ issued + oneWays <= 1
  /\ pc \notin {"leaving", "returned"} => \A g \in Groups : added[g] <= members[g]
  /\ oneWays = 1 =>
       /\ members = Server!NoGroups /\ \A t \in 0..MaxRequests : joining[t] = {}
       /\ \A d \in Disposers : dpc[d] = "idle"

MCNext == Next /\ Bounded'
MCSpec == Init /\ [][MCNext]_vars /\ Fairness
=============================================================================
