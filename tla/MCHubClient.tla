---------------------------- MODULE MCHubClient -----------------------------
(* HubClient on small instances. *)
EXTENDS HubClient

\* Bound: two messages in all besides the answers: calls, fire-and-forget
\* messages and broadcasts.
Bounded == issued + oneWays + broadcasts <= 2

MCNext == Next /\ Bounded'
MCSpec == Init /\ [][MCNext]_vars /\ Fairness
=============================================================================
