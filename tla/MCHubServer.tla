---------------------------- MODULE MCHubServer -----------------------------
(* HubServer on small instances. *)
EXTENDS HubServer, TLC

GroupSymmetry == Permutations(Groups)
=============================================================================
