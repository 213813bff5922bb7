---------------------------- MODULE MCHubGroups -----------------------------
(* GroupFactories on small instances. *)
EXTENDS GroupFactories, TLC

ConnectionSymmetry == Permutations(Connections)
=============================================================================
