---------------------------- MODULE MCUnityChannels -------------------------
(* UnityChannels on small instances. *)
EXTENDS UnityChannels

CONSTANT c1

\* All hub clients connect by the first channel.
MCHome == [h \in Hubs |-> c1]
=============================================================================
