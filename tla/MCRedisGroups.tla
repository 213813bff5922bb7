--------------------------- MODULE MCRedisGroups ----------------------------
(* RedisSituations with one connection on the first server and two on the   *)
(* second.                                                                  *)
EXTENDS RedisSituations, TLC

CONSTANTS s1, s2, c1, c2, c3

MCServers == {s1, s2}
MCConnections == {c1, c2, c3}
MCHome == [x \in MCConnections |-> IF x = c1 THEN s1 ELSE s2]

\* Connections of the same server are alike.
SameServerSymmetry ==
  {p \in Permutations(Connections) : \A x \in Connections : Home[p[x]] = Home[x]}
=============================================================================
