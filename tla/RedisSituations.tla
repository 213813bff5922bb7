-------------------------- MODULE RedisSituations ---------------------------
(***************************************************************************)
(* RedisGroups in three situations: joins and leaves that interleave       *)
(* freely; one join or leave at a time, with messages, failing commands    *)
(* and crashes; the same with nobody leaving but at the end of its         *)
(* connection.                                                             *)
(***************************************************************************)
EXTENDS RedisGroups

VARIABLE situation

situationVars == <<vars, situation>>

OneAtATime == \A x, y \in Connections : x # y => {pc[x], pc[y]} \cap {"idle", "gone"} # {}

Allowed ==
  CASE situation = "interleaved" -> failures = 0 /\ published = <<>>
    [] situation = "serialized"  -> OneAtATime
    [] situation = "staying"     -> /\ OneAtATime /\ published = <<>>
                                    /\ \A x \in Connections : pc[x] = "removing" => closing[x]

SituationsInit == Init /\ situation \in {"interleaved", "serialized", "staying"}
SituationsNext == Next /\ UNCHANGED situation /\ Allowed'
SituationsSpec == SituationsInit /\ [][SituationsNext]_situationVars
-----------------------------------------------------------------------------
\* RedisGroup.AddAsync, RemoveAsync: while joins and leaves do not overlap,
\* and whatever fails, every joined connection is in an object that is
\* subscribed, and has got or will get every message that is for it.
SerializedDelivers ==
  situation = "serialized" => JoinedIsSubscribed /\ AudienceReceives

\* RedisGroup.RemoveAsync: when connections leave only by their end, the shared
\* counter counts every member, after failed commands and crashes too, so that
\* TryAddAsync lets nobody in on a count that is too low.
StayingIsCounted == situation = "staying" => CountsEveryMember
=============================================================================
