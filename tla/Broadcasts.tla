----------------------------- MODULE Broadcasts -----------------------------
(***************************************************************************)
(* Broadcasts to an in-memory group of either kind: every behaviour is one *)
(* of ArrayBroadcasts or of DictionaryBroadcasts.                          *)
(***************************************************************************)
EXTENDS Naturals, Sequences

CONSTANTS
  Receivers,   \* connections of the hub
  Senders,     \* threads that broadcast to the group
  Methods,     \* the Write methods that are called on an ImmutableArrayGroup
  MaxSent,     \* bound: broadcasts of one sender
  Nobody       \* a value that is no connection

ASSUME NobodyAssumption == Nobody \notin Receivers
ASSUME BoundAssumption  == MaxSent \in Nat

VARIABLES
  kind,             \* of the group: "array" or "dictionary"
  array, keys,      \* the members of an ImmutableArrayGroup, of a ConcurrentDictionaryGroup
  source, index, left,     \* see ArrayBroadcasts
  ahead, current, since,   \* see DictionaryBroadcasts
  method, ids,      \* method[s], ids[s]: the Write method s is in and its connectionIds
  sent, received    \* broadcasts started by a sender; messages queued for a connection

ArrayGroup      == INSTANCE ArrayBroadcasts WITH Connections <- Receivers, members <- array
DictionaryGroup == INSTANCE DictionaryBroadcasts WITH Connections <- Receivers, members <- keys

ASSUME MethodsAssumption == Methods \subseteq ArrayGroup!AllMethods

arrayVars      == <<array, source, index, left>>
dictionaryVars == <<keys, ahead, current, since>>
broadcastsVars == <<kind, arrayVars, dictionaryVars, method, ids, sent, received>>

BroadcastsInit ==
  /\ kind \in {"array", "dictionary"}
  /\ ArrayGroup!Init
  /\ DictionaryGroup!Init

\* A sender goes on with its Write method.
Broadcasting(s) ==
  /\ \/ /\ kind = "array"
        /\ ArrayGroup!WriteNext(s) \/ ArrayGroup!Return(s)
        /\ UNCHANGED dictionaryVars
     \/ /\ kind = "dictionary"
        /\ DictionaryGroup!SenderStep(s)
        /\ UNCHANGED arrayVars
  /\ UNCHANGED kind

BroadcastsNext ==
  /\ \/ kind = "array" /\ ArrayGroup!Next /\ UNCHANGED dictionaryVars
     \/ kind = "dictionary" /\ DictionaryGroup!Next /\ UNCHANGED arrayVars
  /\ UNCHANGED kind

BroadcastsSafety == BroadcastsInit /\ [][BroadcastsNext]_broadcastsVars
BroadcastsSpec   == BroadcastsSafety /\ \A s \in Senders : WF_broadcastsVars(Broadcasting(s))
-----------------------------------------------------------------------------
Of(ofArray, ofDictionary) == IF kind = "array" THEN ofArray ELSE ofDictionary

Group == Of(ArrayGroup!Members, keys)
To    == [s \in Senders |-> Of(ArrayGroup!Addressed(s), DictionaryGroup!Addressed(s))]
Must  == [s \in Senders |-> Of(ArrayGroup!Must(s), DictionaryGroup!Must(s))]
May   == [s \in Senders |-> Of(ArrayGroup!May(s), DictionaryGroup!May(s))]

Promise == INSTANCE GroupBroadcast
  WITH Connections <- Receivers, members <- Group, to <- To, must <- Must, may <- May

\* ImmutableArrayGroup and ConcurrentDictionaryGroup, the Write methods in
\* Methods, connections that are members once at most: a member that stays
\* gets every message that is for it exactly once and in the order of the
\* calls, nobody else gets it, although the members change while
\* the method walks over them.
BroadcastPromise == Promise!Spec
=============================================================================
