------------------------ MODULE DictionaryBroadcasts ------------------------
(***************************************************************************)
(* Broadcasts of ConcurrentDictionaryGroup, also as the in-memory part of  *)
(* a RedisGroup: the Write methods walk over the dictionary of members, or *)
(* look up the given ids in it, while connections join and leave.          *)
(*                                                                         *)
(* What the enumerator of ConcurrentDictionary gives: no key twice, every  *)
(* key that stays from the start to the end, perhaps keys that come or go; *)
(* and the entry it is at may be removed before it is used.                *)
(***************************************************************************)
EXTENDS Naturals, Sequences

CONSTANTS
  Connections,   \* connections of the hub
  Senders,       \* threads that broadcast to the group
  MaxSent,       \* bound: broadcasts of one sender
  Nobody         \* a value that is no connection

Walks   == {"WriteAll", "WriteExceptOne", "WriteExceptMany", "WriteExceptRaw"}
Lookups == {"WriteToOne", "WriteToMany", "WriteToRaw"}

VARIABLES
  members,    \* the keys of the dictionary
  method,     \* method[s]: the Write method s is in, or "none"
  ids,        \* ids[s]: its connectionIds
  ahead,      \* ahead[s]: keys that the enumerator or the loop over ids has not passed
  current,    \* current[s]: the member found and not yet written to, or Nobody
  since,      \* since[s]: the connections that are members since its start
  sent,       \* sent[s]: broadcasts started by s
  received    \* received[x]: the messages queued for the client of x

vars == <<members, method, ids, ahead, current, since, sent, received>>

TypeOK ==
  /\ members \subseteq Connections
  /\ method \in [Senders -> Walks \cup Lookups \cup {"none"}]
  /\ ids \in [Senders -> SUBSET Connections]
  /\ ahead \in [Senders -> SUBSET Connections]
  /\ current \in [Senders -> Connections \cup {Nobody}]
  /\ since \in [Senders -> SUBSET members]
  /\ \A s \in Senders : method[s] = "none" => current[s] = Nobody /\ ahead[s] = {}
  /\ sent \in [Senders -> 0..MaxSent]
  /\ received \in [Connections -> Seq(Senders \X (1..MaxSent))]

Init ==
  /\ members = {}
  /\ method = [s \in Senders |-> "none"]
  /\ ids = [s \in Senders |-> {}]
  /\ ahead = [s \in Senders |-> {}]
  /\ current = [s \in Senders |-> Nobody]
  /\ since = [s \in Senders |-> {}]
  /\ sent = [s \in Senders |-> 0]
  /\ received = [x \in Connections |-> <<>>]

\* The connectionIds a method is called with, each id once.
IdsOf(m) ==
  CASE m = "WriteAll" -> {{}}
    [] m \in {"WriteExceptOne", "WriteToOne"} -> {{x} : x \in Connections}
    [] OTHER -> SUBSET Connections

\* members.TryAdd
Join(x) ==
  /\ x \notin members
  /\ members' = members \cup {x}
  /\ UNCHANGED <<method, ids, ahead, current, since, sent, received>>

\* members.TryRemove
Leave(x) ==
  /\ x \in members
  /\ members' = members \ {x}
  /\ since' = [s \in Senders |-> since[s] \ {x}]
  /\ UNCHANGED <<method, ids, ahead, current, sent, received>>

Start(s, m, given) ==
  /\ method[s] = "none" /\ sent[s] < MaxSent
  /\ method' = [method EXCEPT ![s] = m]
  /\ ids' = [ids EXCEPT ![s] = given]
  /\ ahead' = [ahead EXCEPT ![s] = IF m \in Walks THEN Connections ELSE given]
  /\ since' = [since EXCEPT ![s] = members]
  /\ sent' = [sent EXCEPT ![s] = @ + 1]
  /\ UNCHANGED <<members, current, received>>

\* MoveNext of the enumerator, or members.TryGetValue of the next id, finds x.
Find(s, x) ==
  /\ current[s] = Nobody
  /\ x \in ahead[s] \cap members
  /\ current' = [current EXCEPT ![s] = x]
  /\ ahead' = [ahead EXCEPT ![s] = @ \ {x}]
  /\ UNCHANGED <<members, method, ids, since, sent, received>>

MissAndReturn(s, x) ==
  /\ current[s] = Nobody /\ method[s] \in Lookups
  /\ x \in ahead[s] \ members
  /\ ahead' = [ahead EXCEPT ![s] = {}]
  /\ UNCHANGED <<members, method, ids, current, since, sent, received>>

\* members.TryGetValue of the next id returns false.
Miss(s, x) ==
  /\ current[s] = Nobody /\ method[s] \in Lookups
  /\ x \in ahead[s] \ members
  /\ ahead' = [ahead EXCEPT ![s] = @ \ {x}]
  /\ UNCHANGED <<members, method, ids, current, since, sent, received>>

\* context.QueueResponseStreamWrite; the Except methods pass over the given ids.
Write(s) ==
  LET x == current[s] IN
  /\ x # Nobody
  /\ current' = [current EXCEPT ![s] = Nobody]
  /\ received' = IF method[s] \in Walks /\ x \in ids[s] THEN received
                 ELSE [received EXCEPT ![x] = Append(@, <<s, sent[s]>>)]
  /\ UNCHANGED <<members, method, ids, ahead, since, sent>>

\* The end of the enumeration or of the ids: the method returns.
Return(s) ==
  /\ method[s] # "none" /\ current[s] = Nobody
  /\ ahead[s] \cap (IF method[s] \in Walks THEN since[s] ELSE Connections) = {}
  /\ method' = [method EXCEPT ![s] = "none"]
  /\ ids' = [ids EXCEPT ![s] = {}]
  /\ ahead' = [ahead EXCEPT ![s] = {}]
  /\ since' = [since EXCEPT ![s] = {}]
  /\ UNCHANGED <<members, current, sent, received>>

SenderStep(s) == Write(s) \/ Return(s) \/ \E x \in Connections : Find(s, x) \/ Miss(s, x)

Next ==
  \/ \E x \in Connections : Join(x) \/ Leave(x)
  \/ \E s \in Senders :
       \/ \E m \in Walks \cup Lookups : \E given \in IdsOf(m) : Start(s, m, given)
       \/ SenderStep(s)

Fairness == \A s \in Senders : WF_vars(SenderStep(s))

Spec == Init /\ [][Next]_vars /\ Fairness
-----------------------------------------------------------------------------
\* Whom a method is meant for: all, all but the given, or the given.
Addressed(s) ==
  CASE method[s] \in Walks   -> Connections \ ids[s]
    [] method[s] \in Lookups -> ids[s]
    [] OTHER -> {}

\* Whom the broadcast of s still has to reach, and whom it can still reach.
Must(s) == Addressed(s) \cap since[s] \cap (ahead[s] \cup {current[s]})
May(s)  == Addressed(s) \cap ((ahead[s] \cap members) \cup {current[s]})
=============================================================================
