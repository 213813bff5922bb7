---------------------------- MODULE RedisGroups -----------------------------
(***************************************************************************)
(* One group name with RedisGroup: every server process has its own        *)
(* dictionary of group objects and its own in-memory members, all servers  *)
(* share one Redis counter and one Redis channel.  A step is the code       *)
(* between two awaits of a Redis command, so that connections of the same  *)
(* and of different servers interleave at every command; a command may     *)
(* fail, before or after Redis has executed it, and a server may crash.    *)
(*                                                                         *)
(* The in-memory part of RedisGroup is a ConcurrentDictionaryGroup, whose  *)
(* own steps are in ConcurrentDictionaryGroups; here its AddAsync and the  *)
(* delivery of a message to its members are one step each.  Objects are    *)
(* numbered per server, and one group name is enough: names share nothing. *)
(* A counter key that does not exist reads as 0.                           *)
(***************************************************************************)
EXTENDS Integers, Sequences, FiniteSets, SequencesExt

CONSTANTS
  Servers,       \* server processes
  Connections,   \* connections of the hub, on any server
  Home,          \* Home[x]: the server of connection x
  MaxObjects,    \* bound: RedisGroup objects created per server
  MaxAdds,       \* bound: entries in addedGroups of a connection
  MaxMessages,   \* bound: messages published
  Limit,         \* incluciveLimitCount of TryAddAsync
  MaxFailures    \* bound: failed Redis commands and crashed servers

ASSUME ConnectionsAssumption == IsFiniteSet(Connections)
ASSUME HomeAssumption == Home \in [Connections -> Servers]
ASSUME BoundsAssumption == {MaxObjects, MaxAdds, MaxMessages, MaxFailures} \subseteq Nat
ASSUME LimitAssumption == Limit \in Nat \ {0}

VARIABLES
  counter,      \* the integer at counterKey
  registered,   \* registered[s]: the object in the dictionary of server s, or 0
  created,      \* created[s]: objects created by server s
  subscribed,   \* subscribed[s]: objects of s whose queue is subscribed
  backlog,      \* backlog[s][o]: messages in the ChannelMessageQueue of object o
  inGroup,      \* inGroup[x]: objects of Home[x] with x in their in-memory group
  added,        \* added[x][o]: how often o is in addedGroups of x
  pc,           \* pc[x]: what x is doing
  grp,          \* grp[x]: the object it is doing it to
  closing,      \* closing[x]: x runs DisposeAsync, its connection has ended
  todo,         \* todo[x][o]: what is left of the enumeration in DisposeAsync
  published,    \* messages published so far
  received,     \* received[x]: the messages queued for the client of x
  failures      \* failed commands and crashes so far

groupVars == <<registered, created, subscribed, inGroup>>
connVars  == <<added, grp, closing, todo>>
msgVars   == <<backlog, published, received>>
vars == <<counter, groupVars, connVars, pc, msgVars, failures>>

Objects  == 1..MaxObjects
NoObject == 0
None == [o \in Objects |-> 0]

TypeOK ==
  /\ counter \in Int
  /\ registered \in [Servers -> 0..MaxObjects]
  /\ created \in [Servers -> 0..MaxObjects]
  /\ subscribed \in [Servers -> SUBSET Objects]
  /\ \A s \in Servers, o \in Objects : subscribed[s] \subseteq 1..created[s]
  /\ backlog \in [Servers -> [Objects -> Seq(1..MaxMessages)]]
  /\ inGroup \in [Connections -> SUBSET Objects]
  /\ added \in [Connections -> [Objects -> Nat]]
  /\ pc \in [Connections -> {"idle", "creating", "registering", "checking", "incrementing",
                             "adding", "recording", "removing", "testing", "unregistering",
                             "decrementing", "decrementingLast", "deleting", "unsubscribing",
                             "disposing", "gone"}]
  /\ grp \in [Connections -> 0..MaxObjects]
  /\ closing \in [Connections -> BOOLEAN]
  /\ todo \in [Connections -> [Objects -> Nat]]
  /\ published \in Seq([to : SUBSET Connections, audience : SUBSET Connections])
  /\ received \in [Connections -> Seq(1..MaxMessages)]
  /\ failures \in 0..MaxFailures

Init ==
  /\ counter = 0
  /\ registered = [s \in Servers |-> NoObject]
  /\ created = [s \in Servers |-> 0]
  /\ subscribed = [s \in Servers |-> {}]
  /\ backlog = [s \in Servers |-> [o \in Objects |-> <<>>]]
  /\ inGroup = [x \in Connections |-> {}]
  /\ added = [x \in Connections |-> None]
  /\ pc = [x \in Connections |-> "idle"]
  /\ grp = [x \in Connections |-> NoObject]
  /\ closing = [x \in Connections |-> FALSE]
  /\ todo = [x \in Connections |-> None]
  /\ published = <<>>
  /\ received = [x \in Connections |-> <<>>]
  /\ failures = 0

\* The entries of addedGroups, numbered, and how many there are.
Entries(bag) == UNION {{o} \X (1..bag[o]) : o \in Objects}
Total(bag) == Cardinality(Entries(bag))

Goto(x, label) == pc' = [pc EXCEPT ![x] = label]

\* RemoveAsync returns to the hub method or to DisposeAsync.
Removed(x) == Goto(x, IF closing[x] THEN "disposing" ELSE "idle")

Free(x) == pc[x] = "idle"
-----------------------------------------------------------------------------
(***************************************************************************)
(* Joining.                                                                *)
(***************************************************************************)

\* Group.AddAsync(groupName).  AddAsync with data does the same and throws
\* after the last step: GetInMemoryStorage of a RedisGroup is not supported.
Add(x) ==
  /\ Free(x)
  /\ Total(added[x]) < MaxAdds
  /\ LET o == registered[Home[x]] IN
       IF o = NoObject
         THEN Goto(x, "creating") /\ UNCHANGED grp
         ELSE Goto(x, "incrementing") /\ grp' = [grp EXCEPT ![x] = o]
  /\ UNCHANGED <<counter, groupVars, added, closing, todo, msgVars>>

\* Group.TryAddAsync(groupName, Limit, createIfEmpty: true)
TryAdd(x) ==
  /\ Free(x)
  /\ Total(added[x]) < MaxAdds
  /\ LET o == registered[Home[x]] IN
       IF o = NoObject
         THEN Goto(x, "creating") /\ UNCHANGED grp
         ELSE Goto(x, "checking") /\ grp' = [grp EXCEPT ![x] = o]
  /\ UNCHANGED <<counter, groupVars, added, closing, todo, msgVars>>

\* GetMemberCountAsync
CheckLimit(x) ==
  /\ pc[x] = "checking"
  /\ Goto(x, IF counter >= Limit THEN "idle" ELSE "incrementing")
  /\ UNCHANGED <<counter, groupVars, connVars, msgVars>>

\* The factory of dictionary.GetOrAdd, which runs without a lock: the
\* constructor of RedisGroup subscribes to the channel.
CreateGroup(x) ==
  LET s == Home[x]
      o == created[s] + 1
  IN  /\ pc[x] = "creating"
      /\ created[s] < MaxObjects
      /\ created' = [created EXCEPT ![s] = o]
      /\ subscribed' = [subscribed EXCEPT ![s] = @ \cup {o}]
      /\ grp' = [grp EXCEPT ![x] = o]
      /\ Goto(x, "registering")
      /\ UNCHANGED <<counter, registered, inGroup, added, closing, todo, msgVars>>

\* The rest of GetOrAdd: the object of the thread that was first is used.
RegisterGroup(x) ==
  LET s == Home[x] IN
  /\ pc[x] = "registering"
  /\ IF registered[s] = NoObject
       THEN registered' = [registered EXCEPT ![s] = grp[x]] /\ UNCHANGED grp
       ELSE grp' = [grp EXCEPT ![x] = registered[s]] /\ UNCHANGED registered
  /\ Goto(x, "incrementing")
  /\ UNCHANGED <<counter, created, subscribed, inGroup, added, closing, todo, msgVars>>

\* StringIncrementAsync
Increment(x) ==
  /\ pc[x] = "incrementing"
  /\ counter' = counter + 1
  /\ Goto(x, "adding")
  /\ UNCHANGED <<groupVars, connVars, msgVars>>

\* inmemoryGroup.AddAsync
AddMember(x) ==
  /\ pc[x] = "adding"
  /\ inGroup' = [inGroup EXCEPT ![x] = @ \cup {grp[x]}]
  /\ Goto(x, "recording")
  /\ UNCHANGED <<counter, registered, created, subscribed, connVars, msgVars>>

\* addedGroups.Add(group)
Record(x) ==
  /\ pc[x] = "recording"
  /\ added' = [added EXCEPT ![x][grp[x]] = @ + 1]
  /\ Goto(x, "idle")
  /\ UNCHANGED <<counter, groupVars, grp, closing, todo, msgVars>>
-----------------------------------------------------------------------------
(***************************************************************************)
(* Leaving.                                                                *)
(***************************************************************************)

\* A hub method calls RemoveAsync on a group it joined; addedGroups keeps it.
Leave(x, o) ==
  /\ Free(x)
  /\ added[x][o] > 0 /\ o \in inGroup[x]
  /\ grp' = [grp EXCEPT ![x] = o]
  /\ Goto(x, "removing")
  /\ UNCHANGED <<counter, groupVars, added, closing, todo, msgVars>>

\* HubGroupRepository.DisposeAsync when the connection ends.
StartDispose(x) ==
  /\ Free(x)
  /\ closing' = [closing EXCEPT ![x] = TRUE]
  /\ todo' = [todo EXCEPT ![x] = added[x]]
  /\ Goto(x, "disposing")
  /\ UNCHANGED <<counter, groupVars, added, grp, msgVars>>

DisposeNext(x, o) ==
  /\ pc[x] = "disposing"
  /\ todo[x][o] > 0
  /\ todo' = [todo EXCEPT ![x][o] = @ - 1]
  /\ grp' = [grp EXCEPT ![x] = o]
  /\ Goto(x, "removing")
  /\ UNCHANGED <<counter, groupVars, added, closing, msgVars>>

FinishDisposeEarly(x) ==
  /\ pc[x] = "disposing"
  /\ Goto(x, "gone")
  /\ UNCHANGED <<counter, groupVars, connVars, msgVars>>

FinishDispose(x) ==
  /\ pc[x] = "disposing"
  /\ todo[x] = None
  /\ Goto(x, "gone")
  /\ UNCHANGED <<counter, groupVars, connVars, msgVars>>

\* members.TryRemove in RemoveAsync of the in-memory group.
RemoveMember(x) ==
  /\ pc[x] = "removing"
  /\ inGroup' = [inGroup EXCEPT ![x] = @ \ {grp[x]}]
  /\ Goto(x, "testing")
  /\ UNCHANGED <<counter, registered, created, subscribed, connVars, msgVars>>

MembersOf(s, o) == {x \in Connections : Home[x] = s /\ o \in inGroup[x]}

\* members.Count == 0
TestEmpty(x) ==
  /\ pc[x] = "testing"
  /\ Goto(x, IF MembersOf(Home[x], grp[x]) = {} THEN "unregistering" ELSE "decrementing")
  /\ UNCHANGED <<counter, groupVars, connVars, msgVars>>

\* parent.TryRemove(GroupName), whichever object the name maps to; its result
\* is the result of RemoveAsync of the in-memory group.
Unregister(x) ==
  /\ pc[x] = "unregistering"
  /\ registered' = [registered EXCEPT ![Home[x]] = NoObject]
  /\ Goto(x, IF registered[Home[x]] = NoObject THEN "decrementing" ELSE "decrementingLast")
  /\ UNCHANGED <<counter, created, subscribed, inGroup, connVars, msgVars>>

DecrementOnlyLast(x) ==
  /\ \/ pc[x] = "decrementing" /\ Removed(x) /\ UNCHANGED counter
     \/ /\ pc[x] = "decrementingLast"
        /\ counter' = counter - 1
        /\ Goto(x, IF counter' = 0 THEN "deleting" ELSE "unsubscribing")
  /\ UNCHANGED <<groupVars, connVars, msgVars>>

DecrementAndDelete(x) ==
  /\ counter' = counter - 1
  /\ \/ pc[x] = "decrementing" /\ Removed(x)
     \/ pc[x] = "decrementingLast" /\ Goto(x, "deleting")
  /\ UNCHANGED <<groupVars, connVars, msgVars>>

\* StringDecrementAsync, also for a connection that was no member any more.
Decrement(x) ==
  /\ counter' = counter - 1
  /\ \/ pc[x] = "decrementing" /\ Removed(x)
     \/ /\ pc[x] = "decrementingLast"
        /\ Goto(x, IF counter' = 0 THEN "deleting" ELSE "unsubscribing")
  /\ UNCHANGED <<groupVars, connVars, msgVars>>

\* KeyDeleteAsync
DeleteKey(x) ==
  /\ pc[x] = "deleting"
  /\ counter' = 0
  /\ Goto(x, "unsubscribing")
  /\ UNCHANGED <<groupVars, connVars, msgVars>>

\* mq.UnsubscribeAsync
Unsubscribe(x) ==
  /\ pc[x] = "unsubscribing"
  /\ subscribed' = [subscribed EXCEPT ![Home[x]] = @ \ {grp[x]}]
  /\ backlog' = [backlog EXCEPT ![Home[x]][grp[x]] = <<>>]
  /\ Removed(x)
  /\ UNCHANGED <<counter, registered, created, inGroup, connVars, published, received>>
-----------------------------------------------------------------------------
(***************************************************************************)
(* Broadcasting.                                                           *)
(***************************************************************************)

\* Members whose AddAsync has returned and who have not begun to leave.
Joined == {x \in Connections : pc[x] = "idle" /\ inGroup[x] # {}}

PublishLocally(x, except, ids) ==
  LET to == IF except THEN Connections \ ids ELSE ids
      id == Len(published) + 1
  IN  /\ pc[x] = "idle" /\ added[x] # None
      /\ Len(published) < MaxMessages
      /\ published' = Append(published, [to |-> to, audience |-> Joined \cap to])
      /\ backlog' = [backlog EXCEPT ![Home[x]] = [o \in Objects |->
                       IF o \in subscribed[Home[x]] THEN Append(@[o], id) ELSE @[o]]]
      /\ UNCHANGED <<counter, groupVars, connVars, pc, received>>

\* WriteAllAsync, WriteExceptAsync (except) and WriteToAsync publish to the
\* channel; Redis hands the message to every subscribed queue.
Publish(x, except, ids) ==
  LET to == IF except THEN Connections \ ids ELSE ids
      id == Len(published) + 1
  IN  /\ pc[x] = "idle" /\ added[x] # None
      /\ Len(published) < MaxMessages
      /\ published' = Append(published, [to |-> to, audience |-> Joined \cap to])
      /\ backlog' = [s \in Servers |-> [o \in Objects |->
                       IF o \in subscribed[s] THEN Append(backlog[s][o], id) ELSE backlog[s][o]]]
      /\ UNCHANGED <<counter, groupVars, connVars, pc, received>>

\* mq.OnMessage: PublishFromRedisToMemoryGroup writes to the addressed members
\* of the in-memory group, one message of the queue at a time.
Deliver(s, o) ==
  /\ backlog[s][o] # <<>>
  /\ LET id == Head(backlog[s][o]) IN
       received' = [x \in Connections |->
                      IF x \in MembersOf(s, o) \cap published[id].to
                        THEN Append(received[x], id) ELSE received[x]]
  /\ backlog' = [backlog EXCEPT ![s][o] = Tail(@)]
  /\ UNCHANGED <<counter, groupVars, connVars, pc, published>>
-----------------------------------------------------------------------------
(***************************************************************************)
(* Failures.                                                               *)
(***************************************************************************)

Executed(x) ==
  CASE pc[x] = "incrementing" -> counter + 1
    [] pc[x] \in {"decrementing", "decrementingLast"} -> counter - 1
    [] pc[x] = "deleting" -> 0
    [] OTHER -> counter

\* A Redis command throws, executed or not.  Its exception leaves AddAsync or
\* RemoveAsync, and the loop of DisposeAsync when the connection has ended.
CommandFails(x) ==
  /\ failures < MaxFailures
  /\ failures' = failures + 1
  /\ pc[x] \in {"creating", "checking", "incrementing", "decrementing", "decrementingLast",
                "deleting", "unsubscribing"}
  /\ counter' \in {counter, Executed(x)}
  /\ \/ UNCHANGED subscribed
     \/ /\ pc[x] = "unsubscribing"
        /\ subscribed' = [subscribed EXCEPT ![Home[x]] = @ \ {grp[x]}]
  /\ Goto(x, IF closing[x] THEN "gone" ELSE "idle")
  /\ UNCHANGED <<registered, created, inGroup, connVars, msgVars>>

\* The process ends: what it kept in memory and its subscriptions are lost.
Crash(s) ==
  LET lost == {x \in Connections : Home[x] = s} IN
  /\ failures < MaxFailures
  /\ failures' = failures + 1
  /\ \E x \in lost : pc[x] # "gone"
  /\ registered' = [registered EXCEPT ![s] = NoObject]
  /\ subscribed' = [subscribed EXCEPT ![s] = {}]
  /\ backlog' = [backlog EXCEPT ![s] = [o \in Objects |-> <<>>]]
  /\ inGroup' = [x \in Connections |-> IF x \in lost THEN {} ELSE inGroup[x]]
  /\ pc' = [x \in Connections |-> IF x \in lost THEN "gone" ELSE pc[x]]
  /\ UNCHANGED <<counter, created, connVars, published, received>>
-----------------------------------------------------------------------------
Joining(x) == Add(x) \/ TryAdd(x) \/ CheckLimit(x) \/ CreateGroup(x) \/ RegisterGroup(x)
             \/ Increment(x) \/ AddMember(x) \/ Record(x)

Removing(x) == RemoveMember(x) \/ TestEmpty(x) \/ Unregister(x) \/ Decrement(x)
               \/ DeleteKey(x) \/ Unsubscribe(x)

Disposing(x) == StartDispose(x) \/ FinishDispose(x) \/ \E o \in Objects : DisposeNext(x, o)

ConnectionStep(x) ==
  \/ Joining(x) \/ Removing(x) \/ Disposing(x)
  \/ \E o \in Objects : Leave(x, o)
  \/ \E except \in BOOLEAN, ids \in SUBSET Connections : Publish(x, except, ids)

Next ==
  \/ \E x \in Connections : ConnectionStep(x) /\ UNCHANGED failures
  \/ \E s \in Servers, o \in Objects : Deliver(s, o) /\ UNCHANGED failures
  \/ \E x \in Connections : CommandFails(x)
  \/ \E s \in Servers : Crash(s)

Spec == Init /\ [][Next]_vars
-----------------------------------------------------------------------------
\* "if disconnected, automatically leaved from group": an ended connection is
\* in no in-memory group.  An exception of a Redis command leaves the loop of
\* DisposeAsync before all groups are left, so this is promised only until the
\* first failure.
GoneIsNoMember ==
  failures = 0 => \A x \in Connections : pc[x] = "gone" => inGroup[x] = {}

\* x is past an increment that it has no entry for yet, or has taken an entry
\* and not decremented the counter yet.
Underway(x) ==
  pc[x] \in IF closing[x] THEN {"removing", "testing", "unregistering",
                               "decrementing", "decrementingLast"}
                         ELSE {"adding", "recording"}

\* The decrements that x will still do when it ends, one for every element.
Owed(x) ==
  Entries(IF closing[x] THEN todo[x] ELSE added[x])
    \cup (IF Underway(x) THEN {<<NoObject, 0>>} ELSE {})

Decrements == UNION {{x} \X Owed(x) : x \in Connections}

\* The shared counter never counts more than what the connections will take
\* back when they end, so connections that are gone do not fill the group, as
\* long as no decrement is lost to a failure.
NeverOvercounts == failures = 0 => counter <= Cardinality(Decrements)

\* The counter counts every member: TryAddAsync on a server that has the group
\* does not let in more than it should.
CountsEveryMember == Cardinality({x \in Connections : inGroup[x] # {}}) <= counter

\* A joined connection is in an object that gets the messages of the channel.
JoinedIsSubscribed ==
  \A x \in Joined : inGroup[x] \subseteq subscribed[Home[x]]

\* A connection that was joined when a message for it was published, and still
\* is, has received the message or its object still has to deliver it.  For
\* connections that join at most once (MaxAdds = 1).
AudienceReceives ==
  \A id \in 1..Len(published) : \A x \in published[id].audience \cap Joined :
    \/ id \in ToSet(received[x])
    \/ \E o \in inGroup[x] : id \in ToSet(backlog[Home[x]][o])
=============================================================================
