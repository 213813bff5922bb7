----------------------------- MODULE HubGroups ------------------------------
(***************************************************************************)
(* The groups of one name in a StreamingHub: the dictionary of the group   *)
(* repository, the IGroup objects it creates, and the HubGroupRepository   *)
(* of every connection.  What AddAsync and RemoveAsync of the group do is  *)
(* left to the modules that extend this one, one per implementation.       *)
(*                                                                         *)
(* The dictionary maps a name to a group object, and an object can live on *)
(* in the fields of a hub after the dictionary has dropped it.  Objects    *)
(* are numbered in the order of their creation; different names share      *)
(* nothing, so one name is enough.                                         *)
(***************************************************************************)
EXTENDS Naturals, FiniteSets

CONSTANTS
  Connections,   \* connections of the hub
  MaxObjects,    \* bound: group objects created
  MaxAdds,       \* bound: entries of one object in addedGroups of a connection
  Limit          \* incluciveLimitCount of TryAddAsync

ASSUME ConnectionsAssumption == IsFiniteSet(Connections)
ASSUME BoundsAssumption == MaxObjects \in Nat /\ MaxAdds \in Nat \ {0}
ASSUME LimitAssumption  == Limit \in Nat \ {0}

VARIABLES
  registered,   \* the dictionary of the repository: the object of the name, or 0
  created,      \* objects created so far
  members,      \* members[o][x]: how often connection x is in object o
  storage,      \* storage[o]: the connections with an entry in the in-memory storage
  added,        \* added[x][o]: how often o is in addedGroups of x
  pc,           \* pc[x]: what x is doing
  grp,          \* grp[x]: the object it is doing it to
  withData,     \* withData[x]: its AddAsync also stores data
  closing,      \* closing[x]: x runs DisposeAsync, its connection has ended
  todo          \* todo[x][o]: what is left of the enumeration in DisposeAsync

Objects  == 1..MaxObjects
NoObject == 0

hubVars == <<registered, created, members, storage, added, pc, grp, withData, closing, todo>>

None == [o \in Objects |-> 0]

HubTypeOK(steps) ==
  /\ registered \in 0..MaxObjects
  /\ created \in 0..MaxObjects
  /\ members \in [Objects -> [Connections -> Nat]]
  /\ storage \in [Objects -> SUBSET Connections]
  /\ added \in [Connections -> [Objects -> Nat]]
  /\ pc \in [Connections -> {"idle", "checking", "creating", "adding", "recording", "storing",
                             "removing", "disposing", "gone"} \cup steps]
  /\ grp \in [Connections -> 0..MaxObjects]
  /\ withData \in [Connections -> BOOLEAN]
  /\ closing \in [Connections -> BOOLEAN]
  /\ todo \in [Connections -> [Objects -> Nat]]

HubInit ==
  /\ registered = NoObject
  /\ created = 0
  /\ members = [o \in Objects |-> [x \in Connections |-> 0]]
  /\ storage = [o \in Objects |-> {}]
  /\ added = [x \in Connections |-> None]
  /\ pc = [x \in Connections |-> "idle"]
  /\ grp = [x \in Connections |-> NoObject]
  /\ withData = [x \in Connections |-> FALSE]
  /\ closing = [x \in Connections |-> FALSE]
  /\ todo = [x \in Connections |-> None]

MembersOf(o) == {x \in Connections : members[o][x] > 0}

Goto(x, label) == pc' = [pc EXCEPT ![x] = label]

\* RemoveAsync returns to the hub method or to DisposeAsync.
Removed(x) == Goto(x, IF closing[x] THEN "disposing" ELSE "idle")

Free(x) == pc[x] = "idle"
-----------------------------------------------------------------------------
\* repository.GetOrAdd(groupName): x holds the object, registered or new.
GetOrAdd(x) ==
  /\ Goto(x, "adding")
  /\ IF registered = NoObject
       THEN /\ created < MaxObjects
            /\ created' = created + 1
            /\ registered' = created + 1
            /\ grp' = [grp EXCEPT ![x] = created + 1]
       ELSE /\ grp' = [grp EXCEPT ![x] = registered]
            /\ UNCHANGED <<registered, created>>

\* Group.AddAsync(groupName), with or without data for the storage.
Add(x, data) ==
  /\ Free(x)
  /\ \A o \in Objects : added[x][o] < MaxAdds
  /\ GetOrAdd(x)
  /\ withData' = [withData EXCEPT ![x] = data]
  /\ UNCHANGED <<members, storage, added, closing, todo>>

\* Group.TryAddAsync(groupName, Limit, createIfEmpty: true): "require lock
\* but currently not locked".
TryAdd(x, data) ==
  /\ Free(x)
  /\ \A o \in Objects : added[x][o] < MaxAdds
  /\ IF registered = NoObject
       THEN Goto(x, "creating") /\ UNCHANGED grp
       ELSE Goto(x, "checking") /\ grp' = [grp EXCEPT ![x] = registered]
  /\ withData' = [withData EXCEPT ![x] = data]
  /\ UNCHANGED <<registered, created, members, storage, added, closing, todo>>

CreateIfEmpty(x) ==
  /\ pc[x] = "creating"
  /\ GetOrAdd(x)
  /\ UNCHANGED <<members, storage, added, withData, closing, todo>>

CheckLimitExclusive(x, count) ==
  /\ pc[x] = "checking"
  /\ Goto(x, IF count > Limit THEN "idle" ELSE "adding")
  /\ UNCHANGED <<registered, created, members, storage, added, grp, withData, closing, todo>>

\* count is what GetMemberCountAsync of the object returns.
CheckLimit(x, count) ==
  /\ pc[x] = "checking"
  /\ Goto(x, IF count >= Limit THEN "idle" ELSE "adding")
  /\ UNCHANGED <<registered, created, members, storage, added, grp, withData, closing, todo>>

RecordOnce(x) ==
  /\ pc[x] = "recording"
  /\ added' = [added EXCEPT ![x][grp[x]] = 1]
  /\ Goto(x, IF withData[x] THEN "storing" ELSE "idle")
  /\ UNCHANGED <<registered, created, members, storage, grp, withData, closing, todo>>

\* addedGroups.Add(group)
Record(x) ==
  /\ pc[x] = "recording"
  /\ added' = [added EXCEPT ![x][grp[x]] = @ + 1]
  /\ Goto(x, IF withData[x] THEN "storing" ELSE "idle")
  /\ UNCHANGED <<registered, created, members, storage, grp, withData, closing, todo>>

\* group.GetInMemoryStorage<TStorage>().Set(ContextId, data)
SetStorage(x) ==
  /\ pc[x] = "storing"
  /\ storage' = [storage EXCEPT ![grp[x]] = @ \cup {x}]
  /\ Goto(x, "idle")
  /\ UNCHANGED <<registered, created, members, added, grp, withData, closing, todo>>

\* A hub method calls RemoveAsync on a group it joined; addedGroups keeps it.
Leave(x, o) ==
  /\ Free(x)
  /\ added[x][o] > 0
  /\ members[o][x] > 0
  /\ Goto(x, "removing")
  /\ grp' = [grp EXCEPT ![x] = o]
  /\ UNCHANGED <<registered, created, members, storage, added, withData, closing, todo>>

\* HubGroupRepository.DisposeAsync when the connection ends.
StartDispose(x) ==
  /\ Free(x)
  /\ closing' = [closing EXCEPT ![x] = TRUE]
  /\ todo' = [todo EXCEPT ![x] = added[x]]
  /\ Goto(x, "disposing")
  /\ UNCHANGED <<registered, created, members, storage, added, grp, withData>>

DisposeNext(x, o) ==
  /\ pc[x] = "disposing"
  /\ todo[x][o] > 0
  /\ todo' = [todo EXCEPT ![x][o] = @ - 1]
  /\ grp' = [grp EXCEPT ![x] = o]
  /\ Goto(x, "removing")
  /\ UNCHANGED <<registered, created, members, storage, added, withData, closing>>

FinishDispose(x) ==
  /\ pc[x] = "disposing"
  /\ todo[x] = None
  /\ Goto(x, "gone")
  /\ UNCHANGED <<registered, created, members, storage, added, grp, withData, closing, todo>>
-----------------------------------------------------------------------------
\* What connections do with their HubGroupRepository.
RepositoryStep(x) ==
  \/ \E data \in BOOLEAN : Add(x, data) \/ TryAdd(x, data)
  \/ CreateIfEmpty(x) \/ Record(x) \/ SetStorage(x)
  \/ StartDispose(x) \/ FinishDispose(x)
  \/ \E o \in Objects : Leave(x, o) \/ DisposeNext(x, o)
-----------------------------------------------------------------------------
(***************************************************************************)
(* Properties that are the same for every implementation of IGroup.        *)
(***************************************************************************)

\* "if disconnected, automatically leaved from group": an ended connection is
\* in no group object, registered or not.
GoneIsNoMember ==
  \A x \in Connections : pc[x] = "gone" => \A o \in Objects : members[o][x] = 0

At(o, label) == {x \in Connections : grp[x] = o /\ pc[x] = label}

\* A connection that has data in the in-memory storage of a group is a member
\* of it, or a RemoveAsync that takes more than one step (that of
\* ConcurrentDictionaryGroup) is about to remove the data.
StorageOfMembers ==
  \A o \in Objects :
    storage[o] \subseteq MembersOf(o) \cup At(o, "uncounting") \cup At(o, "forgetting")

\* An object without members is not left in the dictionary of the repository:
\* somebody is on the way in, or on the way out and will unregister the name.
EmptyIsUnregistered ==
  \A o \in Objects :
    registered = o /\ MembersOf(o) = {}
      => \E x \in Connections :
           /\ grp[x] = o
           /\ pc[x] \in {"checking", "adding", "uncounting", "forgetting",
                         "testing", "unregistering"}

\* Connections that joined the same name, and have returned from AddAsync, are
\* in the object the next one will get: a broadcast of one reaches the others.
JoinedIsRegistered ==
  \A x \in Connections, o \in Objects :
    pc[x] = "idle" /\ members[o][x] > 0 => registered = o
=============================================================================
