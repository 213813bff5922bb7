--------------------- MODULE ConcurrentDictionaryGroups ---------------------
(***************************************************************************)
(* HubGroups with ConcurrentDictionaryGroup: AddAsync and RemoveAsync take *)
(* no lock, and every access to the dictionary of members, to the counter  *)
(* and to the repository is a step of its own.                             *)
(***************************************************************************)
EXTENDS HubGroups, Integers

VARIABLE length   \* length[o]: approximatelyLength

vars == <<hubVars, length>>

TypeOK ==
  /\ HubTypeOK({"counting", "uncounting", "forgetting", "testing", "unregistering"})
  /\ length \in [Objects -> Int]

Init ==
  /\ HubInit
  /\ length = [o \in Objects |-> 0]

AddMemberAlwaysCounts(x) ==
  /\ pc[x] = "adding"
  /\ members' = [members EXCEPT ![grp[x]][x] = 1]
  /\ Goto(x, "counting")
  /\ UNCHANGED <<registered, created, storage, added, grp, withData, closing, todo, length>>

\* members.TryAdd(ContextId, context): false for a member.
AddMember(x) ==
  /\ pc[x] = "adding"
  /\ members' = [members EXCEPT ![grp[x]][x] = 1]
  /\ Goto(x, IF members[grp[x]][x] = 0 THEN "counting" ELSE "recording")
  /\ UNCHANGED <<registered, created, storage, added, grp, withData, closing, todo, length>>

CountMember(x) ==
  /\ pc[x] = "counting"
  /\ length' = [length EXCEPT ![grp[x]] = @ + 1]
  /\ Goto(x, "recording")
  /\ UNCHANGED <<registered, created, members, storage, added, grp, withData, closing, todo>>

\* members.TryRemove(ContextId)
RemoveMember(x) ==
  /\ pc[x] = "removing"
  /\ members' = [members EXCEPT ![grp[x]][x] = 0]
  /\ Goto(x, IF members[grp[x]][x] = 0 THEN "testing" ELSE "uncounting")
  /\ UNCHANGED <<registered, created, storage, added, grp, withData, closing, todo, length>>

UncountMember(x) ==
  /\ pc[x] = "uncounting"
  /\ length' = [length EXCEPT ![grp[x]] = @ - 1]
  /\ Goto(x, "forgetting")
  /\ UNCHANGED <<registered, created, members, storage, added, grp, withData, closing, todo>>

\* inmemoryStorage.Remove(ContextId)
ForgetData(x) ==
  /\ pc[x] = "forgetting"
  /\ storage' = [storage EXCEPT ![grp[x]] = @ \ {x}]
  /\ Goto(x, "testing")
  /\ UNCHANGED <<registered, created, members, added, grp, withData, closing, todo, length>>

\* members.Count == 0, which is tested whether or not x was a member.
TestEmpty(x) ==
  /\ pc[x] = "testing"
  /\ IF MembersOf(grp[x]) = {} THEN Goto(x, "unregistering") ELSE Removed(x)
  /\ UNCHANGED <<registered, created, members, storage, added, grp, withData, closing, todo, length>>

\* parent.TryRemove(GroupName), whichever object the name maps to.
Unregister(x) ==
  /\ pc[x] = "unregistering"
  /\ registered' = NoObject
  /\ Removed(x)
  /\ UNCHANGED <<created, members, storage, added, grp, withData, closing, todo, length>>

Next ==
  \E x \in Connections :
    \/ RepositoryStep(x) /\ UNCHANGED length
    \/ AddMember(x) \/ CountMember(x)
    \/ RemoveMember(x) \/ UncountMember(x) \/ ForgetData(x) \/ TestEmpty(x) \/ Unregister(x)
    \/ CheckLimit(x, length[grp[x]]) /\ UNCHANGED length

Spec == Init /\ [][Next]_vars
-----------------------------------------------------------------------------
\* approximatelyLength is the number of members, but for the connections that
\* are between the dictionary and the counter.
LengthAccurate ==
  \A o \in Objects :
    length[o] + Cardinality(At(o, "counting"))
      = Cardinality(MembersOf(o)) + Cardinality(At(o, "uncounting"))
=============================================================================
