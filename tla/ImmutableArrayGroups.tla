------------------------ MODULE ImmutableArrayGroups ------------------------
(***************************************************************************)
(* HubGroups with ImmutableArrayGroup: AddAsync and RemoveAsync run under  *)
(* the lock of the group object.  The array can hold a connection more     *)
(* than once.                                                              *)
(***************************************************************************)
EXTENDS HubGroups

TypeOK == HubTypeOK({})

\* members = members.Add(context)
AddMember(x) ==
  /\ pc[x] = "adding"
  /\ members' = [members EXCEPT ![grp[x]][x] = @ + 1]
  /\ Goto(x, "recording")
  /\ UNCHANGED <<registered, created, storage, added, grp, withData, closing, todo>>

Left(x) == [members[grp[x]] EXCEPT ![x] = IF @ > 0 THEN @ - 1 ELSE 0]

DataKept(x) == storage
DataLeft(x) ==
  IF MembersOf(grp[x]) # {} THEN [storage EXCEPT ![grp[x]] = @ \ {x}] ELSE storage

\* The name is removed from the dictionary, whichever object it maps to, when
\* the array has become empty.
NameKept(x) == registered
NameLeftIfEmpty(x) == IF \A y \in Connections : Left(x)[y] = 0 THEN NoObject ELSE registered
NameLeft(x) ==
  IF MembersOf(grp[x]) # {} /\ \A y \in Connections : Left(x)[y] = 0
    THEN NoObject ELSE registered

\* RemoveAsync.  The dictionary is not under the lock of the object, but a
\* GetOrAdd that comes in between is one that came before.
RemoveMember(x) ==
  /\ pc[x] = "removing"
  /\ members' = [members EXCEPT ![grp[x]] = Left(x)]
  /\ storage' = DataLeft(x)
  /\ registered' = NameLeft(x)
  /\ Removed(x)
  /\ UNCHANGED <<created, added, grp, withData, closing, todo>>

\* members.Length, which counts a connection as often as it was added.
MemberCount(o) == Cardinality({e \in Connections \X (1..MaxAdds) : members[o][e[1]] >= e[2]})

Next ==
  \E x \in Connections :
    \/ RepositoryStep(x)
    \/ AddMember(x) \/ RemoveMember(x)
    \/ CheckLimit(x, MemberCount(grp[x]))

Spec == HubInit /\ [][Next]_hubVars
=============================================================================
