------------------------- MODULE MemoryGroupsProofs -------------------------
(***************************************************************************)
(* Proofs about the in-memory groups of a hub, with either kind of group   *)
(* objects: the invariants of membership, storage, counter and             *)
(* registration, for every number of connections, group objects and joins, *)
(* and every limit; and that the Write methods keep the promise of         *)
(* GroupBroadcast while connections join and leave.                        *)
(***************************************************************************)
EXTENDS GroupFactories, Broadcasts, FiniteSetTheorems, SequenceTheorems, TLAPS

\* The steps inside of AddAsync and RemoveAsync of a ConcurrentDictionaryGroup.
DictionarySteps == {"counting", "uncounting", "forgetting", "testing", "unregistering"}

\* What pc of a connection can be.
Places ==
  {"idle", "checking", "creating", "adding", "recording", "storing", "removing", "disposing",
   "gone"} \cup DictionarySteps

HubType == HubTypeOK(DictionarySteps)

\* A connection that is past GetOrAdd, or leaving, has a group object.
HasObject ==
  \A x \in Connections :
    pc[x] \in {"checking", "adding", "recording", "storing", "removing"} \cup DictionarySteps
      => grp[x] \in Objects

\* DisposeAsync has started and where it can be.
ClosingPlaces ==
  \A x \in Connections :
    /\ pc[x] \in {"disposing", "gone"} => closing[x]
    /\ closing[x] => pc[x] \in {"disposing", "removing", "uncounting", "forgetting", "testing",
                                "unregistering", "gone"}

\* Nothing is left to enumerate at the end.
NothingLeft == \A x \in Connections : pc[x] = "gone" => todo[x] = None

\* The entry of an object that addedGroups does not hold yet, or that the
\* enumeration has taken and not removed yet.
InTransit(x, o) ==
  /\ grp[x] = o
  /\ \/ pc[x] \in {"counting", "recording"}
     \/ pc[x] = "removing" /\ closing[x]

\* DisposeAsync calls RemoveAsync as often as x is a member of o, or more often.
Accounted ==
  \A x \in Connections, o \in Objects :
    members[o][x] <= (IF closing[x] THEN todo[x][o] ELSE added[x][o])
                       + (IF InTransit(x, o) THEN 1 ELSE 0)

\* A connection that is about to store its data is a member.
MemberBeforeStorage ==
  \A x \in Connections :
    pc[x] \in {"counting", "recording", "storing"} => members[grp[x]][x] > 0

\* StorageOfMembers, for one entry.
DataHeld ==
  \A o \in Objects, y \in Connections :
    y \in storage[o]
      => members[o][y] > 0 \/ (grp[y] = o /\ pc[y] \in {"uncounting", "forgetting"})

HubIInv ==
  /\ HubType
  /\ HasObject
  /\ ClosingPlaces
  /\ NothingLeft
  /\ Accounted
  /\ MemberBeforeStorage
  /\ DataHeld

\* A step of a connection with an object of either kind.
GroupStep(x) ==
  \/ RepositoryStep(x)
  \/ \E count : CheckLimit(x, count)
  \/ AddMember(x) \/ RemoveMember(x)
  \/ Dictionary!AddMember(x) \/ Dictionary!CountMember(x)
  \/ Dictionary!RemoveMember(x) \/ Dictionary!UncountMember(x)
  \/ Dictionary!ForgetData(x) \/ Dictionary!TestEmpty(x) \/ Dictionary!Unregister(x)
-----------------------------------------------------------------------------
\* The instance of ConcurrentDictionaryGroups has the definitions of HubGroups
\* under names of its own.
LEMMA SameCardinality == ASSUME NEW S PROVE Dictionary!Cardinality(S) = Cardinality(S)
BY Zenon DEF Cardinality, Dictionary!Cardinality

LEMMA SameHub ==
  /\ \A x : Dictionary!RepositoryStep(x) <=> RepositoryStep(x)
  /\ \A x, count : Dictionary!CheckLimit(x, count) <=> CheckLimit(x, count)
  /\ \A steps : Dictionary!HubTypeOK(steps) <=> HubTypeOK(steps)
  /\ Dictionary!HubInit <=> HubInit
  /\ \A o : Dictionary!MembersOf(o) = MembersOf(o)
  /\ \A o, l : Dictionary!At(o, l) = At(o, l)
  /\ Dictionary!Objects = Objects
  /\ Dictionary!NoObject = NoObject
<1> USE DEF Dictionary!HubTypeOK, Dictionary!HubInit, Dictionary!MembersOf, Dictionary!At,
            Dictionary!Objects, Dictionary!NoObject, HubTypeOK, HubInit, MembersOf, At, Objects, NoObject, Dictionary!None, None,
            Dictionary!Goto, Goto, Dictionary!Free, Free
<1>1. \A x, count : Dictionary!CheckLimit(x, count) <=> CheckLimit(x, count)
  BY Zenon DEF Dictionary!CheckLimit, CheckLimit
<1>2. \A x : Dictionary!RepositoryStep(x) <=> RepositoryStep(x)
  BY Zenon
  DEF Dictionary!RepositoryStep, RepositoryStep, Dictionary!GetOrAdd, GetOrAdd, Dictionary!Add, Add,
      Dictionary!TryAdd, TryAdd, Dictionary!CreateIfEmpty, CreateIfEmpty, Dictionary!Record, Record,
      Dictionary!SetStorage, SetStorage, Dictionary!StartDispose, StartDispose,
      Dictionary!FinishDispose, FinishDispose, Dictionary!Leave, Leave,
      Dictionary!DisposeNext, DisposeNext
<1> QED BY <1>1, <1>2, Zenon

LEMMA InitHubIInv == HubInit => HubIInv
<1> SUFFICES ASSUME HubInit PROVE HubIInv
  OBVIOUS
<1> USE DEF HubInit, None, NoObject, Objects
<1>1. HubType
  BY BoundsAssumption DEF HubType, HubTypeOK
<1>2. HasObject /\ ClosingPlaces /\ NothingLeft
  BY DEF HasObject, ClosingPlaces, NothingLeft, DictionarySteps
<1>3. Accounted
  BY DEF Accounted, InTransit
<1>4. MemberBeforeStorage /\ DataHeld
  BY DEF MemberBeforeStorage, DataHeld
<1> QED
  BY <1>1, <1>2, <1>3, <1>4 DEF HubIInv

\* An object without members has the member count 0.
LEMMA EmptyCount ==
  ASSUME HubType, NEW o \in Objects, MembersOf(o) = {}
  PROVE  MemberCount(o) = 0
<1>1. \A y \in Connections : members[o][y] = 0
  BY DEF HubType, HubTypeOK, MembersOf
<1>2. \A e \in Connections \X (1..MaxAdds) : ~(members[o][e[1]] >= e[2])
  BY <1>1, BoundsAssumption
<1>3. {e \in Connections \X (1..MaxAdds) : members[o][e[1]] >= e[2]} = {}
  BY <1>2
<1> QED
  BY <1>3, FS_EmptySet DEF MemberCount

\* Assigning one entry of a table of numbers gives a table of numbers.
LEMMA TableUpdate ==
  ASSUME NEW A, NEW B, NEW f \in [A -> [B -> Nat]], NEW a \in A, NEW b \in B, NEW v \in Nat
  PROVE  /\ [f EXCEPT ![a][b] = v] \in [A -> [B -> Nat]]
         /\ [f EXCEPT ![a][b] = v][a][b] = v
         /\ \A c \in A, d \in B : c # a \/ d # b => [f EXCEPT ![a][b] = v][c][d] = f[c][d]
<1> DEFINE g == [f[a] EXCEPT ![b] = v]
<1>1. g \in [B -> Nat] /\ g[b] = v /\ \A d \in B : d # b => g[d] = f[a][d]
  OBVIOUS
<1>2. [f EXCEPT ![a][b] = v] = [f EXCEPT ![a] = g]
  OBVIOUS
<1> HIDE DEF g
<1> QED
  BY <1>1, <1>2

\* What the steps of a ConcurrentDictionaryGroup do to the variables of HubGroups.
RestOfHub == <<created, added, grp, withData, closing, todo>>

OneEntry(x, count) ==
  /\ grp[x] \in Objects
  /\ members' \in [Objects -> [Connections -> Nat]]
  /\ members'[grp[x]][x] = count
  /\ \A o \in Objects, y \in Connections :
       o # grp[x] \/ y # x => members'[o][y] = members[o][y]

AddEffect(x) ==
  /\ pc[x] = "adding"
  /\ pc' = [pc EXCEPT ![x] = IF members[grp[x]][x] = 0 THEN "counting" ELSE "recording"]
  /\ OneEntry(x, 1)
  /\ UNCHANGED <<registered, storage, RestOfHub>>

CountEffect(x) ==
  /\ pc[x] = "counting"
  /\ pc' = [pc EXCEPT ![x] = "recording"]
  /\ UNCHANGED <<registered, members, storage, RestOfHub>>

RemoveEffect(x) ==
  /\ pc[x] = "removing"
  /\ pc' = [pc EXCEPT ![x] = IF members[grp[x]][x] = 0 THEN "testing" ELSE "uncounting"]
  /\ OneEntry(x, 0)
  /\ UNCHANGED <<registered, storage, RestOfHub>>

UncountEffect(x) ==
  /\ pc[x] = "uncounting"
  /\ pc' = [pc EXCEPT ![x] = "forgetting"]
  /\ UNCHANGED <<registered, members, storage, RestOfHub>>

ForgetEffect(x) ==
  /\ pc[x] = "forgetting" /\ grp[x] \in Objects
  /\ pc' = [pc EXCEPT ![x] = "testing"]
  /\ storage' = [storage EXCEPT ![grp[x]] = @ \ {x}]
  /\ UNCHANGED <<registered, members, RestOfHub>>

TestEffect(x) ==
  /\ pc[x] = "testing"
  /\ pc' = [pc EXCEPT ![x] = IF MembersOf(grp[x]) = {} THEN "unregistering"
                             ELSE IF closing[x] THEN "disposing" ELSE "idle"]
  /\ UNCHANGED <<registered, members, storage, RestOfHub>>

UnregisterEffect(x) ==
  /\ pc[x] = "unregistering"
  /\ pc' = [pc EXCEPT ![x] = IF closing[x] THEN "disposing" ELSE "idle"]
  /\ registered' = NoObject
  /\ UNCHANGED <<members, storage, RestOfHub>>

LEMMA DictionaryEffects ==
  ASSUME HubType, HasObject, NEW x \in Connections
  PROVE  /\ Dictionary!AddMember(x) => AddEffect(x)
         /\ Dictionary!CountMember(x) => CountEffect(x)
         /\ Dictionary!RemoveMember(x) => RemoveEffect(x)
         /\ Dictionary!UncountMember(x) => UncountEffect(x)
         /\ Dictionary!ForgetData(x) => ForgetEffect(x)
         /\ Dictionary!TestEmpty(x) => TestEffect(x)
         /\ Dictionary!Unregister(x) => UnregisterEffect(x)
<1> USE DEF RestOfHub, Dictionary!Goto, Dictionary!Removed
<1>a. members \in [Objects -> [Connections -> Nat]]
  BY DEF HubType, HubTypeOK
<1>b. pc[x] \in {"adding", "removing", "forgetting"} => grp[x] \in Objects
  BY DEF HasObject, DictionarySteps
<1>1. Dictionary!CountMember(x) => CountEffect(x)
  BY DEF Dictionary!CountMember, CountEffect
<1>2. Dictionary!UncountMember(x) => UncountEffect(x)
  BY DEF Dictionary!UncountMember, UncountEffect
<1>3. Dictionary!ForgetData(x) => ForgetEffect(x)
  BY <1>b DEF Dictionary!ForgetData, ForgetEffect
<1>4. Dictionary!TestEmpty(x) => TestEffect(x)
  BY SameHub DEF Dictionary!TestEmpty, TestEffect
<1>5. Dictionary!Unregister(x) => UnregisterEffect(x)
  BY DEF Dictionary!Unregister, Dictionary!NoObject, NoObject, UnregisterEffect
<1>6. ASSUME Dictionary!AddMember(x) PROVE AddEffect(x)
  <2>1. /\ pc[x] = "adding" /\ members' = [members EXCEPT ![grp[x]][x] = 1]
        /\ pc' = [pc EXCEPT ![x] = IF members[grp[x]][x] = 0 THEN "counting" ELSE "recording"]
        /\ UNCHANGED <<registered, storage, RestOfHub>>
    BY <1>6 DEF Dictionary!AddMember
  <2>2. grp[x] \in Objects
    BY <1>b, <2>1
  <2>3. OneEntry(x, 1)
    BY <1>a, <2>1, <2>2, TableUpdate DEF OneEntry
  <2> QED
    BY <2>1, <2>3 DEF AddEffect
<1>7. ASSUME Dictionary!RemoveMember(x) PROVE RemoveEffect(x)
  <2>1. /\ pc[x] = "removing" /\ members' = [members EXCEPT ![grp[x]][x] = 0]
        /\ pc' = [pc EXCEPT ![x] = IF members[grp[x]][x] = 0 THEN "testing" ELSE "uncounting"]
        /\ UNCHANGED <<registered, storage, RestOfHub>>
    BY <1>7 DEF Dictionary!RemoveMember
  <2>2. grp[x] \in Objects
    BY <1>b, <2>1
  <2>3. OneEntry(x, 0)
    BY <1>a, <2>1, <2>2, TableUpdate DEF OneEntry
  <2> QED
    BY <2>1, <2>3 DEF RemoveEffect
<1> QED
  BY <1>1, <1>2, <1>3, <1>4, <1>5, <1>6, <1>7

\* GetOrAdd gives the connection an object, which is the registered one.
LEMMA GetOrAddObject ==
  ASSUME HubType, NEW x \in Connections, GetOrAdd(x)
  PROVE  \E o \in Objects :
           /\ registered' = o
           /\ registered = o \/ registered = NoObject
           /\ grp' = [grp EXCEPT ![x] = o]
           /\ pc' = [pc EXCEPT ![x] = "adding"]
           /\ created' \in 0..MaxObjects
<1> USE BoundsAssumption DEF HubType, HubTypeOK, GetOrAdd, Goto, Objects, NoObject
<1>1. CASE registered = NoObject
  <2>1. created + 1 \in Objects
    BY <1>1
  <2> QED
    BY <1>1, <2>1
<1>2. CASE registered # NoObject
  BY <1>2
<1> QED
  BY <1>1, <1>2

\* Every step keeps the types.
LEMMA StepHubType ==
  ASSUME HubType, HasObject, NEW x \in Connections,
         GroupStep(x)
  PROVE  HubType'
<1>e. /\ Dictionary!AddMember(x) => AddEffect(x)
      /\ Dictionary!CountMember(x) => CountEffect(x)
      /\ Dictionary!RemoveMember(x) => RemoveEffect(x)
      /\ Dictionary!UncountMember(x) => UncountEffect(x)
      /\ Dictionary!ForgetData(x) => ForgetEffect(x)
      /\ Dictionary!TestEmpty(x) => TestEffect(x)
      /\ Dictionary!Unregister(x) => UnregisterEffect(x)
  BY DictionaryEffects
<1> USE BoundsAssumption DEF HubType, HubTypeOK, Goto, Objects, NoObject, Places, DictionarySteps
<1>1. CASE \E data \in BOOLEAN : Add(x, data)
  <2>1. PICK data \in BOOLEAN : Add(x, data)
    BY <1>1
  <2>2. PICK o \in Objects : /\ registered' = o /\ created' \in 0..MaxObjects
                             /\ grp' = [grp EXCEPT ![x] = o]
                             /\ pc' = [pc EXCEPT ![x] = "adding"]
    BY <2>1, GetOrAddObject DEF Add
  <2>3. withData' \in [Connections -> BOOLEAN]
    BY <2>1 DEF Add
  <2>4. /\ pc' \in [Connections -> Places]
        /\ grp' \in [Connections -> 0..MaxObjects]
    BY <2>2
  <2> QED
    BY <2>1, <2>2, <2>3, <2>4 DEF Add
<1>2. CASE \E data \in BOOLEAN : TryAdd(x, data)
  <2>1. PICK data \in BOOLEAN : TryAdd(x, data)
    BY <1>2
  <2>2. grp' \in [Connections -> 0..MaxObjects]
    BY <2>1 DEF TryAdd
  <2>3. withData' \in [Connections -> BOOLEAN]
    BY <2>1 DEF TryAdd
  <2> QED
    BY <2>1, <2>2, <2>3 DEF TryAdd
<1>3. CASE CreateIfEmpty(x)
  <2>2. PICK o \in Objects : /\ registered' = o /\ created' \in 0..MaxObjects
                             /\ grp' = [grp EXCEPT ![x] = o]
                             /\ pc' = [pc EXCEPT ![x] = "adding"]
    BY <1>3, GetOrAddObject DEF CreateIfEmpty
  <2>3. /\ pc' \in [Connections -> Places]
        /\ grp' \in [Connections -> 0..MaxObjects]
    BY <2>2
  <2> QED
    BY <1>3, <2>2, <2>3 DEF CreateIfEmpty
<1>4. CASE Record(x)
  <2>1. added' \in [Connections -> [1..MaxObjects -> Nat]]
    <3>1. grp[x] \in 1..MaxObjects
      BY <1>4 DEF Record, HasObject
    <3> DEFINE v == added[x][grp[x]] + 1
    <3>2. v \in Nat
      BY <3>1
    <3>3. added' = [added EXCEPT ![x][grp[x]] = v]
      BY <1>4 DEF Record
    <3>4. added \in [Connections -> [1..MaxObjects -> Nat]]
      OBVIOUS
    <3> HIDE DEF v
    <3>5. [added EXCEPT ![x][grp[x]] = v] \in [Connections -> [1..MaxObjects -> Nat]]
      BY <3>1, <3>2, <3>4, TableUpdate
    <3> QED
      BY <3>3, <3>5
  <2>2. pc' \in [Connections -> Places]
    BY <1>4 DEF Record
  <2> QED
    BY <1>4, <2>1, <2>2 DEF Record
<1>5. CASE SetStorage(x)
  <2>1. storage' \in [1..MaxObjects -> SUBSET Connections]
    BY <1>5 DEF SetStorage
  <2> QED
    BY <1>5, <2>1 DEF SetStorage
<1>6. CASE StartDispose(x)
  <2>1. /\ closing' \in [Connections -> BOOLEAN]
        /\ todo' \in [Connections -> [1..MaxObjects -> Nat]]
        /\ pc' \in [Connections -> Places]
    BY <1>6 DEF StartDispose
  <2>2. /\ registered' \in 0..MaxObjects /\ created' \in 0..MaxObjects
        /\ members' \in [1..MaxObjects -> [Connections -> Nat]]
        /\ storage' \in [1..MaxObjects -> SUBSET Connections]
        /\ added' \in [Connections -> [1..MaxObjects -> Nat]]
        /\ grp' \in [Connections -> 0..MaxObjects]
        /\ withData' \in [Connections -> BOOLEAN]
    BY <1>6 DEF StartDispose
  <2> HIDE <1>6
  <2> QED
    BY Zenon, <2>1, <2>2
<1>7. CASE FinishDispose(x)
  BY <1>7 DEF FinishDispose
<1>8. CASE \E o \in Objects : Leave(x, o)
  <2>1. PICK o \in Objects : Leave(x, o)
    BY <1>8
  <2>2. grp' \in [Connections -> 0..MaxObjects]
    BY <2>1 DEF Leave
  <2> QED
    BY <2>1, <2>2 DEF Leave
<1>9. CASE \E o \in Objects : DisposeNext(x, o)
  <2>1. PICK o \in Objects : DisposeNext(x, o)
    BY <1>9
  <2>2. todo' \in [Connections -> [1..MaxObjects -> Nat]]
    <3> DEFINE v == todo[x][o] - 1
    <3>1. v \in Nat
      BY <2>1 DEF DisposeNext
    <3>2. todo' = [todo EXCEPT ![x][o] = v]
      BY <2>1 DEF DisposeNext
    <3>3. todo \in [Connections -> [1..MaxObjects -> Nat]]
      OBVIOUS
    <3> HIDE DEF v
    <3>4. [todo EXCEPT ![x][o] = v] \in [Connections -> [1..MaxObjects -> Nat]]
      BY <3>1, <3>3, TableUpdate
    <3> QED
      BY <3>2, <3>4
  <2>3. /\ grp' \in [Connections -> 0..MaxObjects]
        /\ pc' \in [Connections -> Places]
    BY <2>1 DEF DisposeNext
  <2> QED
    BY <2>1, <2>2, <2>3 DEF DisposeNext
<1>10. CASE AddMember(x)
  <2>1. members' \in [1..MaxObjects -> [Connections -> Nat]]
    <3>1. grp[x] \in 1..MaxObjects
      BY <1>10 DEF AddMember, HasObject
    <3>2. members[grp[x]][x] + 1 \in Nat
      BY <3>1
    <3> QED
      BY <1>10, <3>1, <3>2, TableUpdate DEF AddMember
  <2> QED
    BY <1>10, <2>1 DEF AddMember
<1>11. CASE RemoveMember(x)
  <2>1. grp[x] \in Objects
    BY <1>11 DEF RemoveMember, HasObject
  <2>2. Left(x) \in [Connections -> Nat]
    BY <2>1 DEF Left
  <2>3. members' \in [1..MaxObjects -> [Connections -> Nat]]
    BY <1>11, <2>2 DEF RemoveMember
  <2>4. storage' \in [1..MaxObjects -> SUBSET Connections]
    BY <1>11, <2>1 DEF RemoveMember, DataLeft
  <2>5. registered' \in 0..MaxObjects
    BY <1>11 DEF RemoveMember, NameLeft
  <2> QED
    BY <1>11, <2>3, <2>4, <2>5 DEF RemoveMember, Removed
<1>12. CASE \E count : CheckLimit(x, count)
  BY <1>12 DEF CheckLimit
<1>13. CASE Dictionary!AddMember(x)
  BY <1>13, <1>e DEF AddEffect, OneEntry, RestOfHub
<1>14. CASE Dictionary!CountMember(x)
  BY <1>14, <1>e DEF CountEffect, RestOfHub
<1>15. CASE Dictionary!RemoveMember(x)
  BY <1>15, <1>e DEF RemoveEffect, OneEntry, RestOfHub
<1>16. CASE Dictionary!UncountMember(x)
  BY <1>16, <1>e DEF UncountEffect, RestOfHub
<1>17. CASE Dictionary!ForgetData(x)
  <2>1. ForgetEffect(x)
    BY <1>17, <1>e
  <2>2. pc' \in [Connections -> Places]
    BY <2>1 DEF ForgetEffect
  <2>3. storage' \in [1..MaxObjects -> SUBSET Connections]
    BY <2>1 DEF ForgetEffect
  <2>4. UNCHANGED <<registered, members, RestOfHub>>
    BY <2>1 DEF ForgetEffect
  <2> HIDE <1>17
  <2> QED
    BY <2>2, <2>3, <2>4 DEF RestOfHub
<1>18. CASE Dictionary!TestEmpty(x)
  <2>1. TestEffect(x)
    BY <1>18, <1>e
  <2>2. pc' \in [Connections -> Places]
    BY <2>1 DEF TestEffect
  <2> QED
    BY <2>1, <2>2 DEF TestEffect, RestOfHub
<1>19. CASE Dictionary!Unregister(x)
  <2>1. UnregisterEffect(x)
    BY <1>19, <1>e
  <2>2. pc' \in [Connections -> Places]
    BY <2>1 DEF UnregisterEffect
  <2>3. registered' \in 0..MaxObjects /\ UNCHANGED <<members, storage, RestOfHub>>
    BY <2>1 DEF UnregisterEffect
  <2> QED
    BY <2>2, <2>3 DEF RestOfHub
<1> QED
  BY <1>1, <1>2, <1>3, <1>4, <1>5, <1>6, <1>7, <1>8, <1>9, <1>10, <1>11, <1>12, <1>13, <1>14,
     <1>15, <1>16, <1>17, <1>18, <1>19
  DEF RepositoryStep, GroupStep

\* Whoever is past GetOrAdd keeps having an object; the one being removed was
\* in addedGroups.
LEMMA StepPlaces ==
  ASSUME HubIInv, NEW x \in Connections,
         GroupStep(x)
  PROVE  HasObject' /\ ClosingPlaces' /\ NothingLeft'
<1>e. /\ Dictionary!AddMember(x) => AddEffect(x)
      /\ Dictionary!CountMember(x) => CountEffect(x)
      /\ Dictionary!RemoveMember(x) => RemoveEffect(x)
      /\ Dictionary!UncountMember(x) => UncountEffect(x)
      /\ Dictionary!ForgetData(x) => ForgetEffect(x)
      /\ Dictionary!TestEmpty(x) => TestEffect(x)
      /\ Dictionary!Unregister(x) => UnregisterEffect(x)
  BY DictionaryEffects DEF HubIInv
<1> USE BoundsAssumption DEF HubIInv, HubType, HubTypeOK, HasObject, ClosingPlaces, NothingLeft,
        Goto, Free, Objects, NoObject, DictionarySteps
<1>1. CASE \E data \in BOOLEAN : Add(x, data)
  <2>1. PICK o \in Objects : grp' = [grp EXCEPT ![x] = o] /\ pc' = [pc EXCEPT ![x] = "adding"]
    BY <1>1, GetOrAddObject DEF Add
  <2> QED
    BY <1>1, <2>1 DEF Add
<1>2. CASE \E data \in BOOLEAN : TryAdd(x, data)
  <2> PICK data \in BOOLEAN : TryAdd(x, data)
    BY <1>2
  <2>1. CASE registered = NoObject
    <3>1. grp' = grp /\ pc' = [pc EXCEPT ![x] = "creating"] /\ UNCHANGED <<closing, todo>>
      BY <2>1 DEF TryAdd
    <3>2. pc[x] = "idle"
      BY DEF TryAdd
    <3> QED
      BY <3>1, <3>2
  <2>2. CASE registered # NoObject
    <3>1. /\ registered \in Objects /\ grp' = [grp EXCEPT ![x] = registered]
          /\ pc' = [pc EXCEPT ![x] = "checking"] /\ UNCHANGED <<closing, todo>>
      BY <2>2 DEF TryAdd
    <3>2. pc[x] = "idle"
      BY DEF TryAdd
    <3> QED
      BY <3>1, <3>2
  <2> QED
    BY <2>1, <2>2
<1>3. CASE CreateIfEmpty(x)
  <2>1. PICK o \in Objects : grp' = [grp EXCEPT ![x] = o] /\ pc' = [pc EXCEPT ![x] = "adding"]
    BY <1>3, GetOrAddObject DEF CreateIfEmpty
  <2> QED
    BY <1>3, <2>1 DEF CreateIfEmpty
<1>4. CASE Record(x)
  BY <1>4 DEF Record
<1>5. CASE SetStorage(x)
  BY <1>5 DEF SetStorage
<1>6. CASE StartDispose(x)
  BY <1>6 DEF StartDispose
<1>7. CASE FinishDispose(x)
  BY <1>7 DEF FinishDispose
<1>8. CASE \E o \in Objects : Leave(x, o)
  BY <1>8 DEF Leave
<1>9. CASE \E o \in Objects : DisposeNext(x, o)
  BY <1>9 DEF DisposeNext
<1>10. CASE AddMember(x)
  BY <1>10 DEF AddMember
<1>11. CASE RemoveMember(x)
  BY <1>11 DEF RemoveMember, Removed
<1>12. CASE \E count : CheckLimit(x, count)
  BY <1>12 DEF CheckLimit
<1>13. CASE Dictionary!AddMember(x)
  BY <1>13, <1>e DEF AddEffect, OneEntry, RestOfHub
<1>14. CASE Dictionary!CountMember(x)
  BY <1>14, <1>e DEF CountEffect, RestOfHub
<1>15. CASE Dictionary!RemoveMember(x)
  BY <1>15, <1>e DEF RemoveEffect, OneEntry, RestOfHub
<1>16. CASE Dictionary!UncountMember(x)
  BY <1>16, <1>e DEF UncountEffect, RestOfHub
<1>17. CASE Dictionary!ForgetData(x)
  BY <1>17, <1>e DEF ForgetEffect, RestOfHub
<1>18. CASE Dictionary!TestEmpty(x)
  BY <1>18, <1>e DEF TestEffect, RestOfHub
<1>19. CASE Dictionary!Unregister(x)
  BY <1>19, <1>e DEF UnregisterEffect, RestOfHub
<1> QED
  BY <1>1, <1>2, <1>3, <1>4, <1>5, <1>6, <1>7, <1>8, <1>9, <1>10, <1>11, <1>12, <1>13, <1>14,
     <1>15, <1>16, <1>17, <1>18, <1>19
  DEF RepositoryStep, GroupStep

\* What AddAsync and RemoveAsync change in members.
LEMMA MembersChange ==
  ASSUME HubType, HasObject, NEW x \in Connections
  PROVE  /\ AddMember(x) =>
              /\ grp[x] \in Objects
              /\ members'[grp[x]][x] = members[grp[x]][x] + 1
              /\ \A o \in Objects, y \in Connections :
                   o # grp[x] \/ y # x => members'[o][y] = members[o][y]
         /\ RemoveMember(x) =>
              /\ grp[x] \in Objects
              /\ members'[grp[x]][x] = IF members[grp[x]][x] > 0 THEN members[grp[x]][x] - 1 ELSE 0
              /\ \A o \in Objects, y \in Connections :
                   o # grp[x] \/ y # x => members'[o][y] = members[o][y]
<1> USE DEF HubType, HubTypeOK, Objects
<1>1. ASSUME AddMember(x) PROVE grp[x] \in 1..MaxObjects /\ members[grp[x]][x] + 1 \in Nat
  BY <1>1 DEF AddMember, HasObject
<1>2. ASSUME RemoveMember(x) PROVE grp[x] \in 1..MaxObjects
  BY <1>2 DEF RemoveMember, HasObject
<1>3. AddMember(x) =>
        /\ grp[x] \in Objects
        /\ members'[grp[x]][x] = members[grp[x]][x] + 1
        /\ \A o \in Objects, y \in Connections :
             o # grp[x] \/ y # x => members'[o][y] = members[o][y]
  BY <1>1, TableUpdate DEF AddMember
<1>4. RemoveMember(x) =>
        /\ grp[x] \in Objects
        /\ members'[grp[x]][x] = IF members[grp[x]][x] > 0 THEN members[grp[x]][x] - 1 ELSE 0
        /\ \A o \in Objects, y \in Connections :
             o # grp[x] \/ y # x => members'[o][y] = members[o][y]
  BY <1>2 DEF RemoveMember, Left
<1> QED
  BY <1>3, <1>4

\* What the places of a connection say of its membership: Accounted.  Only
\* Record, DisposeNext, AddMember and RemoveMember move an entry.
LEMMA StepAccounted ==
  ASSUME HubIInv, NEW x \in Connections,
         GroupStep(x)
  PROVE  Accounted'
<1> SUFFICES ASSUME NEW y \in Connections, NEW o \in Objects
             PROVE  (members[o][y] <= (IF closing[y] THEN todo[y][o] ELSE added[y][o])
                                       + (IF InTransit(y, o) THEN 1 ELSE 0))'
  BY DEF Accounted
<1>a. members[o][y] <= (IF closing[y] THEN todo[y][o] ELSE added[y][o])
                         + (IF InTransit(y, o) THEN 1 ELSE 0)
  BY DEF HubIInv, Accounted
<1>b. /\ members[o][y] \in Nat /\ todo[y][o] \in Nat /\ added[y][o] \in Nat
  BY DEF HubIInv, HubType, HubTypeOK
<1>d. /\ pc = [z \in Connections |-> pc[z]]
      /\ grp = [z \in Connections |-> grp[z]]
      /\ closing \in [Connections -> BOOLEAN]
      /\ todo \in [Connections -> [Objects -> Nat]]
      /\ added \in [Connections -> [Objects -> Nat]]
  BY DEF HubIInv, HubType, HubTypeOK
<1>c. \A z \in Connections :
        pc[z] \in {"idle", "checking", "creating", "adding", "recording", "storing"} => ~closing[z]
  BY <1>d DEF HubIInv, ClosingPlaces
<1>e. /\ Dictionary!AddMember(x) => AddEffect(x)
      /\ Dictionary!CountMember(x) => CountEffect(x)
      /\ Dictionary!RemoveMember(x) => RemoveEffect(x)
      /\ Dictionary!UncountMember(x) => UncountEffect(x)
      /\ Dictionary!ForgetData(x) => ForgetEffect(x)
      /\ Dictionary!TestEmpty(x) => TestEffect(x)
      /\ Dictionary!Unregister(x) => UnregisterEffect(x)
  BY DictionaryEffects DEF HubIInv
<1> USE <1>a, <1>b, <1>c, <1>d DEF Goto, Free, InTransit
<1>1. CASE \E data \in BOOLEAN : Add(x, data)
  <2>1. PICK p \in Objects : grp' = [grp EXCEPT ![x] = p] /\ pc' = [pc EXCEPT ![x] = "adding"]
    BY <1>1, GetOrAddObject DEF Add, HubIInv
  <2> QED
    BY <1>1, <2>1 DEF Add
<1>2. CASE \E data \in BOOLEAN : TryAdd(x, data)
  BY <1>2 DEF TryAdd
<1>3. CASE CreateIfEmpty(x)
  <2>1. PICK p \in Objects : grp' = [grp EXCEPT ![x] = p] /\ pc' = [pc EXCEPT ![x] = "adding"]
    BY <1>3, GetOrAddObject DEF CreateIfEmpty, HubIInv
  <2> QED
    BY <1>3, <2>1 DEF CreateIfEmpty
<1>4. CASE Record(x)
  BY <1>4 DEF Record
<1>5. CASE SetStorage(x)
  BY <1>5 DEF SetStorage
<1>6. CASE StartDispose(x)
  <2>1. /\ closing' = [closing EXCEPT ![x] = TRUE] /\ pc' = [pc EXCEPT ![x] = "disposing"]
        /\ todo' = [todo EXCEPT ![x] = added[x]] /\ UNCHANGED <<members, added, grp>>
        /\ ~closing[x] /\ pc[x] = "idle"
    BY <1>6 DEF StartDispose
  <2>2. CASE y = x
    BY <2>1, <2>2
  <2>3. CASE y # x
    BY <2>1, <2>3
  <2> QED
    BY <2>2, <2>3
<1>7. CASE FinishDispose(x)
  BY <1>7 DEF FinishDispose
<1>8. CASE \E p \in Objects : Leave(x, p)
  BY <1>8 DEF Leave
<1>9. CASE \E p \in Objects : DisposeNext(x, p)
  <2>1. PICK p \in Objects : DisposeNext(x, p)
    BY <1>9
  <2>2. /\ pc[x] = "disposing" /\ closing[x]
        /\ pc' = [pc EXCEPT ![x] = "removing"] /\ grp' = [grp EXCEPT ![x] = p]
        /\ UNCHANGED <<members, added, closing>>
    BY <2>1 DEF DisposeNext, HubIInv, ClosingPlaces
  <2>3. todo[x][p] \in Nat /\ todo' = [todo EXCEPT ![x][p] = todo[x][p] - 1]
    BY <2>1 DEF DisposeNext
  <2>4. CASE y = x
    BY <2>2, <2>3, <2>4
  <2>5. CASE y # x
    BY <2>2, <2>3, <2>5
  <2> QED
    BY <2>4, <2>5
<1>10. CASE AddMember(x)
  <2>1. /\ pc[x] = "adding" /\ pc' = [pc EXCEPT ![x] = "recording"]
        /\ UNCHANGED <<added, grp, closing, todo>>
    BY <1>10 DEF AddMember
  <2>2. /\ members'[grp[x]][x] = members[grp[x]][x] + 1
        /\ o # grp[x] \/ y # x => members'[o][y] = members[o][y]
    BY <1>10, MembersChange DEF HubIInv
  <2> QED
    BY <2>1, <2>2
<1>11. CASE RemoveMember(x)
  <2>1. /\ pc[x] = "removing"
        /\ pc' = [pc EXCEPT ![x] = IF closing[x] THEN "disposing" ELSE "idle"]
        /\ UNCHANGED <<added, grp, closing, todo>>
    BY <1>11 DEF RemoveMember, Removed
  <2>2. /\ members'[grp[x]][x] = IF members[grp[x]][x] > 0 THEN members[grp[x]][x] - 1 ELSE 0
        /\ o # grp[x] \/ y # x => members'[o][y] = members[o][y]
    BY <1>11, MembersChange DEF HubIInv
  <2> QED
    BY <2>1, <2>2
<1>12. CASE \E count : CheckLimit(x, count)
  BY <1>12 DEF CheckLimit
<1>13. CASE Dictionary!AddMember(x)
  <2>1. /\ pc[x] = "adding"
        /\ pc' = [pc EXCEPT ![x] = IF members[grp[x]][x] = 0 THEN "counting" ELSE "recording"]
        /\ UNCHANGED <<added, grp, closing, todo>>
    BY <1>13, <1>e DEF AddEffect, RestOfHub
  <2>2. /\ members'[grp[x]][x] = 1
        /\ o # grp[x] \/ y # x => members'[o][y] = members[o][y]
    BY <1>13, <1>e DEF AddEffect, OneEntry
  <2>3. pc'[x] \in {"counting", "recording"} /\ \A z \in Connections : z # x => pc'[z] = pc[z]
    BY <2>1
  <2>4. CASE y = x /\ o = grp[x]
    BY <2>1, <2>2, <2>3, <2>4
  <2>5. CASE y # x \/ o # grp[x]
    BY <2>1, <2>2, <2>3, <2>5
  <2> QED
    BY <2>4, <2>5
<1>14. CASE Dictionary!CountMember(x)
  BY <1>14, <1>e DEF CountEffect, RestOfHub
<1>15. CASE Dictionary!RemoveMember(x)
  <2>1. /\ pc[x] = "removing"
        /\ pc' = [pc EXCEPT ![x] = IF members[grp[x]][x] = 0 THEN "testing" ELSE "uncounting"]
        /\ UNCHANGED <<added, grp, closing, todo>>
    BY <1>15, <1>e DEF RemoveEffect, RestOfHub
  <2>2. /\ members'[grp[x]][x] = 0
        /\ o # grp[x] \/ y # x => members'[o][y] = members[o][y]
    BY <1>15, <1>e DEF RemoveEffect, OneEntry
  <2>3. pc'[x] \in {"testing", "uncounting"} /\ \A z \in Connections : z # x => pc'[z] = pc[z]
    BY <2>1
  <2>4. CASE y = x /\ o = grp[x]
    BY <2>1, <2>2, <2>3, <2>4
  <2>5. CASE y # x \/ o # grp[x]
    BY <2>1, <2>2, <2>3, <2>5
  <2> QED
    BY <2>4, <2>5
<1>16. CASE Dictionary!UncountMember(x)
  BY <1>16, <1>e DEF UncountEffect, RestOfHub
<1>17. CASE Dictionary!ForgetData(x)
  BY <1>17, <1>e DEF ForgetEffect, RestOfHub
<1>18. CASE Dictionary!TestEmpty(x)
  BY <1>18, <1>e DEF TestEffect, RestOfHub
<1>19. CASE Dictionary!Unregister(x)
  BY <1>19, <1>e DEF UnregisterEffect, RestOfHub
<1> QED
  BY <1>1, <1>2, <1>3, <1>4, <1>5, <1>6, <1>7, <1>8, <1>9, <1>10, <1>11, <1>12, <1>13, <1>14,
     <1>15, <1>16, <1>17, <1>18, <1>19
  DEF RepositoryStep, GroupStep

\* Nobody but the connection itself takes it out of an object, and it does not
\* do so between AddAsync and storing its data.
LEMMA StepMember == ASSUME HubIInv, NEW x \in Connections, GroupStep(x) PROVE MemberBeforeStorage'
<1> SUFFICES ASSUME NEW y \in Connections
             PROVE  (pc[y] \in {"counting", "recording", "storing"} => members[grp[y]][y] > 0)'
  BY DEF MemberBeforeStorage
<1>a. /\ pc[y] \in {"counting", "recording", "storing"} => members[grp[y]][y] > 0
      /\ pc[y] \in {"counting", "recording", "storing"} => grp[y] \in Objects
  BY DEF HubIInv, MemberBeforeStorage, HasObject, DictionarySteps
<1>b. /\ pc = [z \in Connections |-> pc[z]]
      /\ grp = [z \in Connections |-> grp[z]]
      /\ storage \in [Objects -> SUBSET Connections]
      /\ \A p \in Objects, z \in Connections : members[p][z] \in Nat
  BY DEF HubIInv, HubType, HubTypeOK
<1>c. HubType /\ HasObject
  BY DEF HubIInv
<1>e. /\ Dictionary!AddMember(x) => AddEffect(x)
      /\ Dictionary!CountMember(x) => CountEffect(x)
      /\ Dictionary!RemoveMember(x) => RemoveEffect(x)
      /\ Dictionary!UncountMember(x) => UncountEffect(x)
      /\ Dictionary!ForgetData(x) => ForgetEffect(x)
      /\ Dictionary!TestEmpty(x) => TestEffect(x)
      /\ Dictionary!Unregister(x) => UnregisterEffect(x)
  BY DictionaryEffects DEF HubIInv
<1> USE <1>a, <1>b, <1>c DEF Goto, Free
<1>1. CASE \E data \in BOOLEAN : Add(x, data)
  <2>1. PICK p \in Objects : grp' = [grp EXCEPT ![x] = p] /\ pc' = [pc EXCEPT ![x] = "adding"]
    BY <1>1, GetOrAddObject DEF Add, HubIInv
  <2> QED
    BY <1>1, <2>1 DEF Add
<1>2. CASE \E data \in BOOLEAN : TryAdd(x, data)
  BY <1>2 DEF TryAdd
<1>3. CASE CreateIfEmpty(x)
  <2>1. PICK p \in Objects : grp' = [grp EXCEPT ![x] = p] /\ pc' = [pc EXCEPT ![x] = "adding"]
    BY <1>3, GetOrAddObject DEF CreateIfEmpty, HubIInv
  <2> QED
    BY <1>3, <2>1 DEF CreateIfEmpty
<1>4. CASE Record(x)
  BY <1>4 DEF Record
<1>5. CASE SetStorage(x)
  BY <1>5 DEF SetStorage
<1>6. CASE StartDispose(x)
  BY <1>6 DEF StartDispose
<1>7. CASE FinishDispose(x)
  BY <1>7 DEF FinishDispose
<1>8. CASE \E p \in Objects : Leave(x, p)
  BY <1>8 DEF Leave
<1>9. CASE \E p \in Objects : DisposeNext(x, p)
  BY <1>9 DEF DisposeNext
<1>10. CASE AddMember(x)
  <2>1. /\ pc[x] = "adding" /\ pc' = [pc EXCEPT ![x] = "recording"]
        /\ UNCHANGED <<grp, storage>>
    BY <1>10 DEF AddMember
  <2>2. /\ members'[grp[x]][x] > 0
        /\ \A p \in Objects, z \in Connections :
             p # grp[x] \/ z # x => members'[p][z] = members[p][z]
    BY <1>10, MembersChange DEF HubIInv
  <2> QED
    BY <2>1, <2>2
<1>11. CASE RemoveMember(x)
  <2>1. /\ pc' = [pc EXCEPT ![x] = IF closing[x] THEN "disposing" ELSE "idle"]
        /\ pc[x] = "removing" /\ UNCHANGED grp
    BY <1>11 DEF RemoveMember, Removed
  <2>2. \A p \in Objects, z \in Connections :
          p # grp[x] \/ z # x => members'[p][z] = members[p][z]
    BY <1>11, MembersChange DEF HubIInv
  <2> QED
    BY <2>1, <2>2
<1>12. CASE \E count : CheckLimit(x, count)
  BY <1>12 DEF CheckLimit
<1>13. CASE Dictionary!AddMember(x)
  BY <1>13, <1>e DEF AddEffect, OneEntry, RestOfHub
<1>14. CASE Dictionary!CountMember(x)
  BY <1>14, <1>e DEF CountEffect, RestOfHub
<1>15. CASE Dictionary!RemoveMember(x)
  BY <1>15, <1>e DEF RemoveEffect, OneEntry, RestOfHub
<1>16. CASE Dictionary!UncountMember(x)
  BY <1>16, <1>e DEF UncountEffect, RestOfHub
<1>17. CASE Dictionary!ForgetData(x)
  BY <1>17, <1>e DEF ForgetEffect, RestOfHub
<1>18. CASE Dictionary!TestEmpty(x)
  BY <1>18, <1>e DEF TestEffect, RestOfHub
<1>19. CASE Dictionary!Unregister(x)
  BY <1>19, <1>e DEF UnregisterEffect, RestOfHub
<1> QED
  BY <1>1, <1>2, <1>3, <1>4, <1>5, <1>6, <1>7, <1>8, <1>9, <1>10, <1>11, <1>12, <1>13, <1>14,
     <1>15, <1>16, <1>17, <1>18, <1>19
  DEF RepositoryStep, GroupStep

\* Whoever leaves takes its data with it.
LEMMA StepData == ASSUME HubIInv, NEW x \in Connections, GroupStep(x) PROVE DataHeld'
<1> SUFFICES ASSUME NEW o \in Objects, NEW y \in Connections, y \in storage'[o]
             PROVE  members'[o][y] > 0 \/ (grp'[y] = o /\ pc'[y] \in {"uncounting", "forgetting"})
  BY DEF DataHeld
<1>a. /\ y \in storage[o]
           => members[o][y] > 0 \/ (grp[y] = o /\ pc[y] \in {"uncounting", "forgetting"})
      /\ pc[x] = "storing" => members[grp[x]][x] > 0
  BY DEF HubIInv, DataHeld, MemberBeforeStorage
<1>b. /\ pc = [z \in Connections |-> pc[z]]
      /\ grp = [z \in Connections |-> grp[z]]
      /\ storage \in [Objects -> SUBSET Connections]
      /\ \A p \in Objects, z \in Connections : members[p][z] \in Nat
  BY DEF HubIInv, HubType, HubTypeOK
<1>c. HubType /\ HasObject
  BY DEF HubIInv
<1>e. /\ Dictionary!AddMember(x) => AddEffect(x)
      /\ Dictionary!CountMember(x) => CountEffect(x)
      /\ Dictionary!RemoveMember(x) => RemoveEffect(x)
      /\ Dictionary!UncountMember(x) => UncountEffect(x)
      /\ Dictionary!ForgetData(x) => ForgetEffect(x)
      /\ Dictionary!TestEmpty(x) => TestEffect(x)
      /\ Dictionary!Unregister(x) => UnregisterEffect(x)
  BY DictionaryEffects DEF HubIInv
<1> USE <1>a, <1>b, <1>c DEF Goto, Free
<1>1. CASE \E data \in BOOLEAN : Add(x, data)
  <2>1. PICK p \in Objects : grp' = [grp EXCEPT ![x] = p] /\ pc' = [pc EXCEPT ![x] = "adding"]
    BY <1>1, GetOrAddObject DEF Add, HubIInv
  <2> QED
    BY <1>1, <2>1 DEF Add
<1>2. CASE \E data \in BOOLEAN : TryAdd(x, data)
  BY <1>2 DEF TryAdd
<1>3. CASE CreateIfEmpty(x)
  <2>1. PICK p \in Objects : grp' = [grp EXCEPT ![x] = p] /\ pc' = [pc EXCEPT ![x] = "adding"]
    BY <1>3, GetOrAddObject DEF CreateIfEmpty, HubIInv
  <2> QED
    BY <1>3, <2>1 DEF CreateIfEmpty
<1>4. CASE Record(x)
  BY <1>4 DEF Record
<1>5. CASE SetStorage(x)
  BY <1>5 DEF SetStorage
<1>6. CASE StartDispose(x)
  BY <1>6 DEF StartDispose
<1>7. CASE FinishDispose(x)
  BY <1>7 DEF FinishDispose
<1>8. CASE \E p \in Objects : Leave(x, p)
  BY <1>8 DEF Leave
<1>9. CASE \E p \in Objects : DisposeNext(x, p)
  BY <1>9 DEF DisposeNext
<1>10. CASE AddMember(x)
  <2>1. /\ pc[x] = "adding" /\ pc' = [pc EXCEPT ![x] = "recording"]
        /\ UNCHANGED <<grp, storage>>
    BY <1>10 DEF AddMember
  <2>2. /\ members'[grp[x]][x] > 0
        /\ \A p \in Objects, z \in Connections :
             p # grp[x] \/ z # x => members'[p][z] = members[p][z]
    BY <1>10, MembersChange DEF HubIInv
  <2> QED
    BY <2>1, <2>2
<1>11. CASE RemoveMember(x)
  <2>1. /\ pc' = [pc EXCEPT ![x] = IF closing[x] THEN "disposing" ELSE "idle"]
        /\ pc[x] = "removing" /\ UNCHANGED grp /\ storage' = DataLeft(x)
    BY <1>11 DEF RemoveMember, Removed
  <2>2. /\ grp[x] \in Objects
        /\ \A p \in Objects, z \in Connections :
             p # grp[x] \/ z # x => members'[p][z] = members[p][z]
    BY <1>11, MembersChange DEF HubIInv
  <2>3. y \in storage[o] /\ (o = grp[x] /\ MembersOf(o) # {} => y # x)
    BY <2>1, <2>2 DEF DataLeft
  <2>4. CASE o = grp[x] /\ y = x
    <3>1. MembersOf(o) = {}
      BY <2>3, <2>4
    <3>2. members[o][y] = 0
      BY <3>1 DEF MembersOf
    <3> QED
      BY <1>a, <2>1, <2>3, <2>4, <3>2
  <2>5. CASE o # grp[x] \/ y # x
    BY <2>1, <2>2, <2>3, <2>5
  <2> QED
    BY <2>4, <2>5
<1>12. CASE \E count : CheckLimit(x, count)
  BY <1>12 DEF CheckLimit
<1>13. CASE Dictionary!AddMember(x)
  BY <1>13, <1>e DEF AddEffect, OneEntry, RestOfHub
<1>14. CASE Dictionary!CountMember(x)
  BY <1>14, <1>e DEF CountEffect, RestOfHub
<1>15. CASE Dictionary!RemoveMember(x)
  BY <1>15, <1>e DEF RemoveEffect, OneEntry, RestOfHub
<1>16. CASE Dictionary!UncountMember(x)
  BY <1>16, <1>e DEF UncountEffect, RestOfHub
<1>17. CASE Dictionary!ForgetData(x)
  BY <1>17, <1>e DEF ForgetEffect, RestOfHub
<1>18. CASE Dictionary!TestEmpty(x)
  BY <1>18, <1>e DEF TestEffect, RestOfHub
<1>19. CASE Dictionary!Unregister(x)
  BY <1>19, <1>e DEF UnregisterEffect, RestOfHub
<1> QED
  BY <1>1, <1>2, <1>3, <1>4, <1>5, <1>6, <1>7, <1>8, <1>9, <1>10, <1>11, <1>12, <1>13, <1>14,
     <1>15, <1>16, <1>17, <1>18, <1>19
  DEF RepositoryStep, GroupStep
-----------------------------------------------------------------------------
\* A step of x moves nobody else.
Stays(x) ==
  \A y \in Connections :
    y # x => /\ pc'[y] = pc[y] /\ grp'[y] = grp[y]
             /\ \A o \in Objects : members'[o][y] = members[o][y]

SameMember(x) == \A o \in Objects : members'[o][x] = members[o][x]

\* GetOrAdd, in AddAsync or in TryAddAsync.
Joins(x) ==
  /\ pc[x] \in {"idle", "creating"} /\ pc'[x] = "adding"
  /\ registered' \in Objects /\ grp'[x] = registered'
  /\ \/ registered = registered' /\ created' = created
     \/ registered = NoObject /\ created' = created + 1 /\ registered' = created'
  /\ SameMember(x)

Tries(x) ==
  /\ pc[x] = "idle"
  /\ \/ registered = NoObject /\ pc'[x] = "creating" /\ grp'[x] = grp[x]
     \/ registered # NoObject /\ pc'[x] = "checking" /\ grp'[x] = registered
  /\ SameMember(x)
  /\ UNCHANGED <<registered, created>>

\* The limit lets x in or it does not.
Checks(x) ==
  /\ pc[x] = "checking" /\ pc'[x] \in {"idle", "adding"} /\ grp'[x] = grp[x]
  /\ grp[x] \in Objects
  /\ SameMember(x)
  /\ UNCHANGED <<registered, created>>

\* A step of addedGroups, of the storage or of DisposeAsync: no group object and
\* no name changes.
Passes(x) ==
  /\ pc[x] \in {"idle", "recording", "storing", "disposing"}
  /\ pc'[x] \in {"idle", "storing", "removing", "disposing", "gone"}
  /\ pc[x] = "idle" => pc'[x] # "idle"
  /\ pc[x] = "disposing" \/ pc'[x] # "gone"
  /\ SameMember(x)
  /\ UNCHANGED <<registered, created>>

Enters(x) ==
  /\ pc[x] = "adding" /\ pc'[x] \in {"counting", "recording"} /\ grp'[x] = grp[x]
  /\ grp[x] \in Objects
  /\ members'[grp[x]][x] > 0
  /\ \A o \in Objects : o # grp[x] => members'[o][x] = members[o][x]
  /\ UNCHANGED <<registered, created>>

Exits(x) ==
  /\ pc[x] = "removing" /\ grp'[x] = grp[x]
  /\ grp[x] \in Objects
  /\ members[grp[x]][x] = 0 => members'[grp[x]][x] = 0
  /\ \A o \in Objects : o # grp[x] => members'[o][x] = members[o][x]
  /\ created' = created

ExitsArray(x) ==
  /\ Exits(x)
  /\ pc'[x] \in {"idle", "disposing"}
  /\ registered' = IF MembersOf(grp[x]) # {} /\ MembersOf(grp[x])' = {} THEN NoObject ELSE registered

ExitsDictionary(x) ==
  /\ Exits(x)
  /\ members'[grp[x]][x] = 0
  /\ pc'[x] = IF members[grp[x]][x] = 0 THEN "testing" ELSE "uncounting"
  /\ registered' = registered

\* The rest of RemoveAsync of a ConcurrentDictionaryGroup.
Moves(x, from, to) ==
  /\ pc[x] = from /\ pc'[x] = to /\ grp'[x] = grp[x] /\ SameMember(x)
  /\ created' = created

LEMMA RepositoryMoves ==
  ASSUME HubIInv, NEW x \in Connections, RepositoryStep(x)
  PROVE  Stays(x) /\ (Joins(x) \/ Tries(x) \/ Passes(x))
<1>a. /\ pc = [z \in Connections |-> pc[z]]
      /\ grp = [z \in Connections |-> grp[z]]
      /\ HubType
  BY DEF HubIInv, HubType, HubTypeOK
<1> USE <1>a DEF Goto, Free, SameMember
<1>1. ASSUME GetOrAdd(x), pc[x] \in {"idle", "creating"}, members' = members
      PROVE  Stays(x) /\ Joins(x)
  <2>1. PICK o \in Objects : /\ registered' = o
                             /\ registered = o \/ registered = NoObject
                             /\ grp' = [grp EXCEPT ![x] = o]
                             /\ pc' = [pc EXCEPT ![x] = "adding"]
    BY <1>1, GetOrAddObject
  <2>2. \/ registered = registered' /\ created' = created
        \/ registered = NoObject /\ created' = created + 1 /\ registered' = created'
    BY <1>1, <2>1 DEF GetOrAdd
  <2>3. Stays(x)
    BY <1>1, <2>1 DEF Stays
  <2>4. grp'[x] = o /\ pc'[x] = "adding"
    BY <2>1
  <2> QED
    BY <1>1, <2>1, <2>2, <2>3, <2>4 DEF Joins
<1>2. CASE \E data \in BOOLEAN : Add(x, data)
  BY <1>1, <1>2 DEF Add
<1>3. CASE \E data \in BOOLEAN : TryAdd(x, data)
  <2>1. pc[x] = "idle" /\ UNCHANGED <<registered, created, members>>
    BY <1>3 DEF TryAdd
  <2>2. CASE registered = NoObject
    <3>1. pc' = [pc EXCEPT ![x] = "creating"] /\ grp' = grp
      BY <1>3, <2>2 DEF TryAdd
    <3> QED
      BY <2>1, <2>2, <3>1 DEF Stays, Tries
  <2>3. CASE registered # NoObject
    <3>1. pc' = [pc EXCEPT ![x] = "checking"] /\ grp' = [grp EXCEPT ![x] = registered]
      BY <1>3, <2>3 DEF TryAdd
    <3> QED
      BY <2>1, <2>3, <3>1 DEF Stays, Tries
  <2> QED
    BY <2>2, <2>3
<1>4. CASE CreateIfEmpty(x)
  BY <1>1, <1>4 DEF CreateIfEmpty
<1>5. CASE Record(x)
  BY <1>5 DEF Record, Stays, Passes
<1>6. CASE SetStorage(x)
  BY <1>6 DEF SetStorage, Stays, Passes
<1>7. CASE StartDispose(x)
  BY <1>7 DEF StartDispose, Stays, Passes
<1>8. CASE FinishDispose(x)
  BY <1>8 DEF FinishDispose, Stays, Passes
<1>9. CASE \E p \in Objects : Leave(x, p)
  BY <1>9 DEF Leave, Stays, Passes
<1>10. CASE \E p \in Objects : DisposeNext(x, p)
  BY <1>10 DEF DisposeNext, Stays, Passes
<1> QED
  BY <1>2, <1>3, <1>4, <1>5, <1>6, <1>7, <1>8, <1>9, <1>10 DEF RepositoryStep

LEMMA CheckMoves ==
  ASSUME HubIInv, NEW x \in Connections, NEW count, CheckLimit(x, count)
  PROVE  /\ Stays(x) /\ Checks(x)
         /\ pc'[x] = IF count >= Limit THEN "idle" ELSE "adding"
<1>1. /\ pc = [z \in Connections |-> pc[z]]
      /\ grp = [z \in Connections |-> grp[z]]
  BY DEF HubIInv, HubType, HubTypeOK
<1>2. grp[x] \in Objects
  BY DEF HubIInv, HasObject, CheckLimit
<1> QED
  BY <1>1, <1>2 DEF CheckLimit, Goto, Stays, Checks, SameMember

LEMMA ArrayMoves ==
  ASSUME HubIInv, NEW x \in Connections
  PROVE  /\ AddMember(x) => Stays(x) /\ Enters(x)
         /\ RemoveMember(x) => Stays(x) /\ ExitsArray(x)
<1>a. /\ pc = [z \in Connections |-> pc[z]]
      /\ grp = [z \in Connections |-> grp[z]]
      /\ members \in [Objects -> [Connections -> Nat]]
      /\ HubType /\ HasObject
  BY DEF HubIInv, HubType, HubTypeOK
<1>1. ASSUME AddMember(x) PROVE Stays(x) /\ Enters(x)
  <2>1. /\ pc[x] = "adding" /\ pc' = [pc EXCEPT ![x] = "recording"]
        /\ UNCHANGED <<registered, created, grp>>
    BY <1>1 DEF AddMember, Goto
  <2>2. /\ grp[x] \in Objects
        /\ members'[grp[x]][x] = members[grp[x]][x] + 1
        /\ \A o \in Objects, y \in Connections :
             o # grp[x] \/ y # x => members'[o][y] = members[o][y]
    BY <1>1, <1>a, MembersChange
  <2>3. members'[grp[x]][x] > 0
    BY <1>a, <2>2
  <2>4. pc'[x] = "recording" /\ \A y \in Connections : y # x => pc'[y] = pc[y]
    BY <1>a, <2>1
  <2> QED
    BY <2>1, <2>2, <2>3, <2>4 DEF Stays, Enters
<1>2. ASSUME RemoveMember(x) PROVE Stays(x) /\ ExitsArray(x)
  <2>1. /\ pc[x] = "removing" /\ UNCHANGED <<created, grp>>
        /\ pc' = [pc EXCEPT ![x] = IF closing[x] THEN "disposing" ELSE "idle"]
        /\ registered' = NameLeft(x) /\ members' = [members EXCEPT ![grp[x]] = Left(x)]
    BY <1>2 DEF RemoveMember, Removed, Goto
  <2>2. /\ grp[x] \in Objects
        /\ members'[grp[x]][x] = IF members[grp[x]][x] > 0 THEN members[grp[x]][x] - 1 ELSE 0
        /\ \A o \in Objects, y \in Connections :
             o # grp[x] \/ y # x => members'[o][y] = members[o][y]
    BY <1>2, <1>a, MembersChange
  <2>3. pc'[x] \in {"idle", "disposing"} /\ \A y \in Connections : y # x => pc'[y] = pc[y]
    BY <1>a, <2>1
  <2>4. \A y \in Connections : members'[grp[x]][y] = Left(x)[y] /\ Left(x)[y] \in Nat
    BY <1>a, <2>1, <2>2 DEF Left
  <2>5. MembersOf(grp[x])' = {} <=> \A y \in Connections : Left(x)[y] = 0
    <3>1. MembersOf(grp[x])' = {y \in Connections : members'[grp[x]][y] > 0}
      BY <2>1 DEF MembersOf
    <3> QED
      BY <2>4, <3>1
  <2>6. Exits(x)
    BY <2>1, <2>2 DEF Exits
  <2>7. registered' = IF MembersOf(grp[x]) # {} /\ MembersOf(grp[x])' = {} THEN NoObject ELSE registered
    BY <2>1, <2>5 DEF NameLeft
  <2> QED
    BY <2>1, <2>2, <2>3, <2>6, <2>7 DEF Stays, ExitsArray
<1> QED
  BY <1>1, <1>2

LEMMA DictionaryMoves ==
  ASSUME HubIInv, NEW x \in Connections
  PROVE  /\ Dictionary!AddMember(x) =>
              /\ Stays(x) /\ Enters(x)
              /\ pc'[x] = IF members[grp[x]][x] = 0 THEN "counting" ELSE "recording"
         /\ Dictionary!CountMember(x) =>
              Stays(x) /\ Moves(x, "counting", "recording") /\ registered' = registered
         /\ Dictionary!RemoveMember(x) => Stays(x) /\ ExitsDictionary(x)
         /\ Dictionary!UncountMember(x) =>
              Stays(x) /\ Moves(x, "uncounting", "forgetting") /\ registered' = registered
         /\ Dictionary!ForgetData(x) =>
              Stays(x) /\ Moves(x, "forgetting", "testing") /\ registered' = registered
         /\ Dictionary!TestEmpty(x) =>
              /\ Stays(x) /\ registered' = registered
              /\ Moves(x, "testing", IF MembersOf(grp[x]) = {} THEN "unregistering"
                                     ELSE IF closing[x] THEN "disposing" ELSE "idle")
         /\ Dictionary!Unregister(x) =>
              /\ Stays(x) /\ registered' = NoObject
              /\ Moves(x, "unregistering", IF closing[x] THEN "disposing" ELSE "idle")
<1>a. /\ pc = [z \in Connections |-> pc[z]]
      /\ grp = [z \in Connections |-> grp[z]]
      /\ HubType /\ HasObject
  BY DEF HubIInv, HubType, HubTypeOK
<1>e. /\ Dictionary!AddMember(x) => AddEffect(x)
      /\ Dictionary!CountMember(x) => CountEffect(x)
      /\ Dictionary!RemoveMember(x) => RemoveEffect(x)
      /\ Dictionary!UncountMember(x) => UncountEffect(x)
      /\ Dictionary!ForgetData(x) => ForgetEffect(x)
      /\ Dictionary!TestEmpty(x) => TestEffect(x)
      /\ Dictionary!Unregister(x) => UnregisterEffect(x)
  BY <1>a, DictionaryEffects
<1> USE <1>a DEF RestOfHub, Stays, SameMember, Moves
<1>1. Dictionary!AddMember(x) =>
        /\ Stays(x) /\ Enters(x)
        /\ pc'[x] = IF members[grp[x]][x] = 0 THEN "counting" ELSE "recording"
  BY <1>e DEF AddEffect, OneEntry, Enters
<1>2. Dictionary!CountMember(x) =>
        Stays(x) /\ Moves(x, "counting", "recording") /\ registered' = registered
  BY <1>e DEF CountEffect
<1>3. Dictionary!RemoveMember(x) => Stays(x) /\ ExitsDictionary(x)
  BY <1>e DEF RemoveEffect, OneEntry, ExitsDictionary, Exits
<1>4. Dictionary!UncountMember(x) =>
        Stays(x) /\ Moves(x, "uncounting", "forgetting") /\ registered' = registered
  BY <1>e DEF UncountEffect
<1>5. Dictionary!ForgetData(x) =>
        Stays(x) /\ Moves(x, "forgetting", "testing") /\ registered' = registered
  BY <1>e DEF ForgetEffect
<1>6. Dictionary!TestEmpty(x) =>
        /\ Stays(x) /\ registered' = registered
        /\ Moves(x, "testing", IF MembersOf(grp[x]) = {} THEN "unregistering"
                               ELSE IF closing[x] THEN "disposing" ELSE "idle")
  BY <1>e DEF TestEffect
<1>7. Dictionary!Unregister(x) =>
        /\ Stays(x) /\ registered' = NoObject
        /\ Moves(x, "unregistering", IF closing[x] THEN "disposing" ELSE "idle")
  BY <1>e DEF UnregisterEffect
<1> HIDE DEF Stays, Moves, SameMember
<1> QED
  BY <1>1, <1>2, <1>3, <1>4, <1>5, <1>6, <1>7
-----------------------------------------------------------------------------
\* What is left of a connection's membership when it has nothing to do with it.
LEMMA SameMembers ==
  ASSUME NEW x \in Connections, Stays(x), SameMember(x), NEW o \in Objects
  PROVE  MembersOf(o)' = MembersOf(o)
BY DEF Stays, SameMember, MembersOf

LEMMA OtherMembers ==
  ASSUME NEW x \in Connections, Stays(x), Enters(x) \/ Exits(x), NEW o \in Objects, o # grp[x]
  PROVE  MembersOf(o)' = MembersOf(o)
BY DEF Stays, Enters, Exits, MembersOf

LEMMA LessMembers ==
  ASSUME HubIInv, NEW x \in Connections, Stays(x), Exits(x)
  PROVE  MembersOf(grp[x])' \subseteq MembersOf(grp[x])
<1>1. /\ grp'[x] = grp[x] /\ grp[x] \in Objects /\ members[grp[x]][x] \in Nat
      /\ members[grp[x]][x] = 0 => members'[grp[x]][x] = 0
      /\ \A y \in Connections : y # x => members'[grp[x]][y] = members[grp[x]][y]
  BY DEF Exits, Stays, HubIInv, HubType, HubTypeOK
<1> QED
  BY <1>1 DEF MembersOf
-----------------------------------------------------------------------------
\* Sets of connections that differ in one of them.
LEMMA Counting ==
  ASSUME NEW x \in Connections, NEW S \in SUBSET Connections, NEW T \in SUBSET Connections,
         \A y \in Connections : y # x => (y \in S <=> y \in T)
  PROVE  /\ Cardinality(S) \in Nat
         /\ Cardinality(T) = Cardinality(S) + (IF x \in T THEN 1 ELSE 0) - (IF x \in S THEN 1 ELSE 0)
<1>1. IsFiniteSet(S) /\ IsFiniteSet(T) /\ Cardinality(S) \in Nat /\ Cardinality(T) \in Nat
  BY ConnectionsAssumption, FS_Subset, FS_CardinalityType
<1>2. CASE x \in T /\ x \notin S
  <2>1. T = S \cup {x}
    BY <1>2
  <2> QED
    BY <1>1, <1>2, <2>1, FS_AddElement
<1>3. CASE x \in S /\ x \notin T
  <2>1. S = T \cup {x}
    BY <1>3
  <2> QED
    BY <1>1, <1>3, <2>1, FS_AddElement
<1>4. CASE x \in S <=> x \in T
  <2>1. S = T
    BY <1>4
  <2> QED
    BY <1>1, <1>4, <2>1
<1> QED
  BY <1>2, <1>3, <1>4

\* Dictionary!LengthAccurate in the terms of HubGroups.
Accurate(o) ==
  length[o] + Cardinality(At(o, "counting")) = Cardinality(MembersOf(o)) + Cardinality(At(o, "uncounting"))

LengthType == length \in [Objects -> Int]

LEMMA AccurateLength == Dictionary!LengthAccurate <=> \A o \in Objects : Accurate(o)
BY SameHub, SameCardinality, Zenon DEF Dictionary!LengthAccurate, Accurate

\* A step of x changes the three sets of LengthAccurate by x at most.
LEMMA Counts ==
  ASSUME NEW x \in Connections, Stays(x), NEW o \in Objects
  PROVE  /\ Cardinality(MembersOf(o)) \in Nat
         /\ Cardinality(MembersOf(o)') = Cardinality(MembersOf(o))
              + (IF members'[o][x] > 0 THEN 1 ELSE 0) - (IF members[o][x] > 0 THEN 1 ELSE 0)
         /\ \A l : /\ Cardinality(At(o, l)) \in Nat
                   /\ Cardinality(At(o, l)') = Cardinality(At(o, l))
                        + (IF grp'[x] = o /\ pc'[x] = l THEN 1 ELSE 0)
                        - (IF grp[x] = o /\ pc[x] = l THEN 1 ELSE 0)
<1>1. /\ MembersOf(o) \in SUBSET Connections /\ MembersOf(o)' \in SUBSET Connections
      /\ \A y \in Connections : y # x => (y \in MembersOf(o) <=> y \in MembersOf(o)')
      /\ x \in MembersOf(o) <=> members[o][x] > 0
      /\ x \in MembersOf(o)' <=> members'[o][x] > 0
  BY DEF MembersOf, Stays
<1>2. /\ Cardinality(MembersOf(o)) \in Nat
      /\ Cardinality(MembersOf(o)') = Cardinality(MembersOf(o))
           + (IF x \in MembersOf(o)' THEN 1 ELSE 0) - (IF x \in MembersOf(o) THEN 1 ELSE 0)
  BY <1>1, Counting
<1>3. ASSUME NEW l
      PROVE  /\ Cardinality(At(o, l)) \in Nat
             /\ Cardinality(At(o, l)') = Cardinality(At(o, l))
                  + (IF grp'[x] = o /\ pc'[x] = l THEN 1 ELSE 0)
                  - (IF grp[x] = o /\ pc[x] = l THEN 1 ELSE 0)
  <2> DEFINE S == At(o, l)
             T == {y \in Connections : grp'[y] = o /\ pc'[y] = l}
  <2>1. /\ S \in SUBSET Connections /\ T \in SUBSET Connections
        /\ \A y \in Connections : y # x => (y \in S <=> y \in T)
        /\ x \in S <=> (grp[x] = o /\ pc[x] = l)
        /\ x \in T <=> (grp'[x] = o /\ pc'[x] = l)
    BY DEF At, Stays
  <2>2. At(o, l)' = T
    BY DEF At
  <2> HIDE DEF S, T
  <2>3. /\ Cardinality(S) \in Nat
        /\ Cardinality(T) = Cardinality(S) + (IF x \in T THEN 1 ELSE 0) - (IF x \in S THEN 1 ELSE 0)
    BY <2>1, Counting
  <2> QED
    BY <2>1, <2>2, <2>3 DEF S
<1> QED
  BY <1>1, <1>2, <1>3

\* A step of a connection with a ConcurrentDictionaryGroup.
DictionaryStep(x) ==
  \/ RepositoryStep(x) /\ UNCHANGED length
  \/ Dictionary!AddMember(x) \/ Dictionary!CountMember(x)
  \/ Dictionary!RemoveMember(x) \/ Dictionary!UncountMember(x)
  \/ Dictionary!ForgetData(x) \/ Dictionary!TestEmpty(x) \/ Dictionary!Unregister(x)
  \/ CheckLimit(x, length[grp[x]]) /\ UNCHANGED length

\* CountMember and UncountMember update the counter that AddMember and
\* RemoveMember have left behind.
LEMMA StepLength ==
  ASSUME HubIInv, LengthType, \A o \in Objects : Accurate(o),
         NEW x \in Connections, DictionaryStep(x)
  PROVE  LengthType' /\ (\A o \in Objects : Accurate(o))'
<1>a. \A o \in Objects : length[o] \in Int /\ members[o][x] \in Nat
  BY DEF LengthType, HubIInv, HubType, HubTypeOK
<1>b. pc[x] \in {"counting", "uncounting"} => grp[x] \in Objects
  BY DEF HubIInv, HasObject, DictionarySteps
<1>1. ASSUME NEW o \in Objects, Stays(x), length'[o] \in Int,
             length'[o] + (IF grp'[x] = o /\ pc'[x] = "counting" THEN 1 ELSE 0)
                        - (IF grp[x] = o /\ pc[x] = "counting" THEN 1 ELSE 0)
               = length[o] + (IF members'[o][x] > 0 THEN 1 ELSE 0) - (IF members[o][x] > 0 THEN 1 ELSE 0)
                           + (IF grp'[x] = o /\ pc'[x] = "uncounting" THEN 1 ELSE 0)
                           - (IF grp[x] = o /\ pc[x] = "uncounting" THEN 1 ELSE 0)
      PROVE  Accurate(o)'
  <2>1. Accurate(o)' <=> length'[o] + Cardinality(At(o, "counting")')
                           = Cardinality(MembersOf(o)') + Cardinality(At(o, "uncounting")')
    BY DEF Accurate
  <2>2. /\ Cardinality(MembersOf(o)) \in Nat
        /\ Cardinality(MembersOf(o)') = Cardinality(MembersOf(o))
             + (IF members'[o][x] > 0 THEN 1 ELSE 0) - (IF members[o][x] > 0 THEN 1 ELSE 0)
    BY <1>1, Counts
  <2>3. \A l \in {"counting", "uncounting"} :
          /\ Cardinality(At(o, l)) \in Nat
          /\ Cardinality(At(o, l)') = Cardinality(At(o, l))
               + (IF grp'[x] = o /\ pc'[x] = l THEN 1 ELSE 0)
               - (IF grp[x] = o /\ pc[x] = l THEN 1 ELSE 0)
    BY <1>1, Counts
  <2>4. Accurate(o)
    OBVIOUS
  <2> QED
    BY <1>1, <1>a, <2>1, <2>2, <2>3, <2>4 DEF Accurate
<1>2. ASSUME Stays(x), length' = length, SameMember(x),
             pc[x] \notin {"counting", "uncounting"}, pc'[x] \notin {"counting", "uncounting"}
      PROVE  LengthType' /\ (\A o \in Objects : Accurate(o))'
  <2>1. \A o \in Objects : Accurate(o)'
    BY <1>1, <1>2, <1>a DEF SameMember
  <2> QED
    BY <1>2, <2>1 DEF LengthType
<1>3. CASE RepositoryStep(x) /\ UNCHANGED length
  BY <1>2, <1>3, RepositoryMoves DEF Joins, Tries, Passes
<1>4. CASE CheckLimit(x, length[grp[x]]) /\ UNCHANGED length
  BY <1>2, <1>4, CheckMoves DEF Checks
<1>5. CASE Dictionary!AddMember(x)
  <2>1. /\ Stays(x) /\ Enters(x) /\ length' = length
        /\ pc'[x] = IF members[grp[x]][x] = 0 THEN "counting" ELSE "recording"
    BY <1>5, DictionaryMoves DEF Dictionary!AddMember
  <2>2. \A o \in Objects : Accurate(o)'
    BY <1>1, <1>a, <2>1 DEF Enters
  <2> QED
    BY <2>1, <2>2 DEF LengthType
<1>6. CASE Dictionary!RemoveMember(x)
  <2>1. Stays(x) /\ ExitsDictionary(x) /\ length' = length
    BY <1>6, DictionaryMoves DEF Dictionary!RemoveMember
  <2>2. \A o \in Objects : Accurate(o)'
    BY <1>1, <1>a, <2>1 DEF ExitsDictionary, Exits
  <2> QED
    BY <2>1, <2>2 DEF LengthType
<1>7. CASE Dictionary!CountMember(x)
  <2>1. /\ Stays(x) /\ Moves(x, "counting", "recording")
        /\ length' = [length EXCEPT ![grp[x]] = length[grp[x]] + 1]
    BY <1>7, DictionaryMoves DEF Dictionary!CountMember
  <2>2. grp[x] \in Objects
    BY <1>b, <2>1 DEF Moves
  <2>3. LengthType'
    BY <2>1, <2>2, <1>a DEF LengthType
  <2>4. /\ length'[grp[x]] = length[grp[x]] + 1
        /\ \A o \in Objects : o # grp[x] => length'[o] = length[o]
    BY <2>1, <2>2 DEF LengthType
  <2>5. \A o \in Objects : Accurate(o)'
    BY <1>1, <1>a, <2>1, <2>4 DEF Moves, SameMember
  <2> QED
    BY <2>3, <2>5
<1>8. CASE Dictionary!UncountMember(x)
  <2>1. /\ Stays(x) /\ Moves(x, "uncounting", "forgetting")
        /\ length' = [length EXCEPT ![grp[x]] = length[grp[x]] - 1]
    BY <1>8, DictionaryMoves DEF Dictionary!UncountMember
  <2>2. grp[x] \in Objects
    BY <1>b, <2>1 DEF Moves
  <2>3. LengthType'
    BY <2>1, <2>2, <1>a DEF LengthType
  <2>4. /\ length'[grp[x]] = length[grp[x]] - 1
        /\ \A o \in Objects : o # grp[x] => length'[o] = length[o]
    BY <2>1, <2>2 DEF LengthType
  <2>5. \A o \in Objects : Accurate(o)'
    BY <1>1, <1>a, <2>1, <2>4 DEF Moves, SameMember
  <2> QED
    BY <2>3, <2>5
<1>9. CASE Dictionary!ForgetData(x)
  BY <1>2, <1>9, DictionaryMoves DEF Dictionary!ForgetData, Moves
<1>10. CASE Dictionary!TestEmpty(x)
  BY <1>2, <1>10, DictionaryMoves DEF Dictionary!TestEmpty, Moves
<1>11. CASE Dictionary!Unregister(x)
  BY <1>2, <1>11, DictionaryMoves DEF Dictionary!Unregister, Moves
<1> QED
  BY <1>3, <1>4, <1>5, <1>6, <1>7, <1>8, <1>9, <1>10, <1>11 DEF DictionaryStep
-----------------------------------------------------------------------------
(***************************************************************************)
(* EmptyIsUnregistered.                                                    *)
(***************************************************************************)
OnTheWay == {"checking", "adding", "uncounting", "forgetting", "testing", "unregistering"}

\* A step that changes neither the name nor the members of its object leaves
\* the others on their way.
LEMMA OthersOnTheWay ==
  ASSUME EmptyIsUnregistered, NEW x \in Connections, Stays(x),
         NEW o \in Objects, registered = o, MembersOf(o) = {},
         grp[x] # o \/ pc[x] \notin OnTheWay \/ (grp'[x] = o /\ pc'[x] \in OnTheWay)
  PROVE  \E y \in Connections : grp'[y] = o /\ pc'[y] \in OnTheWay
<1>1. PICK y \in Connections : grp[y] = o /\ pc[y] \in OnTheWay
  BY DEF EmptyIsUnregistered, OnTheWay
<1>2. CASE y = x
  BY <1>1, <1>2
<1>3. CASE y # x
  BY <1>1, <1>3 DEF Stays
<1> QED
  BY <1>2, <1>3

LEMMA RepositoryEmpty ==
  ASSUME HubIInv, EmptyIsUnregistered, NEW x \in Connections, RepositoryStep(x)
  PROVE  EmptyIsUnregistered'
<1> SUFFICES ASSUME NEW o \in Objects, registered' = o, MembersOf(o)' = {}
             PROVE  \E y \in Connections : grp'[y] = o /\ pc'[y] \in OnTheWay
  BY DEF EmptyIsUnregistered, OnTheWay
<1>1. Stays(x) /\ (Joins(x) \/ Tries(x) \/ Passes(x))
  BY RepositoryMoves
<1>2. CASE Joins(x)
  BY <1>2 DEF Joins, OnTheWay
<1>3. CASE Tries(x) \/ Passes(x)
  <2>1. registered = o /\ MembersOf(o) = {} /\ pc[x] \notin OnTheWay
    BY <1>1, <1>3, SameMembers DEF Tries, Passes, OnTheWay
  <2> QED
    BY <1>1, <2>1, OthersOnTheWay
<1> QED
  BY <1>1, <1>2, <1>3

\* Nobody is turned away from an object without members by its limit.
LEMMA CheckEmpty ==
  ASSUME HubIInv, EmptyIsUnregistered, NEW x \in Connections, NEW count, CheckLimit(x, count),
         registered = grp[x] /\ MembersOf(grp[x]) = {}
           => \/ ~(count >= Limit)
              \/ \E y \in Connections \ {x} : grp[y] = grp[x] /\ pc[y] \in OnTheWay
  PROVE  EmptyIsUnregistered'
<1> SUFFICES ASSUME NEW o \in Objects, registered' = o, MembersOf(o)' = {}
             PROVE  \E y \in Connections : grp'[y] = o /\ pc'[y] \in OnTheWay
  BY DEF EmptyIsUnregistered, OnTheWay
<1>1. Stays(x) /\ Checks(x) /\ pc'[x] = IF count >= Limit THEN "idle" ELSE "adding"
  BY CheckMoves
<1>2. registered = o /\ MembersOf(o) = {} /\ grp'[x] = grp[x]
  BY <1>1, SameMembers DEF Checks
<1>3. CASE grp[x] # o
  BY <1>1, <1>2, <1>3, OthersOnTheWay
<1>4. CASE grp[x] = o /\ ~(count >= Limit)
  BY <1>1, <1>2, <1>4 DEF OnTheWay
<1>5. CASE grp[x] = o /\ \E y \in Connections \ {x} : grp[y] = grp[x] /\ pc[y] \in OnTheWay
  BY <1>1, <1>5 DEF Stays
<1> QED
  BY <1>2, <1>3, <1>4, <1>5

LEMMA ArrayEmpty ==
  ASSUME HubIInv, EmptyIsUnregistered, NEW x \in Connections,
         AddMember(x) \/ RemoveMember(x) \/ CheckLimit(x, MemberCount(grp[x]))
  PROVE  EmptyIsUnregistered'
<1>1. CASE CheckLimit(x, MemberCount(grp[x]))
  <2>1. grp[x] \in Objects /\ HubType
    BY <1>1, CheckMoves DEF Checks, HubIInv
  <2>2. MembersOf(grp[x]) = {} => MemberCount(grp[x]) = 0
    BY <2>1, EmptyCount
  <2>3. MembersOf(grp[x]) = {} => ~(MemberCount(grp[x]) >= Limit)
    BY <2>2, LimitAssumption
  <2> QED
    BY <1>1, <2>3, CheckEmpty
<1>2. CASE AddMember(x) \/ RemoveMember(x)
  <2> SUFFICES ASSUME NEW o \in Objects, registered' = o, MembersOf(o)' = {}
               PROVE  \E y \in Connections : grp'[y] = o /\ pc'[y] \in OnTheWay
    BY DEF EmptyIsUnregistered, OnTheWay
  <2>1. CASE AddMember(x)
    <3>1. Stays(x) /\ Enters(x)
      BY <2>1, ArrayMoves
    <3>2. grp[x] # o
      BY <3>1 DEF Enters, MembersOf
    <3>3. registered = o /\ MembersOf(o) = {}
      BY <3>1, <3>2, OtherMembers DEF Enters
    <3> QED
      BY <3>1, <3>2, <3>3, OthersOnTheWay
  <2>2. CASE RemoveMember(x)
    <3>1. Stays(x) /\ ExitsArray(x) /\ Exits(x)
      BY <2>2, ArrayMoves DEF ExitsArray
    <3>2. registered = o /\ (grp[x] = o => MembersOf(o) = {})
      BY <3>1 DEF ExitsArray, Exits, Objects, NoObject, MembersOf
    <3>3. MembersOf(o) = {}
      BY <3>1, <3>2, OtherMembers
    <3>4. pc[x] \notin OnTheWay
      BY <3>1 DEF Exits, OnTheWay
    <3> QED
      BY <3>1, <3>2, <3>3, <3>4, OthersOnTheWay
  <2> QED
    BY <1>2, <2>1, <2>2
<1> QED
  BY <1>1, <1>2

LEMMA DictionaryEmpty ==
  ASSUME HubIInv, EmptyIsUnregistered, LengthType, \A o \in Objects : Accurate(o),
         NEW x \in Connections, DictionaryStep(x)
  PROVE  EmptyIsUnregistered'
<1>1. CASE RepositoryStep(x)
  BY <1>1, RepositoryEmpty
<1>2. CASE CheckLimit(x, length[grp[x]])
  <2>1. Stays(x) /\ grp[x] \in Objects /\ pc[x] = "checking"
    BY <1>2, CheckMoves DEF Checks
  <2>2. ASSUME MembersOf(grp[x]) = {}, length[grp[x]] >= Limit
        PROVE  \E y \in Connections \ {x} : grp[y] = grp[x] /\ pc[y] \in OnTheWay
    <3>1. Cardinality(MembersOf(grp[x])) = 0
      BY <2>2, FS_EmptySet
    <3>2. /\ Cardinality(At(grp[x], "counting")) \in Nat /\ Cardinality(At(grp[x], "uncounting")) \in Nat
          /\ length[grp[x]] \in Int /\ Accurate(grp[x])
      BY <2>1, Counts DEF LengthType
    <3>3. Cardinality(At(grp[x], "uncounting")) # 0
      BY <2>2, <3>1, <3>2, LimitAssumption DEF Accurate
    <3>4. At(grp[x], "uncounting") # {}
      BY <3>3, FS_EmptySet
    <3> QED
      BY <2>1, <3>4 DEF At, OnTheWay
  <2> QED
    BY <1>2, <2>2, CheckEmpty
<1> SUFFICES ASSUME NEW o \in Objects, registered' = o, MembersOf(o)' = {},
                    \/ Dictionary!AddMember(x) \/ Dictionary!CountMember(x)
                    \/ Dictionary!RemoveMember(x) \/ Dictionary!UncountMember(x)
                    \/ Dictionary!ForgetData(x) \/ Dictionary!TestEmpty(x)
                    \/ Dictionary!Unregister(x)
             PROVE  \E y \in Connections : grp'[y] = o /\ pc'[y] \in OnTheWay
  BY <1>1, <1>2 DEF EmptyIsUnregistered, OnTheWay, DictionaryStep
<1>3. ASSUME NEW from, NEW to, Stays(x), Moves(x, from, to), registered' = registered,
             from \in OnTheWay /\ grp[x] = o /\ MembersOf(o) = {} => to \in OnTheWay
      PROVE  \E y \in Connections : grp'[y] = o /\ pc'[y] \in OnTheWay
  <2>1. registered = o /\ MembersOf(o) = {}
    BY <1>3, SameMembers DEF Moves
  <2>2. pc[x] = from /\ pc'[x] = to /\ grp'[x] = grp[x]
    BY <1>3 DEF Moves
  <2> QED
    BY <1>3, <2>1, <2>2, OthersOnTheWay
<1>4. CASE Dictionary!AddMember(x)
  <2>1. Stays(x) /\ Enters(x)
    BY <1>4, DictionaryMoves
  <2>2. grp[x] # o
    BY <2>1 DEF Enters, MembersOf
  <2>3. registered = o /\ MembersOf(o) = {}
    BY <2>1, <2>2, OtherMembers DEF Enters
  <2> QED
    BY <2>1, <2>2, <2>3, OthersOnTheWay
<1>5. CASE Dictionary!RemoveMember(x)
  <2>1. Stays(x) /\ ExitsDictionary(x) /\ Exits(x)
    BY <1>5, DictionaryMoves DEF ExitsDictionary
  <2>2. CASE grp[x] = o
    BY <2>1, <2>2 DEF ExitsDictionary, Exits, OnTheWay
  <2>3. CASE grp[x] # o
    <3>1. registered = o /\ MembersOf(o) = {}
      BY <2>1, <2>3, OtherMembers DEF ExitsDictionary
    <3> QED
      BY <2>1, <2>3, <3>1, OthersOnTheWay
  <2> QED
    BY <2>2, <2>3
<1>6. CASE Dictionary!CountMember(x)
  BY <1>3, <1>6, DictionaryMoves DEF OnTheWay
<1>7. CASE Dictionary!UncountMember(x)
  BY <1>3, <1>7, DictionaryMoves DEF OnTheWay
<1>8. CASE Dictionary!ForgetData(x)
  BY <1>3, <1>8, DictionaryMoves DEF OnTheWay
<1>9. CASE Dictionary!TestEmpty(x)
  BY <1>3, <1>9, DictionaryMoves DEF OnTheWay
<1>10. CASE Dictionary!Unregister(x)
  BY <1>10, DictionaryMoves DEF Objects, NoObject
<1> QED
  BY <1>4, <1>5, <1>6, <1>7, <1>8, <1>9, <1>10
-----------------------------------------------------------------------------
(***************************************************************************)
(* Joins and leaves that do not overlap.                                   *)
(***************************************************************************)

\* The steps of either kind of group object, by what they do to it.
Kinds(x) ==
  \/ Joins(x) \/ Tries(x) \/ Checks(x) \/ Passes(x) \/ Enters(x)
  \/ ExitsArray(x) \/ ExitsDictionary(x)
  \/ \E from \in DictionarySteps, to \in DictionarySteps \cup {"recording", "disposing", "idle"} :
       /\ Moves(x, from, to)
       /\ registered' = registered \/ registered' = NoObject

LEMMA StepKinds ==
  ASSUME HubIInv, NEW x \in Connections, GroupStep(x)
  PROVE  Stays(x) /\ Kinds(x)
<1>1. CASE RepositoryStep(x)
  BY <1>1, RepositoryMoves DEF Kinds
<1>2. CASE \E count : CheckLimit(x, count)
  BY <1>2, CheckMoves DEF Kinds
<1>3. CASE AddMember(x) \/ RemoveMember(x)
  BY <1>3, ArrayMoves DEF Kinds
<1>4. CASE Dictionary!AddMember(x) \/ Dictionary!RemoveMember(x)
  BY <1>4, DictionaryMoves DEF Kinds
<1>5. ASSUME NEW from, NEW to, from \in DictionarySteps,
             to \in DictionarySteps \cup {"recording", "disposing", "idle"},
             Moves(x, from, to), registered' = registered \/ registered' = NoObject
      PROVE  Kinds(x)
  BY <1>5 DEF Kinds
<1>6. CASE Dictionary!CountMember(x)
  BY <1>5, <1>6, DictionaryMoves DEF DictionarySteps
<1>7. CASE Dictionary!UncountMember(x)
  BY <1>5, <1>7, DictionaryMoves DEF DictionarySteps
<1>8. CASE Dictionary!ForgetData(x)
  BY <1>5, <1>8, DictionaryMoves DEF DictionarySteps
<1>9. CASE Dictionary!TestEmpty(x)
  BY <1>5, <1>9, DictionaryMoves DEF DictionarySteps
<1>10. CASE Dictionary!Unregister(x)
  BY <1>5, <1>10, DictionaryMoves DEF DictionarySteps
<1> QED
  BY <1>1, <1>2, <1>3, <1>4, <1>6, <1>7, <1>8, <1>9, <1>10 DEF GroupStep

\* An object that has not been created has no members.
Created ==
  /\ registered <= created
  /\ \A x \in Connections :
       /\ pc[x] \in {"checking", "adding"} => grp[x] <= created
       /\ \A o \in Objects : members[o][x] > 0 => o <= created

LEMMA StepCreated ==
  ASSUME HubIInv, Created, NEW x \in Connections, GroupStep(x)
  PROVE  Created'
<1>a. /\ registered \in Nat /\ created \in Nat /\ MaxObjects \in Nat
      /\ \A o \in Objects : o \in Nat
  BY BoundsAssumption DEF HubIInv, HubType, HubTypeOK, Objects
<1>b. Stays(x) /\ Kinds(x)
  BY StepKinds
<1>1. SUFFICES /\ registered' <= created' /\ created <= created'
               /\ pc'[x] \in {"checking", "adding"} => grp'[x] <= created'
               /\ \A o \in Objects : members'[o][x] > 0 => o <= created'
  <2> SUFFICES ASSUME /\ registered' <= created' /\ created <= created'
                      /\ pc'[x] \in {"checking", "adding"} => grp'[x] <= created'
                      /\ \A o \in Objects : members'[o][x] > 0 => o <= created',
                      NEW y \in Connections, y # x
               PROVE  /\ pc'[y] \in {"checking", "adding"} => grp'[y] <= created'
                      /\ \A o \in Objects : members'[o][y] > 0 => o <= created'
    BY DEF Created
  <2>1. created' \in Int /\ grp[y] \in Int
    BY BoundsAssumption, <1>b
    DEF HubIInv, HubType, HubTypeOK, Kinds, Joins, Tries, Checks, Passes, Enters, ExitsArray,
        ExitsDictionary, Exits, Moves
  <2>2. /\ pc[y] \in {"checking", "adding"} => grp[y] <= created
        /\ \A o \in Objects : members[o][y] > 0 => o <= created
    BY DEF Created
  <2> QED
    BY <1>a, <1>b, <2>1, <2>2 DEF Stays
<1>c. /\ pc[x] \in {"checking", "adding"} => grp[x] <= created
      /\ \A o \in Objects : members[o][x] > 0 => o <= created
      /\ registered <= created
  BY DEF Created
<1> USE <1>a, <1>c
<1>2. CASE Joins(x)
  BY <1>2 DEF Joins, SameMember, NoObject, Objects
<1>3. CASE Tries(x) \/ Checks(x) \/ Passes(x)
  BY <1>3 DEF Tries, Checks, Passes, SameMember
<1>4. CASE Enters(x)
  BY <1>4 DEF Enters
<1>5. CASE ExitsArray(x) \/ ExitsDictionary(x)
  <2>1. members[grp[x]][x] \in Nat
    BY <1>5 DEF HubIInv, HubType, HubTypeOK, ExitsArray, ExitsDictionary, Exits
  <2> QED
    BY <1>5, <2>1 DEF ExitsArray, ExitsDictionary, Exits, NoObject
<1>6. CASE \E from \in DictionarySteps, to \in DictionarySteps \cup {"recording", "disposing", "idle"} :
             /\ Moves(x, from, to)
             /\ registered' = registered \/ registered' = NoObject
  BY <1>6 DEF Moves, SameMember, NoObject, DictionarySteps
<1> QED
  BY <1>b, <1>2, <1>3, <1>4, <1>5, <1>6 DEF Kinds

\* One connection at a time.
OneBusy == ~overlapped => \A x, y \in Busy : x = y

\* What overlapped records.
LEMMA StepOneBusy == OneBusy /\ [FactoriesNext]_factoryVars => OneBusy'
<1> SUFFICES ASSUME OneBusy, [FactoriesNext]_factoryVars, ~overlapped'
             PROVE  \A x, y \in Busy' : x = y
  BY DEF OneBusy
<1>1. CASE FactoriesNext
  <2>1. IsFiniteSet(Busy') /\ Cardinality(Busy') \in Nat /\ ~(Cardinality(Busy') > 1)
    <3>1. Busy' \subseteq Connections
      BY DEF Busy
    <3> QED
      BY <1>1, <3>1, ConnectionsAssumption, FS_Subset, FS_CardinalityType DEF FactoriesNext
  <2>2. ASSUME NEW x \in Busy', NEW y \in Busy', x # y PROVE FALSE
    <3>1. IsFiniteSet({x}) /\ Cardinality({x}) = 1
      BY FS_Singleton
    <3>2. IsFiniteSet({x, y}) /\ Cardinality({x} \cup {y}) = 2
      BY <2>2, <3>1, FS_AddElement
    <3>3. {x} \cup {y} \subseteq Busy'
      BY <2>2
    <3>4. Cardinality({x} \cup {y}) <= Cardinality(Busy')
      BY <2>1, <3>3, FS_Subset
    <3> QED
      BY <2>1, <3>2, <3>4
  <2> QED
    BY <2>2
<1>2. CASE UNCHANGED factoryVars
  BY <1>2 DEF factoryVars, hubVars, OneBusy, Busy
<1> QED
  BY <1>1, <1>2

\* As long as joins and leaves do not overlap, a step finds the others outside.
LEMMA Alone ==
  ASSUME HubIInv, NEW x \in Connections, GroupStep(x), OneBusy, OneBusy', ~overlapped, ~overlapped',
         NEW y \in Connections, y # x
  PROVE  pc[y] \in {"idle", "gone"} /\ pc'[y] = pc[y]
<1>1. Stays(x) /\ Kinds(x)
  BY StepKinds
<1>2. x \in Busy \/ x \in Busy'
  BY <1>1 DEF Busy, Kinds, Joins, Tries, Checks, Passes, Enters, ExitsArray, ExitsDictionary, Exits,
              Moves, DictionarySteps
<1>3. y \in Busy => y \in Busy'
  BY <1>1 DEF Busy, Stays
<1>4. y \notin Busy
  BY <1>2, <1>3 DEF OneBusy
<1> QED
  BY <1>1, <1>4 DEF Busy, Stays

\* With ImmutableArrayGroup the members of a name are in one object.
Together ==
  factory = "array" /\ ~overlapped =>
    \A x \in Connections :
      /\ \A o \in Objects : members[o][x] > 0 => registered = o
      /\ pc[x] \in {"checking", "adding"} => registered = grp[x]

ArrayStep(x) ==
  \/ RepositoryStep(x)
  \/ AddMember(x) \/ RemoveMember(x)
  \/ CheckLimit(x, MemberCount(grp[x]))

LEMMA StepTogether ==
  ASSUME HubIInv, Together, factory = "array", NEW x \in Connections, ArrayStep(x),
         OneBusy, OneBusy', ~overlapped, ~overlapped'
  PROVE  Together'
<1>a. GroupStep(x)
  BY DEF ArrayStep, GroupStep
<1>b. /\ Stays(x)
      /\ Joins(x) \/ Tries(x) \/ Passes(x) \/ Checks(x) \/ Enters(x) \/ ExitsArray(x)
  BY RepositoryMoves, CheckMoves, ArrayMoves DEF ArrayStep
<1>c. \A y \in Connections :
        /\ \A o \in Objects : members[o][y] > 0 => registered = o
        /\ pc[y] \in {"checking", "adding"} => registered = grp[y]
        /\ y # x => pc'[y] \in {"idle", "gone"}
  BY <1>a, Alone DEF Together
<1> SUFFICES /\ \A y \in Connections, o \in Objects : members'[o][y] > 0 => registered' = o
             /\ pc'[x] \in {"checking", "adding"} => registered' = grp'[x]
  BY <1>c DEF Together
<1>d. \A o \in Objects : o # NoObject /\ \A y \in Connections : members[o][y] \in Nat
  <2>1. members \in [Objects -> [Connections -> Nat]]
    BY DEF HubIInv, HubType, HubTypeOK
  <2>2. \A o \in Objects : o # NoObject
    BY BoundsAssumption DEF Objects, NoObject
  <2> QED
    BY <2>1, <2>2
<1>1. CASE Joins(x)
  BY <1>1, <1>b, <1>c, <1>d DEF Joins, Stays, SameMember
<1>2. CASE Tries(x) \/ Passes(x) \/ Checks(x)
  BY <1>2, <1>b, <1>c DEF Tries, Passes, Checks, Stays, SameMember
<1>3. CASE Enters(x)
  BY <1>3, <1>b, <1>c DEF Enters, Stays
<1>4. CASE ExitsArray(x)
  <2>1. /\ grp[x] \in Objects /\ grp'[x] = grp[x] /\ pc'[x] \in {"idle", "disposing"}
        /\ \A y \in Connections, o \in Objects : members'[o][y] > 0 => members[o][y] > 0
    BY <1>4, <1>b, <1>d DEF ExitsArray, Exits, Stays
  <2>2. CASE registered' = registered
    BY <1>c, <2>1, <2>2
  <2>3. CASE registered' # registered
    <3>1. MembersOf(grp[x]) # {} /\ MembersOf(grp[x])' = {}
      BY <1>4, <2>3 DEF ExitsArray
    <3>2. registered = grp[x]
      BY <1>c, <2>1, <3>1 DEF MembersOf
    <3>3. \A y \in Connections, o \in Objects : ~(members'[o][y] > 0)
      BY <1>c, <2>1, <3>1, <3>2 DEF MembersOf
    <3> QED
      BY <2>1, <3>3
  <2> QED
    BY <2>2, <2>3
<1> QED
  BY <1>b, <1>1, <1>2, <1>3, <1>4
-----------------------------------------------------------------------------
(***************************************************************************)
(* The limit of TryAddAsync.                                               *)
(***************************************************************************)

LEMMA FiniteEntries == IsFiniteSet(Connections \X (1..MaxAdds))
<1>1. IsFiniteSet(1..MaxAdds)
  <2>1. 1 \in Int /\ MaxAdds \in Int
    BY BoundsAssumption
  <2> QED
    BY <2>1, FS_Interval
<1> QED
  BY <1>1, ConnectionsAssumption, FS_Product

\* members.Length counts every member.
LEMMA CountsEveryMember ==
  ASSUME HubType, NEW o \in Objects
  PROVE  Cardinality(MembersOf(o)) <= MemberCount(o)
<1> DEFINE E == {e \in Connections \X (1..MaxAdds) : members[o][e[1]] >= e[2]}
<1>1. IsFiniteSet(E)
  BY FiniteEntries, FS_Subset
<1>2. IsFiniteSet(MembersOf(o)) /\ Cardinality(MembersOf(o)) \in Nat
  BY ConnectionsAssumption, FS_Subset, FS_CardinalityType DEF MembersOf
<1>3. MembersOf(o) \X {1} \subseteq E
  BY BoundsAssumption DEF MembersOf, HubType, HubTypeOK
<1>4. Cardinality(MembersOf(o) \X {1}) = Cardinality(MembersOf(o))
  <2>1. IsFiniteSet({1}) /\ Cardinality({1}) = 1
    BY FS_Singleton
  <2>2. Cardinality(MembersOf(o) \X {1}) = Cardinality(MembersOf(o)) * Cardinality({1})
    BY <1>2, <2>1, FS_Product
  <2> QED
    BY <1>2, <2>1, <2>2
<1>5. Cardinality(MembersOf(o) \X {1}) <= Cardinality(E)
  BY <1>1, <1>3, FS_Subset
<1> QED
  BY <1>4, <1>5 DEF MemberCount

\* Only TryAddAsync, one at a time: whoever adds itself found the object below
\* the limit, or created it.
Limited ==
  ~overlapped /\ ~unlimited =>
    /\ \A o \in Objects : Cardinality(MembersOf(o)) <= Limit
    /\ \A x \in Connections :
         /\ pc[x] = "adding" => Cardinality(MembersOf(grp[x])) < Limit
         /\ pc[x] = "creating" => registered = NoObject

\* What a step does to the number of members.
LEMMA MembersAfter ==
  ASSUME HubIInv, NEW x \in Connections, Stays(x), Kinds(x), NEW o \in Objects
  PROVE  /\ Cardinality(MembersOf(o)) \in Nat /\ Cardinality(MembersOf(o)') \in Nat
         /\ ~(Enters(x) /\ grp[x] = o) => Cardinality(MembersOf(o)') <= Cardinality(MembersOf(o))
         /\ Cardinality(MembersOf(o)') <= Cardinality(MembersOf(o)) + 1
<1>1. /\ Cardinality(MembersOf(o)) \in Nat
      /\ Cardinality(MembersOf(o)') = Cardinality(MembersOf(o))
           + (IF members'[o][x] > 0 THEN 1 ELSE 0) - (IF members[o][x] > 0 THEN 1 ELSE 0)
  BY Counts
<1>2. members[o][x] \in Nat
  BY DEF HubIInv, HubType, HubTypeOK
<1>3. Cardinality(MembersOf(o)') \in Nat
  <2>1. MembersOf(o)' \subseteq Connections
    BY DEF MembersOf
  <2> QED
    BY <2>1, ConnectionsAssumption, FS_Subset, FS_CardinalityType
<1>4. CASE members'[o][x] = members[o][x]
  BY <1>1, <1>3, <1>4
<1>5. CASE (ExitsArray(x) \/ ExitsDictionary(x)) /\ grp[x] = o
  BY <1>1, <1>2, <1>3, <1>5 DEF ExitsArray, ExitsDictionary, Exits
<1>6. CASE Enters(x) /\ grp[x] = o
  BY <1>1, <1>3, <1>6
<1>7. members'[o][x] = members[o][x] \/ ((ExitsArray(x) \/ ExitsDictionary(x) \/ Enters(x)) /\ grp[x] = o)
  BY DEF Kinds, Joins, Tries, Checks, Passes, Enters, ExitsArray, ExitsDictionary, Exits, Moves, SameMember
<1> QED
  BY <1>4, <1>5, <1>6, <1>7

LEMMA StepLimited ==
  ASSUME HubIInv, Created, Limited, NEW x \in Connections, GroupStep(x),
         OneBusy, OneBusy', ~overlapped, ~overlapped', ~unlimited, ~unlimited',
         ~Unlimited,
         pc[x] = "checking" /\ pc'[x] = "adding" => Cardinality(MembersOf(grp[x])) < Limit
  PROVE  Limited'
<1>a. Stays(x) /\ Kinds(x)
  BY StepKinds
<1>b. /\ Limit \in Nat /\ Limit > 0
      /\ \A o \in Objects : Cardinality(MembersOf(o)) <= Limit
      /\ pc[x] = "adding" => Cardinality(MembersOf(grp[x])) < Limit
      /\ pc[x] = "creating" => registered = NoObject
  BY LimitAssumption DEF Limited
<1>c. \A o \in Objects :
        /\ Cardinality(MembersOf(o)) \in Nat /\ Cardinality(MembersOf(o)') \in Nat
        /\ ~(Enters(x) /\ grp[x] = o) => Cardinality(MembersOf(o)') <= Cardinality(MembersOf(o))
        /\ Cardinality(MembersOf(o)') <= Cardinality(MembersOf(o)) + 1
  BY <1>a, MembersAfter
<1>1. \A o \in Objects : Cardinality(MembersOf(o)') <= Limit
  <2>1. Enters(x) => pc[x] = "adding"
    BY DEF Enters
  <2> QED
    BY <1>b, <1>c, <2>1
<1>2. ASSUME NEW y \in Connections, y # x PROVE pc'[y] \notin {"adding", "creating"}
  BY <1>2, Alone
<1>3. ASSUME pc'[x] = "creating" PROVE registered' = NoObject
  BY <1>3, <1>a DEF Kinds, Joins, Tries, Checks, Passes, Enters, ExitsArray, ExitsDictionary, Moves,
                    DictionarySteps
<1>4. ASSUME pc'[x] = "adding" PROVE Cardinality(MembersOf(grp[x])') < Limit
  <2>1. Joins(x) \/ Checks(x)
    BY <1>4, <1>a DEF Kinds, Tries, Passes, Enters, ExitsArray, ExitsDictionary, Moves, DictionarySteps
  <2>2. CASE Joins(x)
    <3>1. pc[x] = "creating"
      BY <2>2, <1>4 DEF Joins, Unlimited
    <3>2. /\ registered = NoObject /\ grp'[x] \in Objects /\ grp'[x] = created + 1
      BY <2>2, <1>b, <3>1 DEF Joins, NoObject, Objects
    <3>3. created \in Nat /\ MaxObjects \in Nat
      BY BoundsAssumption DEF HubIInv, HubType, HubTypeOK
    <3>4. MembersOf(grp'[x]) = {}
      BY <3>2, <3>3 DEF Created, MembersOf
    <3>5. MembersOf(grp[x])' = {}
      <4>1. \A y \in Connections : members'[grp'[x]][y] = members[grp'[x]][y]
        BY <1>a, <2>2, <3>2 DEF Stays, Joins, SameMember
      <4> QED
        BY <3>4, <4>1 DEF MembersOf
    <3> QED
      BY <1>b, <3>5, FS_EmptySet
  <2>3. CASE Checks(x)
    <3>1. /\ grp[x] \in Objects /\ grp'[x] = grp[x] /\ pc[x] = "checking" /\ ~Enters(x)
      BY <2>3 DEF Checks, Enters
    <3>2. Cardinality(MembersOf(grp[x])) < Limit
      BY <1>4, <3>1
    <3>3. MembersOf(grp[x])' = MembersOf(grp[x])
      BY <1>a, <2>3, <3>1 DEF Stays, Checks, SameMember, MembersOf
    <3> QED
      BY <3>2, <3>3
  <2> QED
    BY <2>1, <2>2, <2>3
<1> QED
  BY <1>1, <1>2, <1>3, <1>4 DEF Limited

\* The counter is exact for a connection that is alone.
LEMMA ExactLength ==
  ASSUME HubIInv, LengthType, \A o \in Objects : Accurate(o), OneBusy, ~overlapped,
         NEW x \in Connections, pc[x] = "checking", grp[x] \in Objects
  PROVE  length[grp[x]] = Cardinality(MembersOf(grp[x]))
<1>1. \A y \in Connections : pc[y] \notin {"counting", "uncounting"}
  BY DEF OneBusy, Busy
<1>2. At(grp[x], "counting") = {} /\ At(grp[x], "uncounting") = {}
  BY <1>1 DEF At
<1>3. Cardinality(MembersOf(grp[x])) \in Nat
  BY ConnectionsAssumption, FS_Subset, FS_CardinalityType DEF MembersOf
<1>4. Accurate(grp[x]) /\ length[grp[x]] \in Int
  BY DEF LengthType
<1>5. Cardinality(At(grp[x], "counting")) = 0 /\ Cardinality(At(grp[x], "uncounting")) = 0
  BY <1>2, FS_EmptySet
<1> QED
  BY <1>3, <1>4, <1>5 DEF Accurate
-----------------------------------------------------------------------------
(***************************************************************************)
(* The groups with either factory.                                         *)
(***************************************************************************)
FactoriesIInv ==
  /\ HubIInv
  /\ LengthType
  /\ factory \in {"array", "dictionary"} /\ overlapped \in BOOLEAN /\ unlimited \in BOOLEAN
  /\ factory = "array" => \A x \in Connections : pc[x] \notin DictionarySteps
  /\ factory = "dictionary" => \A o \in Objects : Accurate(o)
  /\ EmptyIsUnregistered
  /\ Created
  /\ OneBusy
  /\ Together
  /\ Limited

LEMMA InitFactories == FactoriesInit => FactoriesIInv
<1> SUFFICES ASSUME FactoriesInit PROVE FactoriesIInv
  OBVIOUS
<1>1. /\ HubInit /\ length = [o \in Objects |-> 0]
      /\ factory \in {"array", "dictionary"} /\ overlapped = FALSE /\ unlimited = FALSE
  BY SameHub DEF FactoriesInit, Dictionary!Init
<1>2. HubIInv
  BY <1>1, InitHubIInv
<1>3. LengthType
  BY <1>1 DEF LengthType
<1>4. /\ \A x \in Connections : pc[x] = "idle"
      /\ \A o \in Objects, x \in Connections : members[o][x] = 0
      /\ registered = NoObject /\ created = 0
  BY <1>1 DEF HubInit
<1>5. \A o \in Objects : MembersOf(o) = {} /\ At(o, "counting") = {} /\ At(o, "uncounting") = {}
  BY <1>4 DEF MembersOf, At
<1>6. \A o \in Objects : Accurate(o)
  BY <1>1, <1>5, FS_EmptySet DEF Accurate
<1>7. EmptyIsUnregistered
  BY <1>4, BoundsAssumption DEF EmptyIsUnregistered, Objects, NoObject
<1>8. Created /\ OneBusy /\ Together
  BY <1>4 DEF Created, OneBusy, Together, Busy, NoObject
<1>9. Limited
  BY <1>4, <1>5, FS_EmptySet, LimitAssumption DEF Limited
<1>10. \A x \in Connections : pc[x] \notin DictionarySteps
  BY <1>4 DEF DictionarySteps
<1> QED
  BY <1>1, <1>2, <1>3, <1>6, <1>7, <1>8, <1>9, <1>10 DEF FactoriesIInv

LEMMA StepHubIInv == ASSUME HubIInv, NEW x \in Connections, GroupStep(x) PROVE HubIInv'
BY StepHubType, StepPlaces, StepAccounted, StepMember, StepData DEF HubIInv

\* The steps of FactoriesNext.
LEMMA StepsOfFactories ==
  ASSUME FactoriesIInv, FactoriesNext
  PROVE  \E x \in Connections :
           \/ factory = "array" /\ ArrayStep(x) /\ UNCHANGED length
           \/ factory = "dictionary" /\ DictionaryStep(x)
<1>1. CASE factory = "array" /\ Next /\ UNCHANGED length
  BY <1>1 DEF Next, ArrayStep
<1>2. CASE factory = "dictionary" /\ Dictionary!Next
  <2>1. PICK x \in Connections :
           \/ Dictionary!RepositoryStep(x) /\ UNCHANGED length
           \/ Dictionary!AddMember(x) \/ Dictionary!CountMember(x)
           \/ Dictionary!RemoveMember(x) \/ Dictionary!UncountMember(x)
           \/ Dictionary!ForgetData(x) \/ Dictionary!TestEmpty(x) \/ Dictionary!Unregister(x)
           \/ Dictionary!CheckLimit(x, length[grp[x]]) /\ UNCHANGED length
    BY <1>2 DEF Dictionary!Next
  <2> QED
    BY <1>2, <2>1, SameHub DEF DictionaryStep
<1> QED
  BY <1>1, <1>2 DEF FactoriesNext

LEMMA StepFactories == FactoriesIInv /\ [FactoriesNext]_factoryVars => FactoriesIInv'
<1> SUFFICES ASSUME FactoriesIInv, [FactoriesNext]_factoryVars PROVE FactoriesIInv'
  OBVIOUS
<1>1. ASSUME UNCHANGED factoryVars PROVE FactoriesIInv'
  <2> USE <1>1 DEF factoryVars, hubVars
  <2>1. HubIInv'
    BY DEF FactoriesIInv, HubIInv, HubType, HubTypeOK, HasObject, ClosingPlaces, NothingLeft, Accounted,
           InTransit, MemberBeforeStorage, DataHeld
  <2>2. \A o \in Objects : MembersOf(o)' = MembersOf(o) /\ \A l : At(o, l)' = At(o, l)
    BY DEF MembersOf, At
  <2>3. (factory = "dictionary" => \A o \in Objects : Accurate(o))'
    BY <2>2 DEF FactoriesIInv, Accurate
  <2>4. EmptyIsUnregistered'
    BY <2>2 DEF FactoriesIInv, EmptyIsUnregistered
  <2>5. Created' /\ OneBusy' /\ Together'
    BY DEF FactoriesIInv, Created, OneBusy, Busy, Together
  <2>6. Limited'
    BY DEF FactoriesIInv, Limited, MembersOf
  <2>7. LengthType' /\ (factory = "array" => \A x \in Connections : pc[x] \notin DictionarySteps)'
    BY DEF FactoriesIInv, LengthType
  <2> QED
    BY <2>1, <2>3, <2>4, <2>5, <2>6, <2>7 DEF FactoriesIInv
<1>2. ASSUME FactoriesNext PROVE FactoriesIInv'
  <2>1. PICK x \in Connections :
          \/ factory = "array" /\ ArrayStep(x) /\ UNCHANGED length
          \/ factory = "dictionary" /\ DictionaryStep(x)
    BY <1>2, StepsOfFactories
  <2>2. GroupStep(x)
    BY <2>1 DEF GroupStep, ArrayStep, DictionaryStep
  <2>3. /\ HubIInv /\ LengthType /\ EmptyIsUnregistered /\ Created /\ OneBusy /\ Together /\ Limited
        /\ factory' = factory /\ factory \in {"array", "dictionary"}
        /\ factory = "array" => \A y \in Connections : pc[y] \notin DictionarySteps
        /\ factory = "dictionary" => \A o \in Objects : Accurate(o)
    BY <1>2 DEF FactoriesIInv, FactoriesNext
  <2>4. overlapped' \in BOOLEAN /\ unlimited' \in BOOLEAN
    BY <1>2 DEF FactoriesIInv, FactoriesNext
  <2>5. /\ overlapped => overlapped'
        /\ unlimited => unlimited'
        /\ Unlimited => unlimited'
    BY <1>2 DEF FactoriesNext
  <2>6. HubIInv' /\ Created'
    BY <2>2, <2>3, StepHubIInv, StepCreated
  <2>7. OneBusy'
    BY <1>2, <2>3, StepOneBusy
  <2>8. CASE factory = "array"
    <3>1. ArrayStep(x) /\ length' = length
      BY <2>1, <2>8
    <3>2. EmptyIsUnregistered'
      BY <2>3, <3>1, RepositoryEmpty, ArrayEmpty DEF ArrayStep
    <3>3. Together'
      <4>1. CASE overlapped'
        BY <4>1 DEF Together
      <4>2. CASE ~overlapped'
        <5>1. ~overlapped
          BY <2>5, <4>2, Zenon
        <5> QED
          BY <2>3, <2>7, <2>8, <3>1, <4>2, <5>1, StepTogether
      <4> QED
        BY <4>1, <4>2
    <3>4. Limited'
      <4>1. CASE overlapped' \/ unlimited'
        BY <4>1 DEF Limited
      <4>2. CASE ~overlapped' /\ ~unlimited'
        <5>1. ~overlapped /\ ~unlimited /\ ~Unlimited
          BY <2>5, <4>2, Zenon
        <5>2. ASSUME pc[x] = "checking", pc'[x] = "adding"
              PROVE  Cardinality(MembersOf(grp[x])) < Limit
          <6>1. CheckLimit(x, MemberCount(grp[x]))
            <7>1. ~RepositoryStep(x)
              BY <2>3, <5>2, RepositoryMoves DEF Joins, Tries, Passes
            <7>2. ~AddMember(x) /\ ~RemoveMember(x)
              BY <5>2 DEF AddMember, RemoveMember
            <7> QED
              BY <3>1, <7>1, <7>2 DEF ArrayStep
          <6>2. grp[x] \in Objects /\ ~(MemberCount(grp[x]) >= Limit)
            BY <2>3, <5>2, <6>1, CheckMoves DEF Checks
          <6>3. /\ Cardinality(MembersOf(grp[x])) <= MemberCount(grp[x])
                /\ Cardinality(MembersOf(grp[x])) \in Nat
            <7>1. Cardinality(MembersOf(grp[x])) \in Nat
              BY ConnectionsAssumption, FS_Subset, FS_CardinalityType DEF MembersOf
            <7> QED
              BY <2>3, <6>2, <7>1, CountsEveryMember DEF HubIInv
          <6>4. MemberCount(grp[x]) \in Nat
            BY FiniteEntries, FS_Subset, FS_CardinalityType DEF MemberCount
          <6> QED
            BY <6>2, <6>3, <6>4, LimitAssumption
        <5> QED
          BY <2>2, <2>3, <2>7, <4>2, <5>1, <5>2, StepLimited
      <4> QED
        BY <4>1, <4>2
    <3>5. \A y \in Connections : pc'[y] \notin DictionarySteps
      <4>1. Stays(x)
        BY <2>2, <2>3, StepKinds
      <4>2. pc'[x] \notin DictionarySteps
        <5>1. CASE RepositoryStep(x)
          BY <2>3, <5>1, RepositoryMoves DEF Joins, Tries, Passes, DictionarySteps
        <5>2. CASE CheckLimit(x, MemberCount(grp[x]))
          BY <2>3, <5>2, CheckMoves DEF Checks, DictionarySteps
        <5>3. CASE AddMember(x)
          <6>1. pc' = [pc EXCEPT ![x] = "recording"] /\ x \in DOMAIN pc
            BY <2>3, <5>3 DEF AddMember, Goto, HubIInv, HubType, HubTypeOK
          <6> QED
            BY <6>1 DEF DictionarySteps
        <5>4. CASE RemoveMember(x)
          BY <2>3, <5>4, ArrayMoves DEF ExitsArray, DictionarySteps
        <5> QED
          BY <3>1, <5>1, <5>2, <5>3, <5>4 DEF ArrayStep
      <4> QED
        BY <2>3, <2>8, <4>1, <4>2 DEF Stays
    <3>6. LengthType' /\ (factory = "dictionary" => \A o \in Objects : Accurate(o))'
      BY <2>3, <2>8, <3>1 DEF LengthType
    <3> QED
      BY <2>3, <2>4, <2>6, <2>7, <3>2, <3>3, <3>4, <3>5, <3>6 DEF FactoriesIInv
  <2>9. CASE factory = "dictionary"
    <3>1. DictionaryStep(x)
      BY <2>1, <2>9
    <3>2. EmptyIsUnregistered'
      BY <2>3, <2>9, <3>1, DictionaryEmpty
    <3>3. LengthType' /\ (\A o \in Objects : Accurate(o))'
      BY <2>3, <2>9, <3>1, StepLength
    <3>4. Together'
      BY <2>3, <2>9 DEF Together
    <3>5. Limited'
      <4>1. CASE overlapped' \/ unlimited'
        BY <4>1 DEF Limited
      <4>2. CASE ~overlapped' /\ ~unlimited'
        <5>1. ~overlapped /\ ~unlimited /\ ~Unlimited
          BY <2>5, <4>2, Zenon
        <5>2. ASSUME pc[x] = "checking", pc'[x] = "adding"
              PROVE  Cardinality(MembersOf(grp[x])) < Limit
          <6>1. CheckLimit(x, length[grp[x]])
            <7>1. ~RepositoryStep(x)
              BY <2>3, <5>2, RepositoryMoves DEF Joins, Tries, Passes
            <7> QED
              BY <2>3, <3>1, <5>2, <7>1, DictionaryMoves
              DEF DictionaryStep, Enters, ExitsDictionary, Exits, Moves
          <6>2. grp[x] \in Objects /\ ~(length[grp[x]] >= Limit) /\ length[grp[x]] \in Int
            BY <2>3, <5>2, <6>1, CheckMoves DEF Checks, LengthType
          <6>3. length[grp[x]] = Cardinality(MembersOf(grp[x]))
            BY <2>3, <2>9, <5>1, <5>2, <6>2, ExactLength
          <6> QED
            BY <6>2, <6>3, LimitAssumption
        <5> QED
          BY <2>2, <2>3, <2>7, <4>2, <5>1, <5>2, StepLimited
      <4> QED
        BY <4>1, <4>2
    <3> QED
      BY <2>3, <2>4, <2>6, <2>7, <2>9, <3>2, <3>3, <3>4, <3>5 DEF FactoriesIInv
  <2> QED
    BY <2>3, <2>8, <2>9
<1> QED
  BY <1>1, <1>2

THEOREM Invariance == FactoriesSpec => []FactoriesIInv
<1> QED
  BY InitFactories, StepFactories, PTL DEF FactoriesSpec

\* The variables of the groups keep their types with either factory: no
\* membership count, entry of addedGroups or rest of an enumeration becomes
\* negative, every connection works on an object that was created, and an
\* ImmutableArrayGroup never takes a step of a ConcurrentDictionaryGroup.
THEOREM Typing == FactoriesSpec => []FactoriesTypeOK
<1>1. FactoriesIInv => FactoriesTypeOK
  <2> SUFFICES ASSUME FactoriesIInv PROVE FactoriesTypeOK
    OBVIOUS
  <2>1. HubType
    BY DEF FactoriesIInv, HubIInv
  <2>2. Dictionary!TypeOK
    <3>1. Dictionary!HubTypeOK(DictionarySteps)
      BY <2>1, SameHub DEF HubType
    <3>2. length \in [Dictionary!Objects -> Int]
      BY SameHub DEF FactoriesIInv, LengthType
    <3> QED
      BY <3>1, <3>2 DEF Dictionary!TypeOK, DictionarySteps
  <2>3. factory = "array" => TypeOK
    <3> SUFFICES ASSUME factory = "array" PROVE TypeOK
      OBVIOUS
    <3>1. pc \in [Connections -> {"idle", "checking", "creating", "adding", "recording", "storing",
                                  "removing", "disposing", "gone"} \cup {}]
      BY <2>1 DEF FactoriesIInv, HubType, HubTypeOK
    <3> QED
      BY <2>1, <3>1 DEF HubType, HubTypeOK, TypeOK
  <2> QED
    BY <2>2, <2>3 DEF FactoriesIInv, FactoriesTypeOK
<1> QED
  BY <1>1, Invariance, PTL

\* "if disconnected, automatically leaved from group": once DisposeAsync of a
\* connection has returned the connection is in no group object, however often
\* it joined and left, whatever the other connections did meanwhile and
\* whichever kind of group object it used.
THEOREM LeavesAllGroups == FactoriesSpec => []GoneIsNoMember
<1>1. HubIInv => GoneIsNoMember
  <2> SUFFICES ASSUME HubIInv, NEW x \in Connections, pc[x] = "gone", NEW o \in Objects
               PROVE  members[o][x] = 0
    BY DEF GoneIsNoMember
  <2>1. closing[x] /\ todo[x][o] = 0
    BY DEF HubIInv, ClosingPlaces, NothingLeft, None
  <2>2. members[o][x] <= 0
    BY <2>1 DEF HubIInv, Accounted, InTransit
  <2> QED
    BY <2>2 DEF HubIInv, HubType, HubTypeOK
<1>2. FactoriesIInv => HubIInv
  BY DEF FactoriesIInv
<1> QED
  BY <1>1, <1>2, Invariance, PTL

\* The in-memory storage of a group has entries of members only, and of
\* connections that are between leaving the dictionary of members and the
\* storage.
THEOREM StorageHasMembers == FactoriesSpec => []StorageOfMembers
<1>1. FactoriesIInv => StorageOfMembers
  <2> SUFFICES ASSUME HubIInv, NEW o \in Objects, NEW y \in storage[o]
               PROVE  y \in MembersOf(o) \cup At(o, "uncounting") \cup At(o, "forgetting")
    BY DEF FactoriesIInv, StorageOfMembers
  <2>1. y \in Connections
    BY DEF HubIInv, HubType, HubTypeOK
  <2> QED
    BY <2>1 DEF HubIInv, DataHeld, MembersOf, At
<1> QED
  BY <1>1, Invariance, PTL

\* The dictionary of the repository does not keep an object that nobody is in,
\* about to join, or about to unregister.
THEOREM EmptyUnregistered == FactoriesSpec => []EmptyIsUnregistered
<1>1. FactoriesIInv => EmptyIsUnregistered
  BY DEF FactoriesIInv
<1> QED
  BY <1>1, Invariance, PTL

\* approximatelyLength of a ConcurrentDictionaryGroup is off by no more than the
\* joins and leaves that are between the dictionary of members and the counter.
THEOREM CountsMembers == FactoriesSpec => []LengthAccurate
<1>1. FactoriesIInv => LengthAccurate
  BY AccurateLength DEF FactoriesIInv, LengthAccurate
<1> QED
  BY <1>1, Invariance, PTL

\* With ImmutableArrayGroup, as long as joins and leaves do not overlap, every
\* member of a name is in the object that the next one to join gets.
THEOREM KeepsTogether == FactoriesSpec => []SerializedKeepsTogether
<1>1. FactoriesIInv => SerializedKeepsTogether
  BY DEF FactoriesIInv, Together, SerializedKeepsTogether, JoinedIsRegistered
<1> QED
  BY <1>1, Invariance, PTL

\* TryAddAsync keeps a group object at its limit with either factory, as long
\* as joins and leaves do not overlap and nobody joins by AddAsync.
THEOREM KeepsLimit == FactoriesSpec => []SerializedLimit
<1>1. FactoriesIInv => SerializedLimit
  BY DEF FactoriesIInv, Limited, SerializedLimit
<1> QED
  BY <1>1, Invariance, PTL
-----------------------------------------------------------------------------
(* Broadcasts: the promise of GroupBroadcast, whatever joins and leaves     *)
(* while a Write method walks over the members.                             *)

\* Nobody is in the array twice, and WriteAll and WriteTo get the ids they have
\* parameters for.
Distinct(s) == \A i, j \in DOMAIN s : s[i] = s[j] => i = j

ArrayTypes ==
  /\ array \in Seq(Receivers)
  /\ source \in [Senders -> Seq(Receivers)]
  /\ index \in [Senders -> Nat \ {0}]
  /\ method \in [Senders -> Methods \cup {"none"}]
  /\ ids \in [Senders -> SUBSET Receivers]
  /\ left \in [Senders -> SUBSET Receivers]

ArrayIInv ==
  /\ ArrayTypes
  /\ Distinct(array)
  /\ \A s \in Senders :
       /\ Distinct(source[s])
       /\ method[s] = "WriteAll" => ids[s] = {}
       /\ method[s] = "WriteToOne" => \E x \in Receivers : ids[s] = {x}

DictionaryTypes ==
  /\ keys \in SUBSET Receivers
  /\ method \in [Senders -> DictionaryGroup!Walks \cup DictionaryGroup!Lookups \cup {"none"}]
  /\ ids \in [Senders -> SUBSET Receivers]
  /\ ahead \in [Senders -> SUBSET Receivers]
  /\ current \in [Senders -> Receivers \cup {Nobody}]
  /\ since \in [Senders -> SUBSET Receivers]

\* Where a walk over the dictionary is: the member it has found is behind it,
\* and a lookup only finds given ids.
DictionaryIInv ==
  /\ DictionaryTypes
  /\ \A s \in Senders :
       /\ since[s] \subseteq keys
       /\ current[s] \notin ahead[s]
       /\ method[s] = "none" => current[s] = Nobody /\ ahead[s] = {}
       /\ method[s] \in DictionaryGroup!Lookups =>
            ahead[s] \subseteq ids[s] /\ current[s] \in ids[s] \cup {Nobody}

BroadcastsIInv ==
  /\ kind \in {"array", "dictionary"}
  /\ kind = "array" => ArrayIInv
  /\ kind = "dictionary" => DictionaryIInv
-----------------------------------------------------------------------------
(* Removing an entry of a sequence.                                         *)
LEMMA RemovedEntries ==
  ASSUME NEW S, NEW q \in Seq(S), NEW k \in DOMAIN q
  PROVE  LET r == ArrayGroup!RemoveAt(q, k) IN
         /\ r \in Seq(S) /\ Len(r) = Len(q) - 1
         /\ \A i \in 1..(Len(q) - 1) : r[i] = q[IF i < k THEN i ELSE i + 1]
<1> DEFINE a == SubSeq(q, 1, k - 1)
           b == SubSeq(q, k + 1, Len(q))
<1>1. k \in 1..Len(q) /\ Len(q) \in Nat
  OBVIOUS
<1>2. a \in Seq(S) /\ Len(a) = k - 1 /\ \A i \in 1..(k - 1) : a[i] = q[i]
  BY <1>1
<1>3. b \in Seq(S) /\ Len(b) = Len(q) - k /\ \A i \in 1..(Len(q) - k) : b[i] = q[k + i]
  BY <1>1
<1> HIDE DEF a, b
<1>4. /\ a \o b \in Seq(S) /\ Len(a \o b) = Len(a) + Len(b)
      /\ \A i \in 1..(Len(a) + Len(b)) : (a \o b)[i] = IF i <= Len(a) THEN a[i] ELSE b[i - Len(a)]
  BY <1>2, <1>3, ConcatProperties, Zenon
<1> DEFINE c == a \o b
<1> HIDE DEF c
<1>6. /\ c \in Seq(S) /\ Len(c) = Len(q) - 1
      /\ \A i \in 1..(Len(q) - 1) : c[i] = IF i < k THEN a[i] ELSE b[i - (k - 1)]
  <2>1. Len(a) + Len(b) = Len(q) - 1
    BY <1>1, <1>2, <1>3
  <2>2. \A i \in 1..(Len(q) - 1) : c[i] = IF i <= k - 1 THEN a[i] ELSE b[i - (k - 1)]
    BY <1>2, <1>4, <2>1, Zenon DEF c
  <2>3. \A i \in 1..(Len(q) - 1) : i <= k - 1 <=> i < k
    BY <1>1
  <2> QED
    BY <1>4, <2>1, <2>2, <2>3, Zenon DEF c
<1>5. \A i \in 1..(Len(q) - 1) : c[i] = q[IF i < k THEN i ELSE i + 1]
  <2> SUFFICES ASSUME NEW i \in 1..(Len(q) - 1) PROVE c[i] = q[IF i < k THEN i ELSE i + 1]
    OBVIOUS
  <2>1. CASE i < k
    BY <2>1, <1>1, <1>2, <1>6
  <2>2. CASE i >= k
    <3>1. i - (k - 1) \in 1..(Len(q) - k) /\ k + (i - (k - 1)) = i + 1
      BY <2>2, <1>1
    <3>2. b[i - (k - 1)] = q[i + 1]
      BY <3>1, <1>3
    <3> QED
      BY <2>2, <3>2, <1>1, <1>6
  <2>3. i < k \/ i >= k
    BY <1>1
  <2> QED
    BY <2>1, <2>2, <2>3, Zenon
<1> QED
  BY <1>5, <1>6 DEF a, b, c, ArrayGroup!RemoveAt

LEMMA RemovedDistinct ==
  ASSUME NEW S, NEW q \in Seq(S), Distinct(q), NEW k \in DOMAIN q
  PROVE  LET r == ArrayGroup!RemoveAt(q, k) IN
         /\ Distinct(r)
         /\ ArrayGroup!ToSet(r) = ArrayGroup!ToSet(q) \ {q[k]}
<1> DEFINE r == ArrayGroup!RemoveAt(q, k)
           Before(i) == IF i < k THEN i ELSE i + 1
<1>1. /\ r \in Seq(S) /\ Len(r) = Len(q) - 1
      /\ \A i \in 1..(Len(q) - 1) : r[i] = q[Before(i)]
  BY RemovedEntries
<1> HIDE DEF r
<1>2. DOMAIN r = 1..(Len(q) - 1) /\ DOMAIN q = 1..Len(q) /\ k \in 1..Len(q)
  BY <1>1
<1>3. \A i \in DOMAIN r : Before(i) \in DOMAIN q \ {k}
  BY <1>2
<1>4. \A i, j \in DOMAIN r : Before(i) = Before(j) => i = j
  BY <1>2
<1>5. Distinct(r)
  BY <1>1, <1>2, <1>3, <1>4 DEF Distinct
<1>6. \A j \in DOMAIN q \ {k} : \E i \in DOMAIN r : Before(i) = j
  <2> SUFFICES ASSUME NEW j \in DOMAIN q \ {k} PROVE \E i \in DOMAIN r : Before(i) = j
    OBVIOUS
  <2>1. CASE j < k
    BY <2>1, <1>2
  <2>2. CASE j > k
    <3>1. j - 1 \in DOMAIN r /\ Before(j - 1) = j
      BY <2>2, <1>2
    <3> QED
      BY <3>1
  <2> QED
    BY <2>1, <2>2, <1>2
<1>7. ArrayGroup!ToSet(r) \subseteq ArrayGroup!ToSet(q) \ {q[k]}
  BY <1>1, <1>2, <1>3 DEF ArrayGroup!ToSet, Distinct
<1>8. ArrayGroup!ToSet(q) \ {q[k]} \subseteq ArrayGroup!ToSet(r)
  BY <1>1, <1>2, <1>6 DEF ArrayGroup!ToSet
<1> QED
  BY <1>5, <1>7, <1>8 DEF r
-----------------------------------------------------------------------------
\* What the promise sees of an ImmutableArrayGroup.
LEMMA ArrayShown ==
  ASSUME kind = "array"
  PROVE  /\ Group = ArrayGroup!Members
         /\ To = [s \in Senders |-> ArrayGroup!Addressed(s)]
         /\ Must = [s \in Senders |-> ArrayGroup!Must(s)]
         /\ May = [s \in Senders |-> ArrayGroup!May(s)]
BY DEF Group, To, Must, May, Of

LEMMA ArrayShownNext ==
  ASSUME kind' = "array"
  PROVE  /\ Group' = ArrayGroup!Members'
         /\ To' = [s \in Senders |-> ArrayGroup!Addressed(s)']
         /\ Must' = [s \in Senders |-> ArrayGroup!Must(s)']
         /\ May' = [s \in Senders |-> ArrayGroup!May(s)']
BY DEF Group, To, Must, May, Of

LEMMA ArraySame ==
  ASSUME NEW s \in Senders,
         source'[s] = source[s], index'[s] = index[s], method'[s] = method[s], ids'[s] = ids[s]
  PROVE  /\ ArrayGroup!Addressed(s)' = ArrayGroup!Addressed(s)
         /\ ArrayGroup!May(s)' = ArrayGroup!May(s)
         /\ left'[s] = left[s] => ArrayGroup!Must(s)' = ArrayGroup!Must(s)
BY DEF ArrayGroup!Addressed, ArrayGroup!May, ArrayGroup!Must

LEMMA ArrayReach ==
  ASSUME ArrayTypes, NEW s \in Senders
  PROVE  /\ ArrayGroup!Addressed(s) \in SUBSET Receivers
         /\ ArrayGroup!May(s) \in SUBSET ArrayGroup!Addressed(s)
         /\ ArrayGroup!Must(s) \in SUBSET ArrayGroup!May(s)
<1>1. ids[s] \in SUBSET Receivers
  BY DEF ArrayTypes
<1>2. ArrayGroup!Addressed(s) \in SUBSET Receivers
  BY <1>1 DEF ArrayGroup!Addressed
<1> QED
  BY <1>2 DEF ArrayGroup!May, ArrayGroup!Must

LEMMA ArrayJoin ==
  ASSUME kind = "array", kind' = "array", ArrayIInv,
         NEW x \in Receivers, ArrayGroup!Join(x)
  PROVE  Promise!Join(x) /\ ArrayIInv'
<1>1. /\ array \in Seq(Receivers) /\ x \notin ArrayGroup!ToSet(array)
      /\ array' = Append(array, x)
      /\ UNCHANGED <<source, index, method, ids, left, sent, received>>
  BY DEF ArrayGroup!Join, ArrayIInv, ArrayTypes
<1>2. /\ array' \in Seq(Receivers) /\ Len(array') = Len(array) + 1
      /\ \A i \in DOMAIN array : array'[i] = array[i]
      /\ array'[Len(array) + 1] = x
      /\ DOMAIN array = 1..Len(array) /\ DOMAIN array' = 1..(Len(array) + 1)
  BY <1>1
<1>3. DOMAIN array' = DOMAIN array \cup {Len(array) + 1} /\ Len(array) + 1 \notin DOMAIN array
  BY <1>2
<1>4. ArrayGroup!Members' = ArrayGroup!Members \cup {x}
  BY <1>2, <1>3 DEF ArrayGroup!Members, ArrayGroup!ToSet
<1>5. ArrayIInv'
  <2>1. Distinct(array')
    BY <1>1, <1>2, <1>3 DEF ArrayIInv, Distinct, ArrayGroup!ToSet
  <2> QED
    BY <1>1, <1>2, <2>1 DEF ArrayIInv, ArrayTypes
<1>6. \A s \in Senders : /\ ArrayGroup!Addressed(s)' = ArrayGroup!Addressed(s)
                         /\ ArrayGroup!May(s)' = ArrayGroup!May(s)
                         /\ ArrayGroup!Must(s)' = ArrayGroup!Must(s)
  BY <1>1, ArraySame
<1>7. To' = To /\ Must' = Must /\ May' = May
  BY <1>6, ArrayShown, ArrayShownNext
<1>8. May \in [Senders -> SUBSET Receivers]
  BY ArrayShown, ArrayReach DEF ArrayIInv
<1>9. \A s \in Senders : May'[s] \in {May[s], May[s] \cup ({x} \cap To[s])}
  BY <1>7
<1>10. x \notin Group /\ Group' = Group \cup {x}
  BY <1>1, <1>4, ArrayShown, ArrayShownNext DEF ArrayGroup!Members
<1> QED
  BY <1>1, <1>5, <1>7, <1>8, <1>9, <1>10 DEF Promise!Join
LEMMA ArrayLeave ==
  ASSUME kind = "array", kind' = "array", ArrayIInv,
         NEW x \in Receivers, ArrayGroup!Leave(x)
  PROVE  Promise!Leave(x) /\ ArrayIInv'
<1>1. PICK i \in DOMAIN array : array[i] = x /\ array' = ArrayGroup!RemoveAt(array, i)
  BY DEF ArrayGroup!Leave
<1>2. /\ array \in Seq(Receivers) /\ Distinct(array)
      /\ left \in [Senders -> SUBSET Receivers]
  BY DEF ArrayIInv, ArrayTypes
<1>3. /\ left' = [s \in Senders |-> IF method[s] = "none" THEN {} ELSE left[s] \cup {x}]
      /\ UNCHANGED <<source, index, method, ids, sent, received>>
  BY DEF ArrayGroup!Leave
<1>4. array' \in Seq(Receivers)
  BY <1>1, <1>2, RemovedEntries
<1>5. Distinct(array') /\ ArrayGroup!ToSet(array') = ArrayGroup!ToSet(array) \ {x}
  BY <1>1, <1>2, RemovedDistinct
<1>6. ArrayIInv'
  BY <1>2, <1>3, <1>4, <1>5 DEF ArrayIInv, ArrayTypes
<1>7. \A s \in Senders : /\ ArrayGroup!Addressed(s)' = ArrayGroup!Addressed(s)
                         /\ ArrayGroup!May(s)' = ArrayGroup!May(s)
                         /\ ArrayGroup!Must(s)' = ArrayGroup!Must(s) \ {x}
  <2> SUFFICES ASSUME NEW s \in Senders
               PROVE  /\ ArrayGroup!Addressed(s)' = ArrayGroup!Addressed(s)
                      /\ ArrayGroup!May(s)' = ArrayGroup!May(s)
                      /\ ArrayGroup!Must(s)' = ArrayGroup!Must(s) \ {x}
    OBVIOUS
  <2>1. /\ ArrayGroup!Addressed(s)' = ArrayGroup!Addressed(s)
        /\ ArrayGroup!May(s)' = ArrayGroup!May(s)
    BY <1>3, ArraySame
  <2>2. CASE method[s] = "none"
    <3>1. ArrayGroup!Addressed(s) = {}
      BY <2>2 DEF ArrayGroup!Addressed
    <3>2. ArrayGroup!May(s) = {}
      BY <3>1, ArrayReach DEF ArrayIInv
    <3> QED
      BY <2>1, <3>2 DEF ArrayGroup!Must
  <2>3. CASE method[s] # "none"
    <3>1. left'[s] = left[s] \cup {x}
      BY <2>3, <1>3
    <3> QED
      BY <2>1, <3>1 DEF ArrayGroup!Must
  <2> QED
    BY <2>2, <2>3
<1>8. To' = To /\ May' = May /\ Must' = [s \in Senders |-> Must[s] \ {x}]
  BY <1>7, ArrayShown, ArrayShownNext
<1>9. May \in [Senders -> SUBSET Receivers]
  BY ArrayShown, ArrayReach DEF ArrayIInv
<1>10. \A s \in Senders : May'[s] \in {May[s], May[s] \ {x}}
  BY <1>8
<1>11. x \in Group /\ Group' = Group \ {x}
  BY <1>1, <1>2, <1>5, ArrayShown, ArrayShownNext DEF ArrayGroup!Members, ArrayGroup!ToSet
<1> QED
  BY <1>3, <1>6, <1>8, <1>9, <1>10, <1>11 DEF Promise!Leave

LEMMA ArrayStart ==
  ASSUME kind = "array", kind' = "array", ArrayIInv, NEW s \in Senders,
         NEW m \in Methods, NEW given \in ArrayGroup!IdsOf(m), ArrayGroup!Start(s, m, given)
  PROVE  (\E addressed \in SUBSET Receivers : Promise!Start(s, addressed)) /\ ArrayIInv'
<1>1. /\ ArrayTypes /\ Distinct(array)
      /\ method[s] = "none"
      /\ method' = [method EXCEPT ![s] = m]
      /\ ids' = [ids EXCEPT ![s] = given]
      /\ source' = [source EXCEPT ![s] = array]
      /\ index' = [index EXCEPT ![s] = 1]
      /\ left' = [left EXCEPT ![s] = {}]
      /\ sent' = [sent EXCEPT ![s] = @ + 1]
      /\ array' = array /\ received' = received
  BY DEF ArrayGroup!Start, ArrayIInv
<1>2. /\ method'[s] = m /\ ids'[s] = given /\ source'[s] = array /\ index'[s] = 1 /\ left'[s] = {}
      /\ \A t \in Senders \ {s} : /\ method'[t] = method[t] /\ ids'[t] = ids[t]
                                  /\ source'[t] = source[t] /\ index'[t] = index[t]
                                  /\ left'[t] = left[t]
  BY <1>1 DEF ArrayTypes
<1>3. m \in ArrayGroup!AllMethods /\ m # "none"
  BY MethodsAssumption DEF ArrayGroup!AllMethods
<1>4. /\ given \in SUBSET Receivers
      /\ m = "WriteAll" => given = {}
      /\ m = "WriteToOne" => \E x \in Receivers : given = {x}
  BY <1>3 DEF ArrayGroup!IdsOf, ArrayGroup!AllMethods
<1>5. ArrayIInv'
  <2>1. ArrayTypes'
    BY <1>1, <1>4 DEF ArrayTypes
  <2>2. \A t \in Senders :
          /\ Distinct(source'[t])
          /\ method'[t] = "WriteAll" => ids'[t] = {}
          /\ method'[t] = "WriteToOne" => \E x \in Receivers : ids'[t] = {x}
    <3> SUFFICES ASSUME NEW t \in Senders
                 PROVE  /\ Distinct(source'[t])
                        /\ method'[t] = "WriteAll" => ids'[t] = {}
                        /\ method'[t] = "WriteToOne" => \E x \in Receivers : ids'[t] = {x}
      OBVIOUS
    <3>1. CASE t = s
      BY <3>1, <1>1, <1>2, <1>4
    <3>2. CASE t # s
      BY <3>2, <1>2 DEF ArrayIInv
    <3> QED
      BY <3>1, <3>2
  <2> QED
    BY <1>1, <2>1, <2>2 DEF ArrayIInv
<1> DEFINE addressed == ArrayGroup!Addressed(s)'
<1>6. addressed \in SUBSET Receivers
  BY <1>2, <1>4 DEF ArrayGroup!Addressed
<1>7. ArrayGroup!Addressed(s) = {} /\ ArrayGroup!May(s) = {} /\ ArrayGroup!Must(s) = {}
  BY <1>1 DEF ArrayGroup!Addressed, ArrayGroup!May, ArrayGroup!Must
<1>8. /\ ArrayGroup!May(s)' = addressed \cap ArrayGroup!Members
      /\ ArrayGroup!Must(s)' = addressed \cap ArrayGroup!Members
  <2>1. ArrayGroup!May(s)' = {array[i] : i \in 1..Len(array)} \cap addressed
    BY <1>2 DEF ArrayGroup!May
  <2>2. DOMAIN array = 1..Len(array)
    BY <1>1 DEF ArrayTypes
  <2> QED
    BY <1>2, <2>1, <2>2 DEF ArrayGroup!Must, ArrayGroup!Members, ArrayGroup!ToSet
<1>9. \A t \in Senders \ {s} : /\ ArrayGroup!Addressed(t)' = ArrayGroup!Addressed(t)
                               /\ ArrayGroup!May(t)' = ArrayGroup!May(t)
                               /\ ArrayGroup!Must(t)' = ArrayGroup!Must(t)
  BY <1>2, ArraySame
<1> HIDE DEF addressed
<1>10. /\ To' = [To EXCEPT ![s] = addressed]
       /\ Must' = [Must EXCEPT ![s] = addressed \cap Group]
       /\ May' = [May EXCEPT ![s] = addressed \cap Group]
       /\ Must[s] = {} /\ May[s] = {}
       /\ Group' = Group
  BY <1>1, <1>7, <1>8, <1>9, ArrayShown, ArrayShownNext DEF addressed, ArrayGroup!Members
<1>11. Promise!Start(s, addressed)
  BY <1>1, <1>10 DEF Promise!Start
<1> QED
  BY <1>5, <1>6, <1>11
\* The loop writes to those the method is meant for.
LEMMA SelectsAddressed ==
  ASSUME ArrayIInv, "WriteToRaw" \notin Methods, NEW s \in Senders, method[s] # "none",
         NEW x \in Receivers
  PROVE  ArrayGroup!Selects(method[s], ids[s], x) <=> x \in ArrayGroup!Addressed(s)
<1>1. method[s] \in ArrayGroup!AllMethods \ {"WriteToRaw"}
  BY MethodsAssumption DEF ArrayIInv, ArrayTypes
<1>2. method[s] = "WriteAll" => ids[s] = {}
  BY DEF ArrayIInv
<1>3. CASE method[s] = "WriteAll"
  BY <1>2, <1>3 DEF ArrayGroup!Selects, ArrayGroup!Addressed
<1>4. CASE method[s] \in {"WriteExceptOne", "WriteExceptMany", "WriteExceptRaw"}
  BY <1>4 DEF ArrayGroup!Selects, ArrayGroup!Addressed
<1>5. CASE method[s] \in {"WriteToOne", "WriteToMany"}
  BY <1>5 DEF ArrayGroup!Selects, ArrayGroup!Addressed
<1> QED
  BY <1>1, <1>3, <1>4, <1>5 DEF ArrayGroup!AllMethods

LEMMA ArrayWriteNext ==
  ASSUME kind = "array", kind' = "array", ArrayIInv, "WriteToRaw" \notin Methods,
         NEW s \in Senders, ArrayGroup!WriteNext(s)
  PROVE  /\ (\E x \in Receivers : Promise!Write(s, x)) \/ UNCHANGED Promise!vars
         /\ ArrayIInv'
<1> DEFINE n == Len(source[s])
           i == index[s]
           x == source[s][i]
           next == IF method[s] = "WriteToOne" /\ x \in ids[s] THEN n + 1 ELSE i + 1
<1>1. /\ ArrayTypes
      /\ method[s] # "none" /\ i \in 1..n
      /\ source[s] \in Seq(Receivers) /\ n \in Nat
      /\ index' = [index EXCEPT ![s] = next]
      /\ received' = ArrayGroup!Queued(s, x)
      /\ UNCHANGED <<array, source, method, ids, left, sent>>
  BY DEF ArrayGroup!WriteNext, ArrayIInv, ArrayTypes
<1>2. x \in Receivers /\ next \in Nat \ {0}
  BY <1>1
<1>3. ArrayIInv'
  <2>1. ArrayTypes'
    BY <1>1, <1>2 DEF ArrayTypes
  <2> QED
    BY <1>1, <2>1 DEF ArrayIInv
<1>4. index'[s] = next /\ \A t \in Senders \ {s} : index'[t] = index[t]
  BY <1>1 DEF ArrayTypes
<1>5. ArrayGroup!Addressed(s)' = ArrayGroup!Addressed(s)
  BY <1>1 DEF ArrayGroup!Addressed
<1> DEFINE A == ArrayGroup!Addressed(s)
<1>6. /\ ArrayGroup!May(s) = {source[s][j] : j \in i..n} \cap A
      /\ ArrayGroup!May(s)' = {source[s][j] : j \in next..n} \cap A
  BY <1>1, <1>4, <1>5 DEF ArrayGroup!May
<1>7. \A j, k \in 1..n : source[s][j] = source[s][k] => j = k
  BY <1>1 DEF ArrayIInv, Distinct
<1>8. ArrayGroup!May(s)' = ArrayGroup!May(s) \ {x}
  <2>1. CASE method[s] = "WriteToOne" /\ x \in ids[s]
    <3>1. A = {x}
      BY <2>1 DEF ArrayIInv, ArrayGroup!Addressed
    <3>2. next = n + 1 /\ next..n = {}
      BY <1>1, <2>1
    <3> HIDE DEF next
    <3> QED
      BY <1>6, <3>1, <3>2
  <2>2. CASE ~(method[s] = "WriteToOne" /\ x \in ids[s])
    <3>1. next = i + 1
      BY <2>2
    <3>2. /\ i..n = {i} \cup next..n
          /\ \A j \in next..n : j \in 1..n /\ j # i
      BY <1>1, <3>1
    <3>3. \A j \in next..n : source[s][j] # x
      BY <1>1, <1>7, <3>2
    <3> HIDE DEF next
    <3> QED
      BY <1>6, <3>2, <3>3
  <2> QED
    BY <2>1, <2>2
<1>9. ArrayGroup!Must(s)' = ArrayGroup!Must(s) \ {x}
  BY <1>1, <1>8 DEF ArrayGroup!Must
<1>10. x \in {source[s][j] : j \in i..n}
  BY <1>1
<1> HIDE DEF x, next, i, n, A
<1>11. \A t \in Senders \ {s} : /\ ArrayGroup!Addressed(t)' = ArrayGroup!Addressed(t)
                                /\ ArrayGroup!May(t)' = ArrayGroup!May(t)
                                /\ ArrayGroup!Must(t)' = ArrayGroup!Must(t)
  BY <1>1, <1>4, ArraySame
<1>12. /\ To' = To
       /\ Must' = [Must EXCEPT ![s] = @ \ {x}]
       /\ May' = [May EXCEPT ![s] = @ \ {x}]
       /\ Group' = Group
  BY <1>1, <1>5, <1>8, <1>9, <1>11, ArrayShown, ArrayShownNext DEF ArrayGroup!Members
<1>13. CASE ArrayGroup!Selects(method[s], ids[s], x)
  <2>1. x \in A
    BY <1>1, <1>2, <1>13, SelectsAddressed DEF A
  <2>2. x \in May[s]
    BY <1>6, <1>10, <2>1, ArrayShown DEF A
  <2>3. received' = [received EXCEPT ![x] = Append(@, <<s, sent[s]>>)]
    BY <1>1, <1>13 DEF ArrayGroup!Queued
  <2>4. Promise!Write(s, x)
    BY <1>1, <1>12, <2>2, <2>3 DEF Promise!Write
  <2> QED
    BY <1>2, <1>3, <2>4
<1>14. CASE ~ArrayGroup!Selects(method[s], ids[s], x)
  <2>1. x \notin A
    BY <1>1, <1>2, <1>14, SelectsAddressed DEF A
  <2>2. x \notin ArrayGroup!May(s) /\ x \notin ArrayGroup!Must(s)
    BY <1>6, <2>1 DEF A, ArrayGroup!Must
  <2>3. Must' = Must /\ May' = May
    BY <1>8, <1>9, <1>11, <2>2, ArrayShown, ArrayShownNext
  <2>4. received' = received
    BY <1>1, <1>14 DEF ArrayGroup!Queued
  <2> QED
    BY <1>1, <1>3, <1>12, <2>3, <2>4 DEF Promise!vars
<1> QED
  BY <1>13, <1>14

LEMMA ArrayReturn ==
  ASSUME kind = "array", kind' = "array", ArrayIInv, NEW s \in Senders, ArrayGroup!Return(s)
  PROVE  Promise!Finish(s) /\ ArrayIInv'
<1>1. /\ ArrayTypes
      /\ index[s] > Len(source[s])
      /\ method' = [method EXCEPT ![s] = "none"]
      /\ ids' = [ids EXCEPT ![s] = {}]
      /\ left' = [left EXCEPT ![s] = {}]
      /\ source' = [source EXCEPT ![s] = <<>>]
      /\ index' = [index EXCEPT ![s] = 1]
      /\ UNCHANGED <<array, sent, received>>
  BY DEF ArrayGroup!Return, ArrayIInv
<1>2. /\ method'[s] = "none" /\ ids'[s] = {} /\ source'[s] = <<>>
      /\ \A t \in Senders \ {s} : /\ method'[t] = method[t] /\ ids'[t] = ids[t]
                                  /\ source'[t] = source[t] /\ index'[t] = index[t]
                                  /\ left'[t] = left[t]
  BY <1>1 DEF ArrayTypes
<1>3. ArrayIInv'
  <2>1. ArrayTypes'
    BY <1>1 DEF ArrayTypes
  <2>2. Distinct(<<>>)
    BY DEF Distinct
  <2>3. \A t \in Senders :
          /\ Distinct(source'[t])
          /\ method'[t] = "WriteAll" => ids'[t] = {}
          /\ method'[t] = "WriteToOne" => \E x \in Receivers : ids'[t] = {x}
    BY <1>2, <2>2 DEF ArrayIInv
  <2> QED
    BY <1>1, <2>1, <2>3 DEF ArrayIInv
<1>4. ArrayGroup!May(s) = {} /\ ArrayGroup!Must(s) = {}
  <2>1. index[s]..Len(source[s]) = {}
    BY <1>1 DEF ArrayTypes
  <2> QED
    BY <2>1 DEF ArrayGroup!May, ArrayGroup!Must
<1>5. /\ ArrayGroup!Addressed(s)' = {}
      /\ ArrayGroup!May(s)' = {} /\ ArrayGroup!Must(s)' = {}
  BY <1>2 DEF ArrayGroup!Addressed, ArrayGroup!May, ArrayGroup!Must
<1>6. \A t \in Senders \ {s} : /\ ArrayGroup!Addressed(t)' = ArrayGroup!Addressed(t)
                               /\ ArrayGroup!May(t)' = ArrayGroup!May(t)
                               /\ ArrayGroup!Must(t)' = ArrayGroup!Must(t)
  BY <1>2, ArraySame
<1>7. /\ To' = [To EXCEPT ![s] = {}]
      /\ May' = [May EXCEPT ![s] = {}]
  BY <1>5, <1>6, ArrayShown, ArrayShownNext
<1>8. Must' = Must
  <2>1. \A t \in Senders : ArrayGroup!Must(t)' = ArrayGroup!Must(t)
    BY <1>4, <1>5, <1>6
  <2> QED
    BY <2>1, ArrayShown, ArrayShownNext
<1>9. Must[s] = {} /\ Group' = Group
  BY <1>1, <1>4, ArrayShown, ArrayShownNext DEF ArrayGroup!Members
<1> QED
  BY <1>1, <1>3, <1>7, <1>8, <1>9 DEF Promise!Finish

LEMMA ArrayRefines ==
  ASSUME kind = "array", kind' = "array", ArrayIInv, "WriteToRaw" \notin Methods, ArrayGroup!Next
  PROVE  (Promise!Next \/ UNCHANGED Promise!vars) /\ ArrayIInv'
<1>1. CASE \E x \in Receivers : ArrayGroup!Join(x)
  BY <1>1, ArrayJoin DEF Promise!Next
<1>2. CASE \E x \in Receivers : ArrayGroup!Leave(x)
  BY <1>2, ArrayLeave DEF Promise!Next
<1>3. CASE \E s \in Senders, m \in Methods : \E given \in ArrayGroup!IdsOf(m) : ArrayGroup!Start(s, m, given)
  BY <1>3, ArrayStart DEF Promise!Next
<1>4. CASE \E s \in Senders : ArrayGroup!WriteNext(s)
  BY <1>4, ArrayWriteNext DEF Promise!Next
<1>5. CASE \E s \in Senders : ArrayGroup!Return(s)
  BY <1>5, ArrayReturn DEF Promise!Next
<1> QED
  BY <1>1, <1>2, <1>3, <1>4, <1>5 DEF ArrayGroup!Next
-----------------------------------------------------------------------------
\* What the promise sees of a ConcurrentDictionaryGroup.
LEMMA DictionaryShown ==
  ASSUME kind = "dictionary"
  PROVE  /\ Group = keys
         /\ To = [s \in Senders |-> DictionaryGroup!Addressed(s)]
         /\ Must = [s \in Senders |-> DictionaryGroup!Must(s)]
         /\ May = [s \in Senders |-> DictionaryGroup!May(s)]
BY DEF Group, To, Must, May, Of

LEMMA DictionaryShownNext ==
  ASSUME kind' = "dictionary"
  PROVE  /\ Group' = keys'
         /\ To' = [s \in Senders |-> DictionaryGroup!Addressed(s)']
         /\ Must' = [s \in Senders |-> DictionaryGroup!Must(s)']
         /\ May' = [s \in Senders |-> DictionaryGroup!May(s)']
BY DEF Group, To, Must, May, Of

LEMMA DictionarySame ==
  ASSUME NEW s \in Senders,
         method'[s] = method[s], ids'[s] = ids[s], ahead'[s] = ahead[s], current'[s] = current[s]
  PROVE  /\ DictionaryGroup!Addressed(s)' = DictionaryGroup!Addressed(s)
         /\ keys' = keys => DictionaryGroup!May(s)' = DictionaryGroup!May(s)
         /\ since'[s] = since[s] => DictionaryGroup!Must(s)' = DictionaryGroup!Must(s)
BY DEF DictionaryGroup!Addressed, DictionaryGroup!May, DictionaryGroup!Must

LEMMA DictionaryReach ==
  ASSUME DictionaryTypes, NEW s \in Senders
  PROVE  /\ DictionaryGroup!Addressed(s) \in SUBSET Receivers
         /\ DictionaryGroup!May(s) \in SUBSET Receivers
<1>1. ids[s] \in SUBSET Receivers
  BY DEF DictionaryTypes
<1>2. DictionaryGroup!Addressed(s) \in SUBSET Receivers
  BY <1>1 DEF DictionaryGroup!Addressed
<1> QED
  BY <1>2 DEF DictionaryGroup!May

\* A sender that is in no method addresses nobody.
LEMMA DictionaryIdle ==
  ASSUME NEW s \in Senders, method[s] = "none"
  PROVE  /\ DictionaryGroup!Addressed(s) = {}
         /\ DictionaryGroup!Must(s) = {} /\ DictionaryGroup!May(s) = {}
BY DEF DictionaryGroup!Addressed, DictionaryGroup!Must, DictionaryGroup!May,
       DictionaryGroup!Walks, DictionaryGroup!Lookups

LEMMA DictionaryJoin ==
  ASSUME kind = "dictionary", kind' = "dictionary", DictionaryIInv,
         NEW x \in Receivers, DictionaryGroup!Join(x)
  PROVE  Promise!Join(x) /\ DictionaryIInv'
<1>1. /\ DictionaryTypes /\ x \notin keys /\ keys' = keys \cup {x}
      /\ UNCHANGED <<method, ids, ahead, current, since, sent, received>>
  BY DEF DictionaryGroup!Join, DictionaryIInv
<1>2. DictionaryIInv'
  <2>1. DictionaryTypes'
    BY <1>1 DEF DictionaryTypes
  <2> QED
    BY <1>1, <2>1 DEF DictionaryIInv
<1>3. \A s \in Senders : /\ DictionaryGroup!Addressed(s)' = DictionaryGroup!Addressed(s)
                         /\ DictionaryGroup!Must(s)' = DictionaryGroup!Must(s)
  BY <1>1, DictionarySame
<1>4. \A s \in Senders :
        DictionaryGroup!May(s)' \in
          {DictionaryGroup!May(s), DictionaryGroup!May(s) \cup ({x} \cap DictionaryGroup!Addressed(s))}
  <2> SUFFICES ASSUME NEW s \in Senders
               PROVE  DictionaryGroup!May(s)' \in
                        {DictionaryGroup!May(s),
                         DictionaryGroup!May(s) \cup ({x} \cap DictionaryGroup!Addressed(s))}
    OBVIOUS
  <2>1. DictionaryGroup!May(s)' =
          DictionaryGroup!Addressed(s) \cap ((ahead[s] \cap (keys \cup {x})) \cup {current[s]})
    BY <1>1, <1>3 DEF DictionaryGroup!May
  <2>2. CASE x \in ahead[s]
    BY <2>1, <2>2 DEF DictionaryGroup!May
  <2>3. CASE x \notin ahead[s]
    BY <2>1, <2>3 DEF DictionaryGroup!May
  <2> QED
    BY <2>2, <2>3
<1>5. To' = To /\ Must' = Must
  BY <1>3, DictionaryShown, DictionaryShownNext
<1>6. May' \in [Senders -> SUBSET Receivers]
  <2>1. \A s \in Senders : DictionaryGroup!May(s)' \in SUBSET Receivers
    BY <1>1, <1>4, DictionaryReach
  <2> QED
    BY <2>1, DictionaryShownNext
<1>7. \A s \in Senders : May'[s] \in {May[s], May[s] \cup ({x} \cap To[s])}
  BY <1>4, DictionaryShown, DictionaryShownNext
<1>8. x \notin Group /\ Group' = Group \cup {x}
  BY <1>1, DictionaryShown, DictionaryShownNext
<1> QED
  BY <1>1, <1>2, <1>5, <1>6, <1>7, <1>8 DEF Promise!Join

LEMMA DictionaryLeave ==
  ASSUME kind = "dictionary", kind' = "dictionary", DictionaryIInv,
         NEW x \in Receivers, DictionaryGroup!Leave(x)
  PROVE  Promise!Leave(x) /\ DictionaryIInv'
<1>1. /\ DictionaryTypes /\ x \in keys /\ keys' = keys \ {x}
      /\ since' = [s \in Senders |-> since[s] \ {x}]
      /\ UNCHANGED <<method, ids, ahead, current, sent, received>>
  BY DEF DictionaryGroup!Leave, DictionaryIInv
<1>2. DictionaryIInv'
  <2>1. DictionaryTypes'
    BY <1>1 DEF DictionaryTypes
  <2> QED
    BY <1>1, <2>1 DEF DictionaryIInv
<1>3. \A s \in Senders : DictionaryGroup!Addressed(s)' = DictionaryGroup!Addressed(s)
  BY <1>1, DictionarySame
<1>4. \A s \in Senders : DictionaryGroup!Must(s)' = DictionaryGroup!Must(s) \ {x}
  BY <1>1, <1>3 DEF DictionaryGroup!Must
<1>5. \A s \in Senders :
        DictionaryGroup!May(s)' \in {DictionaryGroup!May(s), DictionaryGroup!May(s) \ {x}}
  <2> SUFFICES ASSUME NEW s \in Senders
               PROVE  DictionaryGroup!May(s)' \in {DictionaryGroup!May(s), DictionaryGroup!May(s) \ {x}}
    OBVIOUS
  <2>1. DictionaryGroup!May(s)' =
          DictionaryGroup!Addressed(s) \cap ((ahead[s] \cap (keys \ {x})) \cup {current[s]})
    BY <1>1, <1>3 DEF DictionaryGroup!May
  <2>2. CASE x = current[s]
    BY <2>1, <2>2 DEF DictionaryGroup!May, DictionaryIInv
  <2>3. CASE x # current[s]
    BY <2>1, <2>3 DEF DictionaryGroup!May
  <2> QED
    BY <2>2, <2>3
<1>6. To' = To /\ Must' = [s \in Senders |-> Must[s] \ {x}]
  BY <1>3, <1>4, DictionaryShown, DictionaryShownNext
<1>7. May' \in [Senders -> SUBSET Receivers]
  <2>1. \A s \in Senders : DictionaryGroup!May(s)' \in SUBSET Receivers
    BY <1>1, <1>5, DictionaryReach
  <2> QED
    BY <2>1, DictionaryShownNext
<1>8. \A s \in Senders : May'[s] \in {May[s], May[s] \ {x}}
  BY <1>5, DictionaryShown, DictionaryShownNext
<1>9. x \in Group /\ Group' = Group \ {x}
  BY <1>1, DictionaryShown, DictionaryShownNext
<1> QED
  BY <1>1, <1>2, <1>6, <1>7, <1>8, <1>9 DEF Promise!Leave
LEMMA DictionaryStart ==
  ASSUME kind = "dictionary", kind' = "dictionary", DictionaryIInv, NEW s \in Senders,
         NEW m \in DictionaryGroup!Walks \cup DictionaryGroup!Lookups,
         NEW given \in DictionaryGroup!IdsOf(m), DictionaryGroup!Start(s, m, given)
  PROVE  (\E addressed \in SUBSET Receivers : Promise!Start(s, addressed)) /\ DictionaryIInv'
<1> DEFINE first == IF m \in DictionaryGroup!Walks THEN Receivers ELSE given
<1>1. /\ DictionaryTypes
      /\ method[s] = "none"
      /\ method' = [method EXCEPT ![s] = m]
      /\ ids' = [ids EXCEPT ![s] = given]
      /\ ahead' = [ahead EXCEPT ![s] = first]
      /\ since' = [since EXCEPT ![s] = keys]
      /\ sent' = [sent EXCEPT ![s] = @ + 1]
      /\ UNCHANGED <<keys, current, received>>
  BY DEF DictionaryGroup!Start, DictionaryIInv
<1>2. given \in SUBSET Receivers
  BY DEF DictionaryGroup!IdsOf
<1>3. first \in SUBSET Receivers
  BY <1>2
<1>4. current[s] = Nobody
  BY <1>1 DEF DictionaryIInv
<1>5. m # "none" /\ (m \in DictionaryGroup!Lookups => m \notin DictionaryGroup!Walks)
  BY DEF DictionaryGroup!Walks, DictionaryGroup!Lookups
<1>6. /\ method'[s] = m /\ ids'[s] = given /\ ahead'[s] = first /\ since'[s] = keys
      /\ current'[s] = Nobody
      /\ \A t \in Senders \ {s} : /\ method'[t] = method[t] /\ ids'[t] = ids[t]
                                  /\ ahead'[t] = ahead[t] /\ current'[t] = current[t]
                                  /\ since'[t] = since[t]
  BY <1>1, <1>4 DEF DictionaryTypes
<1>7. DictionaryIInv'
  <2>1. DictionaryTypes'
    BY <1>1, <1>2, <1>3 DEF DictionaryTypes
  <2>2. ASSUME NEW t \in Senders
        PROVE  /\ since'[t] \subseteq keys'
               /\ current'[t] \notin ahead'[t]
               /\ method'[t] = "none" => current'[t] = Nobody /\ ahead'[t] = {}
               /\ method'[t] \in DictionaryGroup!Lookups =>
                    ahead'[t] \subseteq ids'[t] /\ current'[t] \in ids'[t] \cup {Nobody}
    <3>1. CASE t = s
      BY <1>1, <1>3, <1>5, <1>6, <3>1, NobodyAssumption
    <3>2. CASE t # s
      BY <1>1, <1>6, <3>2 DEF DictionaryIInv
    <3> QED
      BY <3>1, <3>2
  <2> QED
    BY <2>1, <2>2 DEF DictionaryIInv
<1> DEFINE addressed == DictionaryGroup!Addressed(s)'
<1>8. addressed \in SUBSET Receivers
  BY <1>2, <1>6 DEF DictionaryGroup!Addressed
<1>9. addressed \subseteq first
  <2>1. CASE m \in DictionaryGroup!Walks
    BY <1>8, <2>1
  <2>2. CASE m \in DictionaryGroup!Lookups
    BY <1>5, <1>6, <2>2 DEF DictionaryGroup!Addressed
  <2> QED
    BY <2>1, <2>2
<1>10. /\ DictionaryGroup!May(s)' = addressed \cap keys
       /\ DictionaryGroup!Must(s)' = addressed \cap keys
  <2>1. /\ DictionaryGroup!May(s)' = addressed \cap ((first \cap keys) \cup {Nobody})
        /\ DictionaryGroup!Must(s)' = addressed \cap keys \cap (first \cup {Nobody})
    BY <1>1, <1>6 DEF DictionaryGroup!May, DictionaryGroup!Must
  <2> HIDE DEF first, addressed
  <2> QED
    BY <1>8, <1>9, <2>1, NobodyAssumption
<1>11. \A t \in Senders \ {s} : /\ DictionaryGroup!Addressed(t)' = DictionaryGroup!Addressed(t)
                                /\ DictionaryGroup!May(t)' = DictionaryGroup!May(t)
                                /\ DictionaryGroup!Must(t)' = DictionaryGroup!Must(t)
  BY <1>1, <1>6, DictionarySame
<1> HIDE DEF addressed
<1>12. Must[s] = {} /\ May[s] = {} /\ Group' = Group
  BY <1>1, DictionaryIdle, DictionaryShown, DictionaryShownNext
<1>13. /\ To' = [To EXCEPT ![s] = addressed]
       /\ Must' = [Must EXCEPT ![s] = addressed \cap Group]
       /\ May' = [May EXCEPT ![s] = addressed \cap Group]
  BY <1>10, <1>11, DictionaryShown, DictionaryShownNext DEF addressed
<1>14. Promise!Start(s, addressed)
  BY <1>1, <1>12, <1>13 DEF Promise!Start
<1> QED
  BY <1>7, <1>8, <1>14

\* The enumerator or the look-up finds a member: nothing the promise sees.
LEMMA DictionaryFind ==
  ASSUME kind = "dictionary", kind' = "dictionary", DictionaryIInv,
         NEW s \in Senders, NEW x \in Receivers, DictionaryGroup!Find(s, x)
  PROVE  UNCHANGED Promise!vars /\ DictionaryIInv'
<1>1. /\ DictionaryTypes
      /\ current[s] = Nobody /\ x \in ahead[s] /\ x \in keys
      /\ current' = [current EXCEPT ![s] = x]
      /\ ahead' = [ahead EXCEPT ![s] = @ \ {x}]
      /\ UNCHANGED <<keys, method, ids, since, sent, received>>
  BY DEF DictionaryGroup!Find, DictionaryIInv
<1>2. /\ current'[s] = x /\ ahead'[s] = ahead[s] \ {x}
      /\ \A t \in Senders \ {s} : current'[t] = current[t] /\ ahead'[t] = ahead[t]
  BY <1>1 DEF DictionaryTypes
<1>3. DictionaryIInv'
  <2>1. DictionaryTypes'
    BY <1>1 DEF DictionaryTypes
  <2>2. ASSUME NEW t \in Senders
        PROVE  /\ since'[t] \subseteq keys'
               /\ current'[t] \notin ahead'[t]
               /\ method'[t] = "none" => current'[t] = Nobody /\ ahead'[t] = {}
               /\ method'[t] \in DictionaryGroup!Lookups =>
                    ahead'[t] \subseteq ids'[t] /\ current'[t] \in ids'[t] \cup {Nobody}
    <3>1. CASE t = s
      BY <1>1, <1>2, <3>1 DEF DictionaryIInv
    <3>2. CASE t # s
      BY <1>1, <1>2, <3>2 DEF DictionaryIInv
    <3> QED
      BY <3>1, <3>2
  <2> QED
    BY <2>1, <2>2 DEF DictionaryIInv
<1>4. \A t \in Senders : DictionaryGroup!Addressed(t)' = DictionaryGroup!Addressed(t)
  BY <1>1 DEF DictionaryGroup!Addressed
<1>5. Nobody \notin DictionaryGroup!Addressed(s)
  BY <1>1, DictionaryReach, NobodyAssumption
<1>6. /\ DictionaryGroup!Must(s)' = DictionaryGroup!Must(s)
      /\ DictionaryGroup!May(s)' = DictionaryGroup!May(s)
  BY <1>1, <1>2, <1>4, <1>5 DEF DictionaryGroup!Must, DictionaryGroup!May
<1>7. \A t \in Senders \ {s} : /\ DictionaryGroup!Must(t)' = DictionaryGroup!Must(t)
                               /\ DictionaryGroup!May(t)' = DictionaryGroup!May(t)
  BY <1>1, <1>2, DictionarySame
<1>8. /\ \A t \in Senders : DictionaryGroup!Must(t)' = DictionaryGroup!Must(t)
      /\ \A t \in Senders : DictionaryGroup!May(t)' = DictionaryGroup!May(t)
  BY <1>6, <1>7
<1>9. To' = To /\ Must' = Must /\ May' = May /\ Group' = Group
  BY <1>1, <1>4, <1>8, DictionaryShown, DictionaryShownNext
<1> QED
  BY <1>1, <1>3, <1>9 DEF Promise!vars

\* A look-up finds no member.
LEMMA DictionaryMiss ==
  ASSUME kind = "dictionary", kind' = "dictionary", DictionaryIInv,
         NEW s \in Senders, NEW x \in Receivers, DictionaryGroup!Miss(s, x)
  PROVE  UNCHANGED Promise!vars /\ DictionaryIInv'
<1>1. /\ DictionaryTypes
      /\ x \in ahead[s] /\ x \notin keys /\ since[s] \subseteq keys
      /\ current[s] = Nobody
      /\ ahead' = [ahead EXCEPT ![s] = @ \ {x}]
      /\ UNCHANGED <<keys, method, ids, current, since, sent, received>>
  BY DEF DictionaryGroup!Miss, DictionaryIInv
<1>2. /\ ahead'[s] = ahead[s] \ {x}
      /\ \A t \in Senders \ {s} : ahead'[t] = ahead[t]
  BY <1>1 DEF DictionaryTypes
<1>3. DictionaryIInv'
  <2>1. DictionaryTypes'
    BY <1>1 DEF DictionaryTypes
  <2>2. ASSUME NEW t \in Senders
        PROVE  /\ since'[t] \subseteq keys'
               /\ current'[t] \notin ahead'[t]
               /\ method'[t] = "none" => current'[t] = Nobody /\ ahead'[t] = {}
               /\ method'[t] \in DictionaryGroup!Lookups =>
                    ahead'[t] \subseteq ids'[t] /\ current'[t] \in ids'[t] \cup {Nobody}
    <3>1. CASE t = s
      BY <1>1, <1>2, <3>1 DEF DictionaryIInv
    <3>2. CASE t # s
      BY <1>1, <1>2, <3>2 DEF DictionaryIInv
    <3> QED
      BY <3>1, <3>2
  <2> QED
    BY <2>1, <2>2 DEF DictionaryIInv
<1>4. \A t \in Senders : DictionaryGroup!Addressed(t)' = DictionaryGroup!Addressed(t)
  BY <1>1 DEF DictionaryGroup!Addressed
<1>5. Nobody \notin DictionaryGroup!Addressed(s)
  BY <1>1, DictionaryReach, NobodyAssumption
<1>6. /\ DictionaryGroup!Must(s)' = DictionaryGroup!Must(s)
      /\ DictionaryGroup!May(s)' = DictionaryGroup!May(s)
  BY <1>1, <1>2, <1>4, <1>5 DEF DictionaryGroup!Must, DictionaryGroup!May
<1>7. \A t \in Senders \ {s} : /\ DictionaryGroup!Must(t)' = DictionaryGroup!Must(t)
                               /\ DictionaryGroup!May(t)' = DictionaryGroup!May(t)
  BY <1>1, <1>2, DictionarySame
<1>8. /\ \A t \in Senders : DictionaryGroup!Must(t)' = DictionaryGroup!Must(t)
      /\ \A t \in Senders : DictionaryGroup!May(t)' = DictionaryGroup!May(t)
  BY <1>6, <1>7
<1>9. To' = To /\ Must' = Must /\ May' = May /\ Group' = Group
  BY <1>1, <1>4, <1>8, DictionaryShown, DictionaryShownNext
<1> QED
  BY <1>1, <1>3, <1>9 DEF Promise!vars
LEMMA DictionaryWrite ==
  ASSUME kind = "dictionary", kind' = "dictionary", DictionaryIInv,
         NEW s \in Senders, DictionaryGroup!Write(s)
  PROVE  /\ (\E x \in Receivers : Promise!Write(s, x)) \/ UNCHANGED Promise!vars
         /\ DictionaryIInv'
<1> DEFINE x == current[s]
           passedOver == method[s] \in DictionaryGroup!Walks /\ x \in ids[s]
<1>1. /\ DictionaryTypes
      /\ x # Nobody /\ x \notin ahead[s]
      /\ current' = [current EXCEPT ![s] = Nobody]
      /\ received' = IF passedOver THEN received
                     ELSE [received EXCEPT ![x] = Append(@, <<s, sent[s]>>)]
      /\ UNCHANGED <<keys, method, ids, ahead, since, sent>>
  BY DEF DictionaryGroup!Write, DictionaryIInv
<1>2. x \in Receivers
  BY <1>1 DEF DictionaryTypes
<1>3. current'[s] = Nobody /\ \A t \in Senders \ {s} : current'[t] = current[t]
  BY <1>1 DEF DictionaryTypes
<1>4. DictionaryIInv'
  <2>1. DictionaryTypes'
    BY <1>1 DEF DictionaryTypes
  <2>2. ASSUME NEW t \in Senders
        PROVE  /\ since'[t] \subseteq keys'
               /\ current'[t] \notin ahead'[t]
               /\ method'[t] = "none" => current'[t] = Nobody /\ ahead'[t] = {}
               /\ method'[t] \in DictionaryGroup!Lookups =>
                    ahead'[t] \subseteq ids'[t] /\ current'[t] \in ids'[t] \cup {Nobody}
    <3>1. CASE t = s
      <4>1. Nobody \notin ahead[s]
        BY <1>1, NobodyAssumption DEF DictionaryTypes
      <4> QED
        BY <1>1, <1>3, <3>1, <4>1 DEF DictionaryIInv
    <3>2. CASE t # s
      BY <1>1, <1>3, <3>2 DEF DictionaryIInv
    <3> QED
      BY <3>1, <3>2
  <2> QED
    BY <2>1, <2>2 DEF DictionaryIInv
<1>5. \A t \in Senders : DictionaryGroup!Addressed(t)' = DictionaryGroup!Addressed(t)
  BY <1>1 DEF DictionaryGroup!Addressed
<1>6. x \in DictionaryGroup!Addressed(s) <=> ~passedOver
  <2>1. method[s] # "none"
    BY <1>1 DEF DictionaryIInv
  <2>2. CASE method[s] \in DictionaryGroup!Walks
    <3>1. DictionaryGroup!Addressed(s) = Receivers \ ids[s]
      BY <2>2 DEF DictionaryGroup!Addressed, DictionaryGroup!Walks, DictionaryGroup!Lookups
    <3>2. passedOver <=> x \in ids[s]
      BY <2>2, Zenon
    <3> HIDE DEF passedOver, x
    <3> QED
      BY <1>2, <3>1, <3>2
  <2>3. CASE method[s] \in DictionaryGroup!Lookups
    <3>1. method[s] \notin DictionaryGroup!Walks
      BY <2>3 DEF DictionaryGroup!Walks, DictionaryGroup!Lookups
    <3>2. x \in ids[s]
      BY <1>1, <2>3 DEF DictionaryIInv
    <3> QED
      BY <2>3, <3>1, <3>2 DEF DictionaryGroup!Addressed
  <2> QED
    BY <1>1, <2>1, <2>2, <2>3 DEF DictionaryTypes
<1>7. Nobody \notin DictionaryGroup!Addressed(s)
  BY <1>1, DictionaryReach, NobodyAssumption
<1>8. /\ DictionaryGroup!Must(s)' = DictionaryGroup!Must(s) \ {x}
      /\ DictionaryGroup!May(s)' = DictionaryGroup!May(s) \ {x}
  BY <1>1, <1>3, <1>5, <1>7 DEF DictionaryGroup!Must, DictionaryGroup!May
<1>9. ~passedOver => x \in DictionaryGroup!May(s)
  BY <1>6 DEF DictionaryGroup!May
<1>10. passedOver => x \notin DictionaryGroup!May(s) /\ x \notin DictionaryGroup!Must(s)
  BY <1>6 DEF DictionaryGroup!May, DictionaryGroup!Must
<1> HIDE DEF x, passedOver
<1>11. \A t \in Senders \ {s} : /\ DictionaryGroup!Must(t)' = DictionaryGroup!Must(t)
                                /\ DictionaryGroup!May(t)' = DictionaryGroup!May(t)
  BY <1>1, <1>3, DictionarySame
<1>12. To' = To /\ Group' = Group
  BY <1>1, <1>5, DictionaryShown, DictionaryShownNext
<1>13. CASE ~passedOver
  <2>1. /\ Must' = [Must EXCEPT ![s] = @ \ {x}]
        /\ May' = [May EXCEPT ![s] = @ \ {x}]
    BY <1>8, <1>11, DictionaryShown, DictionaryShownNext
  <2>2. x \in May[s]
    BY <1>9, <1>13, DictionaryShown
  <2>3. Promise!Write(s, x)
    BY <1>1, <1>12, <1>13, <2>1, <2>2 DEF Promise!Write
  <2> QED
    BY <1>2, <1>4, <2>3
<1>14. CASE passedOver
  <2>1. /\ \A t \in Senders : DictionaryGroup!Must(t)' = DictionaryGroup!Must(t)
        /\ \A t \in Senders : DictionaryGroup!May(t)' = DictionaryGroup!May(t)
    BY <1>8, <1>10, <1>11, <1>14
  <2>2. Must' = Must /\ May' = May
    BY <2>1, DictionaryShown, DictionaryShownNext
  <2> QED
    BY <1>1, <1>4, <1>12, <1>14, <2>2 DEF Promise!vars
<1> QED
  BY <1>13, <1>14

LEMMA DictionaryReturn ==
  ASSUME kind = "dictionary", kind' = "dictionary", DictionaryIInv,
         NEW s \in Senders, DictionaryGroup!Return(s)
  PROVE  Promise!Finish(s) /\ DictionaryIInv'
<1>1. /\ DictionaryTypes
      /\ method[s] # "none" /\ current[s] = Nobody
      /\ ahead[s] \cap (IF method[s] \in DictionaryGroup!Walks THEN since[s] ELSE Receivers) = {}
      /\ method' = [method EXCEPT ![s] = "none"]
      /\ ids' = [ids EXCEPT ![s] = {}]
      /\ ahead' = [ahead EXCEPT ![s] = {}]
      /\ since' = [since EXCEPT ![s] = {}]
      /\ UNCHANGED <<keys, current, sent, received>>
  BY DEF DictionaryGroup!Return, DictionaryIInv
<1>2. /\ method'[s] = "none" /\ ids'[s] = {} /\ ahead'[s] = {} /\ since'[s] = {}
      /\ \A t \in Senders \ {s} : /\ method'[t] = method[t] /\ ids'[t] = ids[t]
                                  /\ ahead'[t] = ahead[t] /\ since'[t] = since[t]
  BY <1>1 DEF DictionaryTypes
<1>3. DictionaryIInv'
  <2>1. DictionaryTypes'
    BY <1>1 DEF DictionaryTypes
  <2>2. ASSUME NEW t \in Senders
        PROVE  /\ since'[t] \subseteq keys'
               /\ current'[t] \notin ahead'[t]
               /\ method'[t] = "none" => current'[t] = Nobody /\ ahead'[t] = {}
               /\ method'[t] \in DictionaryGroup!Lookups =>
                    ahead'[t] \subseteq ids'[t] /\ current'[t] \in ids'[t] \cup {Nobody}
    <3>1. CASE t = s
      BY <1>1, <1>2, <3>1
    <3>2. CASE t # s
      BY <1>1, <1>2, <3>2 DEF DictionaryIInv
    <3> QED
      BY <3>1, <3>2
  <2> QED
    BY <2>1, <2>2 DEF DictionaryIInv
<1>4. DictionaryGroup!Must(s) = {}
  <2>1. DictionaryGroup!Addressed(s) \subseteq Receivers /\ since[s] \subseteq Receivers
    BY <1>1, DictionaryReach DEF DictionaryTypes
  <2>2. ahead[s] \cap since[s] = {}
    BY <1>1, <2>1
  <2>3. Nobody \notin since[s]
    BY <2>1, NobodyAssumption
  <2> QED
    BY <1>1, <2>2, <2>3 DEF DictionaryGroup!Must
<1>5. /\ DictionaryGroup!Addressed(s)' = {}
      /\ DictionaryGroup!Must(s)' = {} /\ DictionaryGroup!May(s)' = {}
  BY <1>2 DEF DictionaryGroup!Addressed, DictionaryGroup!Must, DictionaryGroup!May,
              DictionaryGroup!Walks, DictionaryGroup!Lookups
<1>6. \A t \in Senders \ {s} : /\ DictionaryGroup!Addressed(t)' = DictionaryGroup!Addressed(t)
                               /\ DictionaryGroup!May(t)' = DictionaryGroup!May(t)
                               /\ DictionaryGroup!Must(t)' = DictionaryGroup!Must(t)
  BY <1>1, <1>2, DictionarySame
<1>7. /\ To' = [To EXCEPT ![s] = {}]
      /\ May' = [May EXCEPT ![s] = {}]
  BY <1>5, <1>6, DictionaryShown, DictionaryShownNext
<1>8. Must' = Must
  <2>1. \A t \in Senders : DictionaryGroup!Must(t)' = DictionaryGroup!Must(t)
    BY <1>4, <1>5, <1>6
  <2> QED
    BY <2>1, DictionaryShown, DictionaryShownNext
<1>9. Must[s] = {} /\ Group' = Group
  BY <1>1, <1>4, DictionaryShown, DictionaryShownNext
<1> QED
  BY <1>1, <1>3, <1>7, <1>8, <1>9 DEF Promise!Finish

LEMMA DictionaryRefines ==
  ASSUME kind = "dictionary", kind' = "dictionary", DictionaryIInv, DictionaryGroup!Next
  PROVE  (Promise!Next \/ UNCHANGED Promise!vars) /\ DictionaryIInv'
<1>1. CASE \E x \in Receivers : DictionaryGroup!Join(x)
  BY <1>1, DictionaryJoin DEF Promise!Next
<1>2. CASE \E x \in Receivers : DictionaryGroup!Leave(x)
  BY <1>2, DictionaryLeave DEF Promise!Next
<1>3. CASE \E s \in Senders, m \in DictionaryGroup!Walks \cup DictionaryGroup!Lookups :
             \E given \in DictionaryGroup!IdsOf(m) : DictionaryGroup!Start(s, m, given)
  BY <1>3, DictionaryStart DEF Promise!Next
<1>4. CASE \E s \in Senders : DictionaryGroup!Write(s)
  BY <1>4, DictionaryWrite DEF Promise!Next
<1>5. CASE \E s \in Senders : DictionaryGroup!Return(s)
  BY <1>5, DictionaryReturn DEF Promise!Next
<1>6. CASE \E s \in Senders, x \in Receivers : DictionaryGroup!Find(s, x)
  BY <1>6, DictionaryFind
<1>7. CASE \E s \in Senders, x \in Receivers : DictionaryGroup!Miss(s, x)
  BY <1>7, DictionaryMiss
<1> QED
  BY <1>1, <1>2, <1>3, <1>4, <1>5, <1>6, <1>7 DEF DictionaryGroup!Next, DictionaryGroup!SenderStep
-----------------------------------------------------------------------------
LEMMA InitPromise == BroadcastsInit => Promise!Init /\ BroadcastsIInv
<1> SUFFICES ASSUME BroadcastsInit PROVE Promise!Init /\ BroadcastsIInv
  OBVIOUS
<1>1. kind \in {"array", "dictionary"} /\ ArrayGroup!Init /\ DictionaryGroup!Init
  BY DEF BroadcastsInit
<1>2. ArrayIInv
  BY <1>1 DEF ArrayGroup!Init, ArrayIInv, ArrayTypes, Distinct
<1>3. DictionaryIInv
  BY <1>1, NobodyAssumption
  DEF DictionaryGroup!Init, DictionaryIInv, DictionaryTypes, DictionaryGroup!Lookups
<1>4. \A s \in Senders : /\ ArrayGroup!Addressed(s) = {}
                         /\ ArrayGroup!Must(s) = {} /\ ArrayGroup!May(s) = {}
  BY <1>1 DEF ArrayGroup!Init, ArrayGroup!Addressed, ArrayGroup!Must, ArrayGroup!May
<1>5. \A s \in Senders : /\ DictionaryGroup!Addressed(s) = {}
                         /\ DictionaryGroup!Must(s) = {} /\ DictionaryGroup!May(s) = {}
  BY <1>1, DictionaryIdle DEF DictionaryGroup!Init
<1>6. ArrayGroup!Members = {} /\ keys = {}
  BY <1>1 DEF ArrayGroup!Init, DictionaryGroup!Init, ArrayGroup!Members, ArrayGroup!ToSet
<1>7. /\ Group = {}
      /\ To = [s \in Senders |-> {}] /\ Must = [s \in Senders |-> {}] /\ May = [s \in Senders |-> {}]
  BY <1>1, <1>4, <1>5, <1>6, ArrayShown, DictionaryShown
<1>8. sent = [s \in Senders |-> 0] /\ received = [x \in Receivers |-> <<>>]
  BY <1>1 DEF ArrayGroup!Init
<1> QED
  BY <1>1, <1>2, <1>3, <1>7, <1>8 DEF Promise!Init, BroadcastsIInv

LEMMA StepPromise ==
  ASSUME "WriteToRaw" \notin Methods
  PROVE  BroadcastsIInv /\ [BroadcastsNext]_broadcastsVars => [Promise!Next]_Promise!vars /\ BroadcastsIInv'
<1> SUFFICES ASSUME BroadcastsIInv, [BroadcastsNext]_broadcastsVars
             PROVE  [Promise!Next]_Promise!vars /\ BroadcastsIInv'
  OBVIOUS
<1>1. CASE kind = "array" /\ kind' = kind /\ ArrayGroup!Next
  <2>1. (Promise!Next \/ UNCHANGED Promise!vars) /\ ArrayIInv'
    BY <1>1, ArrayRefines DEF BroadcastsIInv
  <2> QED
    BY <1>1, <2>1 DEF BroadcastsIInv
<1>2. CASE kind = "dictionary" /\ kind' = kind /\ DictionaryGroup!Next
  <2>1. (Promise!Next \/ UNCHANGED Promise!vars) /\ DictionaryIInv'
    BY <1>2, DictionaryRefines DEF BroadcastsIInv
  <2> QED
    BY <1>2, <2>1 DEF BroadcastsIInv
<1>3. CASE UNCHANGED broadcastsVars
  <2> USE <1>3 DEF broadcastsVars, arrayVars, dictionaryVars
  <2>1. BroadcastsIInv'
    BY DEF BroadcastsIInv, ArrayIInv, ArrayTypes, DictionaryIInv, DictionaryTypes
  <2>2. \A s \in Senders : /\ ArrayGroup!Addressed(s)' = ArrayGroup!Addressed(s)
                           /\ ArrayGroup!Must(s)' = ArrayGroup!Must(s)
                           /\ ArrayGroup!May(s)' = ArrayGroup!May(s)
    BY ArraySame
  <2>3. \A s \in Senders : /\ DictionaryGroup!Addressed(s)' = DictionaryGroup!Addressed(s)
                           /\ DictionaryGroup!Must(s)' = DictionaryGroup!Must(s)
                           /\ DictionaryGroup!May(s)' = DictionaryGroup!May(s)
    BY DictionarySame
  <2>4. To' = To /\ Must' = Must /\ May' = May
    BY <2>2, <2>3 DEF To, Must, May, Of
  <2>5. Group' = Group
    BY DEF Group, Of, ArrayGroup!Members, ArrayGroup!ToSet
  <2> QED
    BY <2>1, <2>4, <2>5 DEF Promise!vars
<1> QED
  BY <1>1, <1>2, <1>3 DEF BroadcastsNext

\* ImmutableArrayGroup and ConcurrentDictionaryGroup, the Write methods but
\* WriteToRawAsync: what a broadcast delivers is what GroupBroadcast allows, for
\* any connections, each a member once at most, and any senders: nobody gets a
\* message twice or one that is not for it, and a method does not return before
\* those who stay have got theirs.
THEOREM KeepsPromise ==
  ASSUME "WriteToRaw" \notin Methods
  PROVE  BroadcastsSafety => Promise!Safety
<1>1. BroadcastsInit => Promise!Init /\ BroadcastsIInv
  BY InitPromise
<1>2. BroadcastsIInv /\ [BroadcastsNext]_broadcastsVars => [Promise!Next]_Promise!vars /\ BroadcastsIInv'
  BY StepPromise
<1> QED
  BY <1>1, <1>2, PTL DEF BroadcastsSafety, Promise!Safety
=============================================================================
