-------------------------- MODULE RedisGroupsProofs -------------------------
(***************************************************************************)
(* Proofs about RedisGroups, for every number of servers, connections,     *)
(* objects, messages and failures: what holds until a Redis command fails, *)
(* and what holds in the situations of RedisSituations.                    *)
(***************************************************************************)
EXTENDS RedisSituations, FiniteSetTheorems, TLAPS

Labels == {"idle", "creating", "registering", "checking", "incrementing", "adding",
           "recording", "removing", "testing", "unregistering", "decrementing",
           "decrementingLast", "deleting", "unsubscribing", "disposing", "gone"}

\* The types the argument needs.
MemberTypes ==
  /\ inGroup \in [Connections -> SUBSET Objects]
  /\ added \in [Connections -> [Objects -> Nat]]
  /\ todo \in [Connections -> [Objects -> Nat]]

ControlTypes ==
  /\ pc \in [Connections -> Labels]
  /\ grp \in [Connections -> 0..MaxObjects]
  /\ closing \in [Connections -> BOOLEAN]

ObjectTypes ==
  /\ registered \in [Servers -> 0..MaxObjects]
  /\ created \in [Servers -> 0..MaxObjects]

\* A connection that is past GetOrAdd, or leaving, has a group object.
HasObject ==
  \A x \in Connections :
    pc[x] \in {"registering", "checking", "incrementing", "adding", "recording", "removing",
               "testing", "unregistering", "decrementing", "decrementingLast", "deleting",
               "unsubscribing"}
      => grp[x] \in Objects

TInv == MemberTypes /\ ControlTypes /\ ObjectTypes /\ HasObject /\ failures \in Nat

\* While DisposeAsync runs the connection enumerates, leaves a group, or is done.
Closing(x) ==
  /\ pc[x] = "disposing" => closing[x]
  /\ closing[x] => pc[x] \in {"disposing", "removing", "testing", "unregistering",
                              "decrementing", "decrementingLast", "deleting", "unsubscribing",
                              "gone"}

\* Without a failure a connection is gone when the enumeration of addedGroups
\* has come to its end.
NothingLeft(x) == failures = 0 /\ pc[x] = "gone" => closing[x] /\ todo[x] = None

\* DisposeAsync comes to every object x is in: addedGroups has it, or what is
\* left of the enumeration, unless it is in transit between these and the
\* in-memory group.
Accounted(x) ==
  \A o \in inGroup[x] :
    IF closing[x] THEN todo[x][o] > 0 \/ (pc[x] = "removing" /\ grp[x] = o)
                  ELSE added[x][o] > 0 \/ (pc[x] = "recording" /\ grp[x] = o)

Leaving == \A x \in Connections : Closing(x) /\ NothingLeft(x) /\ Accounted(x)

IInv == TInv /\ Leaving
-----------------------------------------------------------------------------
(***************************************************************************)
(* The types and the group object in hand.                                 *)
(***************************************************************************)
LEMMA ObjectsFacts == Objects \subseteq Nat /\ Objects \subseteq 0..MaxObjects /\ NoObject \in 0..MaxObjects
BY BoundsAssumption DEF Objects, NoObject

LEMMA NonZeroIsObject == ASSUME NEW o \in 0..MaxObjects, o # NoObject PROVE o \in Objects
BY BoundsAssumption DEF Objects, NoObject

LEMMA InitTInv == Init => TInv
<1> SUFFICES ASSUME Init PROVE TInv
  OBVIOUS
<1>1. None \in [Objects -> Nat]
  BY DEF None
<1>2. MemberTypes
  BY <1>1, Zenon DEF Init, MemberTypes
<1>3. closing \in [Connections -> BOOLEAN]
  BY Zenon DEF Init
<1>4. /\ pc \in [Connections -> Labels]
      /\ grp \in [Connections -> 0..MaxObjects]
      /\ ObjectTypes
  BY BoundsAssumption DEF Init, NoObject, ObjectTypes, Labels
<1>5. HasObject /\ failures \in Nat
  BY DEF Init, HasObject
<1> QED
  BY <1>2, <1>3, <1>4, <1>5, Zenon DEF TInv, ControlTypes

\* What a step of x leaves alone of the types, by the variables it changes.
LEMMA KeepsTypes ==
  ASSUME TInv
  PROVE  /\ UNCHANGED <<inGroup, added, todo>> => MemberTypes'
         /\ UNCHANGED <<registered, created>> => ObjectTypes'
BY DEF TInv, MemberTypes, ObjectTypes

\* A step that moves x to a label and to an object keeps the control types.
LEMMA KeepsControl ==
  ASSUME TInv, NEW x \in Connections, NEW l \in Labels, NEW o \in 0..MaxObjects,
         Goto(x, l), grp' = [grp EXCEPT ![x] = o],
         closing' = closing \/ closing' = [closing EXCEPT ![x] = TRUE],
         o \in Objects \/ l \in {"idle", "creating", "disposing", "gone"}
  PROVE  ControlTypes' /\ HasObject'
<1>1. pc' \in [Connections -> Labels] /\ grp' \in [Connections -> 0..MaxObjects]
  BY DEF TInv, ControlTypes, Goto
<1>2. closing' \in [Connections -> BOOLEAN]
  BY Zenon DEF TInv, ControlTypes
<1>3. HasObject'
  BY DEF TInv, ControlTypes, HasObject, Goto
<1> QED
  BY <1>1, <1>2, <1>3, Zenon DEF ControlTypes

\* The same for a step that stays at its object.
LEMMA KeepsObject ==
  ASSUME TInv, NEW x \in Connections, NEW l \in Labels, Goto(x, l), grp' = grp,
         closing' = closing \/ closing' = [closing EXCEPT ![x] = TRUE],
         grp[x] \in Objects \/ l \in {"idle", "creating", "disposing", "gone"}
  PROVE  ControlTypes' /\ HasObject'
<1>1. grp' = [grp EXCEPT ![x] = grp[x]] /\ grp[x] \in 0..MaxObjects
  BY DEF TInv, ControlTypes
<1> QED
  BY <1>1, KeepsControl

LEMMA JoiningTInv == ASSUME TInv, NEW x \in Connections, Joining(x), UNCHANGED failures PROVE TInv'
<1> USE DEF groupVars, connVars, msgVars, Labels
<1>0. /\ registered[Home[x]] \in 0..MaxObjects
      /\ failures' \in Nat
      /\ created[Home[x]] \in 0..MaxObjects
  BY HomeAssumption DEF TInv, ObjectTypes
<1>1. CASE Add(x)
  <2>1. CASE registered[Home[x]] = NoObject
    BY <1>0, <1>1, <2>1, KeepsTypes, KeepsObject DEF Add, TInv
  <2>2. CASE registered[Home[x]] # NoObject
    <3>1. registered[Home[x]] \in Objects
      BY <1>0, <2>2, NonZeroIsObject
    <3> QED
      BY <1>0, <1>1, <2>2, <3>1, KeepsTypes, KeepsControl DEF Add, TInv
  <2> QED
    BY <2>1, <2>2
<1>2. CASE TryAdd(x)
  <2>1. CASE registered[Home[x]] = NoObject
    BY <1>0, <1>2, <2>1, KeepsTypes, KeepsObject DEF TryAdd, TInv
  <2>2. CASE registered[Home[x]] # NoObject
    <3>1. registered[Home[x]] \in Objects
      BY <1>0, <2>2, NonZeroIsObject
    <3> QED
      BY <1>0, <1>2, <2>2, <3>1, KeepsTypes, KeepsControl DEF TryAdd, TInv
  <2> QED
    BY <2>1, <2>2
<1>3. CASE CheckLimit(x)
  <2>1. grp[x] \in Objects
    BY <1>3 DEF CheckLimit, TInv, HasObject
  <2> QED
    BY <1>0, <1>3, <2>1, KeepsTypes, KeepsObject DEF CheckLimit, TInv
<1>4. CASE CreateGroup(x)
  <2>1. created[Home[x]] + 1 \in Objects
    BY <1>0, <1>4, BoundsAssumption DEF CreateGroup, Objects
  <2>2. ObjectTypes'
    BY <1>4, <2>1, HomeAssumption, ObjectsFacts DEF CreateGroup, TInv, ObjectTypes
  <2>3. ControlTypes' /\ HasObject'
    BY <1>4, <2>1, ObjectsFacts, KeepsControl DEF CreateGroup
  <2> QED
    BY <1>0, <1>4, <2>2, <2>3, KeepsTypes DEF CreateGroup, TInv
<1>5. CASE RegisterGroup(x)
  <2>0. grp[x] \in Objects
    BY <1>5 DEF RegisterGroup, TInv, HasObject
  <2>1. CASE registered[Home[x]] = NoObject
    <3>1. ObjectTypes'
      BY <1>5, <2>0, <2>1, HomeAssumption, ObjectsFacts DEF RegisterGroup, TInv, ObjectTypes
    <3>2. ControlTypes' /\ HasObject'
      BY <1>5, <2>0, <2>1, KeepsObject DEF RegisterGroup
    <3> QED
      BY <1>0, <1>5, <3>1, <3>2, KeepsTypes DEF RegisterGroup, TInv
  <2>2. CASE registered[Home[x]] # NoObject
    <3>1. registered[Home[x]] \in Objects
      BY <1>0, <2>2, NonZeroIsObject
    <3>2. ControlTypes' /\ HasObject'
      BY <1>0, <1>5, <2>2, <3>1, KeepsControl DEF RegisterGroup
    <3> QED
      BY <1>0, <1>5, <2>2, <3>2, KeepsTypes DEF RegisterGroup, TInv
  <2> QED
    BY <2>1, <2>2
<1>6. CASE Increment(x)
  <2>1. grp[x] \in Objects
    BY <1>6 DEF Increment, TInv, HasObject
  <2> QED
    BY <1>0, <1>6, <2>1, KeepsTypes, KeepsObject DEF Increment, TInv
<1>7. CASE AddMember(x)
  <2>1. grp[x] \in Objects
    BY <1>7 DEF AddMember, TInv, HasObject
  <2>2. MemberTypes'
    BY <1>7, <2>1 DEF AddMember, TInv, MemberTypes
  <2>3. ControlTypes' /\ HasObject'
    BY <1>7, <2>1, KeepsObject DEF AddMember
  <2> QED
    BY <1>0, <1>7, <2>2, <2>3, KeepsTypes DEF AddMember, TInv
<1>8. CASE Record(x)
  <2>1. grp[x] \in Objects
    BY <1>8 DEF Record, TInv, HasObject
  <2>2. added[x] \in [Objects -> Nat] /\ added[x][grp[x]] + 1 \in Nat
    BY <2>1 DEF TInv, MemberTypes
  <2>3. MemberTypes'
    BY <1>8, <2>1, <2>2 DEF Record, TInv, MemberTypes
  <2>4. ControlTypes' /\ HasObject'
    BY <1>8, KeepsObject DEF Record
  <2> QED
    BY <1>0, <1>8, <2>3, <2>4, KeepsTypes DEF Record, TInv
<1> QED
  BY <1>1, <1>2, <1>3, <1>4, <1>5, <1>6, <1>7, <1>8 DEF Joining

LEMMA RemovingTInv == ASSUME TInv, NEW x \in Connections, Removing(x), UNCHANGED failures PROVE TInv'
<1> USE DEF groupVars, connVars, msgVars, Labels
<1>0. failures' \in Nat /\ NoObject \in 0..MaxObjects
  BY ObjectsFacts DEF TInv
<1>a. ASSUME pc[x] \in {"removing", "testing", "unregistering", "decrementing",
                       "decrementingLast", "deleting", "unsubscribing"}
      PROVE  grp[x] \in Objects
  BY <1>a DEF TInv, HasObject
<1>1. CASE RemoveMember(x)
  <2>1. MemberTypes'
    BY <1>1 DEF RemoveMember, TInv, MemberTypes
  <2>2. ControlTypes' /\ HasObject'
    BY <1>1, <1>a, KeepsObject DEF RemoveMember
  <2> QED
    BY <1>0, <1>1, <2>1, <2>2, KeepsTypes DEF RemoveMember, TInv
<1>2. CASE TestEmpty(x)
  BY <1>0, <1>2, <1>a, KeepsTypes, KeepsObject DEF TestEmpty, TInv
<1>3. CASE Unregister(x)
  <2>1. ObjectTypes'
    BY <1>0, <1>3, HomeAssumption DEF Unregister, TInv, ObjectTypes
  <2>2. ControlTypes' /\ HasObject'
    BY <1>3, <1>a, KeepsObject DEF Unregister
  <2> QED
    BY <1>0, <1>3, <2>1, <2>2, KeepsTypes DEF Unregister, TInv
<1>4. CASE Decrement(x)
  <2>1. ControlTypes' /\ HasObject'
    BY <1>4, <1>a, KeepsObject DEF Decrement, Removed
  <2> QED
    BY <1>0, <1>4, <2>1, KeepsTypes DEF Decrement, TInv
<1>5. CASE DeleteKey(x)
  BY <1>0, <1>5, <1>a, KeepsTypes, KeepsObject DEF DeleteKey, TInv
<1>6. CASE Unsubscribe(x)
  BY <1>0, <1>6, <1>a, KeepsTypes, KeepsObject DEF Unsubscribe, Removed, TInv
<1> QED
  BY <1>1, <1>2, <1>3, <1>4, <1>5, <1>6 DEF Removing

LEMMA DisposingTInv ==
  ASSUME TInv, NEW x \in Connections, UNCHANGED failures,
         Disposing(x) \/ \E o \in Objects : Leave(x, o)
  PROVE  TInv'
<1> USE DEF groupVars, connVars, msgVars, Labels
<1>0. failures' \in Nat /\ Objects \subseteq 0..MaxObjects
  BY ObjectsFacts DEF TInv
<1>1. CASE StartDispose(x)
  <2>1. MemberTypes'
    BY <1>1 DEF StartDispose, TInv, MemberTypes
  <2>2. ControlTypes' /\ HasObject'
    BY <1>1, KeepsObject DEF StartDispose
  <2> QED
    BY <1>0, <1>1, <2>1, <2>2, KeepsTypes DEF StartDispose, TInv
<1>2. CASE FinishDispose(x)
  BY <1>0, <1>2, KeepsTypes, KeepsObject DEF FinishDispose, TInv
<1>3. ASSUME NEW o \in Objects, DisposeNext(x, o) PROVE TInv'
  <2>1. todo[x] \in [Objects -> Nat] /\ todo[x][o] - 1 \in Nat
    BY <1>3 DEF DisposeNext, TInv, MemberTypes
  <2>2. MemberTypes'
    BY <1>3, <2>1 DEF DisposeNext, TInv, MemberTypes
  <2>3. ControlTypes' /\ HasObject'
    BY <1>0, <1>3, KeepsControl DEF DisposeNext
  <2> QED
    BY <1>0, <1>3, <2>2, <2>3, KeepsTypes DEF DisposeNext, TInv
<1>4. ASSUME NEW o \in Objects, Leave(x, o) PROVE TInv'
  BY <1>0, <1>4, KeepsTypes, KeepsControl DEF Leave, TInv
<1> QED
  BY <1>1, <1>2, <1>3, <1>4 DEF Disposing
-----------------------------------------------------------------------------
(***************************************************************************)
(* Ended connections are in no group.                                      *)
(***************************************************************************)

\* A step of x disturbs no other connection.
LEMMA OthersLeave ==
  ASSUME IInv, NEW x \in Connections, NEW l \in Labels, Goto(x, l), UNCHANGED failures,
         grp' = grp \/ (\E o \in 0..MaxObjects : grp' = [grp EXCEPT ![x] = o]),
         closing' = closing \/ closing' = [closing EXCEPT ![x] = TRUE],
         \A z \in Connections : z # x => inGroup'[z] = inGroup[z] /\ added'[z] = added[z]
                                         /\ todo'[z] = todo[z],
         Closing(x)', NothingLeft(x)', Accounted(x)'
  PROVE  Leaving'
<1> SUFFICES ASSUME NEW y \in Connections, y # x
             PROVE  Closing(y)' /\ NothingLeft(y)' /\ Accounted(y)'
  BY DEF Leaving
<1>1. /\ pc'[y] = pc[y] /\ grp'[y] = grp[y] /\ closing'[y] = closing[y]
      /\ inGroup'[y] = inGroup[y] /\ added'[y] = added[y] /\ todo'[y] = todo[y]
  BY DEF IInv, TInv, ControlTypes, Goto
<1>2. Closing(y) /\ NothingLeft(y) /\ Accounted(y)
  BY DEF IInv, Leaving
<1> QED
  BY <1>1, <1>2 DEF Closing, NothingLeft, Accounted

LEMMA JoiningLeaves == ASSUME IInv, NEW x \in Connections, Joining(x), UNCHANGED failures PROVE Leaving'
<1> USE DEF IInv, TInv, ControlTypes, MemberTypes, Goto, groupVars, connVars, msgVars, Labels
<1>0. Closing(x) /\ NothingLeft(x) /\ Accounted(x)
  BY DEF Leaving
<1>a. registered[Home[x]] \in 0..MaxObjects /\ created[Home[x]] \in 0..MaxObjects
  BY HomeAssumption DEF ObjectTypes
<1>1. CASE Add(x)
  <2>1. Closing(x)' /\ NothingLeft(x)' /\ Accounted(x)'
    BY <1>0, <1>1 DEF Add, Free, Closing, NothingLeft, Accounted
  <2> QED
    BY <1>1, <2>1, OthersLeave, <1>a DEF Add, Free
<1>2. CASE TryAdd(x)
  <2>1. Closing(x)' /\ NothingLeft(x)' /\ Accounted(x)'
    BY <1>0, <1>2 DEF TryAdd, Free, Closing, NothingLeft, Accounted
  <2> QED
    BY <1>2, <2>1, OthersLeave, <1>a DEF TryAdd, Free
<1>3. CASE CheckLimit(x)
  <2>1. Closing(x)' /\ NothingLeft(x)' /\ Accounted(x)'
    BY <1>0, <1>3 DEF CheckLimit, Closing, NothingLeft, Accounted
  <2> QED
    BY <1>3, <2>1, OthersLeave DEF CheckLimit
<1>4. CASE CreateGroup(x)
  <2>1. Closing(x)' /\ NothingLeft(x)' /\ Accounted(x)'
    BY <1>0, <1>4 DEF CreateGroup, Closing, NothingLeft, Accounted
  <2>2. created[Home[x]] + 1 \in 0..MaxObjects
    <3>1. created[Home[x]] < MaxObjects /\ MaxObjects \in Nat
      BY <1>4, BoundsAssumption DEF CreateGroup
    <3> HIDE DEF IInv
    <3> QED
      BY <1>a, <3>1
  <2> QED
    BY <1>4, <2>1, <2>2, OthersLeave DEF CreateGroup
<1>5. CASE RegisterGroup(x)
  <2>1. Closing(x)' /\ NothingLeft(x)' /\ Accounted(x)'
    BY <1>0, <1>5 DEF RegisterGroup, Closing, NothingLeft, Accounted
  <2> QED
    BY <1>5, <2>1, OthersLeave, <1>a DEF RegisterGroup
<1>6. CASE Increment(x)
  <2>1. Closing(x)' /\ NothingLeft(x)' /\ Accounted(x)'
    BY <1>0, <1>6 DEF Increment, Closing, NothingLeft, Accounted
  <2> QED
    BY <1>6, <2>1, OthersLeave DEF Increment
<1>7. CASE AddMember(x)
  <2>1. Closing(x)' /\ NothingLeft(x)' /\ Accounted(x)'
    BY <1>0, <1>7 DEF AddMember, Closing, NothingLeft, Accounted
  <2> QED
    BY <1>7, <2>1, OthersLeave DEF AddMember
<1>8. CASE Record(x)
  <2>1. Closing(x)' /\ NothingLeft(x)' /\ Accounted(x)'
    BY <1>0, <1>8 DEF Record, HasObject, Closing, NothingLeft, Accounted
  <2> QED
    BY <1>8, <2>1, OthersLeave DEF Record, HasObject
<1> QED
  BY <1>1, <1>2, <1>3, <1>4, <1>5, <1>6, <1>7, <1>8 DEF Joining

LEMMA RemovingLeaves == ASSUME IInv, NEW x \in Connections, Removing(x), UNCHANGED failures PROVE Leaving'
<1> USE DEF IInv, TInv, ControlTypes, MemberTypes, Goto, groupVars, connVars, msgVars, Labels
<1>0. Closing(x) /\ NothingLeft(x) /\ Accounted(x)
  BY DEF Leaving
<1>1. CASE RemoveMember(x)
  <2>1. Closing(x)' /\ NothingLeft(x)' /\ Accounted(x)'
    BY <1>0, <1>1 DEF RemoveMember, Closing, NothingLeft, Accounted
  <2> QED
    BY <1>1, <2>1, OthersLeave DEF RemoveMember
<1>2. CASE TestEmpty(x)
  <2>1. Closing(x)' /\ NothingLeft(x)' /\ Accounted(x)'
    BY <1>0, <1>2 DEF TestEmpty, Closing, NothingLeft, Accounted
  <2> QED
    BY <1>2, <2>1, OthersLeave DEF TestEmpty
<1>3. CASE Unregister(x)
  <2>1. Closing(x)' /\ NothingLeft(x)' /\ Accounted(x)'
    BY <1>0, <1>3 DEF Unregister, Closing, NothingLeft, Accounted
  <2> QED
    BY <1>3, <2>1, OthersLeave DEF Unregister
<1>4. CASE Decrement(x)
  <2>1. Closing(x)' /\ NothingLeft(x)' /\ Accounted(x)'
    BY <1>0, <1>4 DEF Decrement, Removed, Closing, NothingLeft, Accounted
  <2> QED
    BY <1>4, <2>1, OthersLeave DEF Decrement, Removed
<1>5. CASE DeleteKey(x)
  <2>1. Closing(x)' /\ NothingLeft(x)' /\ Accounted(x)'
    BY <1>0, <1>5 DEF DeleteKey, Closing, NothingLeft, Accounted
  <2> QED
    BY <1>5, <2>1, OthersLeave DEF DeleteKey
<1>6. CASE Unsubscribe(x)
  <2>1. Closing(x)' /\ NothingLeft(x)' /\ Accounted(x)'
    BY <1>0, <1>6 DEF Unsubscribe, Removed, Closing, NothingLeft, Accounted
  <2> QED
    BY <1>6, <2>1, OthersLeave DEF Unsubscribe, Removed
<1> QED
  BY <1>1, <1>2, <1>3, <1>4, <1>5, <1>6 DEF Removing

LEMMA DisposingLeaves ==
  ASSUME IInv, NEW x \in Connections, UNCHANGED failures,
         Disposing(x) \/ \E o \in Objects : Leave(x, o)
  PROVE  Leaving'
<1> USE DEF IInv, TInv, ControlTypes, MemberTypes, Goto, groupVars, connVars, msgVars, Labels
<1>0. Closing(x) /\ NothingLeft(x) /\ Accounted(x)
  BY DEF Leaving
<1>1. CASE StartDispose(x)
  <2>1. Closing(x)' /\ NothingLeft(x)' /\ Accounted(x)'
    BY <1>0, <1>1 DEF StartDispose, Free, Closing, NothingLeft, Accounted
  <2> QED
    BY <1>1, <2>1, OthersLeave DEF StartDispose, Free
<1>2. CASE FinishDispose(x)
  <2>1. Closing(x)' /\ NothingLeft(x)' /\ Accounted(x)'
    BY <1>0, <1>2 DEF FinishDispose, Closing, NothingLeft, Accounted
  <2> QED
    BY <1>2, <2>1, OthersLeave DEF FinishDispose
<1>3. ASSUME NEW o \in Objects, DisposeNext(x, o) PROVE Leaving'
  <2>1. Closing(x)' /\ NothingLeft(x)' /\ Accounted(x)'
    BY <1>0, <1>3 DEF DisposeNext, Closing, NothingLeft, Accounted
  <2> QED
    BY <1>3, <2>1, ObjectsFacts, OthersLeave DEF DisposeNext
<1>4. ASSUME NEW o \in Objects, Leave(x, o) PROVE Leaving'
  <2>1. Closing(x)' /\ NothingLeft(x)' /\ Accounted(x)'
    BY <1>0, <1>4 DEF Leave, Free, Closing, NothingLeft, Accounted
  <2> QED
    BY <1>4, <2>1, ObjectsFacts, OthersLeave DEF Leave, Free
<1> QED
  BY <1>1, <1>2, <1>3, <1>4 DEF Disposing

\* Messages do not touch the members.
LEMMA MessagesKeep ==
  ASSUME IInv,
         UNCHANGED <<registered, created, inGroup, added, todo, pc, grp, closing, failures>>
  PROVE  IInv'
BY DEF IInv, TInv, MemberTypes, ControlTypes, ObjectTypes, HasObject, Leaving, Closing,
       NothingLeft, Accounted

\* After a failed command a connection goes on, or is gone, with the entries it had.
LEMMA FailureKeeps == ASSUME IInv, NEW x \in Connections, CommandFails(x) PROVE IInv'
<1> USE DEF IInv, TInv, ControlTypes, groupVars, connVars, Goto, Labels
<1>0. failures' \in Nat /\ failures' # 0
  BY DEF CommandFails
<1>1. /\ pc[x] \in {"creating", "checking", "incrementing", "decrementing", "decrementingLast",
                    "deleting", "unsubscribing"}
      /\ pc' = [pc EXCEPT ![x] = IF closing[x] THEN "gone" ELSE "idle"]
      /\ UNCHANGED <<registered, created, inGroup, added, grp, closing, todo>>
  BY DEF CommandFails
<1>2. MemberTypes' /\ ObjectTypes' /\ ControlTypes'
  BY <1>1 DEF MemberTypes, ObjectTypes
<1>3. HasObject'
  BY <1>1 DEF HasObject
<1>4. Leaving'
  BY <1>0, <1>1 DEF Leaving, Closing, NothingLeft, Accounted
<1> QED
  BY <1>0, <1>2, <1>3, <1>4

\* A crash ends the connections of a server, which are in no group any more.
LEMMA CrashKeeps == ASSUME IInv, NEW s \in Servers, Crash(s) PROVE IInv'
<1> USE DEF IInv, TInv, ControlTypes, connVars, Labels
<1>0. failures' \in Nat /\ failures' # 0
  BY DEF Crash
<1>1. /\ registered' = [registered EXCEPT ![s] = NoObject]
      /\ inGroup' = [x \in Connections |-> IF Home[x] = s THEN {} ELSE inGroup[x]]
      /\ pc' = [x \in Connections |-> IF Home[x] = s THEN "gone" ELSE pc[x]]
      /\ UNCHANGED <<created, added, grp, closing, todo>>
  BY DEF Crash
<1>2. MemberTypes'
  BY <1>1 DEF MemberTypes
<1>3. ControlTypes'
  BY <1>1
<1>4. ObjectTypes'
  BY <1>1, ObjectsFacts DEF ObjectTypes
<1>5. HasObject'
  BY <1>1 DEF HasObject
<1>6. Leaving'
  BY <1>0, <1>1 DEF Leaving, Closing, NothingLeft, Accounted
<1> QED
  BY <1>0, <1>2, <1>3, <1>4, <1>5, <1>6

LEMMA InitIInv == Init => IInv
BY InitTInv DEF IInv, Init, Leaving, Closing, NothingLeft, Accounted

LEMMA NextIInv == IInv /\ [Next]_vars => IInv'
<1> SUFFICES ASSUME IInv, [Next]_vars PROVE IInv'
  OBVIOUS
<1>1. ASSUME NEW x \in Connections, ConnectionStep(x), UNCHANGED failures PROVE IInv'
  <2>1. CASE Joining(x)
    BY <1>1, <2>1, JoiningTInv, JoiningLeaves DEF IInv
  <2>2. CASE Removing(x)
    BY <1>1, <2>2, RemovingTInv, RemovingLeaves DEF IInv
  <2>3. CASE Disposing(x) \/ \E o \in Objects : Leave(x, o)
    BY <1>1, <2>3, DisposingTInv, DisposingLeaves DEF IInv
  <2>4. CASE \E except \in BOOLEAN, ids \in SUBSET Connections : Publish(x, except, ids)
    BY <1>1, <2>4, MessagesKeep DEF Publish, groupVars, connVars
  <2> QED
    BY <1>1, <2>1, <2>2, <2>3, <2>4 DEF ConnectionStep
<1>2. ASSUME NEW s \in Servers, NEW o \in Objects, Deliver(s, o), UNCHANGED failures PROVE IInv'
  BY <1>2, MessagesKeep DEF Deliver, groupVars, connVars
<1>3. ASSUME NEW x \in Connections, CommandFails(x) PROVE IInv'
  BY <1>3, FailureKeeps
<1>4. ASSUME NEW s \in Servers, Crash(s) PROVE IInv'
  BY <1>4, CrashKeeps
<1>5. CASE UNCHANGED vars
  BY <1>5, MessagesKeep DEF vars, groupVars, connVars
<1> QED
  BY <1>1, <1>2, <1>3, <1>4, <1>5 DEF Next

THEOREM Invariance == Spec => []IInv
<1> QED
  BY InitIInv, NextIInv, PTL DEF Spec

\* An ended connection has nothing left to enumerate, so it is in no group.
LEMMA LeavingIsEnough == IInv => GoneIsNoMember
<1> SUFFICES ASSUME IInv, failures = 0, NEW x \in Connections, pc[x] = "gone"
             PROVE  inGroup[x] = {}
  BY DEF GoneIsNoMember
<1>1. closing[x] /\ todo[x] = None /\ Accounted(x)
  BY DEF IInv, Leaving, NothingLeft
<1>2. inGroup[x] \subseteq Objects
  BY DEF IInv, TInv, MemberTypes
<1> QED
  BY <1>1, <1>2 DEF Accounted, None

\* "if disconnected, automatically leaved from group": until a Redis command
\* fails or a server crashes, DisposeAsync takes the connection out of every
\* object its AddAsync and TryAddAsync put it into, however often it joined
\* and left and on however many servers others do the same.
THEOREM LeavesAllGroups == Spec => []GoneIsNoMember
<1> QED
  BY Invariance, LeavingIsEnough, PTL
-----------------------------------------------------------------------------
(***************************************************************************)
(* The counter and the decrements that are owed to it.                     *)
(***************************************************************************)
Token == <<NoObject, 0>>

LEMMA InEntries ==
  ASSUME NEW bag, NEW e
  PROVE  e \in Entries(bag) <=> \E o \in Objects : \E i \in 1..bag[o] : e = <<o, i>>
BY DEF Entries

LEMMA TokenIsNoEntry == ASSUME NEW bag \in [Objects -> Nat] PROVE Token \notin Entries(bag)
<1>1. ASSUME NEW o \in Objects, NEW i \in 1..bag[o] PROVE Token # <<o, i>>
  <2>1. bag[o] \in Nat /\ i # 0
    OBVIOUS
  <2> QED
    BY <2>1 DEF Token
<1> QED
  BY <1>1, InEntries

\* One entry more, with the next number of its object.
LEMMA EntriesGrow ==
  ASSUME NEW bag \in [Objects -> Nat], NEW more \in [Objects -> Nat], NEW o \in Objects,
         more = [bag EXCEPT ![o] = @ + 1]
  PROVE  /\ <<o, bag[o] + 1>> \notin Entries(bag)
         /\ Entries(more) = Entries(bag) \cup {<<o, bag[o] + 1>>}
<1>1. bag[o] \in Nat /\ more[o] = bag[o] + 1
  OBVIOUS
<1>2. 1..more[o] = (1..bag[o]) \cup {bag[o] + 1} /\ bag[o] + 1 \notin 1..bag[o]
  BY <1>1
<1>3. \A p \in Objects : p # o => more[p] = bag[p]
  OBVIOUS
<1>4. ASSUME NEW e PROVE e \in Entries(more) <=> e \in Entries(bag) \cup {<<o, bag[o] + 1>>}
  <2>1. e \in Entries(more) <=>
          \/ \E i \in 1..more[o] : e = <<o, i>>
          \/ \E p \in Objects \ {o} : \E i \in 1..more[p] : e = <<p, i>>
    <3>1. e \in Entries(more) <=> \E p \in Objects : \E i \in 1..more[p] : e = <<p, i>>
      BY DEF Entries
    <3> QED
      BY <3>1, Zenon
  <2>2. e \in Entries(bag) <=>
          \/ \E i \in 1..bag[o] : e = <<o, i>>
          \/ \E p \in Objects \ {o} : \E i \in 1..bag[p] : e = <<p, i>>
    BY InEntries
  <2> QED
    BY <1>2, <1>3, <2>1, <2>2
<1>5. <<o, bag[o] + 1>> \notin Entries(bag)
  BY <1>2, InEntries
<1> QED
  BY <1>4, <1>5

\* One entry less, the one with the last number.
LEMMA EntriesShrink ==
  ASSUME NEW bag \in [Objects -> Nat], NEW fewer \in [Objects -> Nat], NEW o \in Objects,
         bag[o] > 0, fewer = [bag EXCEPT ![o] = @ - 1]
  PROVE  \E e \in Entries(bag) : Entries(fewer) = Entries(bag) \ {e}
<1>1. bag[o] \in Nat /\ fewer[o] = bag[o] - 1 /\ fewer[o] + 1 = bag[o]
  OBVIOUS
<1>2. bag = [fewer EXCEPT ![o] = @ + 1]
  BY <1>1
<1>3. /\ <<o, fewer[o] + 1>> \notin Entries(fewer)
      /\ Entries(bag) = Entries(fewer) \cup {<<o, fewer[o] + 1>>}
  BY <1>2, EntriesGrow
<1>4. <<o, fewer[o] + 1>> \in Entries(bag)
  BY <1>3
<1>5. Entries(fewer) = Entries(bag) \ {<<o, fewer[o] + 1>>}
  BY <1>3
<1> QED
  BY <1>4, <1>5

LEMMA EntriesFinite == ASSUME NEW bag \in [Objects -> Nat] PROVE IsFiniteSet(Entries(bag))
<1> DEFINE f == [o \in Objects |-> {o} \X (1..bag[o])]
           R == {f[o] : o \in Objects}
<1>1. IsFiniteSet(Objects)
  BY FS_Interval, BoundsAssumption DEF Objects
<1>2. f \in Surjection(Objects, R)
  BY DEF Surjection
<1>3. IsFiniteSet(R)
  <2> HIDE DEF f, R
  <2> QED
    BY <1>1, <1>2, FS_Surjection
<1>4. ASSUME NEW T \in R PROVE IsFiniteSet(T)
  <2>1. PICK o \in Objects : T = {o} \X (1..bag[o])
    OBVIOUS
  <2>2. bag[o] \in Int
    OBVIOUS
  <2>3. IsFiniteSet({o})
    BY FS_Singleton
  <2>4. IsFiniteSet(1..bag[o])
    BY <2>2, FS_Interval
  <2> QED
    BY <2>1, <2>3, <2>4, FS_Product
<1>5. IsFiniteSet(UNION R)
  <2> HIDE DEF R
  <2> QED
    BY <1>3, <1>4, FS_UNION
<1>6. R = {{o} \X (1..bag[o]) : o \in Objects}
  OBVIOUS
<1> QED
  BY <1>5, <1>6 DEF Entries

LEMMA DecrementsFinite ==
  ASSUME MemberTypes
  PROVE  IsFiniteSet(Decrements) /\ Cardinality(Decrements) \in Nat
<1> DEFINE f == [x \in Connections |-> {x} \X Owed(x)]
           R == {f[x] : x \in Connections}
<1>1. f \in Surjection(Connections, R)
  BY DEF Surjection
<1>2. IsFiniteSet(R)
  <2> HIDE DEF f, R
  <2> QED
    BY <1>1, FS_Surjection, ConnectionsAssumption
<1>3. ASSUME NEW x \in Connections PROVE IsFiniteSet(Owed(x))
  <2> DEFINE bag == IF closing[x] THEN todo[x] ELSE added[x]
             rest == IF Underway(x) THEN {<<NoObject, 0>>} ELSE {}
  <2>1. bag \in [Objects -> Nat]
    BY DEF MemberTypes
  <2>2. IsFiniteSet(Entries(bag))
    BY <2>1, EntriesFinite
  <2>3. IsFiniteSet(rest)
    BY FS_EmptySet, FS_Singleton
  <2>4. Owed(x) = Entries(bag) \cup rest
    BY DEF Owed
  <2> HIDE DEF bag, rest
  <2> QED
    BY <2>2, <2>3, <2>4, FS_Union
<1>4. ASSUME NEW T \in R PROVE IsFiniteSet(T)
  <2>1. PICK x \in Connections : T = {x} \X Owed(x)
    OBVIOUS
  <2> QED
    BY <1>3, <2>1, FS_Singleton, FS_Product
<1>5. IsFiniteSet(UNION R)
  <2> HIDE DEF R
  <2> QED
    BY <1>2, <1>4, FS_UNION
<1>6. R = {{x} \X Owed(x) : x \in Connections}
  OBVIOUS
<1>7. IsFiniteSet(Decrements)
  BY <1>5, <1>6 DEF Decrements
<1> QED
  BY <1>7, FS_CardinalityType

LEMMA CountIsNatural == IInv => Cardinality(Decrements) \in Nat
BY DecrementsFinite DEF IInv, TInv

LEMMA InDecrements ==
  ASSUME NEW t
  PROVE  t \in Decrements <=> \E x \in Connections : \E e \in Owed(x) : t = <<x, e>>
BY DEF Decrements

\* A step of x changes what x owes by one element, or not at all.
LEMMA OwesTheSame ==
  ASSUME \A y \in Connections : Owed(y)' = Owed(y)
  PROVE  Decrements' = Decrements
BY DEF Decrements

LEMMA OwesOneMore ==
  ASSUME MemberTypes, NEW x \in Connections, NEW e, e \notin Owed(x),
         Owed(x)' = Owed(x) \cup {e},
         \A y \in Connections : y # x => Owed(y)' = Owed(y)
  PROVE  Cardinality(Decrements') = Cardinality(Decrements) + 1
<1>1. ASSUME NEW t PROVE t \in Decrements' <=> t \in Decrements \cup {<<x, e>>}
  <2>1. t \in Decrements' <=> \E y \in Connections : \E d \in Owed(y)' : t = <<y, d>>
    BY DEF Decrements
  <2> QED
    BY <2>1, InDecrements
<1>2. Decrements' = Decrements \cup {<<x, e>>}
  BY <1>1
<1>3. <<x, e>> \notin Decrements
  BY InDecrements
<1> QED
  BY <1>2, <1>3, DecrementsFinite, FS_AddElement

LEMMA OwesOneLess ==
  ASSUME MemberTypes, NEW x \in Connections, NEW e \in Owed(x),
         Owed(x)' = Owed(x) \ {e},
         \A y \in Connections : y # x => Owed(y)' = Owed(y)
  PROVE  Cardinality(Decrements') = Cardinality(Decrements) - 1
<1>1. ASSUME NEW t PROVE t \in Decrements' <=> t \in Decrements \ {<<x, e>>}
  <2>1. t \in Decrements' <=> \E y \in Connections : \E d \in Owed(y)' : t = <<y, d>>
    BY DEF Decrements
  <2> QED
    BY <2>1, InDecrements
<1>2. Decrements' = Decrements \ {<<x, e>>}
  BY <1>1
<1>3. <<x, e>> \in Decrements
  BY InDecrements
<1> QED
  BY <1>2, <1>3, DecrementsFinite, FS_RemoveElement

LEMMA OwesAnother ==
  ASSUME MemberTypes, NEW x \in Connections, NEW e \in Owed(x), NEW d, d \notin Owed(x),
         Owed(x)' = (Owed(x) \ {e}) \cup {d},
         \A y \in Connections : y # x => Owed(y)' = Owed(y)
  PROVE  Cardinality(Decrements') = Cardinality(Decrements)
<1> DEFINE Rest == Decrements \ {<<x, e>>}
<1>1. ASSUME NEW t PROVE t \in Decrements' <=> t \in Rest \cup {<<x, d>>}
  <2>1. t \in Decrements' <=> \E y \in Connections : \E c \in Owed(y)' : t = <<y, c>>
    BY DEF Decrements
  <2> QED
    BY <2>1, InDecrements
<1>2. Decrements' = Rest \cup {<<x, d>>}
  BY <1>1
<1>3. <<x, e>> \in Decrements /\ <<x, d>> \notin Decrements
  BY InDecrements
<1>4. IsFiniteSet(Rest) /\ Cardinality(Rest) = Cardinality(Decrements) - 1
  BY <1>3, DecrementsFinite, FS_RemoveElement
<1>5. Cardinality(Decrements') = Cardinality(Rest) + 1
  <2>1. <<x, d>> \notin Rest
    BY <1>3
  <2> HIDE DEF Rest
  <2> QED
    BY <1>2, <1>4, <2>1, FS_AddElement
<1> QED
  BY <1>4, <1>5, DecrementsFinite

\* What a step of x does to the counter and to the decrements that are owed.
Balanced(x) ==
  \/ /\ Cardinality(Decrements') = Cardinality(Decrements)
     /\ \/ counter' = counter
        \/ pc[x] = "deleting" /\ counter' = 0
        \/ ~closing[x] /\ pc[x] \in {"decrementing", "decrementingLast"} /\ counter' = counter - 1
  \/ Cardinality(Decrements') = Cardinality(Decrements) + 1 /\ counter' = counter + 1
  \/ Cardinality(Decrements') = Cardinality(Decrements) - 1 /\ counter' = counter - 1

\* The elements x owes are its entries and, while it is underway, one more.
LEMMA InOwed ==
  ASSUME NEW x \in Connections
  PROVE  Owed(x) = (IF closing[x] THEN Entries(todo[x]) ELSE Entries(added[x]))
                     \cup (IF Underway(x) THEN {Token} ELSE {})
BY DEF Owed, Token

LEMMA OthersOwe ==
  ASSUME IInv, NEW x \in Connections, NEW l \in Labels, Goto(x, l),
         closing' = closing \/ closing' = [closing EXCEPT ![x] = TRUE],
         \A z \in Connections : z # x => added'[z] = added[z] /\ todo'[z] = todo[z]
  PROVE  \A y \in Connections : y # x => Owed(y)' = Owed(y)
<1> SUFFICES ASSUME NEW y \in Connections, y # x PROVE Owed(y)' = Owed(y)
  OBVIOUS
<1>1. pc'[y] = pc[y] /\ closing'[y] = closing[y] /\ added'[y] = added[y] /\ todo'[y] = todo[y]
  BY DEF IInv, TInv, ControlTypes, Goto
<1> QED
  BY <1>1 DEF Owed, Underway, Entries

\* A step that leaves the entries alone and does not begin or end a transit.
LEMMA OwesAsBefore ==
  ASSUME IInv, NEW x \in Connections, NEW l \in Labels, Goto(x, l),
         UNCHANGED <<closing, added, todo>>, Underway(x)' <=> Underway(x)
  PROVE  Cardinality(Decrements') = Cardinality(Decrements)
<1>1. Owed(x)' = Owed(x)
  BY DEF Owed, Entries
<1>2. \A y \in Connections : y # x => Owed(y)' = Owed(y)
  BY OthersOwe
<1>3. Decrements' = Decrements
  BY <1>1, <1>2, OwesTheSame
<1> QED
  BY <1>3

LEMMA JoiningBalances ==
  ASSUME IInv, NEW x \in Connections, Joining(x), UNCHANGED failures
  PROVE  Balanced(x)
<1> USE DEF groupVars, connVars, msgVars, Labels
<1>0. /\ pc \in [Connections -> Labels] /\ MemberTypes
      /\ pc[x] \in {"idle", "creating", "registering", "checking", "incrementing", "adding",
                    "recording"} => ~closing[x]
  BY DEF IInv, TInv, ControlTypes, Leaving, Closing
<1>1. CASE Add(x)
  BY <1>0, <1>1, OwesAsBefore DEF Add, Free, Goto, Underway, Balanced
<1>2. CASE TryAdd(x)
  BY <1>0, <1>2, OwesAsBefore DEF TryAdd, Free, Goto, Underway, Balanced
<1>3. CASE CheckLimit(x)
  BY <1>0, <1>3, OwesAsBefore DEF CheckLimit, Goto, Underway, Balanced
<1>4. CASE CreateGroup(x)
  BY <1>0, <1>4, OwesAsBefore DEF CreateGroup, Goto, Underway, Balanced
<1>5. CASE RegisterGroup(x)
  BY <1>0, <1>5, OwesAsBefore DEF RegisterGroup, Goto, Underway, Balanced
<1>6. CASE Increment(x)
  <2>1. ~Underway(x) /\ Underway(x)' /\ ~closing[x] /\ UNCHANGED <<closing, added, todo>>
    BY <1>0, <1>6 DEF Increment, Goto, Underway
  <2>2. Token \notin Entries(added[x])
    BY <1>0, TokenIsNoEntry DEF MemberTypes
  <2>3. Token \notin Owed(x) /\ Owed(x)' = Owed(x) \cup {Token}
    BY <2>1, <2>2, InOwed DEF Owed, Token, Entries
  <2>4. \A y \in Connections : y # x => Owed(y)' = Owed(y)
    BY <1>6, <2>1, OthersOwe DEF Increment
  <2>5. Cardinality(Decrements') = Cardinality(Decrements) + 1
    BY <1>0, <2>3, <2>4, OwesOneMore
  <2> QED
    BY <1>6, <2>5 DEF Increment, Balanced
<1>7. CASE AddMember(x)
  BY <1>0, <1>7, OwesAsBefore DEF AddMember, Goto, Underway, Balanced
<1>8. CASE Record(x)
  <2> DEFINE o == grp[x]
             new == <<o, added[x][o] + 1>>
  <2>1. /\ Underway(x) /\ ~Underway(x)' /\ ~closing[x] /\ UNCHANGED <<closing, todo>>
        /\ added' = [added EXCEPT ![x] = [added[x] EXCEPT ![o] = @ + 1]]
    BY <1>0, <1>8 DEF Record, Goto, Underway
  <2>2. o \in Objects /\ added[x] \in [Objects -> Nat]
    BY <1>8 DEF Record, IInv, TInv, HasObject, MemberTypes
  <2>3. added'[x] = [added[x] EXCEPT ![o] = @ + 1] /\ added'[x] \in [Objects -> Nat]
    BY <1>0, <2>1, <2>2 DEF MemberTypes
  <2>4. /\ new \notin Entries(added[x]) /\ Entries(added'[x]) = Entries(added[x]) \cup {new}
        /\ Token \notin Entries(added[x]) /\ Token \notin Entries(added'[x])
    BY <2>2, <2>3, EntriesGrow, TokenIsNoEntry
  <2>5. /\ Owed(x) = Entries(added[x]) \cup {Token}
        /\ Owed(x)' = Entries(added'[x])
    BY <2>1 DEF Owed, Entries, Token
  <2>6. Token \in Owed(x) /\ new \notin Owed(x) /\ Owed(x)' = (Owed(x) \ {Token}) \cup {new}
    BY <2>4, <2>5
  <2>7. \A y \in Connections : y # x => Owed(y)' = Owed(y)
    BY <1>0, <1>8, <2>1, OthersOwe DEF Record, MemberTypes
  <2>8. Cardinality(Decrements') = Cardinality(Decrements)
    BY <1>0, <2>6, <2>7, OwesAnother
  <2> QED
    BY <1>8, <2>8 DEF Record, Balanced
<1> QED
  BY <1>1, <1>2, <1>3, <1>4, <1>5, <1>6, <1>7, <1>8 DEF Joining

LEMMA RemovingBalances ==
  ASSUME IInv, NEW x \in Connections, Removing(x), UNCHANGED failures
  PROVE  Balanced(x)
<1> USE DEF groupVars, connVars, msgVars, Labels
<1>0. pc \in [Connections -> Labels] /\ MemberTypes
  BY DEF IInv, TInv, ControlTypes
<1>1. CASE RemoveMember(x)
  BY <1>0, <1>1, OwesAsBefore DEF RemoveMember, Goto, Underway, Balanced
<1>2. CASE TestEmpty(x)
  BY <1>0, <1>2, OwesAsBefore DEF TestEmpty, Goto, Underway, Balanced
<1>3. CASE Unregister(x)
  BY <1>0, <1>3, OwesAsBefore DEF Unregister, Goto, Underway, Balanced
<1>4. CASE Decrement(x)
  <2>1. CASE closing[x]
    <3>1. Underway(x) /\ ~Underway(x)' /\ UNCHANGED <<closing, added, todo>>
      BY <1>0, <1>4, <2>1 DEF Decrement, Removed, Goto, Underway
    <3>2. Token \notin Entries(todo[x])
      BY <1>0, TokenIsNoEntry DEF MemberTypes
    <3>3. Token \in Owed(x) /\ Owed(x)' = Owed(x) \ {Token}
      BY <2>1, <3>1, <3>2 DEF Owed, Token, Entries
    <3>4. \A y \in Connections : y # x => Owed(y)' = Owed(y)
      BY <1>4, <3>1, OthersOwe DEF Decrement, Removed
    <3>5. Cardinality(Decrements') = Cardinality(Decrements) - 1
      BY <1>0, <3>3, <3>4, OwesOneLess
    <3> QED
      BY <1>4, <3>5 DEF Decrement, Balanced
  <2>2. CASE ~closing[x]
    BY <1>0, <1>4, <2>2, OwesAsBefore DEF Decrement, Removed, Goto, Underway, Balanced
  <2> QED
    BY <2>1, <2>2
<1>5. CASE DeleteKey(x)
  BY <1>0, <1>5, OwesAsBefore DEF DeleteKey, Goto, Underway, Balanced
<1>6. CASE Unsubscribe(x)
  BY <1>0, <1>6, OwesAsBefore DEF Unsubscribe, Removed, Goto, Underway, Balanced
<1> QED
  BY <1>1, <1>2, <1>3, <1>4, <1>5, <1>6 DEF Removing

LEMMA DisposingBalances ==
  ASSUME IInv, NEW x \in Connections, UNCHANGED failures,
         Disposing(x) \/ \E o \in Objects : Leave(x, o)
  PROVE  Balanced(x)
<1> USE DEF groupVars, connVars, msgVars, Labels
<1>0. /\ pc \in [Connections -> Labels] /\ closing \in [Connections -> BOOLEAN] /\ MemberTypes
      /\ pc[x] = "idle" => ~closing[x]
      /\ pc[x] = "disposing" => closing[x]
  BY DEF IInv, TInv, ControlTypes, Leaving, Closing
<1>1. CASE StartDispose(x)
  <2>1. /\ ~Underway(x) /\ ~Underway(x)' /\ ~closing[x] /\ closing'[x]
        /\ todo'[x] = added[x] /\ UNCHANGED <<added>>
    BY <1>0, <1>1 DEF StartDispose, Free, Goto, Underway, MemberTypes
  <2>2. Owed(x)' = Owed(x)
    BY <2>1 DEF Owed, Entries
  <2>3. \A y \in Connections : y # x => Owed(y)' = Owed(y)
    BY <1>0, <1>1, OthersOwe DEF StartDispose, MemberTypes
  <2>4. Decrements' = Decrements
    BY <2>2, <2>3, OwesTheSame
  <2> QED
    BY <1>1, <2>4 DEF StartDispose, Balanced
<1>2. CASE FinishDispose(x)
  BY <1>0, <1>2, OwesAsBefore DEF FinishDispose, Goto, Underway, Balanced
<1>3. ASSUME NEW o \in Objects, DisposeNext(x, o) PROVE Balanced(x)
  <2>1. /\ ~Underway(x) /\ Underway(x)' /\ closing[x] /\ UNCHANGED <<closing, added>>
        /\ todo' = [todo EXCEPT ![x] = [todo[x] EXCEPT ![o] = @ - 1]]
        /\ todo[x][o] > 0
    BY <1>0, <1>3 DEF DisposeNext, Goto, Underway
  <2>2. todo[x] \in [Objects -> Nat] /\ todo[x][o] - 1 \in Nat
    BY <1>0, <2>1 DEF MemberTypes
  <2>3. todo'[x] = [todo[x] EXCEPT ![o] = @ - 1] /\ todo'[x] \in [Objects -> Nat]
    BY <1>0, <2>1, <2>2 DEF MemberTypes
  <2>4. PICK e \in Entries(todo[x]) : Entries(todo'[x]) = Entries(todo[x]) \ {e}
    BY <2>1, <2>2, <2>3, EntriesShrink
  <2>5. Token \notin Entries(todo[x])
    BY <2>2, TokenIsNoEntry
  <2>6. /\ Owed(x) = Entries(todo[x])
        /\ Owed(x)' = Entries(todo'[x]) \cup {Token}
    BY <2>1 DEF Owed, Entries, Token
  <2>7. e \in Owed(x) /\ Token \notin Owed(x) /\ Owed(x)' = (Owed(x) \ {e}) \cup {Token}
    BY <2>4, <2>5, <2>6
  <2>8. \A y \in Connections : y # x => Owed(y)' = Owed(y)
    BY <1>0, <1>3, <2>1, OthersOwe DEF DisposeNext, MemberTypes
  <2>9. Cardinality(Decrements') = Cardinality(Decrements)
    BY <1>0, <2>7, <2>8, OwesAnother
  <2> QED
    BY <1>3, <2>9 DEF DisposeNext, Balanced
<1>4. ASSUME NEW o \in Objects, Leave(x, o) PROVE Balanced(x)
  <2>1. Underway(x)' <=> Underway(x)
    BY <1>0, <1>4 DEF Leave, Free, Goto, Underway
  <2>2. Cardinality(Decrements') = Cardinality(Decrements)
    BY <1>4, <2>1, OwesAsBefore DEF Leave
  <2> QED
    BY <1>4, <2>2 DEF Leave, Balanced
<1> QED
  BY <1>1, <1>2, <1>3, <1>4 DEF Disposing

LEMMA StepsBalance ==
  ASSUME IInv, NEW x \in Connections, ConnectionStep(x), UNCHANGED failures
  PROVE  Balanced(x)
<1>1. CASE \E except \in BOOLEAN, ids \in SUBSET Connections : Publish(x, except, ids)
  <2>1. UNCHANGED <<counter, pc, closing, added, todo>>
    BY <1>1 DEF Publish, connVars
  <2>2. Decrements' = Decrements
    BY <2>1 DEF Decrements, Owed, Underway, Entries
  <2> QED
    BY <2>1, <2>2 DEF Balanced
<1> QED
  BY <1>1, JoiningBalances, RemovingBalances, DisposingBalances DEF ConnectionStep

\* Nothing but a step of a connection or a failure touches either of them.
LEMMA OthersBalance ==
  ASSUME IInv, (\E s \in Servers, o \in Objects : Deliver(s, o)) \/ UNCHANGED vars
  PROVE  counter' = counter /\ Decrements' = Decrements
<1>1. UNCHANGED <<counter, pc, closing, added, todo>>
  BY DEF Deliver, connVars, vars
<1> QED
  BY <1>1 DEF Decrements, Owed, Underway, Entries

Counted == counter \in Int /\ NeverOvercounts

LEMMA InitCounted == Init => Counted
<1> SUFFICES ASSUME Init PROVE Counted
  OBVIOUS
<1>1. MemberTypes
  BY InitTInv DEF TInv
<1>2. counter = 0 /\ Cardinality(Decrements) \in Nat
  BY <1>1, DecrementsFinite DEF Init
<1> QED
  BY <1>2 DEF Counted, NeverOvercounts

LEMMA NextCounted == IInv /\ Counted /\ [Next]_vars => Counted'
<1> SUFFICES ASSUME IInv, Counted, [Next]_vars PROVE Counted'
  OBVIOUS
<1>0. /\ counter \in Int /\ Cardinality(Decrements) \in Nat /\ Cardinality(Decrements') \in Nat
      /\ failures = 0 => counter <= Cardinality(Decrements)
  <2>1. IInv'
    BY NextIInv
  <2>2. (Cardinality(Decrements) \in Nat)'
    BY <2>1, CountIsNatural, PTL
  <2> QED
    BY <2>2, DecrementsFinite DEF IInv, TInv, Counted, NeverOvercounts
<1>1. ASSUME NEW x \in Connections, ConnectionStep(x), UNCHANGED failures PROVE Counted'
  <2>1. Balanced(x)
    BY <1>1, StepsBalance
  <2> QED
    BY <1>0, <1>1, <2>1 DEF Balanced, Counted, NeverOvercounts
<1>2. CASE (\E s \in Servers, o \in Objects : Deliver(s, o) /\ UNCHANGED failures) \/ UNCHANGED vars
  <2>1. counter' = counter /\ Decrements' = Decrements /\ failures' = failures
    BY <1>2, OthersBalance DEF vars
  <2> QED
    BY <1>0, <2>1 DEF Counted, NeverOvercounts
<1>3. ASSUME NEW x \in Connections, CommandFails(x) PROVE Counted'
  <2>1. failures' # 0 /\ counter' \in Int
    BY <1>0, <1>3 DEF CommandFails, Executed, IInv, TInv
  <2> QED
    BY <2>1 DEF Counted, NeverOvercounts
<1>4. ASSUME NEW s \in Servers, Crash(s) PROVE Counted'
  <2>1. failures' # 0 /\ counter' \in Int
    BY <1>0, <1>4 DEF Crash, IInv, TInv
  <2> QED
    BY <2>1 DEF Counted, NeverOvercounts
<1> QED
  BY <1>1, <1>2, <1>3, <1>4 DEF Next

\* RedisGroup.RemoveAsync: however joins and leaves interleave on however many
\* servers, until a command fails the shared counter never exceeds what the
\* connections will take back when they end.
THEOREM CountsNoGhosts == Spec => []NeverOvercounts
<1>1. Counted => NeverOvercounts
  BY DEF Counted
<1> QED
  BY Invariance, InitCounted, NextCounted, <1>1, PTL DEF Spec
-----------------------------------------------------------------------------
(***************************************************************************)
(* The types of what the steps of the argument did not need so far.        *)
(***************************************************************************)
SubscribedTypes ==
  /\ subscribed \in [Servers -> SUBSET Objects]
  /\ \A s \in Servers, o \in Objects : subscribed[s] \subseteq 1..created[s]

MessageTypes ==
  /\ backlog \in [Servers -> [Objects -> Seq(1..MaxMessages)]]
  /\ published \in Seq([to : SUBSET Connections, audience : SUBSET Connections])
  /\ received \in [Connections -> Seq(1..MaxMessages)]

RestTypes == counter \in Int /\ failures \in 0..MaxFailures /\ SubscribedTypes /\ MessageTypes

LEMMA InitRest == Init => RestTypes
<1> SUFFICES ASSUME Init PROVE RestTypes
  OBVIOUS
<1>1. counter \in Int /\ failures \in 0..MaxFailures
  BY BoundsAssumption DEF Init
<1>2. SubscribedTypes
  BY DEF Init, SubscribedTypes
<1>3. MessageTypes
  BY DEF Init, MessageTypes
<1> QED
  BY <1>1, <1>2, <1>3 DEF RestTypes

LEMMA HeadAndTail ==
  ASSUME NEW S, NEW q \in Seq(S), q # <<>>
  PROVE  Head(q) \in S /\ Tail(q) \in Seq(S)
OBVIOUS

\* The steps of a connection at a Redis counter command, and all others.
LEMMA Counting ==
  ASSUME NEW x \in Connections, ConnectionStep(x)
  PROVE  Increment(x) \/ Decrement(x) \/ DeleteKey(x) \/ UNCHANGED counter
BY DEF ConnectionStep, Joining, Removing, Disposing, Add, TryAdd, CheckLimit,
       CreateGroup, RegisterGroup, AddMember, Record, RemoveMember, TestEmpty,
       Unregister, Unsubscribe, StartDispose, FinishDispose, DisposeNext, Leave, Publish

LEMMA CounterIsInteger ==
  ASSUME RestTypes, NEW x \in Connections, ConnectionStep(x) PROVE counter' \in Int
<1>1. Increment(x) \/ Decrement(x) \/ DeleteKey(x) => counter' \in Int
  BY DEF RestTypes, Increment, Decrement, DeleteKey
<1> QED
  BY <1>1, Counting DEF RestTypes

\* What a step of a connection does to the subscriptions and to the messages.
LEMMA Subscribing ==
  ASSUME NEW x \in Connections, ConnectionStep(x)
  PROVE  \/ CreateGroup(x) \/ Unsubscribe(x)
         \/ UNCHANGED <<subscribed, created>>
BY DEF groupVars, ConnectionStep, Joining, Removing, Disposing, Add, TryAdd, CheckLimit,
       RegisterGroup, Increment, AddMember, Record, RemoveMember, TestEmpty,
       Unregister, Decrement, DeleteKey, StartDispose, FinishDispose, DisposeNext,
       Leave, Publish

LEMMA Messaging ==
  ASSUME NEW x \in Connections, ConnectionStep(x)
  PROVE  \/ \E except \in BOOLEAN, ids \in SUBSET Connections : Publish(x, except, ids)
         \/ Unsubscribe(x)
         \/ UNCHANGED msgVars
BY DEF msgVars, ConnectionStep, Joining, Removing, Disposing, Add, TryAdd, CheckLimit,
       CreateGroup, RegisterGroup, Increment, AddMember, Record, RemoveMember, TestEmpty,
       Unregister, Decrement, DeleteKey, StartDispose, FinishDispose, DisposeNext, Leave

LEMMA StepSubscribed ==
  ASSUME IInv, RestTypes, NEW x \in Connections, ConnectionStep(x) PROVE SubscribedTypes'
<1>0. /\ SubscribedTypes /\ Home[x] \in Servers /\ created \in [Servers -> 0..MaxObjects]
  BY HomeAssumption DEF RestTypes, IInv, TInv, ObjectTypes
<1>1. CASE CreateGroup(x)
  <2>1. created[Home[x]] \in Nat /\ created[Home[x]] + 1 \in Objects
    BY <1>0, <1>1, BoundsAssumption DEF CreateGroup, Objects
  <2>2. /\ subscribed' = [subscribed EXCEPT ![Home[x]] = @ \cup {created[Home[x]] + 1}]
        /\ created' = [created EXCEPT ![Home[x]] = created[Home[x]] + 1]
    BY <1>1 DEF CreateGroup
  <2>3. 1..created[Home[x]] \subseteq 1..(created[Home[x]] + 1)
    BY <2>1
  <2>4. created[Home[x]] + 1 \in 1..(created[Home[x]] + 1)
    BY <2>1
  <2> QED
    BY <1>0, <2>1, <2>2, <2>3, <2>4 DEF SubscribedTypes
<1>2. CASE Unsubscribe(x)
  BY <1>0, <1>2 DEF Unsubscribe, SubscribedTypes
<1>3. CASE UNCHANGED <<subscribed, created>>
  BY <1>0, <1>3 DEF SubscribedTypes
<1> QED
  BY <1>1, <1>2, <1>3, Subscribing

LEMMA StepMessages ==
  ASSUME IInv, RestTypes, NEW x \in Connections, ConnectionStep(x) PROVE MessageTypes'
<1>0. MessageTypes /\ Home[x] \in Servers
  BY HomeAssumption DEF RestTypes
<1>1. ASSUME NEW except \in BOOLEAN, NEW ids \in SUBSET Connections, Publish(x, except, ids)
      PROVE  MessageTypes'
  <2> DEFINE to == IF except THEN Connections \ ids ELSE ids
             id == Len(published) + 1
  <2>1. /\ published' = Append(published, [to |-> to, audience |-> Joined \cap to])
        /\ backlog' = [s \in Servers |-> [o \in Objects |->
                         IF o \in subscribed[s] THEN Append(backlog[s][o], id) ELSE backlog[s][o]]]
        /\ received' = received /\ Len(published) < MaxMessages
    BY <1>1 DEF Publish
  <2>2. id \in 1..MaxMessages
    BY <1>0, <2>1, BoundsAssumption DEF MessageTypes
  <2>3. to \subseteq Connections /\ Joined \cap to \subseteq Connections
    BY DEF Joined
  <2>4. published' \in Seq([to : SUBSET Connections, audience : SUBSET Connections])
    <3> HIDE DEF to
    <3> QED
      BY <1>0, <2>1, <2>3 DEF MessageTypes
  <2>5. backlog' \in [Servers -> [Objects -> Seq(1..MaxMessages)]]
    <3>1. ASSUME NEW s \in Servers, NEW o \in Objects
          PROVE  /\ backlog[s][o] \in Seq(1..MaxMessages)
                 /\ Append(backlog[s][o], id) \in Seq(1..MaxMessages)
      <4>1. backlog[s][o] \in Seq(1..MaxMessages)
        BY <1>0 DEF MessageTypes
      <4> HIDE DEF id
      <4> QED
        BY <2>2, <4>1
    <3> HIDE DEF id
    <3> QED
      BY <2>1, <3>1
  <2> QED
    BY <1>0, <2>1, <2>4, <2>5 DEF MessageTypes
<1>2. CASE Unsubscribe(x)
  <2>1. /\ backlog' = [backlog EXCEPT ![Home[x]] = [backlog[Home[x]] EXCEPT ![grp[x]] = <<>>]]
        /\ UNCHANGED <<published, received>>
    BY <1>2 DEF Unsubscribe
  <2>2. <<>> \in Seq(1..MaxMessages) /\ backlog[Home[x]] \in [Objects -> Seq(1..MaxMessages)]
    BY <1>0 DEF MessageTypes
  <2>3. [backlog[Home[x]] EXCEPT ![grp[x]] = <<>>] \in [Objects -> Seq(1..MaxMessages)]
    BY <2>2
  <2> QED
    BY <1>0, <2>1, <2>3 DEF MessageTypes
<1>3. CASE UNCHANGED msgVars
  BY <1>0, <1>3 DEF MessageTypes, msgVars
<1> QED
  BY <1>1, <1>2, <1>3, Messaging

LEMMA DeliverMessages ==
  ASSUME RestTypes, NEW s \in Servers, NEW o \in Objects, Deliver(s, o) PROVE MessageTypes'
<1>0. MessageTypes
  BY DEF RestTypes
<1> DEFINE id == Head(backlog[s][o])
<1>1. backlog[s][o] \in Seq(1..MaxMessages) /\ backlog[s][o] # <<>>
  BY <1>0 DEF MessageTypes, Deliver
<1>2. id \in 1..MaxMessages /\ Tail(backlog[s][o]) \in Seq(1..MaxMessages)
  BY <1>1, HeadAndTail
<1>3. /\ backlog' = [backlog EXCEPT ![s] = [backlog[s] EXCEPT ![o] = Tail(backlog[s][o])]]
      /\ received' = [x \in Connections |->
                        IF x \in MembersOf(s, o) \cap published[id].to
                          THEN Append(received[x], id) ELSE received[x]]
      /\ published' = published
  BY DEF Deliver
<1>4. backlog' \in [Servers -> [Objects -> Seq(1..MaxMessages)]]
  BY <1>0, <1>2, <1>3 DEF MessageTypes
<1>5. received' \in [Connections -> Seq(1..MaxMessages)]
  <2>1. ASSUME NEW x \in Connections
        PROVE  /\ received[x] \in Seq(1..MaxMessages)
               /\ Append(received[x], id) \in Seq(1..MaxMessages)
    <3>1. received[x] \in Seq(1..MaxMessages)
      BY <1>0 DEF MessageTypes
    <3> HIDE DEF id
    <3> QED
      BY <1>2, <3>1
  <2> HIDE DEF id
  <2> QED
    BY <1>3, <2>1
<1> QED
  BY <1>0, <1>3, <1>4, <1>5 DEF MessageTypes

LEMMA NextRest == IInv /\ RestTypes /\ [Next]_vars => RestTypes'
<1> SUFFICES ASSUME IInv, RestTypes, [Next]_vars PROVE RestTypes'
  OBVIOUS
<1>0. counter \in Int /\ failures \in 0..MaxFailures /\ SubscribedTypes /\ MessageTypes
  BY DEF RestTypes
<1>1. ASSUME NEW x \in Connections, ConnectionStep(x), UNCHANGED failures PROVE RestTypes'
  BY <1>0, <1>1, CounterIsInteger, StepSubscribed, StepMessages DEF RestTypes
<1>2. ASSUME NEW s \in Servers, NEW o \in Objects, Deliver(s, o), UNCHANGED failures
      PROVE  RestTypes'
  <2>1. UNCHANGED <<counter, subscribed, created>>
    BY <1>2 DEF Deliver, groupVars
  <2> QED
    BY <1>0, <1>2, <2>1, DeliverMessages DEF RestTypes, SubscribedTypes
<1>3. ASSUME NEW x \in Connections, CommandFails(x) PROVE RestTypes'
  <2>1. counter' \in Int /\ failures' \in 0..MaxFailures
    BY <1>0, <1>3, BoundsAssumption DEF CommandFails, Executed
  <2>2. SubscribedTypes'
    BY <1>0, <1>3 DEF CommandFails, SubscribedTypes
  <2>3. MessageTypes'
    BY <1>0, <1>3 DEF CommandFails, msgVars, MessageTypes
  <2> QED
    BY <2>1, <2>2, <2>3 DEF RestTypes
<1>4. ASSUME NEW s \in Servers, Crash(s) PROVE RestTypes'
  <2>1. counter' \in Int /\ failures' \in 0..MaxFailures
    BY <1>0, <1>4, BoundsAssumption DEF Crash
  <2>2. SubscribedTypes'
    BY <1>0, <1>4 DEF Crash, SubscribedTypes
  <2>3. MessageTypes'
    <3>1. [o \in Objects |-> <<>>] \in [Objects -> Seq(1..MaxMessages)]
      OBVIOUS
    <3>2. backlog' = [backlog EXCEPT ![s] = [o \in Objects |-> <<>>]] /\ UNCHANGED <<published, received>>
      BY <1>4 DEF Crash
    <3> QED
      BY <1>0, <3>1, <3>2 DEF MessageTypes
  <2> QED
    BY <2>1, <2>2, <2>3 DEF RestTypes
<1>5. CASE UNCHANGED vars
  BY <1>0, <1>5 DEF vars, groupVars, msgVars, RestTypes, SubscribedTypes, MessageTypes
<1> QED
  BY <1>1, <1>2, <1>3, <1>4, <1>5 DEF Next

\* Type correctness of RedisGroup's state: in particular no message of a queue
\* is one that nobody published, and no object is subscribed that was not created.
THEOREM Typing == Spec => []TypeOK
<1>1. IInv /\ RestTypes => TypeOK
  BY Zenon DEF IInv, TInv, MemberTypes, ControlTypes, ObjectTypes, RestTypes, SubscribedTypes,
         MessageTypes, TypeOK, Labels
<1> QED
  BY Invariance, InitRest, NextRest, <1>1, PTL DEF Spec
-----------------------------------------------------------------------------
(***************************************************************************)
(* The situations: one join or leave at a time.                            *)
(***************************************************************************)
Quiet == {"idle", "gone"}

\* All of the above holds in every situation.
LEMMA SituationsAreRuns == SituationsSpec => Spec
<1>1. SituationsInit => Init
  BY DEF SituationsInit
<1>2. [SituationsNext]_situationVars => [Next]_vars
  BY DEF SituationsNext, situationVars
<1> QED
  BY <1>1, <1>2, PTL DEF SituationsSpec, Spec

\* Where a step of x comes from and goes to.
LEMMA Moves ==
  ASSUME IInv, NEW x \in Connections, ConnectionStep(x)
  PROVE  \E l \in Labels :
           /\ pc' = [pc EXCEPT ![x] = l]
           /\ l \in {"testing", "unregistering", "decrementing", "decrementingLast", "deleting",
                     "unsubscribing"}
                => /\ closing' = closing
                   /\ pc[x] \in {"removing", "testing", "unregistering", "decrementing",
                                 "decrementingLast", "deleting"}
           /\ l = "deleting" => pc[x] = "decrementingLast" /\ counter' = 0
           /\ pc[x] \in Quiet => counter' = counter
<1> USE DEF Quiet, Labels, Goto, connVars
<1>0. pc \in [Connections -> Labels]
  BY DEF IInv, TInv, ControlTypes
<1>1. CASE Joining(x)
  BY <1>0, <1>1 DEF Joining, Add, TryAdd, Free, CheckLimit, CreateGroup, RegisterGroup, Increment,
                    AddMember, Record
<1>2. CASE RemoveMember(x) \/ TestEmpty(x) \/ Unregister(x)
  BY <1>0, <1>2 DEF RemoveMember, TestEmpty, Unregister
<1>3. CASE Decrement(x)
  BY <1>0, <1>3 DEF Decrement, Removed
<1>4. CASE DeleteKey(x) \/ Unsubscribe(x)
  BY <1>0, <1>4 DEF DeleteKey, Unsubscribe, Removed
<1>5. CASE Disposing(x) \/ \E o \in Objects : Leave(x, o)
  BY <1>0, <1>5 DEF Disposing, StartDispose, FinishDispose, DisposeNext, Leave, Free
<1>6. CASE \E except \in BOOLEAN, ids \in SUBSET Connections : Publish(x, except, ids)
  <2>1. pc[x] = "idle" /\ UNCHANGED <<counter, pc>>
    BY <1>6 DEF Publish
  <2>2. pc' = [pc EXCEPT ![x] = "idle"]
    BY <1>0, <2>1
  <2> QED
    BY <2>1, <2>2
<1> QED
  BY <1>1, <1>2, <1>3, <1>4, <1>5, <1>6 DEF ConnectionStep, Removing

\* When nobody leaves but at the end: only ended connections leave, the key is
\* deleted at 0, and the counter counts at least what will be taken back.
Staying ==
  /\ OneAtATime
  /\ \A x \in Connections :
       /\ pc[x] \in {"removing", "testing", "unregistering", "decrementing", "decrementingLast",
                     "deleting", "unsubscribing"} => closing[x]
       /\ pc[x] = "deleting" => counter = 0
  /\ Cardinality(Decrements) <= counter

StaysCounted == situation = "staying" => Staying

LEMMA InitStaying == SituationsInit => StaysCounted
<1> SUFFICES ASSUME Init PROVE Staying
  BY DEF SituationsInit, StaysCounted
<1>1. Decrements = {}
  <2>1. \A o \in Objects : None[o] = 0
    BY DEF None
  <2>2. Entries(None) = {}
    BY <2>1 DEF Entries
  <2>3. \A x \in Connections : Owed(x) = {}
    BY <2>2 DEF Init, Owed, Underway
  <2> QED
    BY <2>3 DEF Decrements
<1>2. Cardinality(Decrements) <= counter
  BY <1>1, FS_EmptySet DEF Init
<1>3. OneAtATime
  BY DEF Init, OneAtATime
<1> QED
  BY <1>2, <1>3 DEF Init, Staying

\* A failing command loses a decrement or adds an increment, never more.
LEMMA FailureStaysCounted ==
  ASSUME IInv, counter \in Int, Staying, NEW x \in Connections, CommandFails(x)
  PROVE  Cardinality(Decrements') <= counter'
<1> USE DEF Labels
<1>0. /\ MemberTypes /\ pc \in [Connections -> Labels] /\ closing \in [Connections -> BOOLEAN]
      /\ Cardinality(Decrements) \in Nat /\ Cardinality(Decrements) <= counter
      /\ UNCHANGED <<closing, added, todo>>
      /\ Goto(x, IF closing[x] THEN "gone" ELSE "idle")
      /\ counter' \in {counter, Executed(x)}
  BY CountIsNatural DEF IInv, TInv, ControlTypes, Staying, CommandFails, connVars
<1>1. CASE pc[x] \in {"decrementing", "decrementingLast"}
  <2>1. closing[x] /\ Underway(x) /\ ~Underway(x)'
    BY <1>0, <1>1 DEF Staying, Underway, Goto
  <2>2. Token \notin Entries(todo[x])
    BY <1>0, TokenIsNoEntry DEF MemberTypes
  <2>3. Token \in Owed(x) /\ Owed(x)' = Owed(x) \ {Token}
    BY <1>0, <2>1, <2>2 DEF Owed, Token, Entries
  <2>4. \A y \in Connections : y # x => Owed(y)' = Owed(y)
    BY <1>0, OthersOwe
  <2>5. Cardinality(Decrements') = Cardinality(Decrements) - 1
    BY <1>0, <2>3, <2>4, OwesOneLess
  <2>6. counter' = counter \/ counter' = counter - 1
    BY <1>0, <1>1 DEF Executed
  <2> QED
    BY <1>0, <2>5, <2>6
<1>2. CASE pc[x] \in {"creating", "checking", "incrementing", "deleting", "unsubscribing"}
  <2>1. ~Underway(x) /\ ~Underway(x)'
    BY <1>0, <1>2 DEF Underway, Goto
  <2>2. Cardinality(Decrements') = Cardinality(Decrements)
    BY <1>0, <2>1, OwesAsBefore
  <2>3. counter' = counter \/ counter' = counter + 1
    BY <1>0, <1>2 DEF Executed, Staying
  <2> QED
    BY <1>0, <2>2, <2>3
<1> QED
  BY <1>1, <1>2 DEF CommandFails

\* A crash loses decrements only.
LEMMA CrashStaysCounted ==
  ASSUME IInv, counter \in Int, Staying, NEW s \in Servers, Crash(s)
  PROVE  Cardinality(Decrements') <= counter'
<1>1. /\ pc' = [x \in Connections |-> IF Home[x] = s THEN "gone" ELSE pc[x]]
      /\ UNCHANGED <<counter, added, todo, closing>>
  BY DEF Crash, connVars
<1>2. ASSUME NEW x \in Connections PROVE Owed(x)' \subseteq Owed(x)
  BY <1>1 DEF Owed, Underway, Entries
<1>3. Decrements' \subseteq Decrements
  BY <1>2 DEF Decrements
<1>4. Cardinality(Decrements') <= Cardinality(Decrements)
  BY <1>3, DecrementsFinite, FS_Subset DEF IInv, TInv
<1>5. (Cardinality(Decrements) \in Nat)'
  <2>1. IInv'
    BY CrashKeeps
  <2> QED
    BY <2>1, CountIsNatural, PTL
<1> QED
  BY <1>1, <1>4, <1>5, CountIsNatural DEF Staying

LEMMA NextStaying ==
  IInv /\ counter \in Int /\ StaysCounted /\ [SituationsNext]_situationVars => StaysCounted'
<1> SUFFICES ASSUME IInv, counter \in Int, Staying, situation = "staying",
                    [SituationsNext]_situationVars, situation' = situation
             PROVE  Staying'
  BY DEF StaysCounted, SituationsNext, situationVars
<1>0. pc \in [Connections -> Labels] /\ closing \in [Connections -> BOOLEAN]
  BY DEF IInv, TInv, ControlTypes
<1>1. CASE UNCHANGED vars
  <2>1. UNCHANGED <<counter, pc, closing>> /\ Decrements' = Decrements
    BY <1>1, OthersBalance DEF vars, connVars
  <2> QED
    BY <2>1 DEF Staying, OneAtATime
<1>2. CASE SituationsNext
  <2>0. /\ OneAtATime'
        /\ \A x \in Connections : pc'[x] = "removing" => closing'[x]
    BY <1>2 DEF SituationsNext, Allowed
  <2>1. ASSUME NEW x \in Connections, ConnectionStep(x), UNCHANGED failures PROVE Staying'
    <3>1. PICK l \in Labels :
           /\ pc' = [pc EXCEPT ![x] = l]
           /\ l \in {"testing", "unregistering", "decrementing", "decrementingLast", "deleting",
                     "unsubscribing"}
                => /\ closing' = closing
                   /\ pc[x] \in {"removing", "testing", "unregistering", "decrementing",
                                 "decrementingLast", "deleting"}
           /\ l = "deleting" => pc[x] = "decrementingLast" /\ counter' = 0
           /\ pc[x] \in Quiet => counter' = counter
      BY <2>1, Moves
    <3>2. Balanced(x)
      BY <2>1, StepsBalance
    <3>3. closing' = closing \/ closing' = [closing EXCEPT ![x] = TRUE]
      BY <2>1 DEF ConnectionStep, Joining, Removing, Disposing, Add, TryAdd, CheckLimit, CreateGroup,
           RegisterGroup, Increment, AddMember, Record, RemoveMember, TestEmpty, Unregister,
           Decrement, DeleteKey, Unsubscribe, StartDispose, FinishDispose, DisposeNext, Leave,
           Publish, connVars
    <3>4. Cardinality(Decrements') <= counter'
      <4>1. Cardinality(Decrements) \in Nat /\ Cardinality(Decrements) <= counter
        BY CountIsNatural DEF Staying
      <4>2. pc[x] = "deleting" => counter = 0
        BY DEF Staying
      <4>3. pc[x] \in {"decrementing", "decrementingLast"} => closing[x]
        BY DEF Staying
      <4> QED
        BY <3>2, <4>1, <4>2, <4>3 DEF Balanced
    <3>5. ASSUME NEW y \in Connections, pc'[y] = "deleting" PROVE counter' = 0
      <4>1. CASE y = x
        BY <1>0, <3>1, <3>5, <4>1
      <4>2. CASE y # x
        <5>1. pc[y] = "deleting" /\ counter = 0
          BY <1>0, <3>1, <3>5, <4>2 DEF Staying
        <5>2. pc[x] \in Quiet
          BY <4>2, <5>1 DEF Staying, OneAtATime, Quiet
        <5> QED
          BY <3>1, <5>1, <5>2
      <4> QED
        BY <4>1, <4>2
    <3>6. ASSUME NEW y \in Connections,
                 pc'[y] \in {"removing", "testing", "unregistering", "decrementing",
                             "decrementingLast", "deleting", "unsubscribing"}
          PROVE  closing'[y]
      <4>1. CASE pc'[y] = "removing"
        BY <2>0, <4>1
      <4>2. CASE pc'[y] # "removing" /\ y = x
        BY <1>0, <3>1, <3>6, <4>2 DEF Staying
      <4>3. CASE y # x
        BY <1>0, <3>1, <3>3, <3>6, <4>3 DEF Staying
      <4> QED
        BY <4>1, <4>2, <4>3
    <3> QED
      BY <2>0, <3>4, <3>5, <3>6 DEF Staying
  <2>2. ASSUME NEW s \in Servers, NEW o \in Objects, Deliver(s, o) PROVE Staying'
    <3>1. UNCHANGED <<counter, pc, closing>> /\ Decrements' = Decrements
      BY <2>2, OthersBalance DEF Deliver, connVars
    <3> QED
      BY <3>1 DEF Staying, OneAtATime
  <2>3. ASSUME NEW x \in Connections, CommandFails(x) PROVE Staying'
    <3>1. /\ pc' = [pc EXCEPT ![x] = IF closing[x] THEN "gone" ELSE "idle"]
          /\ closing' = closing /\ counter' \in {counter, Executed(x)}
          /\ pc[x] \notin Quiet
      BY <2>3 DEF CommandFails, Goto, connVars, Quiet
    <3>2. ASSUME NEW y \in Connections, y # x PROVE pc'[y] \in Quiet
      BY <1>0, <3>1, <3>2 DEF Staying, OneAtATime, Quiet
    <3>3. \A y \in Connections : pc'[y] \in Quiet
      BY <1>0, <3>1, <3>2 DEF Quiet
    <3>4. Cardinality(Decrements') <= counter'
      BY <2>3, FailureStaysCounted
    <3> QED
      BY <2>0, <3>3, <3>4 DEF Staying, Quiet
  <2>4. ASSUME NEW s \in Servers, Crash(s) PROVE Staying'
    <3>1. /\ pc' = [x \in Connections |-> IF Home[x] = s THEN "gone" ELSE pc[x]]
          /\ UNCHANGED <<counter, closing>>
      BY <2>4 DEF Crash, connVars
    <3>2. \A x \in Connections : pc'[x] = "gone" \/ pc'[x] = pc[x]
      BY <3>1
    <3>3. Cardinality(Decrements') <= counter'
      BY <2>4, CrashStaysCounted
    <3> QED
      BY <2>0, <3>1, <3>2, <3>3 DEF Staying
  <2> QED
    BY <1>2, <2>1, <2>2, <2>3, <2>4 DEF SituationsNext, Next
<1> QED
  BY <1>1, <1>2 DEF situationVars

\* Every member owes a decrement, so the decrements owed are as many as the members.
LEMMA MembersOwe ==
  ASSUME IInv, counter \in Int, Staying PROVE CountsEveryMember
<1> DEFINE Members == {x \in Connections : inGroup[x] # {}}
           f == [t \in Decrements |-> t[1]]
           R == {f[t] : t \in Decrements}
<1>1. ASSUME NEW x \in Members PROVE Owed(x) # {}
  <2>1. PICK o \in Objects : o \in inGroup[x]
    BY DEF IInv, TInv, MemberTypes
  <2>2. /\ added[x][o] \in Nat /\ todo[x][o] \in Nat
        /\ closing[x] \in BOOLEAN /\ Accounted(x)
    BY DEF IInv, TInv, MemberTypes, ControlTypes, Leaving
  <2>3. ASSUME closing[x], todo[x][o] > 0 PROVE Owed(x) # {}
    <3>1. 1 \in 1..todo[x][o]
      BY <2>2, <2>3
    <3>2. <<o, 1>> \in Entries(todo[x])
      BY <3>1 DEF Entries
    <3> QED
      BY <2>3, <3>2 DEF Owed
  <2>4. ASSUME ~closing[x], added[x][o] > 0 PROVE Owed(x) # {}
    <3>1. 1 \in 1..added[x][o]
      BY <2>2, <2>4
    <3>2. <<o, 1>> \in Entries(added[x])
      BY <3>1 DEF Entries
    <3> QED
      BY <2>4, <3>2 DEF Owed
  <2>5. ASSUME Underway(x) PROVE Owed(x) # {}
    BY <2>5 DEF Owed
  <2>6. CASE closing[x]
    <3>1. todo[x][o] > 0 \/ pc[x] = "removing"
      BY <2>1, <2>2, <2>6 DEF Accounted
    <3> QED
      BY <2>3, <2>5, <2>6, <3>1 DEF Underway
  <2>7. CASE ~closing[x]
    <3>1. added[x][o] > 0 \/ pc[x] = "recording"
      BY <2>1, <2>2, <2>7 DEF Accounted
    <3> QED
      BY <2>4, <2>5, <2>7, <3>1 DEF Underway
  <2> QED
    BY <2>6, <2>7, Zenon
<1>2. Members \subseteq R
  <2> SUFFICES ASSUME NEW x \in Members PROVE x \in R
    OBVIOUS
  <2>1. PICK e \in Owed(x) : TRUE
    BY <1>1
  <2>2. <<x, e>> \in Decrements
    BY InDecrements
  <2>3. f[<<x, e>>] = x
    BY <2>2
  <2> QED
    BY <2>2, <2>3
<1>3. f \in Surjection(Decrements, R)
  BY DEF Surjection
<1>4. IsFiniteSet(Decrements) /\ Cardinality(Decrements) \in Nat
  BY DecrementsFinite DEF IInv, TInv
<1>5. IsFiniteSet(R) /\ Cardinality(R) <= Cardinality(Decrements)
  <2> HIDE DEF f, R
  <2> QED
    BY <1>3, <1>4, FS_Surjection
<1>6. /\ Cardinality(Members) <= Cardinality(R)
      /\ Cardinality(Members) \in Nat /\ Cardinality(R) \in Nat
  <2> HIDE DEF Members, R
  <2> QED
    BY <1>2, <1>5, FS_Subset, FS_CardinalityType
<1> QED
  BY <1>4, <1>5, <1>6 DEF CountsEveryMember, Staying

\* RedisGroup.RemoveAsync: in a hub whose connections leave only by their end,
\* the shared counter is never below the number of members, whatever commands
\* fail and whichever servers crash.
THEOREM CountsMembers == SituationsSpec => []StayingIsCounted
<1>1. Spec => [](IInv /\ RestTypes)
  BY Invariance, InitRest, NextRest, PTL DEF Spec
<1>2. SituationsSpec => [](IInv /\ counter \in Int)
  <2>1. RestTypes => counter \in Int
    BY DEF RestTypes
  <2> QED
    BY <1>1, <2>1, SituationsAreRuns, PTL
<1>3. IInv /\ counter \in Int /\ StaysCounted => StayingIsCounted
  BY MembersOwe DEF StaysCounted, StayingIsCounted
<1> QED
  BY <1>2, <1>3, InitStaying, NextStaying, PTL DEF SituationsSpec
-----------------------------------------------------------------------------
(***************************************************************************)
(* One join or leave at a time: members stay in a subscribed object.       *)
(***************************************************************************)
Past == {"registering", "checking", "incrementing", "adding"}

\* The object that is registered, those that have members and the one a
\* connection is about to enter are subscribed.
RegisteredListens == \A s \in Servers : registered[s] # NoObject => registered[s] \in subscribed[s]
MembersListen == \A x \in Connections : inGroup[x] \subseteq subscribed[Home[x]]
EntersListening == \A x \in Connections : pc[x] \in Past => grp[x] \in subscribed[Home[x]]

\* The object a connection unsubscribes has no members and is not registered.
LastHasLeft ==
  \A x \in Connections :
    /\ pc[x] \in {"unregistering", "decrementingLast", "deleting", "unsubscribing"}
         => MembersOf(Home[x], grp[x]) = {}
    /\ pc[x] \in {"decrementingLast", "deleting", "unsubscribing"}
         => registered[Home[x]] = NoObject

Listening ==
  OneAtATime /\ RegisteredListens /\ MembersListen /\ EntersListening /\ LastHasLeft

Serial == situation \in {"serialized", "staying"}

\* The lemmas below are about a step of x that leaves all others where they are.
LEMMA OthersAreQuiet ==
  ASSUME IInv, OneAtATime, NEW x \in Connections, pc[x] \notin Quiet,
         NEW l \in Labels, pc' = [pc EXCEPT ![x] = l]
  PROVE  \A y \in Connections : y # x => pc[y] \in Quiet /\ pc'[y] \in Quiet
BY DEF IInv, TInv, ControlTypes, OneAtATime, Quiet

LEMMA JoiningListens ==
  ASSUME IInv, RestTypes, Listening, NEW x \in Connections, Joining(x)
  PROVE  RegisteredListens' /\ MembersListen' /\ EntersListening' /\ LastHasLeft'
<1> USE DEF groupVars, connVars, Goto, Labels, Quiet, Past
<1>0. /\ pc \in [Connections -> Labels] /\ grp \in [Connections -> 0..MaxObjects]
      /\ registered \in [Servers -> 0..MaxObjects] /\ created \in [Servers -> 0..MaxObjects]
      /\ subscribed \in [Servers -> SUBSET Objects] /\ inGroup \in [Connections -> SUBSET Objects]
      /\ Home[x] \in Servers
      /\ RegisteredListens /\ MembersListen /\ EntersListening /\ LastHasLeft /\ OneAtATime
  BY HomeAssumption DEF IInv, TInv, ControlTypes, ObjectTypes, MemberTypes, RestTypes, SubscribedTypes, Listening
<1>1. CASE Add(x) \/ TryAdd(x) \/ CheckLimit(x) \/ Increment(x) \/ Record(x)
  <2>1. UNCHANGED <<registered, subscribed, inGroup>>
    BY <1>1 DEF Add, TryAdd, CheckLimit, Increment, Record
  <2>2. RegisteredListens' /\ MembersListen'
    BY <1>0, <2>1 DEF RegisteredListens, MembersListen
  <2>3. EntersListening'
    BY <1>0, <1>1, <2>1 DEF Add, TryAdd, Free, CheckLimit, Increment, Record, RegisteredListens, EntersListening
  <2>4. LastHasLeft'
    BY <1>0, <1>1, <2>1 DEF Add, TryAdd, Free, CheckLimit, Increment, Record, LastHasLeft, MembersOf
  <2> QED
    BY <2>2, <2>3, <2>4
<1>2. CASE CreateGroup(x)
  <2>1. /\ UNCHANGED <<registered, inGroup>>
        /\ subscribed' = [subscribed EXCEPT ![Home[x]] = @ \cup {created[Home[x]] + 1}]
        /\ grp' = [grp EXCEPT ![x] = created[Home[x]] + 1]
        /\ pc' = [pc EXCEPT ![x] = "registering"]
    BY <1>2 DEF CreateGroup
  <2>2. \A s \in Servers : subscribed[s] \subseteq subscribed'[s]
    BY <1>0, <2>1
  <2>3. RegisteredListens' /\ MembersListen'
    BY <1>0, <2>1, <2>2, HomeAssumption DEF RegisteredListens, MembersListen
  <2>4. EntersListening'
    BY <1>0, <2>1, <2>2, HomeAssumption DEF EntersListening
  <2>5. LastHasLeft'
    BY <1>0, <2>1 DEF LastHasLeft, MembersOf
  <2> QED
    BY <2>3, <2>4, <2>5
<1>3. CASE RegisterGroup(x)
  <2>0. /\ pc[x] = "registering" /\ pc' = [pc EXCEPT ![x] = "incrementing"]
        /\ UNCHANGED <<subscribed, inGroup>>
        /\ IF registered[Home[x]] = NoObject
             THEN registered' = [registered EXCEPT ![Home[x]] = grp[x]] /\ grp' = grp
             ELSE grp' = [grp EXCEPT ![x] = registered[Home[x]]] /\ registered' = registered
    BY <1>3 DEF RegisterGroup
  <2>1. \A y \in Connections : y # x => pc[y] \in Quiet /\ pc'[y] \in Quiet
    BY <1>0, <2>0, OthersAreQuiet
  <2>2. grp[x] \in subscribed[Home[x]]
    BY <2>0, <1>0 DEF EntersListening
  <2>3. RegisteredListens'
    BY <1>0, <2>0, <2>2 DEF RegisteredListens
  <2>4. MembersListen'
    BY <1>0, <2>0 DEF MembersListen
  <2>5. EntersListening'
    <3>1. grp'[x] \in subscribed[Home[x]]
      BY <1>0, <2>0, <2>2 DEF RegisteredListens
    <3> QED
      BY <1>0, <2>0, <2>1, <3>1 DEF EntersListening
  <2>6. LastHasLeft'
    BY <1>0, <2>0, <2>1 DEF LastHasLeft
  <2> QED
    BY <2>3, <2>4, <2>5, <2>6
<1>4. CASE AddMember(x)
  <2>0. /\ pc[x] = "adding" /\ pc' = [pc EXCEPT ![x] = "recording"]
        /\ UNCHANGED <<registered, subscribed, grp>>
        /\ inGroup' = [inGroup EXCEPT ![x] = @ \cup {grp[x]}]
    BY <1>4 DEF AddMember
  <2>1. \A y \in Connections : y # x => pc[y] \in Quiet /\ pc'[y] \in Quiet
    BY <1>0, <2>0, OthersAreQuiet
  <2>2. grp[x] \in subscribed[Home[x]]
    BY <2>0, <1>0 DEF EntersListening
  <2>3. RegisteredListens'
    BY <1>0, <2>0 DEF RegisteredListens
  <2>4. MembersListen'
    BY <1>0, <2>0, <2>2 DEF MembersListen
  <2>5. EntersListening'
    BY <1>0, <2>0, <2>1 DEF EntersListening
  <2>6. LastHasLeft'
    BY <1>0, <2>0, <2>1 DEF LastHasLeft
  <2> QED
    BY <2>3, <2>4, <2>5, <2>6
<1> QED
  BY <1>1, <1>2, <1>3, <1>4 DEF Joining

\* Unsubscribing an object that has no members and is not registered.
LEMMA UnsubscribingListens ==
  ASSUME IInv, RestTypes, Listening, NEW x \in Connections, pc[x] = "unsubscribing",
         NEW l \in Quiet \cup {"disposing"}, pc' = [pc EXCEPT ![x] = l],
         subscribed' = subscribed \/ subscribed' = [subscribed EXCEPT ![Home[x]] = @ \ {grp[x]}],
         UNCHANGED <<registered, inGroup, grp>>
  PROVE  RegisteredListens' /\ MembersListen' /\ EntersListening' /\ LastHasLeft'
<1> USE DEF Labels, Quiet, Past
<1>0. /\ pc \in [Connections -> Labels] /\ grp \in [Connections -> 0..MaxObjects]
      /\ subscribed \in [Servers -> SUBSET Objects]
      /\ Home[x] \in Servers
      /\ RegisteredListens /\ MembersListen /\ LastHasLeft /\ OneAtATime
  BY HomeAssumption DEF IInv, TInv, ControlTypes, RestTypes, SubscribedTypes, Listening
<1>1. registered[Home[x]] = NoObject /\ MembersOf(Home[x], grp[x]) = {}
  BY <1>0 DEF LastHasLeft
<1>2. \A y \in Connections : y # x => pc'[y] \in Quiet
  BY <1>0, OthersAreQuiet
<1>3. RegisteredListens'
  BY <1>0, <1>1 DEF RegisteredListens
<1>4. MembersListen'
  <2> SUFFICES ASSUME NEW y \in Connections, NEW o \in inGroup[y] PROVE o \in subscribed'[Home[y]]
    BY DEF MembersListen
  <2>1. o \in subscribed[Home[y]] /\ Home[y] \in Servers
    BY <1>0, HomeAssumption DEF MembersListen
  <2>2. Home[y] = Home[x] => o # grp[x]
    BY <1>1 DEF MembersOf
  <2> QED
    BY <1>0, <2>1, <2>2
<1>5. EntersListening' /\ LastHasLeft'
  BY <1>0, <1>2 DEF EntersListening, LastHasLeft
<1> QED
  BY <1>3, <1>4, <1>5

LEMMA RemovingListens ==
  ASSUME IInv, RestTypes, Listening, NEW x \in Connections, Removing(x)
  PROVE  RegisteredListens' /\ MembersListen' /\ EntersListening' /\ LastHasLeft'
<1> USE DEF groupVars, connVars, Goto, Removed, Labels, Quiet, Past
<1>0. /\ pc \in [Connections -> Labels] /\ grp \in [Connections -> 0..MaxObjects]
      /\ registered \in [Servers -> 0..MaxObjects]
      /\ subscribed \in [Servers -> SUBSET Objects] /\ inGroup \in [Connections -> SUBSET Objects]
      /\ Home[x] \in Servers
      /\ RegisteredListens /\ MembersListen /\ EntersListening /\ LastHasLeft /\ OneAtATime
  BY HomeAssumption DEF IInv, TInv, ControlTypes, ObjectTypes, MemberTypes, RestTypes, SubscribedTypes, Listening
<1>1. CASE RemoveMember(x)
  <2>1. /\ pc[x] = "removing" /\ pc' = [pc EXCEPT ![x] = "testing"]
        /\ UNCHANGED <<registered, subscribed, grp>>
        /\ inGroup' = [inGroup EXCEPT ![x] = @ \ {grp[x]}]
    BY <1>1 DEF RemoveMember
  <2>2. \A y \in Connections : inGroup'[y] \subseteq inGroup[y]
    BY <1>0, <2>1
  <2>3. RegisteredListens' /\ MembersListen'
    BY <1>0, <2>1, <2>2 DEF RegisteredListens, MembersListen
  <2>4. EntersListening'
    BY <1>0, <2>1 DEF EntersListening
  <2>5. LastHasLeft'
    BY <1>0, <2>1, <2>2 DEF LastHasLeft, MembersOf
  <2> QED
    BY <2>3, <2>4, <2>5
<1>2. CASE TestEmpty(x)
  <2>1. /\ pc[x] = "testing" /\ UNCHANGED <<registered, subscribed, grp, inGroup>>
        /\ pc' = [pc EXCEPT ![x] = IF MembersOf(Home[x], grp[x]) = {}
                                     THEN "unregistering" ELSE "decrementing"]
    BY <1>2 DEF TestEmpty
  <2>2. RegisteredListens' /\ MembersListen' /\ EntersListening'
    BY <1>0, <2>1 DEF RegisteredListens, MembersListen, EntersListening
  <2>3. LastHasLeft'
    BY <1>0, <2>1 DEF LastHasLeft, MembersOf
  <2> QED
    BY <2>2, <2>3
<1>3. CASE Unregister(x)
  <2>1. /\ pc[x] = "unregistering" /\ UNCHANGED <<subscribed, grp, inGroup>>
        /\ registered' = [registered EXCEPT ![Home[x]] = NoObject]
        /\ pc' = [pc EXCEPT ![x] = IF registered[Home[x]] = NoObject
                                     THEN "decrementing" ELSE "decrementingLast"]
    BY <1>3 DEF Unregister
  <2>2. RegisteredListens' /\ MembersListen' /\ EntersListening'
    BY <1>0, <2>1 DEF RegisteredListens, MembersListen, EntersListening
  <2>3. \A s \in Servers : registered[s] = NoObject => registered'[s] = NoObject
    BY <1>0, <2>1
  <2>4. LastHasLeft'
    BY <1>0, <2>1, <2>3, HomeAssumption DEF LastHasLeft, MembersOf
  <2> QED
    BY <2>2, <2>4
<1>4. CASE Decrement(x) \/ DeleteKey(x)
  <2>1. UNCHANGED <<registered, subscribed, grp, inGroup>>
    BY <1>4 DEF Decrement, DeleteKey
  <2>2. RegisteredListens' /\ MembersListen' /\ EntersListening'
    BY <1>0, <1>4, <2>1 DEF Decrement, DeleteKey, RegisteredListens, MembersListen, EntersListening
  <2>3. LastHasLeft'
    BY <1>0, <1>4, <2>1 DEF Decrement, DeleteKey, LastHasLeft, MembersOf
  <2> QED
    BY <2>2, <2>3
<1>5. CASE Unsubscribe(x)
  <2>1. /\ pc[x] = "unsubscribing"
        /\ subscribed' = [subscribed EXCEPT ![Home[x]] = @ \ {grp[x]}]
        /\ UNCHANGED <<registered, inGroup, grp>>
        /\ \E l \in Quiet \cup {"disposing"} : pc' = [pc EXCEPT ![x] = l]
    BY <1>5 DEF Unsubscribe
  <2> QED
    BY <2>1, UnsubscribingListens
<1> QED
  BY <1>1, <1>2, <1>3, <1>4, <1>5 DEF Removing

LEMMA DisposingListens ==
  ASSUME IInv, Listening, NEW x \in Connections,
         Disposing(x) \/ \E o \in Objects : Leave(x, o)
  PROVE  RegisteredListens' /\ MembersListen' /\ EntersListening' /\ LastHasLeft'
<1> USE DEF groupVars, connVars, Goto, Labels, Past
<1>0. /\ pc \in [Connections -> Labels] /\ grp \in [Connections -> 0..MaxObjects]
      /\ RegisteredListens /\ MembersListen /\ EntersListening /\ LastHasLeft
  BY DEF IInv, TInv, ControlTypes, Listening
<1>1. /\ UNCHANGED <<registered, subscribed, inGroup>>
      /\ \E l \in {"disposing", "gone", "removing"} : pc' = [pc EXCEPT ![x] = l]
      /\ grp' = grp \/ \E o \in Objects : grp' = [grp EXCEPT ![x] = o]
  BY DEF Disposing, StartDispose, FinishDispose, DisposeNext, Leave
<1>2. RegisteredListens' /\ MembersListen' /\ EntersListening'
  BY <1>0, <1>1 DEF RegisteredListens, MembersListen, EntersListening
<1>3. LastHasLeft'
  BY <1>0, <1>1 DEF LastHasLeft, MembersOf
<1> QED
  BY <1>2, <1>3

LEMMA FailureListens ==
  ASSUME IInv, RestTypes, Listening, NEW x \in Connections, CommandFails(x)
  PROVE  RegisteredListens' /\ MembersListen' /\ EntersListening' /\ LastHasLeft'
<1> USE DEF connVars, Goto, Labels, Past
<1>0. /\ pc \in [Connections -> Labels] /\ grp \in [Connections -> 0..MaxObjects]
      /\ RegisteredListens /\ MembersListen /\ EntersListening /\ LastHasLeft
  BY DEF IInv, TInv, ControlTypes, Listening
<1>1. /\ \E l \in Quiet : pc' = [pc EXCEPT ![x] = l]
      /\ UNCHANGED <<registered, inGroup, grp>>
      /\ \/ subscribed' = subscribed
         \/ pc[x] = "unsubscribing" /\ subscribed' = [subscribed EXCEPT ![Home[x]] = @ \ {grp[x]}]
  BY DEF CommandFails, Quiet
<1>2. CASE subscribed' = subscribed
  <2>1. RegisteredListens' /\ MembersListen' /\ EntersListening'
    BY <1>0, <1>1, <1>2 DEF RegisteredListens, MembersListen, EntersListening, Quiet
  <2>2. LastHasLeft'
    BY <1>0, <1>1 DEF LastHasLeft, MembersOf, Quiet
  <2> QED
    BY <2>1, <2>2
<1>3. CASE subscribed' # subscribed
  BY <1>1, <1>3, UnsubscribingListens
<1> QED
  BY <1>2, <1>3

LEMMA CrashListens ==
  ASSUME IInv, RestTypes, Listening, NEW s \in Servers, Crash(s)
  PROVE  RegisteredListens' /\ MembersListen' /\ EntersListening' /\ LastHasLeft'
<1> USE DEF connVars, Past
<1>0. /\ registered \in [Servers -> 0..MaxObjects]
      /\ subscribed \in [Servers -> SUBSET Objects]
      /\ RegisteredListens /\ MembersListen /\ EntersListening /\ LastHasLeft
      /\ \A x \in Connections : Home[x] \in Servers
  BY HomeAssumption DEF IInv, TInv, ObjectTypes, RestTypes, SubscribedTypes, Listening
<1>1. /\ registered' = [registered EXCEPT ![s] = NoObject]
      /\ subscribed' = [subscribed EXCEPT ![s] = {}]
      /\ inGroup' = [x \in Connections |-> IF Home[x] = s THEN {} ELSE inGroup[x]]
      /\ pc' = [x \in Connections |-> IF Home[x] = s THEN "gone" ELSE pc[x]]
      /\ grp' = grp
  BY DEF Crash
<1>2. RegisteredListens'
  BY <1>0, <1>1 DEF RegisteredListens
<1>3. MembersListen'
  BY <1>0, <1>1 DEF MembersListen
<1>4. EntersListening'
  BY <1>0, <1>1 DEF EntersListening
<1>5. LastHasLeft'
  BY <1>0, <1>1 DEF LastHasLeft, MembersOf
<1> QED
  BY <1>2, <1>3, <1>4, <1>5

SerialListens == Serial => Listening

LEMMA InitListens == SituationsInit => SerialListens
<1> SUFFICES ASSUME Init PROVE Listening
  BY DEF SituationsInit, SerialListens
<1> QED
  BY DEF Init, Listening, OneAtATime, RegisteredListens, MembersListen, EntersListening, Past,
         LastHasLeft

LEMMA NextListens ==
  IInv /\ RestTypes /\ SerialListens /\ [SituationsNext]_situationVars => SerialListens'
<1> SUFFICES ASSUME IInv, RestTypes, Listening, Serial, situation' = situation,
                    [SituationsNext]_situationVars
             PROVE  Listening'
  BY DEF SerialListens, Serial, SituationsNext, situationVars
<1>1. ASSUME UNCHANGED <<registered, subscribed, inGroup, pc, grp>> PROVE Listening'
  BY <1>1 DEF Listening, OneAtATime, RegisteredListens, MembersListen, EntersListening, LastHasLeft,
              MembersOf
<1>2. CASE UNCHANGED vars
  BY <1>1, <1>2 DEF vars, groupVars, connVars
<1>3. CASE SituationsNext
  <2>0. OneAtATime'
    BY <1>3 DEF SituationsNext, Allowed, Serial
  <2>1. ASSUME NEW x \in Connections, ConnectionStep(x) PROVE Listening'
    <3>1. CASE \E except \in BOOLEAN, ids \in SUBSET Connections : Publish(x, except, ids)
      BY <1>1, <3>1 DEF Publish, groupVars, connVars
    <3> QED
      BY <2>0, <2>1, <3>1, JoiningListens, RemovingListens, DisposingListens DEF ConnectionStep, Listening
  <2>2. ASSUME NEW s \in Servers, NEW o \in Objects, Deliver(s, o) PROVE Listening'
    BY <1>1, <2>2 DEF Deliver, groupVars, connVars
  <2>3. ASSUME NEW x \in Connections, CommandFails(x) PROVE Listening'
    BY <2>0, <2>3, FailureListens DEF Listening
  <2>4. ASSUME NEW s \in Servers, Crash(s) PROVE Listening'
    BY <2>0, <2>4, CrashListens DEF Listening
  <2> QED
    BY <1>3, <2>1, <2>2, <2>3, <2>4 DEF SituationsNext, Next
<1> QED
  BY <1>2, <1>3 DEF situationVars

LEMMA SituationsInvariance == SituationsSpec => [](IInv /\ RestTypes /\ SerialListens)
<1>1. Spec => [](IInv /\ RestTypes)
  BY Invariance, InitRest, NextRest, PTL DEF Spec
<1> QED
  BY <1>1, SituationsAreRuns, InitListens, NextListens, PTL DEF SituationsSpec

\* RedisGroup.RemoveAsync: while joins and leaves do not overlap, the last member
\* unsubscribes no object that anybody is in, whatever fails and crashes.
THEOREM StaysSubscribed == SituationsSpec => [](Serial => JoinedIsSubscribed)
<1>1. SerialListens => (Serial => JoinedIsSubscribed)
  BY DEF SerialListens, Listening, MembersListen, JoinedIsSubscribed, Joined
<1> QED
  BY SituationsInvariance, <1>1, PTL
-----------------------------------------------------------------------------
(***************************************************************************)
(* Messages reach whoever was a member when they were published.           *)
(***************************************************************************)

\* A connection that joins at most once has not been added while it joins, is in
\* one object at most, and stays in addedGroups.
JoinsOnce ==
  \A x \in Connections :
    /\ pc[x] \in {"creating", "registering", "checking", "incrementing", "adding", "recording"}
         => added[x] = None
    /\ inGroup[x] # {} => added[x] # None \/ pc[x] = "recording"
    /\ \A o, p \in inGroup[x] : o = p

\* The audience of a message is addressed and has been added.
AudienceAdded ==
  \A id \in 1..Len(published) : \A x \in published[id].audience :
    x \in published[id].to /\ added[x] # None

\* As long as one of the audience is a member it has the message, or its object has.
OnItsWay ==
  \A id \in 1..Len(published) : \A x \in published[id].audience :
    inGroup[x] # {} => \/ id \in ToSet(received[x])
                       \/ \E o \in inGroup[x] : id \in ToSet(backlog[Home[x]][o])

Delivering == JoinsOnce /\ AudienceAdded /\ OnItsWay

SerialDelivers == Serial => Delivering

LEMMA AppendSet ==
  ASSUME NEW S, NEW q \in Seq(S), NEW e
  PROVE  ToSet(Append(q, e)) = ToSet(q) \cup {e}
<1>1. Len(q) \in Nat /\ DOMAIN q = 1..Len(q)
  OBVIOUS
<1>2. /\ DOMAIN Append(q, e) = 1..(Len(q) + 1)
      /\ \A i \in 1..Len(q) : Append(q, e)[i] = q[i]
      /\ Append(q, e)[Len(q) + 1] = e
  OBVIOUS
<1>3. 1..(Len(q) + 1) = 1..Len(q) \cup {Len(q) + 1}
  BY <1>1
<1>4. ASSUME NEW d PROVE d \in ToSet(Append(q, e)) <=> d \in ToSet(q) \cup {e}
  BY <1>1, <1>2, <1>3 DEF ToSet
<1> QED
  BY <1>4

LEMMA TailSet ==
  ASSUME NEW S, NEW q \in Seq(S), q # <<>>, NEW d \in ToSet(q), d # Head(q)
  PROVE  d \in ToSet(Tail(q))
<1>1. PICK i \in 1..Len(q) : d = q[i]
  BY DEF ToSet
<1>2. i # 1
  BY <1>1
<1>3. i - 1 \in DOMAIN Tail(q) /\ Tail(q)[i - 1] = q[i]
  BY <1>1, <1>2
<1> QED
  BY <1>1, <1>3 DEF ToSet

\* With MaxAdds = 1 a connection joins only when addedGroups is empty.
LEMMA NotAddedYet ==
  ASSUME MemberTypes, MaxAdds <= 1, NEW x \in Connections, Total(added[x]) < MaxAdds
  PROVE  added[x] = None
<1>1. added[x] \in [Objects -> Nat]
  BY DEF MemberTypes
<1>2. IsFiniteSet(Entries(added[x])) /\ Cardinality(Entries(added[x])) \in Nat
  BY <1>1, EntriesFinite, FS_CardinalityType
<1>3. Cardinality(Entries(added[x])) = 0
  BY <1>2, BoundsAssumption DEF Total
<1>4. Entries(added[x]) = {}
  BY <1>2, <1>3, FS_EmptySet
<1>5. ASSUME NEW o \in Objects PROVE added[x][o] = 0
  <2>1. added[x][o] \in Nat
    BY <1>1
  <2>2. CASE added[x][o] > 0
    <3>1. 1 \in 1..added[x][o]
      BY <2>1, <2>2
    <3>2. <<o, 1>> \in Entries(added[x])
      BY <3>1 DEF Entries
    <3> QED
      BY <1>4, <3>2
  <2> QED
    BY <2>1, <2>2
<1> QED
  BY <1>1, <1>5 DEF None

\* Steps that leave the messages alone and let nobody in.
LEMMA OthersDeliver ==
  ASSUME Delivering, UNCHANGED <<published, received>>,
         \A x \in Connections :
           /\ inGroup'[x] \subseteq inGroup[x]
           /\ added'[x] = added[x]
           /\ \A o \in inGroup'[x] : backlog'[Home[x]][o] = backlog[Home[x]][o]
           /\ inGroup'[x] # {} => inGroup'[x] = inGroup[x],
         \A id \in 1..Len(published) : published[id].audience \subseteq Connections
  PROVE  AudienceAdded' /\ OnItsWay'
<1>1. AudienceAdded'
  BY DEF Delivering, AudienceAdded
<1>2. ASSUME NEW id \in 1..Len(published), NEW x \in published[id].audience, inGroup'[x] # {}
      PROVE  \/ id \in ToSet(received[x])
             \/ \E o \in inGroup'[x] : id \in ToSet(backlog'[Home[x]][o])
  <2>1. x \in Connections /\ inGroup'[x] = inGroup[x]
    BY <1>2
  <2>2. \/ id \in ToSet(received[x])
        \/ \E o \in inGroup[x] : id \in ToSet(backlog[Home[x]][o])
    BY <1>2, <2>1 DEF Delivering, OnItsWay
  <2> QED
    BY <2>1, <2>2
<1> QED
  BY <1>1, <1>2 DEF OnItsWay

LEMMA AudienceType ==
  ASSUME RestTypes, NEW id \in 1..Len(published)
  PROVE  published[id].audience \subseteq Connections
<1> DEFINE Entry == [to : SUBSET Connections, audience : SUBSET Connections]
<1>1. published \in Seq(Entry)
  BY DEF RestTypes, MessageTypes
<1>2. published[id] \in Entry
  <2> HIDE DEF Entry
  <2> QED
    BY <1>1
<1> QED
  BY <1>2

LEMMA JoiningDelivers ==
  ASSUME IInv, RestTypes, Delivering, MaxAdds <= 1, NEW x \in Connections, Joining(x)
  PROVE  Delivering'
<1> USE DEF groupVars, connVars, msgVars, Goto, Labels
<1>0. /\ pc \in [Connections -> Labels] /\ MemberTypes
      /\ inGroup \in [Connections -> SUBSET Objects]
      /\ added \in [Connections -> [Objects -> Nat]]
      /\ JoinsOnce /\ AudienceAdded /\ OnItsWay
  BY DEF IInv, TInv, ControlTypes, MemberTypes, Delivering
<1>1. CASE Add(x) \/ TryAdd(x)
  <2>1. added[x] = None
    BY <1>0, <1>1, NotAddedYet DEF Add, TryAdd
  <2>2. UNCHANGED <<inGroup, added, backlog, published, received>>
    BY <1>1 DEF Add, TryAdd
  <2>3. JoinsOnce'
    BY <1>0, <1>1, <2>1, <2>2 DEF Add, TryAdd, Free, JoinsOnce
  <2> QED
    BY <2>2, <2>3, OthersDeliver, AudienceType DEF Delivering
<1>2. CASE CheckLimit(x) \/ CreateGroup(x) \/ RegisterGroup(x) \/ Increment(x)
  <2>1. UNCHANGED <<inGroup, added, backlog, published, received>>
    BY <1>2 DEF CheckLimit, CreateGroup, RegisterGroup, Increment
  <2>2. JoinsOnce'
    BY <1>0, <1>2, <2>1 DEF CheckLimit, CreateGroup, RegisterGroup, Increment, JoinsOnce
  <2> QED
    BY <2>1, <2>2, OthersDeliver, AudienceType DEF Delivering
<1>3. CASE AddMember(x)
  <2>1. /\ pc[x] = "adding" /\ pc' = [pc EXCEPT ![x] = "recording"]
        /\ inGroup' = [inGroup EXCEPT ![x] = @ \cup {grp[x]}]
        /\ UNCHANGED <<added, backlog, published, received>>
    BY <1>3 DEF AddMember
  <2>2. added[x] = None /\ inGroup[x] = {}
    BY <1>0, <2>1 DEF JoinsOnce
  <2>3. JoinsOnce'
    BY <1>0, <2>1, <2>2 DEF JoinsOnce
  <2>4. AudienceAdded'
    BY <1>0, <2>1 DEF AudienceAdded
  <2>5. ASSUME NEW id \in 1..Len(published), NEW y \in published[id].audience, inGroup'[y] # {}
        PROVE  \/ id \in ToSet(received[y])
               \/ \E o \in inGroup'[y] : id \in ToSet(backlog[Home[y]][o])
    <3>1. y # x
      BY <1>0, <2>2, <2>5 DEF AudienceAdded
    <3>2. inGroup'[y] = inGroup[y]
      BY <1>0, <2>1, <2>5, <3>1, AudienceType
    <3> QED
      BY <1>0, <2>5, <3>2 DEF OnItsWay
  <2> QED
    BY <2>1, <2>3, <2>4, <2>5 DEF Delivering, OnItsWay
<1>4. CASE Record(x)
  <2>1. /\ pc[x] = "recording" /\ pc' = [pc EXCEPT ![x] = "idle"]
        /\ added' = [added EXCEPT ![x] = [added[x] EXCEPT ![grp[x]] = added[x][grp[x]] + 1]]
        /\ UNCHANGED <<inGroup, backlog, published, received>>
    BY <1>4 DEF Record
  <2>2. added[x] = None /\ grp[x] \in Objects
    BY <1>0, <2>1 DEF JoinsOnce, IInv, TInv, HasObject
  <2>3. added'[x] # None
    <3>1. added'[x][grp[x]] = 1 /\ None[grp[x]] = 0
      BY <1>0, <2>1, <2>2 DEF None
    <3> QED
      BY <3>1
  <2>4. JoinsOnce'
    BY <1>0, <2>1, <2>3 DEF JoinsOnce
  <2>5. AudienceAdded'
    BY <1>0, <2>1, <2>3, AudienceType DEF AudienceAdded
  <2>6. OnItsWay'
    BY <1>0, <2>1 DEF OnItsWay
  <2> QED
    BY <2>4, <2>5, <2>6 DEF Delivering
<1> QED
  BY <1>1, <1>2, <1>3, <1>4 DEF Joining

LEMMA RemovingDelivers ==
  ASSUME IInv, RestTypes, Listening, Delivering, NEW x \in Connections, Removing(x)
  PROVE  Delivering'
<1> USE DEF groupVars, connVars, msgVars, Goto, Labels
<1>0. /\ pc \in [Connections -> Labels]
      /\ inGroup \in [Connections -> SUBSET Objects]
      /\ backlog \in [Servers -> [Objects -> Seq(1..MaxMessages)]]
      /\ JoinsOnce /\ Home[x] \in Servers
  BY HomeAssumption DEF IInv, TInv, ControlTypes, MemberTypes, Delivering, RestTypes, MessageTypes
<1>1. CASE RemoveMember(x)
  <2>1. /\ pc[x] = "removing" /\ pc' = [pc EXCEPT ![x] = "testing"]
        /\ inGroup' = [inGroup EXCEPT ![x] = @ \ {grp[x]}]
        /\ UNCHANGED <<added, backlog, published, received>>
    BY <1>1 DEF RemoveMember
  <2>2. ASSUME NEW y \in Connections
        PROVE  inGroup'[y] \subseteq inGroup[y] /\ (inGroup'[y] # {} => inGroup'[y] = inGroup[y])
    BY <1>0, <2>1 DEF JoinsOnce
  <2>3. JoinsOnce'
    BY <1>0, <2>1, <2>2 DEF JoinsOnce
  <2> QED
    BY <2>1, <2>2, <2>3, OthersDeliver, AudienceType DEF Delivering
<1>2. CASE TestEmpty(x) \/ Unregister(x) \/ Decrement(x) \/ DeleteKey(x)
  <2>1. UNCHANGED <<inGroup, added, backlog, published, received>>
    BY <1>2 DEF TestEmpty, Unregister, Decrement, DeleteKey
  <2>2. JoinsOnce'
    BY <1>0, <1>2, <2>1 DEF TestEmpty, Unregister, Decrement, DeleteKey, Removed, JoinsOnce
  <2> QED
    BY <2>1, <2>2, OthersDeliver, AudienceType DEF Delivering
<1>3. CASE Unsubscribe(x)
  <2>1. /\ pc[x] = "unsubscribing"
        /\ backlog' = [backlog EXCEPT ![Home[x]] = [backlog[Home[x]] EXCEPT ![grp[x]] = <<>>]]
        /\ UNCHANGED <<inGroup, added, published, received>>
    BY <1>3 DEF Unsubscribe
  <2>2. MembersOf(Home[x], grp[x]) = {}
    BY <2>1 DEF Listening, LastHasLeft
  <2>3. ASSUME NEW y \in Connections, NEW o \in inGroup[y]
        PROVE  backlog'[Home[y]][o] = backlog[Home[y]][o]
    <3>1. Home[y] \in Servers /\ o \in Objects
      BY <1>0, HomeAssumption
    <3>2. Home[y] = Home[x] => o # grp[x]
      BY <2>2 DEF MembersOf
    <3> QED
      BY <1>0, <2>1, <3>1, <3>2
  <2>4. JoinsOnce'
    BY <1>0, <1>3, <2>1 DEF Unsubscribe, Removed, JoinsOnce
  <2> QED
    BY <2>1, <2>3, <2>4, OthersDeliver, AudienceType DEF Delivering
<1> QED
  BY <1>1, <1>2, <1>3 DEF Removing

LEMMA DisposingDelivers ==
  ASSUME IInv, RestTypes, Delivering, NEW x \in Connections,
         Disposing(x) \/ \E o \in Objects : Leave(x, o)
  PROVE  Delivering'
<1> USE DEF groupVars, connVars, msgVars, Goto, Labels
<1>0. pc \in [Connections -> Labels] /\ JoinsOnce
  BY DEF IInv, TInv, ControlTypes, Delivering
<1>1. /\ UNCHANGED <<inGroup, added, backlog, published, received>>
      /\ pc[x] \in {"idle", "disposing"}
      /\ \E l \in {"disposing", "gone", "removing"} : pc' = [pc EXCEPT ![x] = l]
  BY DEF Disposing, StartDispose, FinishDispose, DisposeNext, Leave, Free
<1>2. JoinsOnce'
  BY <1>0, <1>1 DEF JoinsOnce
<1> QED
  BY <1>1, <1>2, OthersDeliver, AudienceType DEF Delivering

LEMMA PublishingDelivers ==
  ASSUME IInv, RestTypes, Listening, Delivering, NEW x \in Connections,
         NEW except \in BOOLEAN, NEW ids \in SUBSET Connections, Publish(x, except, ids)
  PROVE  Delivering'
<1> DEFINE to == IF except THEN Connections \ ids ELSE ids
           new == Len(published) + 1
           entry == [to |-> to, audience |-> Joined \cap to]
<1>0. /\ published \in Seq([to : SUBSET Connections, audience : SUBSET Connections])
      /\ backlog \in [Servers -> [Objects -> Seq(1..MaxMessages)]]
      /\ inGroup \in [Connections -> SUBSET Objects]
      /\ JoinsOnce /\ AudienceAdded /\ OnItsWay /\ MembersListen
  BY DEF RestTypes, MessageTypes, IInv, TInv, MemberTypes, Delivering, Listening
<1>1. /\ published' = Append(published, entry)
      /\ backlog' = [s \in Servers |-> [o \in Objects |->
                       IF o \in subscribed[s] THEN Append(backlog[s][o], new) ELSE backlog[s][o]]]
      /\ UNCHANGED <<inGroup, added, pc, received>>
  BY DEF Publish, groupVars, connVars
<1>2. entry.to = to /\ entry.audience = Joined \cap to /\ Joined \subseteq Connections
  BY DEF Joined
<1>3. /\ Len(published') = Len(published) + 1 /\ Len(published) \in Nat
      /\ published'[new] = entry
      /\ \A id \in 1..Len(published) : published'[id] = published[id]
  <2> HIDE DEF entry
  <2> QED
    BY <1>0, <1>1
<1>4. 1..Len(published') = 1..Len(published) \cup {new}
  BY <1>3
<1>5. JoinsOnce'
  BY <1>0, <1>1 DEF JoinsOnce
<1>6. AudienceAdded'
  <2>1. \A y \in Joined : added[y] # None
    BY <1>0 DEF Joined, JoinsOnce
  <2> HIDE DEF entry, new, to
  <2> QED
    BY <1>0, <1>1, <1>2, <1>3, <1>4, <2>1 DEF AudienceAdded
<1>7. ASSUME NEW y \in Connections, NEW o \in inGroup[y]
      PROVE  ToSet(backlog[Home[y]][o]) \cup {new} = ToSet(backlog'[Home[y]][o])
  <2>1. Home[y] \in Servers /\ o \in Objects /\ o \in subscribed[Home[y]]
    BY <1>0, HomeAssumption DEF MembersListen
  <2>2. backlog'[Home[y]][o] = Append(backlog[Home[y]][o], new)
    BY <1>1, <2>1
  <2>3. backlog[Home[y]][o] \in Seq(1..MaxMessages)
    BY <1>0, <2>1
  <2> HIDE DEF new
  <2> QED
    BY <2>2, <2>3, AppendSet
<1>8. ASSUME NEW id \in 1..Len(published'), NEW y \in published'[id].audience, inGroup[y] # {}
      PROVE  \/ id \in ToSet(received[y])
             \/ \E o \in inGroup[y] : id \in ToSet(backlog'[Home[y]][o])
  <2>1. CASE id = new
    <3>1. y \in Connections
      BY <1>2, <1>3, <1>8, <2>1
    <3>2. PICK o \in inGroup[y] : TRUE
      BY <1>8
    <3> HIDE DEF new
    <3> QED
      BY <1>7, <2>1, <3>1, <3>2
  <2>2. CASE id # new
    <3>1. id \in 1..Len(published) /\ y \in published[id].audience
      BY <1>3, <1>4, <1>8, <2>2
    <3>2. y \in Connections
      BY <3>1, AudienceType
    <3>3. \/ id \in ToSet(received[y])
          \/ \E o \in inGroup[y] : id \in ToSet(backlog[Home[y]][o])
      BY <1>0, <1>8, <3>1 DEF OnItsWay
    <3> HIDE DEF new
    <3> QED
      BY <1>7, <3>2, <3>3
  <2> QED
    BY <2>1, <2>2
<1>9. OnItsWay'
  BY <1>1, <1>8 DEF OnItsWay
<1> QED
  BY <1>5, <1>6, <1>9 DEF Delivering

LEMMA DeliveryDelivers ==
  ASSUME IInv, RestTypes, Delivering, NEW s \in Servers, NEW o \in Objects, Deliver(s, o)
  PROVE  Delivering'
<1> DEFINE head == Head(backlog[s][o])
<1>0. /\ backlog \in [Servers -> [Objects -> Seq(1..MaxMessages)]]
      /\ received \in [Connections -> Seq(1..MaxMessages)]
      /\ inGroup \in [Connections -> SUBSET Objects]
      /\ JoinsOnce /\ AudienceAdded /\ OnItsWay
  BY DEF RestTypes, MessageTypes, IInv, TInv, MemberTypes, Delivering
<1>1. /\ backlog' = [backlog EXCEPT ![s] = [backlog[s] EXCEPT ![o] = Tail(backlog[s][o])]]
      /\ received' = [x \in Connections |->
                        IF x \in MembersOf(s, o) \cap published[head].to
                          THEN Append(received[x], head) ELSE received[x]]
      /\ UNCHANGED <<inGroup, added, pc, published>>
      /\ backlog[s][o] # <<>>
  BY DEF Deliver, groupVars, connVars
<1>2. JoinsOnce' /\ AudienceAdded'
  BY <1>0, <1>1 DEF JoinsOnce, AudienceAdded
<1>3. ASSUME NEW x \in Connections
      PROVE  /\ ToSet(received[x]) \subseteq ToSet(received'[x])
             /\ x \in MembersOf(s, o) \cap published[head].to => head \in ToSet(received'[x])
  <2>1. received[x] \in Seq(1..MaxMessages)
    BY <1>0
  <2>2. ToSet(Append(received[x], head)) = ToSet(received[x]) \cup {head}
    <3> HIDE DEF head
    <3> QED
      BY <2>1, AppendSet
  <2> HIDE DEF head
  <2> QED
    BY <1>1, <2>2
<1>4. ASSUME NEW id \in 1..Len(published), NEW x \in published[id].audience, inGroup[x] # {}
      PROVE  \/ id \in ToSet(received'[x])
             \/ \E p \in inGroup[x] : id \in ToSet(backlog'[Home[x]][p])
  <2>0. x \in Connections /\ x \in published[id].to /\ Home[x] \in Servers
    BY <1>0, <1>4, AudienceType, HomeAssumption DEF AudienceAdded
  <2>1. CASE id \in ToSet(received[x])
    BY <1>3, <2>0, <2>1
  <2>2. ASSUME NEW p \in inGroup[x], id \in ToSet(backlog[Home[x]][p])
        PROVE  \/ id \in ToSet(received'[x])
               \/ \E q \in inGroup[x] : id \in ToSet(backlog'[Home[x]][q])
    <3>0. p \in Objects
      BY <1>0, <2>0, <2>2
    <3>1. CASE Home[x] # s \/ p # o
      <4>1. backlog'[Home[x]][p] = backlog[Home[x]][p]
        BY <1>0, <1>1, <2>0, <3>0, <3>1
      <4> QED
        BY <2>2, <4>1
    <3>2. CASE Home[x] = s /\ p = o /\ id = head
      <4>1. x \in MembersOf(s, o) \cap published[head].to
        BY <2>0, <2>2, <3>2 DEF MembersOf
      <4> QED
        BY <1>3, <2>0, <3>2, <4>1
    <3>3. CASE Home[x] = s /\ p = o /\ id # head
      <4>1. backlog'[s][o] = Tail(backlog[s][o]) /\ backlog[s][o] \in Seq(1..MaxMessages)
        BY <1>0, <1>1
      <4>2. id \in ToSet(Tail(backlog[s][o]))
        BY <1>1, <2>2, <3>3, <4>1, TailSet
      <4> QED
        BY <2>2, <3>3, <4>1, <4>2
    <3> QED
      BY <3>1, <3>2, <3>3
  <2> QED
    BY <1>0, <1>4, <2>1, <2>2 DEF OnItsWay
<1>5. OnItsWay'
  BY <1>1, <1>4 DEF OnItsWay
<1> QED
  BY <1>2, <1>5 DEF Delivering

LEMMA FailureDelivers ==
  ASSUME IInv, RestTypes, Delivering, NEW x \in Connections, CommandFails(x)
  PROVE  Delivering'
<1>0. pc \in [Connections -> Labels] /\ JoinsOnce
  BY DEF IInv, TInv, ControlTypes, Delivering
<1>1. /\ UNCHANGED <<inGroup, added, backlog, published, received>>
      /\ pc[x] # "recording"
      /\ \E l \in Quiet : pc' = [pc EXCEPT ![x] = l]
  BY DEF CommandFails, connVars, msgVars, Goto, Quiet
<1>2. JoinsOnce'
  BY <1>0, <1>1 DEF JoinsOnce, Quiet
<1> QED
  BY <1>1, <1>2, OthersDeliver, AudienceType DEF Delivering

LEMMA CrashDelivers ==
  ASSUME IInv, RestTypes, Delivering, NEW s \in Servers, Crash(s)
  PROVE  Delivering'
<1>0. /\ backlog \in [Servers -> [Objects -> Seq(1..MaxMessages)]]
      /\ JoinsOnce /\ \A x \in Connections : Home[x] \in Servers
  BY HomeAssumption DEF RestTypes, MessageTypes, Delivering
<1>1. /\ backlog' = [backlog EXCEPT ![s] = [o \in Objects |-> <<>>]]
      /\ inGroup' = [x \in Connections |-> IF Home[x] = s THEN {} ELSE inGroup[x]]
      /\ pc' = [x \in Connections |-> IF Home[x] = s THEN "gone" ELSE pc[x]]
      /\ UNCHANGED <<added, published, received>>
  BY DEF Crash, connVars
<1>2. JoinsOnce'
  BY <1>0, <1>1 DEF JoinsOnce
<1>3. ASSUME NEW x \in Connections
      PROVE  /\ inGroup'[x] \subseteq inGroup[x]
             /\ inGroup'[x] # {} => inGroup'[x] = inGroup[x]
             /\ \A o \in inGroup'[x] : backlog'[Home[x]][o] = backlog[Home[x]][o]
  BY <1>0, <1>1
<1> QED
  BY <1>1, <1>2, <1>3, OthersDeliver, AudienceType DEF Delivering

LEMMA InitDelivers == SituationsInit => SerialDelivers
<1> SUFFICES ASSUME Init PROVE Delivering
  BY DEF SituationsInit, SerialDelivers
<1>1. JoinsOnce
  BY DEF Init, JoinsOnce
<1>2. 1..Len(published) = {}
  BY DEF Init
<1> QED
  BY <1>1, <1>2 DEF Delivering, AudienceAdded, OnItsWay

LEMMA NextDelivers ==
  ASSUME MaxAdds <= 1
  PROVE  IInv /\ RestTypes /\ SerialListens /\ SerialDelivers
           /\ [SituationsNext]_situationVars => SerialDelivers'
<1> SUFFICES ASSUME IInv, RestTypes, Listening, Delivering, [SituationsNext]_situationVars
             PROVE  Delivering'
  BY DEF SerialListens, SerialDelivers, Serial, SituationsNext, situationVars
<1>1. CASE UNCHANGED vars
  BY <1>1 DEF vars, groupVars, connVars, msgVars, Delivering, JoinsOnce, AudienceAdded, OnItsWay
<1>2. ASSUME NEW x \in Connections, ConnectionStep(x) PROVE Delivering'
  BY <1>2, JoiningDelivers, RemovingDelivers, DisposingDelivers, PublishingDelivers
     DEF ConnectionStep
<1>3. ASSUME NEW s \in Servers, NEW o \in Objects, Deliver(s, o) PROVE Delivering'
  BY <1>3, DeliveryDelivers
<1>4. ASSUME NEW x \in Connections, CommandFails(x) PROVE Delivering'
  BY <1>4, FailureDelivers
<1>5. ASSUME NEW s \in Servers, Crash(s) PROVE Delivering'
  BY <1>5, CrashDelivers
<1> QED
  BY <1>1, <1>2, <1>3, <1>4, <1>5 DEF SituationsNext, Next, situationVars

\* RedisGroup: while joins and leaves do not overlap, a connection that was joined
\* when a message for it was published and still is has the message, or its server
\* will deliver it, whatever commands fail and whichever servers crash.  Connections
\* join at most once: one that leaves and joins again may miss what it was sent in
\* between.
THEOREM DeliversToMembers == MaxAdds <= 1 => (SituationsSpec => []SerializedDelivers)
<1> SUFFICES ASSUME MaxAdds <= 1 PROVE SituationsSpec => []SerializedDelivers
  OBVIOUS
<1>1. IInv /\ RestTypes /\ SerialListens /\ SerialDelivers
        /\ [SituationsNext]_situationVars => SerialDelivers'
  BY NextDelivers
<1>2. SerialListens /\ SerialDelivers => SerializedDelivers
  BY DEF SerialListens, SerialDelivers, Serial, Listening, MembersListen, Delivering, OnItsWay,
         SerializedDelivers, JoinedIsSubscribed, AudienceReceives, Joined
<1> QED
  BY SituationsInvariance, InitDelivers, <1>1, <1>2, PTL DEF SituationsSpec
=============================================================================
