--------------------------- MODULE GroupFactories ---------------------------
(***************************************************************************)
(* The groups of a hub with either group repository factory: every         *)
(* behaviour uses one of the two kinds of group objects.                   *)
(***************************************************************************)
EXTENDS ImmutableArrayGroups

VARIABLES
  length,      \* approximatelyLength of the ConcurrentDictionaryGroup objects
  factory,     \* which GroupRepositoryFactory the hub uses
  overlapped,  \* history: two connections were joining or leaving at the same time
  unlimited    \* history: somebody joined by AddAsync

Dictionary == INSTANCE ConcurrentDictionaryGroups

factoryVars == <<hubVars, length, factory, overlapped, unlimited>>

Busy == {x \in Connections : pc[x] \notin {"idle", "gone"}}
Unlimited == \E x \in Connections : pc[x] = "idle" /\ pc'[x] = "adding"

FactoriesTypeOK ==
  /\ Dictionary!TypeOK
  /\ factory \in {"array", "dictionary"}
  /\ factory = "array" => TypeOK
  /\ overlapped \in BOOLEAN
  /\ unlimited \in BOOLEAN

FactoriesInit ==
  /\ Dictionary!Init
  /\ factory \in {"array", "dictionary"}
  /\ overlapped = FALSE
  /\ unlimited = FALSE

FactoriesNext ==
  /\ \/ factory = "array" /\ Next /\ UNCHANGED length
     \/ factory = "dictionary" /\ Dictionary!Next
  /\ overlapped' = (overlapped \/ Cardinality(Busy') > 1)
  /\ unlimited' = (unlimited \/ Unlimited)
  /\ UNCHANGED factory

FactoriesSpec == FactoriesInit /\ [][FactoriesNext]_factoryVars
-----------------------------------------------------------------------------
\* ConcurrentDictionaryGroup: its counter of members, which is updated outside
\* of the dictionary, is off by no more than the joins and leaves under way.
LengthAccurate == factory = "dictionary" => Dictionary!LengthAccurate

\* ImmutableArrayGroup, HubGroupRepository.AddAsync: as long as joins and leaves
\* do not overlap, the members of a name are all in the object that the next
\* one will get.
SerializedKeepsTogether == factory = "array" /\ ~overlapped => JoinedIsRegistered

\* HubGroupRepository.TryAddAsync: as long as joins and leaves do not overlap
\* and every join is a TryAddAsync, a group object has at most Limit members.
SerializedLimit ==
  ~overlapped /\ ~unlimited => \A o \in Objects : Cardinality(MembersOf(o)) <= Limit
=============================================================================
