-------------------------- MODULE HubServerProofs ---------------------------
(***************************************************************************)
(* The safety properties of HubServer for every number of messages,        *)
(* broadcasts and groups.                                                  *)
(***************************************************************************)
EXTENDS HubServer, TLAPS

\* HandleMessageAsync invokes a handler for a message it has read.
InvokesReceived == pc = "invoking" => received > 0

TypeInv == TypeOK /\ InvokesReceived

\* The initial state has the types.
LEMMA InitTypeInv == Init => TypeInv
<1> SUFFICES ASSUME Init PROVE TypeInv
  OBVIOUS
<1> USE DEF Init
<1>1. /\ kind \in [Requests -> Kinds] /\ sent \in 0..MaxRequests /\ received \in 0..sent
      /\ detached \in SUBSET Requests /\ broadcasts \in 0..MaxBroadcasts
  BY BoundsAssumption DEF Kinds
<1>2. queued \in Seq(Items) /\ consumed \in 0..Len(queued)
  OBVIOUS
<1>3. /\ members \in [Groups -> Nat] /\ added \in [Groups -> Nat] /\ leaving \in [Groups -> Nat]
      /\ joining \in [Threads -> SUBSET Groups]
  BY DEF NoGroups
<1> QED
  BY <1>1, <1>2, <1>3 DEF TypeInv, TypeOK, InvokesReceived

\* Appending to the queue keeps its type, and what was queued stays.
LEMMA EnqueueType ==
  ASSUME TypeOK, NEW item \in Items, Enqueue(item), UNCHANGED <<consumed, channelOpen>>
  PROVE  /\ queued' \in Seq(Items)
         /\ consumed' \in 0..Len(queued')
         /\ consumer' \in {"none", "idle", "sending", "waiting", "stopped"}
         /\ channelOpen' \in BOOLEAN
<1>1. queued \in Seq(Items) /\ consumed \in 0..Len(queued)
  BY DEF TypeOK
<1>2. Append(queued, item) \in Seq(Items) /\ Len(Append(queued, item)) = Len(queued) + 1
  BY <1>1
<1>3. queued' \in Seq(Items) /\ consumed' \in 0..Len(queued')
  BY <1>1, <1>2 DEF Enqueue
<1> QED
  BY <1>3 DEF TypeOK, Enqueue, Created

\* Removing a member from a group keeps the type.
LEMMA WithoutType ==
  ASSUME NEW m \in [Groups -> Nat], NEW g \in Groups
  PROVE  Without(m, g) \in [Groups -> Nat]
BY DEF Without

\* What the own flow of Connect does keeps the types.
LEMMA ConnectTypeInv ==
  ASSUME TypeInv, ConnectStep
  PROVE  TypeInv'
<1> USE BoundsAssumption DEF TypeInv, InvokesReceived, connectVars, clientVars, queueVars, groupVars
<1>1. CASE OnConnecting \/ WriteHeaders \/ MarkerWritten
  <2>1. CASE OnConnecting
    BY <2>1 DEF TypeOK, OnConnecting, Throw
  <2>2. CASE WriteHeaders
    BY <2>2 DEF TypeOK, WriteHeaders, Throw
  <2>3. CASE MarkerWritten
    BY <2>3 DEF TypeOK, MarkerWritten, Throw
  <2> QED
    BY <1>1, <2>1, <2>2, <2>3
<1>2. CASE StartMarker \/ FinishOneWay \/ EndOfRequests \/ ReadAborted \/ MarkDisconnected \/ Return
  <2>1. /\ pc' \in {"writingMarker", "reading", "completing", "closing", "returned"}
        /\ outcome' \in {"none", "ok", "failed"}
        /\ marker' \in {"none", "writing", "done"}
        /\ isDisconnected' \in BOOLEAN
    BY <1>2 DEF TypeOK, StartMarker, FinishOneWay, EndOfRequests, ReadAborted, MarkDisconnected, Return, Throw
  <2>2. UNCHANGED <<received, detached, clientVars, queueVars, groupVars>>
    BY <1>2 DEF StartMarker, FinishOneWay, EndOfRequests, ReadAborted, MarkDisconnected, Return
  <2> QED
    BY <2>1, <2>2 DEF TypeOK
<1>3. CASE ReceiveMessage
  BY <1>3 DEF TypeOK, ReceiveMessage, Throw
<1>4. CASE DetachOneWay
  <2>1. received \in Requests
    BY <1>4 DEF TypeOK, DetachOneWay, Requests
  <2> QED
    BY <1>4, <2>1 DEF TypeOK, DetachOneWay
<1>5. CASE \E k \in {"response", "error"} : AnswerCall(k)
  <2>1. PICK k \in {"response", "error"} : AnswerCall(k)
    BY <1>5
  <2>2. Answer(k, received) \in Items
    BY <2>1 DEF TypeOK, Answer, Items
  <2>3. /\ queued' \in Seq(Items)
        /\ consumed' \in 0..Len(queued')
        /\ consumer' \in {"none", "idle", "sending", "waiting", "stopped"}
        /\ channelOpen' \in BOOLEAN
    BY <2>1, <2>2, EnqueueType DEF AnswerCall
  <2> QED
    BY <2>1, <2>3 DEF TypeOK, AnswerCall
<1>6. CASE CloseQueue
  BY <1>6 DEF TypeOK, CloseQueue, Created
<1>7. CASE OnDisconnected
  BY <1>7 DEF TypeOK, OnDisconnected
<1>8. CASE \E g \in Groups : LeaveAddedGroup(g)
  <2>1. PICK g \in Groups : LeaveAddedGroup(g)
    BY <1>8
  <2>2. members' \in [Groups -> Nat]
    BY <2>1, WithoutType DEF TypeOK, LeaveAddedGroup
  <2>3. leaving' \in [Groups -> Nat]
    BY <2>1 DEF TypeOK, LeaveAddedGroup
  <2> QED
    BY <2>1, <2>2, <2>3 DEF TypeOK, LeaveAddedGroup
<1> QED
  BY <1>1, <1>2, <1>3, <1>4, <1>5, <1>6, <1>7, <1>8 DEF ConnectStep

\* What the consumer, the other tasks and the client do keeps the types.
LEMMA OthersTypeInv ==
  ASSUME TypeInv,
         \/ ConsumerStep \/ GroupStep \/ ClientStep
         \/ \E t \in Threads : RecordGroup(t)
         \/ \E r \in Requests : FinishDetached(r)
  PROVE  TypeInv'
<1> USE BoundsAssumption DEF TypeInv, InvokesReceived, connectVars, clientVars, queueVars, groupVars
<1>1. CASE ConsumerStep
  <2>1. /\ consumed' \in 0..Len(queued)
        /\ consumer' \in {"none", "idle", "sending", "waiting", "stopped"}
    BY <1>1 DEF TypeOK, ConsumerStep, TakeItem, ItemWritten, QueueDrained, Woken
  <2>2. UNCHANGED <<connectVars, clientVars, queued, channelOpen, broadcasts, groupVars>>
    BY <1>1 DEF ConsumerStep, TakeItem, ItemWritten, QueueDrained, Woken
  <2> QED
    BY <2>1, <2>2 DEF TypeOK
<1>2. CASE \E t \in Threads, g \in Groups : JoinGroup(t, g)
  <2>1. PICK t \in Threads, g \in Groups : JoinGroup(t, g)
    BY <1>2
  <2>2. members' \in [Groups -> Nat] /\ joining' \in [Threads -> SUBSET Groups]
    BY <2>1 DEF TypeOK, JoinGroup
  <2> QED
    BY <2>1, <2>2 DEF TypeOK, JoinGroup
<1>3. CASE \E t \in Threads, g \in Groups : LeaveGroup(t, g)
  <2>1. PICK t \in Threads, g \in Groups : LeaveGroup(t, g)
    BY <1>3
  <2>2. members' \in [Groups -> Nat]
    BY <2>1, WithoutType DEF TypeOK, LeaveGroup
  <2> QED
    BY <2>1, <2>2 DEF TypeOK, LeaveGroup
<1>4. CASE \E g \in Groups : Broadcast(g)
  <2>1. PICK g \in Groups : Broadcast(g)
    BY <1>4
  <2>2. BroadcastItem \in Items
    BY DEF BroadcastItem, Items
  <2>3. broadcasts' \in 0..MaxBroadcasts
    BY <2>1 DEF TypeOK, Broadcast
  <2>4. /\ queued' \in Seq(Items)
        /\ consumed' \in 0..Len(queued')
        /\ consumer' \in {"none", "idle", "sending", "waiting", "stopped"}
        /\ channelOpen' \in BOOLEAN
    BY <2>1, <2>2, EnqueueType DEF Broadcast
  <2> QED
    BY <2>1, <2>3, <2>4 DEF TypeOK, Broadcast
<1>5. CASE ClientStep
  <2>1. CASE \E k \in Kinds : ClientSends(k)
    <3>1. kind' \in [Requests -> Kinds]
      BY <2>1 DEF TypeOK, ClientSends
    <3>2. sent' \in 0..MaxRequests /\ received' \in 0..sent'
      BY <2>1 DEF TypeOK, ClientSends
    <3>3. UNCHANGED <<clientDone, clientGone, connectVars, queueVars, groupVars>>
      BY <2>1 DEF ClientSends
    <3> QED
      BY <3>1, <3>2, <3>3 DEF TypeOK
  <2>2. CASE ClientCompletes \/ ClientDisconnects
    <3>1. clientDone' \in BOOLEAN /\ clientGone' \in BOOLEAN
      BY <2>2 DEF TypeOK, ClientCompletes, ClientDisconnects
    <3>2. UNCHANGED <<kind, sent, connectVars, queueVars, groupVars>>
      BY <2>2 DEF ClientCompletes, ClientDisconnects
    <3> QED
      BY <3>1, <3>2 DEF TypeOK
  <2> QED
    BY <1>5, <2>1, <2>2 DEF ClientStep
<1>6. CASE \E t \in Threads : RecordGroup(t)
  <2>1. PICK t \in Threads : RecordGroup(t)
    BY <1>6
  <2>2. joining' \in [Threads -> SUBSET Groups]
    BY <2>1 DEF TypeOK, RecordGroup
  <2>3. added' \in [Groups -> Nat]
    <3>1. \A g \in Groups : added[g] + (IF g \in joining[t] THEN 1 ELSE 0) \in Nat
      BY DEF TypeOK
    <3> QED
      BY <2>1, <3>1 DEF RecordGroup
  <2>4. UNCHANGED <<connectVars, clientVars, queueVars, members, leaving>>
    BY <2>1 DEF RecordGroup
  <2> QED
    BY <2>2, <2>3, <2>4 DEF TypeOK
<1>7. CASE \E r \in Requests : FinishDetached(r)
  BY <1>7 DEF TypeOK, FinishDetached
<1> QED
  BY <1>1, <1>2, <1>3, <1>4, <1>5, <1>6, <1>7 DEF GroupStep

\* The types hold in every reachable state.
LEMMA TypeInvariance == Safety => []TypeInv
<1>1. TypeInv /\ [Next]_vars => TypeInv'
  <2>1. ASSUME TypeInv, Next PROVE TypeInv'
    BY <2>1, ConnectTypeInv, OthersTypeInv DEF Next
  <2>2. ASSUME TypeInv, UNCHANGED vars PROVE TypeInv'
    BY <2>2 DEF vars, connectVars, clientVars, queueVars, groupVars, TypeInv, TypeOK, InvokesReceived
  <2> QED
    BY <2>1, <2>2
<1> QED
  BY <1>1, InitTypeInv, PTL DEF Safety

\* The variables of the connection keep their types: the loop is never ahead of
\* the client, nor the consumer ahead of the queue.
THEOREM Typing == Safety => []TypeOK
<1>1. TypeInv => TypeOK
  BY DEF TypeInv
<1> QED
  BY <1>1, TypeInvariance, PTL
-----------------------------------------------------------------------------
(***************************************************************************)
(* One writer.  The consumer of the queue is created by the first item or  *)
(* by the end of Connect; before the loop runs, only a broadcast to a      *)
(* group joined in OnConnecting can do it.                                 *)
(***************************************************************************)
Beginning == {"connecting", "headers", "marker", "writingMarker"}

QuietBeginning ==
  pc \in Beginning =>
    /\ consumer = "none" /\ detached = {}
    /\ members = NoGroups
    /\ \A t \in Threads : joining[t] = {}

MarkerPlace == marker = "writing" <=> pc = "writingMarker"

WriterInv == QuietBeginning /\ MarkerPlace

\* Without a join in OnConnecting nothing disturbs the beginning of Connect.
LEMMA NextWriterInv ==
  ASSUME ~OnConnectingJoins, TypeInv, WriterInv, Next
  PROVE  WriterInv'
<1> USE DEF WriterInv, QuietBeginning, MarkerPlace, Beginning, connectVars, clientVars, queueVars, groupVars
<1>1. CASE ConnectStep
  <2>1. CASE OnConnecting \/ WriteHeaders \/ StartMarker \/ MarkerWritten
    BY <2>1 DEF OnConnecting, WriteHeaders, StartMarker, MarkerWritten, Throw
  <2>2. CASE ReceiveMessage \/ FinishOneWay \/ DetachOneWay \/ EndOfRequests \/ ReadAborted
    BY <2>2 DEF ReceiveMessage, FinishOneWay, DetachOneWay, EndOfRequests, ReadAborted, Throw
  <2>3. CASE \E k \in {"response", "error"} : AnswerCall(k)
    BY <2>3 DEF AnswerCall
  <2>4. CASE MarkDisconnected \/ CloseQueue \/ OnDisconnected \/ Return
    BY <2>4 DEF MarkDisconnected, CloseQueue, OnDisconnected, Return
  <2>5. CASE \E g \in Groups : LeaveAddedGroup(g)
    BY <2>5 DEF LeaveAddedGroup
  <2> QED
    BY <1>1, <2>1, <2>2, <2>3, <2>4, <2>5 DEF ConnectStep
<1>2. CASE ConsumerStep
  BY <1>2 DEF ConsumerStep, TakeItem, ItemWritten, QueueDrained, Woken
<1>3. CASE GroupStep
  <2>1. ASSUME NEW t \in Threads, NEW g \in Groups, JoinGroup(t, g) PROVE pc \notin Beginning
    BY <2>1, HooksAssumption DEF JoinGroup, Running, MayJoin
  <2>2. ASSUME NEW t \in Threads, NEW g \in Groups, LeaveGroup(t, g) PROVE pc \notin Beginning
    BY <2>2 DEF LeaveGroup, NoGroups
  <2>3. ASSUME NEW g \in Groups, Broadcast(g) PROVE pc \notin Beginning
    BY <2>3 DEF Broadcast, NoGroups
  <2>4. UNCHANGED <<pc, marker>>
    BY <1>3 DEF GroupStep, JoinGroup, LeaveGroup, Broadcast
  <2> QED
    BY <1>3, <2>1, <2>2, <2>3, <2>4 DEF GroupStep
<1>4. CASE ClientStep
  BY <1>4 DEF ClientStep, ClientSends, ClientCompletes, ClientDisconnects
<1>5. CASE \E t \in Threads : RecordGroup(t)
  BY <1>5 DEF RecordGroup
<1>6. CASE \E r \in Requests : FinishDetached(r)
  BY <1>6 DEF FinishDetached
<1> QED
  BY <1>1, <1>2, <1>3, <1>4, <1>5, <1>6 DEF Next

\* "ResponseStream does not allow multithread call": an application that joins
\* no group in OnConnecting never has two writes on the response stream.  The
\* condition is needed: a broadcast to a group joined there would be written
\* by the queue while the marker is being written.
THEOREM OneWriter ==
  ASSUME ~OnConnectingJoins
  PROVE  Safety => []OneWriteAtATime
<1>1. Init => WriterInv
  BY DEF Init, WriterInv, QuietBeginning, MarkerPlace, Beginning
<1>2. TypeInv /\ WriterInv /\ [Next]_vars => WriterInv'
  <2>1. ASSUME TypeInv, WriterInv, Next PROVE WriterInv'
    BY <2>1, NextWriterInv
  <2>2. ASSUME WriterInv, UNCHANGED vars PROVE WriterInv'
    BY <2>2 DEF vars, connectVars, clientVars, queueVars, groupVars, WriterInv, QuietBeginning, MarkerPlace
  <2> QED
    BY <2>1, <2>2
<1>3. WriterInv => OneWriteAtATime
  BY DEF WriterInv, QuietBeginning, MarkerPlace, Beginning, OneWriteAtATime
<1> QED
  BY <1>1, <1>2, <1>3, TypeInvariance, PTL DEF Safety
-----------------------------------------------------------------------------
(***************************************************************************)
(* Leaving the groups.                                                     *)
(***************************************************************************)
Ending == {"leaving", "returned"}

\* Only Connect's own flow of control is between joining and recording, and
\* only while it runs a hook or a handler.
JoinPlaces ==
  /\ \A t \in Threads : t # Own => joining[t] = {}
  /\ joining[Own] # {} => pc \in {"connecting", "invoking"}

\* What addedGroups, or the rest of its enumeration, accounts for.
Accounted ==
  \A g \in Groups :
    members[g] <= (IF pc \in Ending THEN leaving[g] ELSE added[g])
                    + (IF g \in joining[Own] THEN 1 ELSE 0)

ReturnedEmpty == pc = "returned" => leaving = NoGroups

GroupInv == JoinPlaces /\ Accounted /\ ReturnedEmpty

\* Every membership stays accounted for.
LEMMA NextGroupInv ==
  ASSUME ~OnDisconnectedThrows, ~DetachedJoins, TypeInv, GroupInv, Next
  PROVE  GroupInv'
<1> USE DEF connectVars, clientVars, queueVars, groupVars
<1>a. /\ members \in [Groups -> Nat] /\ added \in [Groups -> Nat] /\ leaving \in [Groups -> Nat]
      /\ joining \in [Threads -> SUBSET Groups]
      /\ Own \in Threads
  BY DEF TypeInv, TypeOK, Threads
<1>b. /\ \A t \in Threads : t # Own => joining[t] = {}
      /\ joining[Own] # {} => pc \in {"connecting", "invoking"}
      /\ \A g \in Groups :
           members[g] <= (IF pc \in Ending THEN leaving[g] ELSE added[g])
                           + (IF g \in joining[Own] THEN 1 ELSE 0)
      /\ pc = "returned" => leaving = NoGroups
  BY DEF GroupInv, JoinPlaces, Accounted, ReturnedEmpty
<1> DEFINE Steady == \/ pc' = pc
                     \/ joining[Own] = {} /\ pc \notin Ending /\ pc' \notin Ending
<1>1. ASSUME UNCHANGED groupVars, Steady PROVE GroupInv'
  BY <1>1, <1>b DEF GroupInv, JoinPlaces, Accounted, ReturnedEmpty, Ending
<1>2. CASE ConnectStep
  <2>1. CASE \/ OnConnecting \/ WriteHeaders \/ StartMarker \/ MarkerWritten
             \/ ReceiveMessage \/ FinishOneWay \/ DetachOneWay \/ EndOfRequests \/ ReadAborted
             \/ (\E k \in {"response", "error"} : AnswerCall(k))
             \/ MarkDisconnected \/ CloseQueue
    <3>1. UNCHANGED groupVars
      BY <2>1 DEF OnConnecting, WriteHeaders, StartMarker, MarkerWritten, ReceiveMessage,
         FinishOneWay, DetachOneWay, EndOfRequests, ReadAborted, AnswerCall, MarkDisconnected,
         CloseQueue
    <3>2. Steady
      BY <2>1, <1>b DEF OnConnecting, WriteHeaders, StartMarker, MarkerWritten, ReceiveMessage,
         FinishOneWay, DetachOneWay, EndOfRequests, ReadAborted, AnswerCall, MarkDisconnected,
         CloseQueue, Throw, Ending
    <3> QED
      BY <1>1, <3>1, <3>2
  <2>2. CASE OnDisconnected
    <3>1. /\ pc = "disconnected" /\ pc' = "leaving" /\ leaving' = added
          /\ UNCHANGED <<members, added, joining>>
      BY <2>2, HooksAssumption DEF OnDisconnected
    <3> QED
      BY <3>1, <1>b DEF GroupInv, JoinPlaces, Accounted, ReturnedEmpty, Ending
  <2>3. CASE Return
    <3>1. /\ pc = "leaving" /\ pc' = "returned" /\ leaving = NoGroups
          /\ UNCHANGED groupVars
      BY <2>3 DEF Return
    <3> QED
      BY <3>1, <1>b DEF GroupInv, JoinPlaces, Accounted, ReturnedEmpty, Ending
  <2>4. CASE \E g \in Groups : LeaveAddedGroup(g)
    <3>1. PICK g \in Groups : LeaveAddedGroup(g)
      BY <2>4
    <3>2. /\ pc = "leaving" /\ pc' = pc /\ leaving[g] > 0
          /\ leaving' = [leaving EXCEPT ![g] = leaving[g] - 1]
          /\ members' = Without(members, g)
          /\ UNCHANGED <<added, joining>>
      BY <3>1 DEF LeaveAddedGroup
    <3>3. joining[Own] = {}
      BY <3>2, <1>b
    <3>4. ASSUME NEW h \in Groups PROVE members'[h] <= leaving'[h] /\ leaving'[h] \in Nat
      BY <3>2, <3>3, <1>a, <1>b DEF Without, Ending
    <3>5. Accounted'
      BY <3>2, <3>3, <3>4 DEF Accounted, Ending
    <3>6. JoinPlaces' /\ ReturnedEmpty'
      BY <3>2, <3>3, <1>b DEF JoinPlaces, ReturnedEmpty
    <3> QED
      BY <3>5, <3>6 DEF GroupInv
  <2> QED
    BY <1>2, <2>1, <2>2, <2>3, <2>4 DEF ConnectStep
<1>3. CASE ConsumerStep \/ ClientStep \/ (\E g \in Groups : Broadcast(g))
            \/ (\E r \in Requests : FinishDetached(r))
  <2>1. UNCHANGED groupVars /\ pc' = pc
    BY <1>3 DEF ConsumerStep, TakeItem, ItemWritten, QueueDrained, Woken, ClientStep,
       ClientSends, ClientCompletes, ClientDisconnects, Broadcast, FinishDetached
  <2> QED
    BY <1>1, <2>1
<1>4. CASE \E t \in Threads, g \in Groups : JoinGroup(t, g)
  <2>1. PICK t \in Threads, g \in Groups : JoinGroup(t, g)
    BY <1>4
  <2>2. /\ t = Own /\ pc \in {"connecting", "invoking"} /\ pc' = pc
        /\ joining[Own] = {}
        /\ members' = [members EXCEPT ![g] = members[g] + 1]
        /\ joining' = [joining EXCEPT ![Own] = {g}]
        /\ UNCHANGED <<added, leaving>>
    BY <2>1, HooksAssumption DEF JoinGroup, Running, MayJoin
  <2>3. ASSUME NEW h \in Groups
        PROVE  members'[h] <= added[h] + (IF h \in joining'[Own] THEN 1 ELSE 0)
    BY <2>2, <1>a, <1>b DEF Ending
  <2> QED
    BY <2>2, <2>3, <1>a, <1>b DEF GroupInv, JoinPlaces, Accounted, ReturnedEmpty, Ending
<1>5. CASE \E t \in Threads, g \in Groups : LeaveGroup(t, g)
  <2>1. PICK t \in Threads, g \in Groups : LeaveGroup(t, g)
    BY <1>5
  <2>2. /\ pc' = pc /\ members' = Without(members, g)
        /\ UNCHANGED <<added, joining, leaving>>
    BY <2>1 DEF LeaveGroup
  <2>3. ASSUME NEW h \in Groups PROVE members'[h] <= members[h]
    BY <2>2, <1>a DEF Without
  <2>4. \A h \in Groups : members'[h] \in Nat
    BY <2>2, <1>a, WithoutType
  <2>5. ASSUME NEW h \in Groups
        PROVE  members'[h] <= (IF pc \in Ending THEN leaving[h] ELSE added[h])
                                + (IF h \in joining[Own] THEN 1 ELSE 0)
    BY <2>3, <2>4, <1>a, <1>b
  <2> QED
    BY <2>2, <2>5, <1>b DEF GroupInv, JoinPlaces, Accounted, ReturnedEmpty
<1>6. CASE \E t \in Threads : RecordGroup(t)
  <2>1. PICK t \in Threads : RecordGroup(t)
    BY <1>6
  <2>2. /\ t = Own /\ pc \in {"connecting", "invoking"} /\ pc' = pc
        /\ added' = [g \in Groups |-> added[g] + (IF g \in joining[Own] THEN 1 ELSE 0)]
        /\ joining' = [joining EXCEPT ![Own] = {}]
        /\ UNCHANGED <<members, leaving>>
    BY <2>1, <1>b DEF RecordGroup
  <2>3. ASSUME NEW h \in Groups PROVE members'[h] <= added'[h]
    BY <2>2, <1>a, <1>b DEF Ending
  <2>4. \A h \in Groups : added'[h] \in Nat
    BY <2>2, <1>a
  <2> QED
    BY <2>2, <2>3, <2>4, <1>a, <1>b DEF GroupInv, JoinPlaces, Accounted, ReturnedEmpty, Ending
<1> QED
  BY <1>2, <1>3, <1>4, <1>5, <1>6 DEF Next, GroupStep

\* A connection that has ended is in no group, whatever it joined, left and
\* joined again, in a hook or in handlers, when its OnDisconnected returns and
\* no handler joins a group after the loop has stopped waiting for it.
THEOREM LeavesEveryGroup ==
  ASSUME ~OnDisconnectedThrows, ~DetachedJoins
  PROVE  Safety => []LeftEveryGroup
<1>1. Init => GroupInv
  BY DEF Init, GroupInv, JoinPlaces, Accounted, ReturnedEmpty, Ending, NoGroups, Threads
<1>2. TypeInv /\ GroupInv /\ [Next]_vars => GroupInv'
  <2>1. ASSUME TypeInv, GroupInv, Next PROVE GroupInv'
    BY <2>1, NextGroupInv
  <2>2. ASSUME GroupInv, UNCHANGED vars PROVE GroupInv'
    BY <2>2 DEF vars, connectVars, groupVars, GroupInv, JoinPlaces, Accounted, ReturnedEmpty
  <2> QED
    BY <2>1, <2>2
<1>3. TypeInv /\ GroupInv => LeftEveryGroup
  <2> SUFFICES ASSUME TypeInv, GroupInv, pc = "returned" PROVE members = NoGroups
    BY DEF LeftEveryGroup
  <2>1. ASSUME NEW g \in Groups PROVE members[g] = 0
    BY DEF TypeInv, TypeOK, GroupInv, JoinPlaces, Accounted, ReturnedEmpty, Ending, NoGroups
  <2>2. members = [g \in Groups |-> members[g]]
    BY DEF TypeInv, TypeOK
  <2> QED
    BY <2>1, <2>2 DEF NoGroups
<1> QED
  BY <1>1, <1>2, <1>3, TypeInvariance, PTL DEF Safety
-----------------------------------------------------------------------------
(***************************************************************************)
(* The order of the answers.                                               *)
(***************************************************************************)
AnswersOf(q) == {q[i].request : i \in {j \in DOMAIN q : IsAnswer(q[j])}}

Ordered(q) ==
  \A i, j \in DOMAIN q :
    i < j /\ IsAnswer(q[i]) /\ IsAnswer(q[j]) => q[i].request < q[j].request

\* The queue is completed only at the end of Connect.
OpenBefore == pc \notin {"disconnected", "leaving", "returned"} => channelOpen

OrderInv == AnswersInOrder /\ OpenBefore

\* A broadcast between the answers changes neither them nor their order.
LEMMA AppendBroadcast ==
  ASSUME NEW q \in Seq(Items), Ordered(q)
  PROVE  /\ Ordered(Append(q, BroadcastItem))
         /\ AnswersOf(Append(q, BroadcastItem)) = AnswersOf(q)
<1> DEFINE p == Append(q, BroadcastItem)
<1>1. /\ DOMAIN p = 1..(Len(q) + 1) /\ DOMAIN q = 1..Len(q) /\ Len(q) \in Nat
      /\ \A i \in 1..Len(q) : p[i] = q[i]
      /\ p[Len(q) + 1] = BroadcastItem
  OBVIOUS
<1>2. ~IsAnswer(BroadcastItem)
  BY DEF IsAnswer, BroadcastItem
<1> HIDE DEF p
<1>3. \A i \in DOMAIN p : IsAnswer(p[i]) => i \in DOMAIN q
  BY <1>1, <1>2
<1>4. Ordered(p)
  BY <1>1, <1>3 DEF Ordered
<1>5. {j \in DOMAIN p : IsAnswer(p[j])} = {j \in DOMAIN q : IsAnswer(q[j])}
  BY <1>1, <1>3
<1>6. AnswersOf(p) = AnswersOf(q)
  BY <1>1, <1>5 DEF AnswersOf
<1> QED
  BY <1>4, <1>6 DEF p

\* An answer to a later request than all those answered is in order.
LEMMA AppendAnswer ==
  ASSUME NEW q \in Seq(Items), Ordered(q), NEW k \in {"response", "error"}, NEW r \in Nat,
         \A s \in AnswersOf(q) : s < r
  PROVE  /\ Ordered(Append(q, Answer(k, r)))
         /\ AnswersOf(Append(q, Answer(k, r))) = AnswersOf(q) \cup {r}
<1> DEFINE p == Append(q, Answer(k, r))
<1>1. /\ DOMAIN p = 1..(Len(q) + 1) /\ DOMAIN q = 1..Len(q) /\ Len(q) \in Nat
      /\ \A i \in 1..Len(q) : p[i] = q[i]
      /\ p[Len(q) + 1] = Answer(k, r)
  OBVIOUS
<1>2. IsAnswer(Answer(k, r)) /\ Answer(k, r).request = r
  BY DEF IsAnswer, Answer
<1> HIDE DEF p
<1>3. \A i \in DOMAIN q : IsAnswer(q[i]) => q[i].request < r
  BY DEF AnswersOf
<1>4. Ordered(p)
  <2> SUFFICES ASSUME NEW i \in DOMAIN p, NEW j \in DOMAIN p, i < j,
                      IsAnswer(p[i]), IsAnswer(p[j])
               PROVE  p[i].request < p[j].request
    BY DEF Ordered
  <2>1. i \in DOMAIN q /\ p[i] = q[i]
    BY <1>1
  <2>2. CASE j \in DOMAIN q
    BY <1>1, <2>1, <2>2 DEF Ordered
  <2>3. CASE j = Len(q) + 1
    BY <1>1, <1>2, <1>3, <2>1, <2>3
  <2> QED
    BY <1>1, <2>2, <2>3
<1>5. AnswersOf(p) = AnswersOf(q) \cup {r}
  <2>1. ASSUME NEW s \in AnswersOf(p) PROVE s \in AnswersOf(q) \cup {r}
    <3>1. PICK i \in DOMAIN p : IsAnswer(p[i]) /\ s = p[i].request
      BY DEF AnswersOf
    <3> QED
      BY <1>1, <1>2, <3>1 DEF AnswersOf
  <2>2. ASSUME NEW s \in AnswersOf(q) PROVE s \in AnswersOf(p)
    <3>1. PICK i \in DOMAIN q : IsAnswer(q[i]) /\ s = q[i].request
      BY DEF AnswersOf
    <3>2. i \in DOMAIN p /\ p[i] = q[i]
      BY <1>1
    <3> QED
      BY <3>1, <3>2 DEF AnswersOf
  <2>3. r \in AnswersOf(p)
    <3>1. Len(q) + 1 \in DOMAIN p
      BY <1>1
    <3> QED
      BY <1>1, <1>2, <3>1 DEF AnswersOf
  <2> QED
    BY <2>1, <2>2, <2>3
<1> QED
  BY <1>4, <1>5 DEF p

\* Only AnswerCall ends the handler of a request with a response.
LEMMA NextOrderInv ==
  ASSUME TypeInv, OrderInv, Next
  PROVE  OrderInv'
<1> USE DEF connectVars, clientVars, queueVars, groupVars
<1>a. Ordered(queued) /\ AnswersOf(queued) = Handled
  BY DEF OrderInv, AnswersInOrder, Ordered, AnswersOf
<1>b. Ordered(queued)' /\ (AnswersOf(queued) = Handled)' => AnswersInOrder'
  BY DEF AnswersInOrder, Ordered, AnswersOf
<1>c. /\ received \in Nat /\ queued \in Seq(Items)
      /\ pc = "invoking" => received \in Requests
      /\ kind \in [Requests -> Kinds]
      /\ 1..received \subseteq Requests
  BY BoundsAssumption DEF TypeInv, TypeOK, InvokesReceived, Requests
<1>1. ASSUME UNCHANGED queued, Handled' = Handled PROVE AnswersInOrder'
  BY <1>1, <1>a, <1>b
<1>2. ASSUME UNCHANGED kind, UNCHANGED received, pc # "invoking", pc' # "invoking"
      PROVE  Handled' = Handled
  BY <1>2 DEF Handled
<1>3. ASSUME UNCHANGED <<kind, received, pc>> PROVE Handled' = Handled
  BY <1>3 DEF Handled
<1>4. ASSUME UNCHANGED kind, UNCHANGED received, kind[received] # "call" PROVE Handled' = Handled
  BY <1>4 DEF Handled
<1>5. CASE \/ OnConnecting \/ WriteHeaders \/ StartMarker \/ MarkerWritten \/ EndOfRequests
           \/ ReadAborted \/ MarkDisconnected \/ CloseQueue \/ OnDisconnected \/ Return
           \/ \E g \in Groups : LeaveAddedGroup(g)
  <2>1. UNCHANGED kind /\ UNCHANGED received /\ UNCHANGED queued /\ pc # "invoking" /\ pc' # "invoking"
    BY <1>5 DEF OnConnecting, WriteHeaders, StartMarker, MarkerWritten, EndOfRequests, ReadAborted,
       MarkDisconnected, CloseQueue, OnDisconnected, Return, LeaveAddedGroup, Throw
  <2>2. OpenBefore'
    BY <1>5 DEF OrderInv, OpenBefore, OnConnecting, WriteHeaders, StartMarker, MarkerWritten,
       EndOfRequests, ReadAborted, MarkDisconnected, CloseQueue, OnDisconnected, Return,
       LeaveAddedGroup, Throw
  <2> QED
    BY <2>1, <2>2, <1>1, <1>2 DEF OrderInv
<1>6. CASE ReceiveMessage
  <2>1. /\ pc = "reading" /\ received' = received + 1 /\ UNCHANGED <<kind, queued, channelOpen>>
        /\ kind[received + 1] = "unknown" \/ pc' = "invoking"
    BY <1>6 DEF ReceiveMessage
  <2>2. Handled' = Handled
    <3>1. ASSUME NEW r \in 1..received'
          PROVE  (kind[r] = "call" /\ ~(r = received' /\ pc' = "invoking"))
                   <=> (r \in 1..received /\ kind[r] = "call" /\ ~(r = received /\ pc = "invoking"))
      BY <1>c, <2>1
    <3>2. 1..received \subseteq 1..received'
      BY <1>c, <2>1
    <3> QED
      BY <2>1, <3>1, <3>2 DEF Handled
  <2>3. OpenBefore'
    BY <2>1 DEF OrderInv, OpenBefore
  <2> QED
    BY <1>1, <2>1, <2>2, <2>3 DEF OrderInv
<1>7. CASE FinishOneWay \/ DetachOneWay
  <2>1. /\ UNCHANGED kind /\ UNCHANGED received /\ kind[received] # "call"
        /\ pc = "invoking" /\ UNCHANGED <<queued, channelOpen>>
    BY <1>7 DEF FinishOneWay, DetachOneWay
  <2> QED
    BY <1>1, <1>4, <2>1 DEF OrderInv, OpenBefore
<1>8. CASE \E k \in {"response", "error"} : AnswerCall(k)
  <2>1. PICK k \in {"response", "error"} : AnswerCall(k)
    BY <1>8
  <2>2. /\ pc = "invoking" /\ pc' = "reading" /\ kind[received] = "call" /\ channelOpen
        /\ UNCHANGED <<kind, received, channelOpen>>
        /\ queued' = Append(queued, Answer(k, received))
    BY <2>1 DEF AnswerCall, Enqueue, OrderInv, OpenBefore
  <2>3. \A r \in AnswersOf(queued) : r < received
    BY <1>a, <1>c, <2>2 DEF Handled
  <2>4. Ordered(queued') /\ AnswersOf(queued') = AnswersOf(queued) \cup {received}
    BY <1>a, <1>c, <2>2, <2>3, AppendAnswer
  <2>5. Handled' = Handled \cup {received}
    BY <1>c, <2>2 DEF Handled, Requests
  <2> QED
    BY <1>a, <1>b, <2>2, <2>4, <2>5 DEF OrderInv, OpenBefore, Ordered, AnswersOf
<1>9. CASE \E g \in Groups : Broadcast(g)
  <2>1. /\ queued' = Append(queued, BroadcastItem) \/ queued' = queued
        /\ UNCHANGED <<kind, received, pc>> /\ UNCHANGED channelOpen
    BY <1>9 DEF Broadcast, Enqueue
  <2>2. Handled' = Handled
    BY <1>3, <2>1
  <2>3. Ordered(queued') /\ AnswersOf(queued') = AnswersOf(queued)
    BY <1>a, <1>c, <2>1, AppendBroadcast
  <2> QED
    BY <1>a, <1>b, <2>1, <2>2, <2>3 DEF OrderInv, OpenBefore, Ordered, AnswersOf
<1>10. CASE \E k \in Kinds : ClientSends(k)
  <2>1. /\ \A r \in 1..received : kind'[r] = kind[r]
        /\ UNCHANGED <<received, pc, queued, channelOpen>>
    BY <1>10, <1>c DEF ClientSends, TypeInv, TypeOK
  <2>2. Handled' = Handled
    BY <2>1 DEF Handled
  <2> QED
    BY <1>1, <2>1, <2>2 DEF OrderInv, OpenBefore
<1>11. CASE \/ ConsumerStep \/ ClientCompletes \/ ClientDisconnects
            \/ (\E t \in Threads, g \in Groups : JoinGroup(t, g) \/ LeaveGroup(t, g))
            \/ (\E t \in Threads : RecordGroup(t))
            \/ (\E r \in Requests : FinishDetached(r))
  <2>1. UNCHANGED <<kind, received, pc>> /\ UNCHANGED <<queued, channelOpen>>
    BY <1>11 DEF ConsumerStep, TakeItem, ItemWritten, QueueDrained, Woken, ClientCompletes,
       ClientDisconnects, JoinGroup, LeaveGroup, RecordGroup, FinishDetached
  <2> QED
    BY <1>1, <1>3, <2>1 DEF OrderInv, OpenBefore
<1> QED
  BY <1>5, <1>6, <1>7, <1>8, <1>9, <1>10, <1>11 DEF Next, ConnectStep, GroupStep, ClientStep

\* The answers leave in the order of the requests, one for each request whose
\* handler has ended and none for a fire-and-forget message, whatever is
\* broadcast in between.
THEOREM AnswersOrdered == Safety => []AnswersInOrder
<1>1. Init => OrderInv
  BY DEF Init, OrderInv, AnswersInOrder, OpenBefore, Handled
<1>2. TypeInv /\ OrderInv /\ [Next]_vars => OrderInv'
  <2>1. ASSUME TypeInv, OrderInv, Next PROVE OrderInv'
    BY <2>1, NextOrderInv
  <2>2. ASSUME OrderInv, UNCHANGED vars PROVE OrderInv'
    BY <2>2 DEF vars, connectVars, clientVars, queueVars, OrderInv, AnswersInOrder, OpenBefore, Handled
  <2> QED
    BY <2>1, <2>2
<1>3. OrderInv => AnswersInOrder
  BY DEF OrderInv
<1> QED
  BY <1>1, <1>2, <1>3, TypeInvariance, PTL DEF Safety
=============================================================================
