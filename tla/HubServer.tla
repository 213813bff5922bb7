----------------------------- MODULE HubServer ------------------------------
(***************************************************************************)
(* The server side of one StreamingHub connection: StreamingHubBase        *)
(* (Connect and HandleMessageAsync), StreamingHubContext, the connection's *)
(* QueuedResponseWriter and its HubGroupRepository.                        *)
(*                                                                         *)
(* Own is the flow of control of Connect, which runs the hooks and the     *)
(* handlers it awaits.  The handler of a fire-and-forget message that does *)
(* not complete synchronously is not awaited: request r itself names the   *)
(* task that runs it.  The consumer is the task of QueuedResponseWriter.   *)
(* Other connections may broadcast to a group this one is a member of.     *)
(***************************************************************************)
EXTENDS Integers, Sequences

CONSTANTS
  Groups,                \* names of groups
  MaxRequests,           \* bound: messages the client sends
  MaxBroadcasts,         \* bound: broadcasts of other connections
  MaxJoins,              \* bound: completed Group.AddAsync calls per group
  OnConnectingJoins,     \* the application joins a group in OnConnecting
  OnDisconnectedThrows,  \* the application's OnDisconnected may throw
  DetachedJoins          \* a fire-and-forget handler joins after it was detached

ASSUME BoundsAssumption == {MaxRequests, MaxBroadcasts, MaxJoins} \subseteq Nat
ASSUME HooksAssumption ==
  {OnConnectingJoins, OnDisconnectedThrows, DetachedJoins} \subseteq BOOLEAN

VARIABLES
  pc,              \* where Connect is
  outcome,         \* how Connect ends: "none" yet, "ok", "failed" (it throws)
  marker,          \* the write of the marker: "none" yet, "writing", "done"
  isDisconnected,  \* StreamingServiceContext.IsDisconnected
  kind,            \* kind[r]: what the client sends as its r-th message
  sent,            \* messages the client sent so far
  received,        \* messages HandleMessageAsync read so far
  clientDone,      \* the client completed its request stream
  clientGone,      \* the call is aborted: RequestAborted
  detached,        \* the fire-and-forget requests whose handler still runs
  queued,          \* what the channel accepted, in order
  consumed,        \* how much of it the consumer has taken
  channelOpen,     \* TryComplete was not yet called
  consumer,        \* ConsumeQueueAsync: "none" until the Lazy creates it
  broadcasts,      \* broadcasts of others so far
  members,         \* members[g]: how often the connection is in group g
  added,           \* added[g]: how often g is in addedGroups
  joining,         \* joining[t]: groups t joined but has not yet recorded
  leaving          \* what is left of the enumeration in Group.DisposeAsync

clientVars  == <<kind, sent, clientDone, clientGone>>
queueVars   == <<queued, consumed, channelOpen, consumer, broadcasts>>
groupVars   == <<members, added, joining, leaving>>
connectVars == <<pc, outcome, marker, isDisconnected, received, detached>>
vars == <<clientVars, queueVars, groupVars, connectVars>>

Own      == 0
Requests == 1..MaxRequests
Threads  == {Own} \cup Requests
Kinds    == {"call", "oneway", "unknown"}
Answer(k, r)  == [kind |-> k, request |-> r]
BroadcastItem == [kind |-> "broadcast", request |-> 0]
Items    == [kind : {"response", "error", "broadcast"}, request : 0..MaxRequests]

TypeOK ==
  /\ pc \in {"connecting", "headers", "marker", "writingMarker", "reading", "invoking",
             "completing", "closing", "disconnected", "leaving", "returned"}
  /\ outcome \in {"none", "ok", "failed"}
  /\ marker \in {"none", "writing", "done"}
  /\ isDisconnected \in BOOLEAN
  /\ kind \in [Requests -> Kinds]
  /\ sent \in 0..MaxRequests
  /\ received \in 0..sent
  /\ clientDone \in BOOLEAN
  /\ clientGone \in BOOLEAN
  /\ detached \in SUBSET Requests
  /\ queued \in Seq(Items)
  /\ consumed \in 0..Len(queued)
  /\ channelOpen \in BOOLEAN
  /\ consumer \in {"none", "idle", "sending", "waiting", "stopped"}
  /\ broadcasts \in 0..MaxBroadcasts
  /\ members \in [Groups -> Nat]
  /\ added \in [Groups -> Nat]
  /\ joining \in [Threads -> SUBSET Groups]
  /\ leaving \in [Groups -> Nat]

NoGroups == [g \in Groups |-> 0]

Init ==
  /\ pc = "connecting"
  /\ outcome = "none"
  /\ marker = "none"
  /\ isDisconnected = FALSE
  /\ kind = [r \in Requests |-> "call"]
  /\ sent = 0
  /\ received = 0
  /\ clientDone = FALSE
  /\ clientGone = FALSE
  /\ detached = {}
  /\ queued = <<>>
  /\ consumed = 0
  /\ channelOpen = TRUE
  /\ consumer = "none"
  /\ broadcasts = 0
  /\ members = NoGroups
  /\ added = NoGroups
  /\ joining = [t \in Threads |-> {}]
  /\ leaving = NoGroups
-----------------------------------------------------------------------------
(***************************************************************************)
(* Connect, up to the message loop.                                        *)
(***************************************************************************)
\* The catch clauses of Connect.  An aborted read or write is expected; an
\* InvalidOperationException is swallowed only when the call is aborted; any
\* other exception is rethrown after the finally block.
Throw(exception) ==
  /\ pc' = "completing"
  /\ outcome' = IF exception = "aborted" \/ (exception = "invalidOperation" /\ clientGone)
                  THEN "ok" ELSE "failed"

OnConnecting ==
  /\ pc = "connecting"
  /\ joining[Own] = {}
  /\ \/ pc' = "headers" /\ UNCHANGED outcome
     \/ Throw("application")
  /\ UNCHANGED <<marker, isDisconnected, received, detached, clientVars, queueVars, groupVars>>

WriteHeaders ==
  /\ pc = "headers"
  /\ IF clientGone THEN Throw("aborted") ELSE pc' = "marker" /\ UNCHANGED outcome
  /\ UNCHANGED <<marker, isDisconnected, received, detached, clientVars, queueVars, groupVars>>

StartMarkerUnawaited ==
  /\ pc = "marker"
  /\ pc' = "reading"
  /\ marker' = "writing"
  /\ UNCHANGED <<outcome, isDisconnected, received, detached, clientVars, queueVars, groupVars>>

\* The marker is written on the response stream itself, not by the queue.
StartMarker ==
  /\ pc = "marker"
  /\ pc' = "writingMarker"
  /\ marker' = "writing"
  /\ UNCHANGED <<outcome, isDisconnected, received, detached, clientVars, queueVars, groupVars>>

\* WriteAsync throws when the call is aborted, and may throw when another
\* write is in progress.
MarkerWritten ==
  /\ pc = "writingMarker"
  /\ \/ clientGone /\ Throw("aborted")
     \/ consumer = "sending" /\ Throw("invalidOperation")
     \/ ~clientGone /\ pc' = "reading" /\ UNCHANGED outcome
  /\ marker' = "done"
  /\ UNCHANGED <<isDisconnected, received, detached, clientVars, queueVars, groupVars>>
-----------------------------------------------------------------------------
(***************************************************************************)
(* The queue.  The Lazy creates the writer, and with it the consumer, at   *)
(* the first use; a write after TryComplete is dropped.                    *)
(***************************************************************************)
CreatedUnstarted(c) == c
Created(c) == IF c = "none" THEN "idle" ELSE c

Enqueue(item) ==
  /\ queued' = IF channelOpen THEN Append(queued, item) ELSE queued
  /\ consumer' = Created(consumer)
-----------------------------------------------------------------------------
(***************************************************************************)
(* HandleMessageAsync: the message loop.                                   *)
(***************************************************************************)
\* FetchHeader and the lookup of the handler throw for a message in no known
\* format and for an unknown method.
ReceiveMessage ==
  /\ pc = "reading"
  /\ received < sent
  /\ received' = received + 1
  /\ IF kind[received + 1] = "unknown" THEN Throw("invalidOperation")
                                       ELSE pc' = "invoking" /\ UNCHANGED outcome
  /\ UNCHANGED <<marker, isDisconnected, detached, clientVars, queueVars, groupVars>>

\* WriteResponseMessage awaits the handler, then queues the response; an
\* exception of the handler becomes an error response.
AnswerCall(k) ==
  /\ pc = "invoking" /\ kind[received] = "call"
  /\ joining[Own] = {}
  /\ Enqueue(Answer(k, received))
  /\ pc' = "reading"
  /\ UNCHANGED <<marker, outcome, isDisconnected, received, detached, clientVars,
                 consumed, channelOpen, broadcasts, groupVars>>

\* A fire-and-forget handler that completes, or throws, synchronously.
FinishOneWay ==
  /\ pc = "invoking" /\ kind[received] = "oneway"
  /\ joining[Own] = {}
  /\ pc' = "reading"
  /\ UNCHANGED <<marker, outcome, isDisconnected, received, detached, clientVars, queueVars, groupVars>>

DetachAny ==
  /\ pc = "invoking"
  /\ joining[Own] = {}
  /\ detached' = detached \cup {received}
  /\ pc' = "reading"
  /\ UNCHANGED <<marker, outcome, isDisconnected, received, clientVars, queueVars, groupVars>>

\* One that does not: WriteResponseMessage returns without awaiting it, and
\* the loop goes on to the next message.
DetachOneWay ==
  /\ pc = "invoking" /\ kind[received] = "oneway"
  /\ joining[Own] = {}
  /\ detached' = detached \cup {received}
  /\ pc' = "reading"
  /\ UNCHANGED <<marker, outcome, isDisconnected, received, clientVars, queueVars, groupVars>>

FinishDetached(r) ==
  /\ r \in detached
  /\ joining[r] = {}
  /\ detached' = detached \ {r}
  /\ UNCHANGED <<pc, marker, outcome, isDisconnected, received, clientVars, queueVars, groupVars>>

EndOfRequestsEarly ==
  /\ pc = "reading"
  /\ clientDone /\ ~clientGone
  /\ pc' = "completing"
  /\ outcome' = "ok"
  /\ UNCHANGED <<marker, isDisconnected, received, detached, clientVars, queueVars, groupVars>>

EndOfRequests ==
  /\ pc = "reading"
  /\ received = sent /\ clientDone /\ ~clientGone
  /\ pc' = "completing"
  /\ outcome' = "ok"
  /\ UNCHANGED <<marker, isDisconnected, received, detached, clientVars, queueVars, groupVars>>

ReadWithoutToken ==
  /\ pc = "reading"
  /\ clientGone /\ clientDone
  /\ Throw("aborted")
  /\ UNCHANGED <<marker, isDisconnected, received, detached, clientVars, queueVars, groupVars>>

ReadAborted ==
  /\ pc = "reading"
  /\ clientGone
  /\ Throw("aborted")
  /\ UNCHANGED <<marker, isDisconnected, received, detached, clientVars, queueVars, groupVars>>
-----------------------------------------------------------------------------
(***************************************************************************)
(* The finally block of Connect.                                           *)
(***************************************************************************)
\* CompleteStreamingHub: IsDisconnected, then Dispose of the queued writer.
MarkDisconnected ==
  /\ pc = "completing"
  /\ isDisconnected' = TRUE
  /\ pc' = "closing"
  /\ UNCHANGED <<marker, outcome, received, detached, clientVars, queueVars, groupVars>>

CloseQueueForgotten ==
  /\ pc = "closing"
  /\ consumer' = Created(consumer)
  /\ pc' = "disconnected"
  /\ UNCHANGED <<marker, outcome, isDisconnected, received, detached, clientVars,
                 queued, consumed, channelOpen, broadcasts, groupVars>>

CloseQueue ==
  /\ pc = "closing"
  /\ channelOpen' = FALSE
  /\ consumer' = Created(consumer)
  /\ pc' = "disconnected"
  /\ UNCHANGED <<marker, outcome, isDisconnected, received, detached, clientVars,
                 queued, consumed, broadcasts, groupVars>>

\* When OnDisconnected throws, Group.DisposeAsync is skipped.
OnDisconnected ==
  /\ pc = "disconnected"
  /\ joining[Own] = {}
  /\ \/ /\ pc' = "leaving"
        /\ leaving' = added
        /\ UNCHANGED outcome
     \/ /\ OnDisconnectedThrows
        /\ pc' = "returned"
        /\ outcome' = "failed"
        /\ UNCHANGED leaving
  /\ UNCHANGED <<marker, isDisconnected, received, detached, clientVars, queueVars,
                 members, added, joining>>

Without(m, g) == IF m[g] > 0 THEN [m EXCEPT ![g] = @ - 1] ELSE m

\* HubGroupRepository.DisposeAsync: RemoveAsync for every entry of addedGroups.
LeaveAddedGroup(g) ==
  /\ pc = "leaving"
  /\ leaving[g] > 0
  /\ leaving' = [leaving EXCEPT ![g] = @ - 1]
  /\ members' = Without(members, g)
  /\ UNCHANGED <<connectVars, clientVars, queueVars, added, joining>>

Return ==
  /\ pc = "leaving"
  /\ leaving = NoGroups
  /\ pc' = "returned"
  /\ UNCHANGED <<marker, outcome, isDisconnected, received, detached, clientVars, queueVars, groupVars>>
-----------------------------------------------------------------------------
(***************************************************************************)
(* What hooks and handlers do with groups.                                 *)
(***************************************************************************)
Running(t) ==
  IF t = Own THEN pc \in {"connecting", "invoking", "disconnected"} ELSE t \in detached

MayJoin(t) ==
  IF t = Own THEN pc = "invoking" \/ (pc = "connecting" /\ OnConnectingJoins)
             ELSE DetachedJoins

\* HubGroupRepository.AddAsync: group.AddAsync, then addedGroups.Add.
JoinGroup(t, g) ==
  /\ Running(t) /\ MayJoin(t)
  /\ joining[t] = {}
  /\ added[g] < MaxJoins
  /\ members' = [members EXCEPT ![g] = @ + 1]
  /\ joining' = [joining EXCEPT ![t] = {g}]
  /\ UNCHANGED <<connectVars, clientVars, queueVars, added, leaving>>

RecordOnce(t) ==
  /\ joining[t] # {}
  /\ added' = [g \in Groups |-> IF g \in joining[t] THEN 1 ELSE added[g]]
  /\ joining' = [joining EXCEPT ![t] = {}]
  /\ UNCHANGED <<connectVars, clientVars, queueVars, members, leaving>>

RecordGroup(t) ==
  /\ joining[t] # {}
  /\ added' = [g \in Groups |-> added[g] + (IF g \in joining[t] THEN 1 ELSE 0)]
  /\ joining' = [joining EXCEPT ![t] = {}]
  /\ UNCHANGED <<connectVars, clientVars, queueVars, members, leaving>>

\* group.RemoveAsync(Context), as the documentation shows for leaving a room;
\* addedGroups keeps its entry.
LeaveGroup(t, g) ==
  /\ Running(t)
  /\ joining[t] = {}
  /\ added[g] > 0 /\ members[g] > 0
  /\ members' = Without(members, g)
  /\ UNCHANGED <<connectVars, clientVars, queueVars, added, joining, leaving>>

\* Another connection, or a handler of this one, broadcasts to a group.
Broadcast(g) ==
  /\ members[g] > 0
  /\ broadcasts < MaxBroadcasts
  /\ broadcasts' = broadcasts + 1
  /\ Enqueue(BroadcastItem)
  /\ UNCHANGED <<connectVars, clientVars, consumed, channelOpen, groupVars>>
-----------------------------------------------------------------------------
(***************************************************************************)
(* ConsumeQueueAsync.                                                      *)
(***************************************************************************)
TakeItem ==
  /\ consumer = "idle"
  /\ consumed < Len(queued)
  /\ consumed' = consumed + 1
  /\ consumer' = IF isDisconnected THEN "stopped" ELSE "sending"
  /\ UNCHANGED <<connectVars, clientVars, queued, channelOpen, broadcasts, groupVars>>

\* WriteAsync completes or throws; an exception is logged.
ItemWritten ==
  /\ consumer = "sending"
  /\ consumer' = "idle"
  /\ UNCHANGED <<connectVars, clientVars, queued, consumed, channelOpen, broadcasts, groupVars>>

QueueDrainedStops ==
  /\ consumer = "idle"
  /\ consumed = Len(queued)
  /\ consumer' = "stopped"
  /\ UNCHANGED <<connectVars, clientVars, queued, consumed, channelOpen, broadcasts, groupVars>>

QueueDrained ==
  /\ consumer = "idle"
  /\ consumed = Len(queued)
  /\ consumer' = IF isDisconnected THEN "stopped" ELSE "waiting"
  /\ UNCHANGED <<connectVars, clientVars, queued, consumed, channelOpen, broadcasts, groupVars>>

\* WaitToReadAsync: true for an item, false once the channel is completed.
Woken ==
  /\ consumer = "waiting"
  /\ \/ consumed < Len(queued) /\ consumer' = "idle"
     \/ consumed = Len(queued) /\ ~channelOpen /\ consumer' = "stopped"
  /\ UNCHANGED <<connectVars, clientVars, queued, consumed, channelOpen, broadcasts, groupVars>>
-----------------------------------------------------------------------------
(***************************************************************************)
(* The client, as the server sees it.                                      *)
(***************************************************************************)
ClientSends(k) ==
  /\ sent < MaxRequests /\ ~clientDone /\ ~clientGone
  /\ pc \in {"marker", "writingMarker", "reading", "invoking"}
  /\ sent' = sent + 1
  /\ kind' = [kind EXCEPT ![sent + 1] = k]
  /\ UNCHANGED <<clientDone, clientGone, connectVars, queueVars, groupVars>>

ClientCompletes ==
  /\ ~clientDone /\ ~clientGone
  /\ clientDone' = TRUE
  /\ UNCHANGED <<kind, sent, clientGone, connectVars, queueVars, groupVars>>

ClientDisconnects ==
  /\ ~clientGone
  /\ clientGone' = TRUE
  /\ UNCHANGED <<kind, sent, clientDone, connectVars, queueVars, groupVars>>
-----------------------------------------------------------------------------
ConnectStep ==
  \/ OnConnecting \/ WriteHeaders \/ StartMarker \/ MarkerWritten
  \/ ReceiveMessage \/ FinishOneWay \/ DetachOneWay \/ EndOfRequests \/ ReadAborted
  \/ \E k \in {"response", "error"} : AnswerCall(k)
  \/ MarkDisconnected \/ CloseQueue \/ OnDisconnected \/ Return
  \/ \E g \in Groups : LeaveAddedGroup(g)

ConsumerStep == TakeItem \/ ItemWritten \/ QueueDrained \/ Woken

GroupStep ==
  \/ \E t \in Threads, g \in Groups : JoinGroup(t, g) \/ LeaveGroup(t, g)
  \/ \E g \in Groups : Broadcast(g)

ClientStep ==
  \/ \E k \in Kinds : ClientSends(k)
  \/ ClientCompletes \/ ClientDisconnects

Next ==
  \/ ConnectStep \/ ConsumerStep \/ GroupStep \/ ClientStep
  \/ \E t \in Threads : RecordGroup(t)
  \/ \E r \in Requests : FinishDetached(r)

\* Hooks, handlers and writes come to an end and tasks that can run do run;
\* nobody has to send, to join, to broadcast or to disconnect.
Fairness ==
  /\ WF_vars(ConnectStep)
  /\ WF_vars(ConsumerStep)
  /\ \A t \in Threads : WF_vars(RecordGroup(t))
  /\ \A r \in Requests : WF_vars(FinishDetached(r))

Safety == Init /\ [][Next]_vars
Spec   == Safety /\ Fairness
-----------------------------------------------------------------------------
(***************************************************************************)
(* Properties.                                                             *)
(***************************************************************************)
IsAnswer(item) == item.kind # "broadcast"
Handled == {r \in 1..received : kind[r] = "call" /\ ~(r = received /\ pc = "invoking")}

\* The handlers of requests with a response are awaited one after the other:
\* the answers are queued in the order of the requests, one for each request
\* whose handler ended, and none for a fire-and-forget message.
AnswersInOrder ==
  /\ \A i, j \in DOMAIN queued :
       i < j /\ IsAnswer(queued[i]) /\ IsAnswer(queued[j])
         => queued[i].request < queued[j].request
  /\ {queued[i].request : i \in {j \in DOMAIN queued : IsAnswer(queued[j])}} = Handled

\* "ResponseStream does not allow multithread call": the marker and the
\* queue never write at the same time.
OneWriteAtATime == ~(marker = "writing" /\ consumer = "sending")

\* A disconnected client is no member of any group: what HubGroupRepository
\* recorded is enough to leave every group that was joined.
LeftEveryGroup == pc = "returned" => members = NoGroups

\* Connect returns once the client has completed or is gone.
ConnectReturns == (clientDone \/ clientGone) ~> pc = "returned"

\* The consumer task of the queue does not outlive the connection.
ConsumerStops == pc = "returned" ~> consumer = "stopped"

\* Every answer is passed to the response stream unless the connection ends.
AnswersSent ==
  \A r \in Requests :
    received >= r /\ kind[r] = "call"
      ~> \/ isDisconnected
         \/ \E i \in 1..consumed : IsAnswer(queued[i]) /\ queued[i].request = r
=============================================================================
