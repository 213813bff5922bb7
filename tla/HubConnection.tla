--------------------------- MODULE HubConnection ----------------------------
(***************************************************************************)
(* One StreamingHub connection end to end: HubClient and HubServer with    *)
(* the gRPC duplex call between them.                                      *)
(*                                                                         *)
(* Each side takes its own steps; what one side sees of the other comes    *)
(* over the call, in order: requests (`wire'), then the end of the request *)
(* stream; responses and broadcasts (`inbox'), then the status.  A client  *)
(* that cancels, and a connection that is lost, are known to the client at *)
(* once and to the server some time later.                                 *)
(***************************************************************************)
EXTENDS Integers, Sequences, FiniteSets

CONSTANTS
  Callers, Disposers, Sub, NoCaller, IdMax, MaxCalls, MaxOneWay,   \* of HubClient
  Groups, MaxJoins,                                                \* of HubServer
  MaxBroadcasts                                                    \* of both

ASSUME ThreadsAssumption == Sub \notin Disposers /\ NoCaller \notin Callers
ASSUME IdAssumption      == IdMax \in Nat \ {0} /\ MaxCalls \in 0..(2 * IdMax + 2)
ASSUME BoundsAssumption  == {MaxOneWay, MaxBroadcasts, MaxJoins} \subseteq Nat

VARIABLES
  \* the client
  connection, issued, oneWays, callerPc, cur, futures, tcs, replyTo, lock, sub, taken,
  disposed, cts, dpc, unvisited, waitForDisconnect, callState, halfClosed,
  \* the server
  pc, outcome, marker, isDisconnected, kind, sent, received, clientDone, clientGone,
  detached, queued, consumed, channelOpen, consumer, broadcasts,
  members, added, joining, leaving,
  \* the call
  wire,           \* requests on their way to the server
  inbox,          \* messages on their way to the client
  arrived,        \* the requests the server got, in order
  marked,         \* the marker was sent
  passed,         \* how much of `queued' was sent, or given up by a completed call
  cut             \* Len(queued) when the client's side of the call was over

clientVars == <<connection, issued, oneWays, callerPc, cur, futures, tcs, replyTo, lock, sub,
                taken, disposed, cts, dpc, unvisited, waitForDisconnect, callState, halfClosed>>
serverVars == <<pc, outcome, marker, isDisconnected, kind, sent, received, clientDone,
                clientGone, detached, queued, consumed, channelOpen, consumer, broadcasts,
                members, added, joining, leaving>>
vars == <<clientVars, serverVars, wire, inbox, arrived, marked, passed, cut>>

Calls       == 1..MaxCalls
MaxRequests == MaxCalls + MaxOneWay
OneWayId    == -1
Marker      == [kind |-> "response", id |-> -1, call |-> 0]

Client == INSTANCE HubClient
            WITH pc <- callerPc, executions <- [k \in Calls |-> 0], broadcasts <- 0
Server == INSTANCE HubServer
            WITH OnConnectingJoins <- FALSE, OnDisconnectedThrows <- FALSE, DetachedJoins <- FALSE
-----------------------------------------------------------------------------
(***************************************************************************)
(* What HubClient says of its environment, in terms of the real server and *)
(* the call: its `wire' holds every request that is not yet handled, its   *)
(* `inbox' every message of the server that the client may still get.      *)
(***************************************************************************)
Handled == IF pc = "invoking" THEN received - 1 ELSE received
\* What the server queued while the client could still be sent it.
Limit == IF callState = "open" THEN Len(queued) ELSE cut
AsMessage(item) ==
  [kind |-> item.kind,
   id   |-> IF item.kind = "broadcast" THEN 0 ELSE arrived[item.request].id,
   call |-> IF item.kind = "broadcast" THEN 0 ELSE arrived[item.request].call]
Unsent == [i \in 1..(Limit - passed) |-> AsMessage(queued[passed + i])]

PendingRequests == SubSeq(arrived, Handled + 1, Len(arrived)) \o wire
PendingMessages == inbox \o (IF marked THEN <<>> ELSE <<Marker>>) \o Unsent
Executions == [k \in Calls |-> Cardinality({i \in 1..Handled : arrived[i].call = k})]
Broadcasts == Cardinality({i \in 1..Limit : queued[i].kind = "broadcast"})

ClientView == INSTANCE HubClient
                WITH pc <- callerPc, wire <- PendingRequests, inbox <- PendingMessages,
                     executions <- Executions, broadcasts <- Broadcasts

Init ==
  /\ Server!Init
  /\ wire = <<>>
  /\ inbox = <<>>
  /\ arrived = <<>>
  /\ marked = FALSE
  /\ passed = 0
  /\ cut = 0
  /\ ClientView!Init
-----------------------------------------------------------------------------
(***************************************************************************)
(* The client's steps.                                                     *)
(***************************************************************************)
ClientOnly ==
  /\ cut' = IF callState = "open" /\ callState' # "open" THEN Len(queued) ELSE cut
  /\ UNCHANGED <<serverVars, arrived, marked, passed>>

\* ConnectAsync returns after the response headers; it fails without them.
HeadersWritten == pc = "marker" \/ marker # "none"
Connect ==
  /\ \/ HeadersWritten /\ Client!Connect("match", FALSE)
     \/ Client!Connect("absent", TRUE)
  /\ ClientOnly

Begin(c)       == (Client!BeginCall(c) \/ Client!BeginFireAndForget(c)) /\ ClientOnly
CallerStep(c)  == Client!CallerStep(c) /\ ClientOnly
SubStep        == Client!SubStep /\ ClientOnly
StartDispose(d) == Client!StartDispose(d) /\ ClientOnly
DisposeStep(d) == Client!DisposeStep(d) /\ ClientOnly
Disconnect     == Client!Disconnect /\ ClientOnly
-----------------------------------------------------------------------------
(***************************************************************************)
(* The server's steps.  What it writes on the response stream is on its    *)
(* way to the client as long as the client's side of the call is open.     *)
(***************************************************************************)
ServerOnly(step) ==
  /\ step
  /\ UNCHANGED <<clientVars, wire, inbox, arrived, marked, passed, cut>>

MarkerStep ==
  /\ Server!MarkerWritten
  /\ marked' = (callState = "open" /\ pc' = "reading")
  /\ inbox' = IF marked' THEN Append(inbox, Marker) ELSE inbox
  /\ UNCHANGED <<clientVars, wire, arrived, passed, cut>>

ItemStep ==
  /\ Server!ItemWritten
  /\ IF callState = "open"
       THEN /\ inbox' = Append(inbox, AsMessage(queued[consumed]))
            /\ passed' = consumed
       ELSE UNCHANGED <<inbox, passed>>
  /\ UNCHANGED <<clientVars, wire, arrived, marked, cut>>

ConnectStep ==
  \/ MarkerStep
  \/ pc # "writingMarker" /\ ServerOnly(Server!ConnectStep)

ConsumerStep ==
  \/ ItemStep
  \/ consumer # "sending" /\ ServerOnly(Server!ConsumerStep)

GroupStep      == ServerOnly(Server!GroupStep)
RecordGroup(t) == ServerOnly(Server!RecordGroup(t))
FinishDetached(r) == ServerOnly(Server!FinishDetached(r))
-----------------------------------------------------------------------------
(***************************************************************************)
(* The call.                                                               *)
(***************************************************************************)
RequestArrives ==
  /\ wire # <<>>
  /\ Server!ClientSends(IF Head(wire).id = OneWayId THEN "oneway" ELSE "call")
  /\ arrived' = Append(arrived, Head(wire))
  /\ wire' = Tail(wire)
  /\ UNCHANGED <<clientVars, inbox, marked, passed, cut>>

RequestsEnd ==
  /\ halfClosed /\ wire = <<>>
  /\ ServerOnly(Server!ClientCompletes)

\* The server learns that the client cancelled or that the connection is lost.
AbortArrives ==
  /\ callState = "aborted" \/ connection = "failed"
  /\ ServerOnly(Server!ClientDisconnects)

\* Connect returned on the server: its status follows what was sent.
StatusArrives ==
  /\ pc = "returned"
  /\ connection = "connected" /\ callState = "open"
  /\ callState' = IF outcome = "ok" /\ halfClosed THEN "ended" ELSE "aborted"
  /\ cut' = Len(queued)
  /\ passed' = IF callState' = "ended" THEN Len(queued) ELSE passed
  /\ UNCHANGED <<connection, issued, oneWays, callerPc, cur, futures, tcs, replyTo, lock, sub,
                 taken, disposed, cts, dpc, unvisited, waitForDisconnect, halfClosed,
                 serverVars, wire, inbox, arrived, marked>>
-----------------------------------------------------------------------------
NetworkStep == RequestArrives \/ RequestsEnd \/ AbortArrives \/ StatusArrives

Next ==
  \/ Connect
  \/ \E c \in Callers : Begin(c) \/ CallerStep(c)
  \/ SubStep
  \/ \E d \in Disposers \cup {Sub} : StartDispose(d) \/ DisposeStep(d)
  \/ ConnectStep \/ ConsumerStep \/ GroupStep
  \/ \E t \in 0..MaxRequests : RecordGroup(t)
  \/ \E r \in 1..MaxRequests : FinishDetached(r)
  \/ NetworkStep \/ Disconnect

\* What HubClient assumes of its own tasks, what HubServer assumes of its
\* own, and a transport that delivers what was sent or reports its loss.
Fairness ==
  /\ \A c \in Callers : WF_vars(CallerStep(c))
  /\ WF_vars(SubStep)
  /\ WF_vars(StartDispose(Sub))
  /\ \A d \in Disposers \cup {Sub} : WF_vars(DisposeStep(d))
  /\ WF_vars(ConnectStep)
  /\ WF_vars(ConsumerStep)
  /\ \A t \in 0..MaxRequests : WF_vars(RecordGroup(t))
  /\ \A r \in 1..MaxRequests : WF_vars(FinishDetached(r))
  /\ WF_vars(RequestArrives) /\ WF_vars(RequestsEnd)
  /\ WF_vars(AbortArrives) /\ WF_vars(StatusArrives)

Safety == Init /\ [][Next]_vars
Spec   == Safety /\ Fairness
-----------------------------------------------------------------------------
(***************************************************************************)
(* Properties.                                                             *)
(***************************************************************************)
TypeOK ==
  /\ Client!TypeOK
  /\ Server!TypeOK
  /\ arrived \in Seq(Client!Requests) /\ Len(arrived) = sent
  /\ marked \in BOOLEAN
  /\ passed \in 0..Len(queued)
  /\ cut \in 0..Len(queued)

\* The real server behind the real call is an environment HubClient allows:
\* what was checked and proved of the client alone holds for the connection.
ServerAsAssumed == ClientView!Safety

\* Every call comes back to its caller, unless the application calls
\* DisposeAsync, whose race with the end of the subscription can leave a call
\* pending (see HubClient).
EveryCallReturns ==
  \A c \in Callers :
    callerPc[c] # "idle" ~> callerPc[c] = "idle" \/ \E d \in Disposers : dpc[d] # "idle"

\* However the connection ends - the client completed its requests or
\* cancelled, the connection was lost, the server failed - Connect returns on
\* the server, the connection has left every group, and the client signals
\* the disconnect.
EndsOnBothSides ==
  connection = "connected" /\ (halfClosed \/ callState # "open")
    ~> waitForDisconnect /\ pc = "returned" /\ members = Server!NoGroups
=============================================================================
