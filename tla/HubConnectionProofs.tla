------------------------ MODULE HubConnectionProofs -------------------------
(***************************************************************************)
(* The real server behind the real call is an environment HubClient        *)
(* allows: what holds of the client in HubClient holds of the connection,  *)
(* for any threads, calls, messages, groups and broadcasts.                *)
(***************************************************************************)
EXTENDS HubConnection, FiniteSetTheorems, SequenceTheorems, TLAPS

Requests == Client!Requests
Messages == Client!Messages
Items    == Server!Items
-----------------------------------------------------------------------------
(* Queues.                                                                 *)

\* What is appended to the second of two queues is the last of both.
LEMMA AppendSecond ==
  ASSUME NEW S, NEW s \in Seq(S), NEW t \in Seq(S), NEW x \in S
  PROVE  s \o Append(t, x) = Append(s \o t, x)
<1>1. s \o t \in Seq(S) /\ s \o Append(t, x) \in Seq(S) /\ Append(s \o t, x) \in Seq(S)
  BY ConcatProperties
<1>2. Len(s \o Append(t, x)) = Len(Append(s \o t, x))
  BY <1>1, ConcatProperties
<1>3. ASSUME NEW i \in 1..Len(s \o Append(t, x))
      PROVE  (s \o Append(t, x))[i] = Append(s \o t, x)[i]
  <2>1. Len(s) \in Nat /\ Len(t) \in Nat /\ Len(s \o t) = Len(s) + Len(t)
    BY ConcatProperties
  <2>2. i \in 1..(Len(s) + Len(t) + 1)
    BY <1>3, <2>1, ConcatProperties
  <2>3. (s \o Append(t, x))[i] = IF i <= Len(s) THEN s[i] ELSE Append(t, x)[i - Len(s)]
    <3>1. Append(t, x) \in Seq(S) /\ Len(Append(t, x)) = Len(t) + 1
      OBVIOUS
    <3>2. i \in 1..(Len(s) + Len(Append(t, x)))
      BY <2>1, <2>2, <3>1
    <3> QED
      BY <3>1, <3>2, ConcatProperties
  <2>4. CASE i = Len(s) + Len(t) + 1
    BY <1>1, <2>1, <2>3, <2>4
  <2>5. CASE i \in 1..(Len(s) + Len(t))
    <3>1. Append(s \o t, x)[i] = (s \o t)[i]
      BY <1>1, <2>1, <2>5
    <3>2. (s \o t)[i] = IF i <= Len(s) THEN s[i] ELSE t[i - Len(s)]
      BY <2>5, ConcatProperties
    <3> QED
      BY <2>1, <2>3, <2>5, <3>1, <3>2
  <2> QED
    BY <2>1, <2>2, <2>4, <2>5
<1> QED
  BY <1>1, <1>2, <1>3, SeqEqual

\* The first of a queue can be the last of the one before it.
LEMMA FirstMoves ==
  ASSUME NEW S, NEW s \in Seq(S), NEW t \in Seq(S), NEW x \in S
  PROVE  Append(s, x) \o t = s \o (<<x>> \o t)
<1>1. Append(s, x) = s \o <<x>>
  <2>1. s \o Append(<<>>, x) = Append(s \o <<>>, x)
    BY AppendSecond, EmptySeq
  <2>2. s \o <<>> = s /\ Append(<<>>, x) = <<x>>
    BY ConcatEmptySeq
  <2> QED
    BY <2>1, <2>2
<1> QED
  BY <1>1, ConcatAssociative

\* An element before a queue.
LEMMA FirstOfPair ==
  ASSUME NEW S, NEW t \in Seq(S), NEW x \in S
  PROVE  /\ <<x>> \o t \in Seq(S) /\ <<x>> \o t # <<>>
         /\ Head(<<x>> \o t) = x
         /\ Tail(<<x>> \o t) = t
<1>1. <<x>> \in Seq(S) /\ Len(<<x>>) = 1 /\ <<x>>[1] = x
  OBVIOUS
<1>2. /\ <<x>> \o t \in Seq(S) /\ Len(<<x>> \o t) = 1 + Len(t) /\ Len(t) \in Nat
      /\ \A i \in 1..(1 + Len(t)) : (<<x>> \o t)[i] = IF i <= 1 THEN x ELSE t[i - 1]
  BY <1>1, ConcatProperties
<1>3. <<x>> \o t # <<>>
  BY <1>1, <1>2, ConcatEqualIffEmpty, EmptySeq
<1>4. /\ Tail(<<x>> \o t) \in Seq(S) /\ Len(Tail(<<x>> \o t)) = Len(t)
      /\ \A i \in 1..Len(t) : Tail(<<x>> \o t)[i] = (<<x>> \o t)[i + 1]
  BY <1>2, <1>3, HeadTailProperties
<1>5. \A i \in 1..Len(t) : Tail(<<x>> \o t)[i] = t[i]
  BY <1>2, <1>4
<1>6. Tail(<<x>> \o t) = t
  BY <1>4, <1>5, SeqEqual
<1>7. Head(<<x>> \o t) = x
  BY <1>2
<1> QED
  BY <1>2, <1>3, <1>6, <1>7

\* A queue is its head before its tail.
LEMMA HeadAndTail ==
  ASSUME NEW S, NEW s \in Seq(S), s # <<>>
  PROVE  /\ Head(s) \in S /\ Tail(s) \in Seq(S)
         /\ s = <<Head(s)>> \o Tail(s)
<1>1. s = SubSeq(s, 1, Len(s)) /\ Len(s) \in Nat \ {0}
  BY SubSeqFull, EmptySeq
<1>2. SubSeq(s, 1, Len(s)) = <<s[1]>> \o SubSeq(s, 2, Len(s))
  BY <1>1, SubSeqRecursiveFirst
<1>3. Tail(s) = SubSeq(s, 2, Len(s)) /\ Head(s) = s[1]
  BY TailIsSubSeq
<1> QED
  BY <1>1, <1>2, <1>3, HeadTailProperties

\* The head of two queues is the head of the first.
LEMMA HeadOfFirst ==
  ASSUME NEW S, NEW s \in Seq(S), NEW t \in Seq(S), s # <<>>
  PROVE  /\ s \o t # <<>>
         /\ Head(s \o t) = Head(s)
         /\ Tail(s \o t) = Tail(s) \o t
<1>1. s = <<Head(s)>> \o Tail(s)
  BY HeadAndTail
<1>2. Head(s) \in S /\ Tail(s) \in Seq(S) /\ <<Head(s)>> \in Seq(S)
  BY HeadTailProperties
<1>3. s \o t = <<Head(s)>> \o (Tail(s) \o t)
  BY <1>1, <1>2, ConcatAssociative
<1>4. Tail(s) \o t \in Seq(S)
  BY <1>2, ConcatProperties
<1> QED
  BY <1>2, <1>3, <1>4, FirstOfPair

\* The first of two queues is a prefix of both.
LEMMA FirstIsPrefix ==
  ASSUME NEW S, NEW s \in Seq(S), NEW t \in Seq(S)
  PROVE  Len(s) \in 0..Len(s \o t) /\ SubSeq(s \o t, 1, Len(s)) = s
<1>1. /\ s \o t \in Seq(S) /\ Len(s \o t) = Len(s) + Len(t) /\ Len(s) \in Nat /\ Len(t) \in Nat
      /\ \A i \in 1..Len(s) : (s \o t)[i] = s[i]
  BY ConcatProperties
<1>2. \A i \in 1..Len(s) : (s \o t)[i] \in S
  BY <1>1
<1>3. /\ SubSeq(s \o t, 1, Len(s)) \in Seq(S) /\ Len(SubSeq(s \o t, 1, Len(s))) = Len(s)
      /\ \A i \in 1..Len(s) : SubSeq(s \o t, 1, Len(s))[i] = (s \o t)[i]
  BY <1>1, <1>2, SubSeqProperties
<1> QED
  BY <1>1, <1>3, SeqEqual
-----------------------------------------------------------------------------
(* The invariant.                                                          *)

ClientTypes ==
  /\ issued \in 0..MaxCalls
  /\ callerPc \in [Callers -> {"idle", "registering", "locking", "locked", "writing", "awaiting"}]
  /\ cur \in [Callers -> 0..MaxCalls]
  /\ callState \in {"open", "ended", "aborted"}
  /\ halfClosed \in BOOLEAN

ServerTypes ==
  /\ sent \in 0..MaxRequests
  /\ received \in 0..sent
  /\ kind \in [1..MaxRequests -> Server!Kinds]
  /\ queued \in Seq(Items)
  /\ consumed \in 0..Len(queued)
  /\ broadcasts \in Nat
  /\ members \in [Groups -> Nat]
  /\ pc = "invoking" => received > 0
  /\ \A i \in 1..Len(queued) : queued[i].kind # "broadcast" => queued[i].request \in 1..received

CallTypes ==
  /\ wire \in Seq(Requests)
  /\ inbox \in Seq(Messages)
  /\ arrived \in Seq(Requests) /\ Len(arrived) = sent
  /\ passed \in Nat
  /\ cut \in 0..Len(queued)
  /\ marked \in BOOLEAN

Types == ClientTypes /\ ServerTypes /\ CallTypes

\* Requests are made by a connected client, and not after it half-closed.
RequestsOfConnected ==
  /\ \A c \in Callers : /\ callerPc[c] # "idle" => connection = "connected"
                        /\ halfClosed => callerPc[c] # "writing"
  /\ wire # <<>> \/ sent > 0 => connection = "connected"
  /\ clientDone => halfClosed /\ wire = <<>>

\* The server takes a request for what the client made it.
KindsMatch ==
  \A r \in 1..sent : kind[r] = IF arrived[r].id = OneWayId THEN "oneway" ELSE "call"

\* Before the first request is read the connection is in no group, and nothing
\* is queued.
QuietBeginning == received = 0 => members = Server!NoGroups /\ queued = <<>>

\* The loop begins after the marker is sent, unless the client's side is over.
MarkerFirst ==
  /\ pc \in {"connecting", "headers", "marker", "writingMarker"} => ~marked /\ received = 0
  /\ callState = "open" /\ (received > 0 \/ pc \in {"reading", "invoking"}) => marked

\* The queue is completed after the loop.
OpenInLoop == ~channelOpen => pc \in {"disconnected", "leaving", "returned"}

\* The server knows of an end only after the client.
GoneIsKnown == clientGone => callState = "aborted" \/ connection = "failed"

\* Connect ends well when the client is gone or everything was read.
EndsAfterAll ==
  outcome = "ok" /\ ~clientGone =>
    received = sent /\ clientDone /\ (callState = "open" => marked)

\* A call that the server completed leaves nothing to be sent.
EndedIsSent == callState = "ended" => pc = "returned" /\ marked /\ passed = cut

\* The consumer has sent what it has taken, but for the item it is sending.
SentInOrder ==
  /\ passed <= Limit
  /\ consumer = "sending" => consumed > 0
  /\ callState = "open" /\ consumer # "stopped" =>
       passed = IF consumer = "sending" THEN consumed - 1 ELSE consumed

BroadcastsBounded == Broadcasts <= broadcasts

IInv ==
  /\ Types /\ RequestsOfConnected /\ KindsMatch /\ QuietBeginning /\ MarkerFirst /\ OpenInLoop
  /\ GoneIsKnown /\ EndsAfterAll /\ EndedIsSent /\ SentInOrder /\ BroadcastsBounded

\* All of it but the count of broadcasts.
Consistent ==
  /\ Types /\ RequestsOfConnected /\ KindsMatch /\ QuietBeginning /\ MarkerFirst /\ OpenInLoop
  /\ GoneIsKnown /\ EndsAfterAll /\ EndedIsSent /\ SentInOrder

\* The ids of calls are Int32s, and so is -1.
LEMMA IdType ==
  /\ MaxCalls \in Nat /\ MaxRequests \in Nat
  /\ \A k \in 0..MaxCalls : Client!IdOf(k) \in Client!Ids
  /\ OneWayId \in Client!Ids /\ 0 \in Client!Ids
BY IdAssumption, BoundsAssumption DEF Client!IdOf, Client!Ids, OneWayId, MaxRequests

\* A queue of elements stays one when an element is appended.
LEMMA AppendType ==
  ASSUME NEW S, NEW q \in Seq(S), NEW x \in S
  PROVE  Append(q, x) \in Seq(S)
OBVIOUS

\* The head and the tail of a queue that is not empty.
LEMMA TailType ==
  ASSUME NEW S, NEW q \in Seq(S), q # <<>>
  PROVE  Head(q) \in S /\ Tail(q) \in Seq(S)
OBVIOUS

\* It holds before anything happened.
LEMMA InitIInv == Init => IInv
<1> SUFFICES ASSUME Init PROVE IInv
  OBVIOUS
<1>1. /\ issued = 0 /\ callerPc = [c \in Callers |-> "idle"] /\ cur = [c \in Callers |-> 0]
      /\ connection = "connecting" /\ halfClosed = FALSE /\ callState = "open"
  BY DEF Init, ClientView!Init, ClientView!NoCall
<1>2. /\ pc = "connecting" /\ outcome = "none" /\ sent = 0 /\ received = 0 /\ clientDone = FALSE
      /\ clientGone = FALSE /\ queued = <<>> /\ consumed = 0 /\ channelOpen = TRUE
      /\ consumer = "none" /\ broadcasts = 0 /\ members = Server!NoGroups
      /\ kind = [r \in Server!Requests |-> "call"]
  BY DEF Init, Server!Init
<1>3. wire = <<>> /\ inbox = <<>> /\ arrived = <<>> /\ marked = FALSE /\ passed = 0 /\ cut = 0
  BY DEF Init
<1>b. halfClosed \in BOOLEAN /\ marked \in BOOLEAN
  BY <1>1, <1>3, Zenon
<1>4. ClientTypes
  BY <1>1, <1>b, IdType DEF ClientTypes
<1>5. ServerTypes
  BY <1>2, <1>b, IdType DEF ServerTypes, Server!NoGroups, Server!Requests, Server!Kinds
<1>6. CallTypes
  <2>1. <<>> \in Seq(Requests) /\ <<>> \in Seq(Messages) /\ Len(<<>>) = 0
    BY EmptySeq
  <2> QED
    BY <1>2, <1>3, <1>b, <2>1 DEF CallTypes
<1>7. Consistent
  <2>1. Limit = 0
    BY <1>1, <1>2 DEF Limit
  <2> QED
    BY <1>1, <1>2, <1>3, <1>4, <1>5, <1>6, <2>1
    DEF Consistent, Types, RequestsOfConnected, KindsMatch, QuietBeginning, MarkerFirst, OpenInLoop,
        GoneIsKnown, EndsAfterAll, EndedIsSent, SentInOrder
<1>8. BroadcastsBounded
  <2>1. {i \in 1..Limit : queued[i].kind = "broadcast"} = {}
    BY <1>1, <1>2 DEF Limit
  <2> QED
    BY <1>2, <2>1, FS_EmptySet DEF BroadcastsBounded, Broadcasts
<1> QED
  BY <1>7, <1>8 DEF IInv, Consistent
-----------------------------------------------------------------------------
(* What the client's steps have in common.                                 *)

\* At most one request is written and one message read; the call does not
\* open again.
ClientMoves ==
  /\ UNCHANGED <<serverVars, arrived, marked, passed>>
  /\ cut' = IF callState = "open" /\ callState' # "open" THEN Len(queued) ELSE cut
  /\ \/ inbox' = inbox
     \/ inbox # <<>> /\ inbox' = Tail(inbox)
  /\ \/ wire' = wire
     \/ /\ connection = "connected" /\ ~halfClosed
        /\ \E r \in Requests : wire' = Append(wire, r)
  /\ callState' = callState \/ callState' = "aborted"
  /\ connection' = connection \/ connection = "connecting"
  /\ halfClosed => halfClosed'

\* What the client does about its own threads.
ClientKeeps == ClientTypes' /\ (\A c \in Callers : /\ callerPc'[c] # "idle" => connection' = "connected"
                                                   /\ halfClosed' => callerPc'[c] # "writing")

\* A step that writes nothing, reads nothing and leaves the call as it is.
LEMMA ClientDefs ==
  ASSUME ClientOnly,
         UNCHANGED <<inbox, wire>>, callState' = callState, UNCHANGED halfClosed,
         connection' = connection \/ connection = "connecting"
  PROVE  ClientMoves
BY DEF ClientOnly, ClientMoves

\* ConnectAsync ends, with or without a connection.
LEMMA ConnectMoves == ASSUME IInv, Connect PROVE ClientMoves /\ ClientKeeps
<1>1. connection = "connecting" /\ ClientOnly
  BY DEF Connect, Client!Connect
<1>2. UNCHANGED <<issued, callerPc, cur, inbox, wire, callState, halfClosed>>
  BY DEF Connect, Client!Connect, Client!callerVars, Client!netVars
<1>3. ClientMoves
  BY <1>1, <1>2, ClientDefs
<1>4. ClientKeeps
  BY <1>1, <1>2 DEF ClientKeeps, IInv, Types, ClientTypes, RequestsOfConnected
<1> QED
  BY <1>3, <1>4

\* A caller begins a call or a fire-and-forget call.
LEMMA BeginMoves == ASSUME IInv, NEW c \in Callers, Begin(c) PROVE ClientMoves /\ ClientKeeps
<1>1. CASE Client!BeginCall(c)
  <2>1. UNCHANGED <<connection, inbox, wire, callState, halfClosed>> /\ ClientOnly
    BY <1>1 DEF Begin, Client!BeginCall, Client!netVars
  <2>2. /\ ClientTypes' /\ connection = "connected"
        /\ \A e \in Callers : callerPc'[e] = IF e = c THEN "registering" ELSE callerPc[e]
    BY <1>1, <2>1, IdType DEF Client!BeginCall, IInv, Types, ClientTypes
  <2> QED
    BY <2>1, <2>2, ClientDefs DEF ClientKeeps, IInv, RequestsOfConnected
<1>2. CASE Client!BeginFireAndForget(c)
  <2>1. UNCHANGED <<connection, inbox, wire, callState, halfClosed>> /\ ClientOnly
    BY <1>2 DEF Begin, Client!BeginFireAndForget, Client!netVars
  <2>2. /\ ClientTypes' /\ connection = "connected"
        /\ \A e \in Callers : callerPc'[e] = IF e = c THEN "locking" ELSE callerPc[e]
    BY <1>2, <2>1, IdType DEF Client!BeginFireAndForget, Client!NoCall, IInv, Types, ClientTypes
  <2> QED
    BY <2>1, <2>2, ClientDefs DEF ClientKeeps, IInv, RequestsOfConnected
<1> QED
  BY <1>1, <1>2 DEF Begin

\* A caller registers, takes the lock, writes or returns.
LEMMA CallerMoves == ASSUME IInv, NEW c \in Callers, CallerStep(c) PROVE ClientMoves /\ ClientKeeps
<1>1. ClientOnly /\ Client!CallerStep(c)
  BY DEF CallerStep
<1>2. UNCHANGED <<connection, issued, cur, inbox, callState, halfClosed>>
  BY <1>1 DEF Client!CallerStep, Client!RegisterFuture, Client!AcquireLock, Client!StartWrite,
     Client!WriteThrows, Client!WriteCompletes, Client!ReturnToCaller, Client!netVars
<1>3. /\ callerPc[c] # "idle"
      /\ \E p \in {"idle", "registering", "locking", "locked", "writing", "awaiting"} :
           callerPc' = [callerPc EXCEPT ![c] = p] /\ (p = "writing" => ~halfClosed)
  BY <1>1 DEF Client!CallerStep, Client!RegisterFuture, Client!AcquireLock, Client!StartWrite,
     Client!WriteThrows, Client!WriteCompletes, Client!ReturnToCaller
<1>4. connection = "connected"
  BY <1>3 DEF IInv, RequestsOfConnected
<1>5. ClientKeeps
  <2>1. PICK p \in {"idle", "registering", "locking", "locked", "writing", "awaiting"} :
           callerPc' = [callerPc EXCEPT ![c] = p] /\ (p = "writing" => ~halfClosed)
    BY <1>3
  <2>2. \A e \in Callers : callerPc'[e] = IF e = c THEN p ELSE callerPc[e]
    BY <2>1 DEF IInv, Types, ClientTypes
  <2>3. ClientTypes'
    BY <1>2, <2>1 DEF IInv, Types, ClientTypes
  <2> QED
    BY <1>2, <1>4, <2>1, <2>2, <2>3 DEF ClientKeeps, IInv, RequestsOfConnected
<1>6. ClientMoves
  <2>1. CASE Client!WriteCompletes(c)
    <3>1. ~halfClosed
      BY <2>1 DEF Client!WriteCompletes, IInv, RequestsOfConnected
    <3>2. \E r \in Requests : wire' = Append(wire, r)
      <4>1. cur[c] \in 0..MaxCalls
        BY DEF IInv, Types, ClientTypes
      <4>2. /\ Client!Request(Client!OneWayId, Client!NoCall) \in Requests
            /\ Client!Request(Client!IdOf(cur[c]), cur[c]) \in Requests
        BY <4>1, IdType DEF Client!Request, Requests, Client!Requests, Client!OneWayId, OneWayId, Client!NoCall
      <4> QED
        BY <2>1, <4>2 DEF Client!WriteCompletes
    <3> QED
      BY <1>1, <1>2, <1>4, <3>1, <3>2 DEF ClientMoves, ClientOnly
  <2>2. CASE ~Client!WriteCompletes(c)
    <3>1. wire' = wire
      BY <1>1, <2>2 DEF Client!CallerStep, Client!RegisterFuture, Client!AcquireLock, Client!StartWrite,
         Client!WriteThrows, Client!ReturnToCaller, Client!netVars
    <3> QED
      BY <1>1, <1>2, <3>1, ClientDefs
  <2> QED
    BY <2>1, <2>2
<1> QED
  BY <1>5, <1>6

\* A step that begins no call and leaves the threads where they are.
LEMMA OtherMoves ==
  ASSUME IInv, ClientOnly, UNCHANGED <<connection, issued, callerPc, cur, wire>>,
         \/ inbox' = inbox
         \/ inbox # <<>> /\ inbox' = Tail(inbox),
         callState' = callState \/ callState' = "aborted",
         \/ UNCHANGED halfClosed
         \/ halfClosed' = (halfClosed \/ (callState = "open" /\ \A c \in Callers : callerPc[c] # "writing"))
  PROVE  ClientMoves /\ ClientKeeps
<1>1. ClientMoves
  <2>1. halfClosed => halfClosed'
    BY DEF IInv, Types, ClientTypes
  <2> QED
    BY <2>1 DEF ClientMoves, ClientOnly
<1>2. ClientKeeps
  <2>1. ClientTypes'
    BY DEF IInv, Types, ClientTypes
  <2>2. \A c \in Callers : halfClosed' => callerPc[c] # "writing"
    BY DEF IInv, Types, ClientTypes, RequestsOfConnected
  <2> QED
    BY <2>1, <2>2 DEF ClientKeeps, IInv, RequestsOfConnected
<1> QED
  BY <1>1, <1>2

\* The subscription reads, settles, goes on or ends.
LEMMA SubMoves == ASSUME IInv, SubStep PROVE ClientMoves /\ ClientKeeps
<1> USE DEF Client!callerVars, Client!netVars
<1>1. ClientOnly /\ Client!SubStep
  BY DEF SubStep
<1>2. UNCHANGED <<connection, issued, callerPc, cur, wire, halfClosed>>
  BY <1>1 DEF Client!SubStep, Client!ReceiveResponse, Client!ReceiveBroadcast, Client!Advance,
     Client!StreamEnds, Client!FinishSubscription, Client!SettleFuture
<1>3. inbox' = inbox \/ (inbox # <<>> /\ inbox' = Tail(inbox))
  BY <1>1 DEF Client!SubStep, Client!ReceiveResponse, Client!ReceiveBroadcast, Client!Advance,
     Client!StreamEnds, Client!FinishSubscription, Client!SettleFuture
<1>4. callState' = callState \/ callState' = "aborted"
  BY <1>1 DEF Client!SubStep, Client!ReceiveResponse, Client!ReceiveBroadcast, Client!Advance,
     Client!StreamEnds, Client!FinishSubscription, Client!SettleFuture
<1> QED
  BY <1>1, <1>2, <1>3, <1>4, OtherMoves

\* DisposeAsync is begun or takes a step.
LEMMA DisposeMoves ==
  ASSUME IInv, NEW d, StartDispose(d) \/ DisposeStep(d)
  PROVE  ClientMoves /\ ClientKeeps
<1> USE DEF Client!callerVars, Client!netVars
<1>1. ClientOnly /\ (Client!StartDispose(d) \/ Client!DisposeStep(d))
  BY DEF StartDispose, DisposeStep
<1>2. UNCHANGED <<connection, issued, callerPc, cur, wire, inbox>>
  BY <1>1 DEF Client!StartDispose, Client!DisposeStep, Client!MarkDisposed, Client!CompleteRequests,
     Client!CancelToken, Client!DisposeToken, Client!AwaitSubscription, Client!StartCleanup,
     Client!CancelFuture, Client!FinishCleanup
<1>3. callState' = callState \/ callState' = "aborted"
  BY <1>1 DEF Client!StartDispose, Client!DisposeStep, Client!MarkDisposed, Client!CompleteRequests,
     Client!CancelToken, Client!DisposeToken, Client!AwaitSubscription, Client!StartCleanup,
     Client!CancelFuture, Client!FinishCleanup
<1>4. \/ UNCHANGED halfClosed
      \/ halfClosed' = (halfClosed \/ (callState = "open" /\ \A c \in Callers : callerPc[c] # "writing"))
  BY <1>1 DEF Client!StartDispose, Client!DisposeStep, Client!MarkDisposed, Client!CompleteRequests,
     Client!CancelToken, Client!DisposeToken, Client!AwaitSubscription, Client!StartCleanup,
     Client!CancelFuture, Client!FinishCleanup
<1> QED
  BY <1>1, <1>2, <1>3, <1>4, OtherMoves

\* The connection is lost.
LEMMA DisconnectMoves == ASSUME IInv, Disconnect PROVE ClientMoves /\ ClientKeeps
<1>1. /\ ClientOnly /\ callState' = "aborted"
      /\ UNCHANGED <<connection, issued, callerPc, cur, wire, inbox, halfClosed>>
  BY DEF Disconnect, Client!Disconnect, Client!callerVars
<1> QED
  BY <1>1, OtherMoves

\* Every step of the client is one of these.
ClientStep ==
  \/ Connect
  \/ \E c \in Callers : Begin(c) \/ CallerStep(c)
  \/ SubStep
  \/ \E d \in Disposers \cup {Sub} : StartDispose(d) \/ DisposeStep(d)
  \/ Disconnect

\* Every step of the client is one of these.
LEMMA ClientStepMoves == ASSUME IInv, ClientStep PROVE ClientMoves /\ ClientKeeps
BY ConnectMoves, BeginMoves, CallerMoves, SubMoves, DisposeMoves, DisconnectMoves DEF ClientStep

\* What the server queued for the client stays the same.
LEMMA ClientLimit == ASSUME IInv, ClientMoves PROVE Limit' = Limit
BY DEF ClientMoves, Limit, serverVars

\* What the client does keeps the invariant.
LEMMA ClientIInv == ASSUME IInv, ClientMoves, ClientKeeps PROVE IInv'
<1> USE DEF IInv
<1>1. Limit' = Limit
  BY ClientLimit
<1>s. /\ UNCHANGED <<pc, outcome, kind, sent, received, clientDone, clientGone, queued, consumed,
                     channelOpen, consumer, broadcasts, members>>
      /\ UNCHANGED <<arrived, marked, passed>>
  BY DEF ClientMoves, serverVars
<1>2. ServerTypes'
  BY <1>s DEF ServerTypes, Types
<1>3. CallTypes'
  <2>1. wire' \in Seq(Requests)
    <3> SUFFICES ASSUME NEW q \in Requests, wire' = Append(wire, q) PROVE wire' \in Seq(Requests)
      BY DEF ClientMoves, CallTypes, Types
    <3> QED
      BY DEF CallTypes, Types
  <2>2. inbox' \in Seq(Messages)
    BY TailType DEF ClientMoves, CallTypes, Types
  <2>3. cut' \in 0..Len(queued)'
    BY <1>s DEF ClientMoves, CallTypes, ServerTypes, Types
  <2> QED
    BY <1>s, <2>1, <2>2, <2>3 DEF CallTypes, Types
<1>4. RequestsOfConnected'
  BY <1>s DEF ClientMoves, ClientKeeps, RequestsOfConnected
<1>5. KindsMatch' /\ QuietBeginning' /\ OpenInLoop'
  BY <1>s DEF KindsMatch, QuietBeginning, OpenInLoop, Server!NoGroups
<1>6. MarkerFirst'
  BY <1>s DEF ClientMoves, MarkerFirst
<1>7. GoneIsKnown'
  BY <1>s DEF ClientMoves, GoneIsKnown
<1>8. EndsAfterAll'
  BY <1>s DEF ClientMoves, EndsAfterAll
<1>9. EndedIsSent'
  BY <1>s DEF ClientMoves, EndedIsSent
<1>10. SentInOrder'
  BY <1>1, <1>s DEF ClientMoves, SentInOrder
<1>11. BroadcastsBounded'
  BY <1>1, <1>s DEF BroadcastsBounded, Broadcasts
<1> QED
  BY <1>2, <1>3, <1>4, <1>5, <1>6, <1>7, <1>8, <1>9, <1>10, <1>11 DEF Types, ClientKeeps
-----------------------------------------------------------------------------
(* The server's steps keep the invariant.                                  *)

callVars == <<wire, inbox, arrived, marked, passed, cut>>

\* Nothing is queued, taken or sent.
LEMMA QueueStays ==
  ASSUME IInv, UNCHANGED <<callState, queued, passed, cut, broadcasts>>
  PROVE  Limit' = Limit /\ BroadcastsBounded'
<1>1. Limit' = Limit
  BY DEF Limit
<1> QED
  BY <1>1 DEF IInv, BroadcastsBounded, Broadcasts

\* A step of Connect that leaves the queue and the groups alone.
LoopMoves ==
  /\ UNCHANGED <<clientVars, callVars, kind, sent, clientDone, clientGone, queued, consumed,
                 broadcasts, members>>
  /\ received' \in received..sent
  /\ consumer' = consumer \/ (consumer = "none" /\ consumer' = "idle")
  /\ pc' = "invoking" => received' > 0
  /\ MarkerFirst' /\ OpenInLoop' /\ EndsAfterAll'
  /\ pc # "returned"

\* Such a step keeps the invariant.
LEMMA LoopIInv == ASSUME IInv, LoopMoves PROVE IInv'
<1> USE DEF IInv
<1>1. /\ UNCHANGED <<clientVars, callVars, kind, sent, clientDone, clientGone, queued, consumed,
                     broadcasts, members>>
      /\ UNCHANGED <<connection, issued, callerPc, cur, callState, halfClosed>>
      /\ UNCHANGED <<wire, inbox, arrived, marked, passed, cut>>
  BY DEF LoopMoves, clientVars, callVars
<1>2. Limit' = Limit /\ BroadcastsBounded'
  BY <1>1, QueueStays
<1>3. ServerTypes'
  <2>1. received' \in 0..sent /\ received <= received' /\ received \in 0..sent /\ sent \in Nat
    BY IdType DEF LoopMoves, Types, ServerTypes
  <2> QED
    BY <1>1, <2>1 DEF LoopMoves, Types, ServerTypes
<1>4. ClientTypes' /\ CallTypes'
  BY <1>1 DEF Types, ClientTypes, CallTypes
<1>5. RequestsOfConnected' /\ KindsMatch' /\ GoneIsKnown'
  BY <1>1 DEF RequestsOfConnected, KindsMatch, GoneIsKnown
<1>6. QuietBeginning'
  <2>1. received' = 0 => received = 0
    BY DEF LoopMoves, Types, ServerTypes
  <2> QED
    BY <1>1, <2>1 DEF QuietBeginning, Server!NoGroups
<1>7. EndedIsSent'
  BY <1>1 DEF EndedIsSent, LoopMoves
<1>8. SentInOrder'
  BY <1>1, <1>2 DEF SentInOrder, LoopMoves
<1> QED
  BY <1>2, <1>3, <1>4, <1>5, <1>6, <1>7, <1>8 DEF Types, LoopMoves

\* What a step of Connect leaves alone.
LEMMA LoopFrame ==
  ASSUME IInv, UNCHANGED <<clientVars, wire, inbox, arrived, marked, passed, cut>>,
         UNCHANGED <<Server!clientVars, queued, consumed, broadcasts, members>>,
         received' \in received..sent, pc # "returned",
         consumer' = consumer \/ (consumer = "none" /\ consumer' = "idle"),
         pc' = "invoking" => received' > 0,
         MarkerFirst' /\ OpenInLoop' /\ EndsAfterAll'
  PROVE  LoopMoves
BY DEF LoopMoves, callVars, Server!clientVars

\* The steps of Connect that queue no answer and leave no group.
LoopStep ==
  \/ Server!OnConnecting \/ Server!WriteHeaders \/ Server!StartMarker
  \/ Server!ReceiveMessage \/ Server!FinishOneWay \/ Server!DetachOneWay \/ Server!EndOfRequests
  \/ Server!ReadAborted \/ Server!MarkDisconnected \/ Server!CloseQueue \/ Server!OnDisconnected
  \/ Server!Return

\* They do no more than that.
LEMMA LoopStepMoves == ASSUME IInv, ServerOnly(LoopStep) PROVE LoopMoves
<1> USE DEF Server!queueVars, Server!groupVars
<1>1. LoopStep /\ UNCHANGED <<clientVars, wire, inbox, arrived, marked, passed, cut>>
  BY DEF ServerOnly
<1>2. UNCHANGED <<connection, callState, wire, inbox, arrived, marked, passed, cut>>
  BY <1>1 DEF clientVars
<1>t. received \in Nat /\ sent \in Nat /\ received <= sent
  BY IdType DEF IInv, Types, ServerTypes
<1>3. ASSUME Server!OnConnecting \/ Server!WriteHeaders \/ Server!StartMarker
      PROVE  LoopMoves
  <2>1. /\ pc \in {"connecting", "headers", "marker"}
        /\ pc' \in {"headers", "marker", "writingMarker", "completing"}
        /\ pc' = "completing" => outcome' = "failed" \/ clientGone
        /\ pc' # "completing" => outcome' = outcome
        /\ (channelOpen' <=> channelOpen) /\ UNCHANGED <<received, consumer>>
        /\ UNCHANGED <<Server!clientVars, queued, consumed, broadcasts, members>>
    BY <1>3 DEF Server!OnConnecting, Server!WriteHeaders, Server!StartMarker, Server!Throw
  <2>2. UNCHANGED <<sent, clientDone, clientGone>>
    BY <2>1 DEF Server!clientVars
  <2>3. MarkerFirst'
    BY <1>2, <2>1 DEF IInv, MarkerFirst
  <2>4. OpenInLoop'
    BY <2>1 DEF IInv, OpenInLoop
  <2>5. EndsAfterAll'
    BY <1>2, <2>1, <2>2 DEF IInv, EndsAfterAll
  <2>8. received' \in received..sent /\ (pc' = "invoking" => received' > 0)
    BY <1>t, <2>1
  <2> QED
    BY <1>1, <2>1, <2>8, <2>3, <2>4, <2>5, LoopFrame
<1>4. ASSUME Server!ReceiveMessage PROVE LoopMoves
  <2>1. /\ pc = "reading" /\ received < sent /\ received' = received + 1
        /\ (channelOpen' <=> channelOpen) /\ UNCHANGED consumer
        /\ UNCHANGED <<Server!clientVars, queued, consumed, broadcasts, members>>
    BY <1>4 DEF Server!ReceiveMessage
  <2>2. kind[received + 1] # "unknown"
    BY <2>1, <1>t DEF IInv, KindsMatch
  <2>3. pc' = "invoking" /\ outcome' = outcome
    BY <1>4, <2>2 DEF Server!ReceiveMessage
  <2>4. UNCHANGED <<sent, clientDone, clientGone>>
    BY <2>1 DEF Server!clientVars
  <2>5. MarkerFirst'
    BY <1>2, <2>1, <2>3 DEF IInv, MarkerFirst
  <2>6. OpenInLoop'
    BY <2>1, <2>3 DEF IInv, OpenInLoop
  <2>7. EndsAfterAll'
    BY <1>2, <1>t, <2>1, <2>3, <2>4 DEF IInv, EndsAfterAll
  <2>8. received' \in received..sent /\ (pc' = "invoking" => received' > 0)
    BY <1>t, <2>1
  <2> QED
    BY <1>1, <2>1, <2>8, <2>3, <2>5, <2>6, <2>7, LoopFrame
<1>5. ASSUME Server!FinishOneWay \/ Server!DetachOneWay PROVE LoopMoves
  <2>1. /\ pc = "invoking" /\ pc' = "reading"
        /\ (channelOpen' <=> channelOpen) /\ UNCHANGED <<outcome, received, consumer>>
        /\ UNCHANGED <<Server!clientVars, queued, consumed, broadcasts, members>>
    BY <1>5 DEF Server!FinishOneWay, Server!DetachOneWay
  <2>2. UNCHANGED <<sent, clientDone, clientGone>>
    BY <2>1 DEF Server!clientVars
  <2>3. MarkerFirst'
    BY <1>2, <2>1 DEF IInv, MarkerFirst
  <2>4. OpenInLoop'
    BY <2>1 DEF IInv, OpenInLoop
  <2>5. EndsAfterAll'
    BY <1>2, <2>1, <2>2 DEF IInv, EndsAfterAll
  <2>8. received' \in received..sent /\ (pc' = "invoking" => received' > 0)
    BY <1>t, <2>1
  <2> QED
    BY <1>1, <2>1, <2>8, <2>3, <2>4, <2>5, LoopFrame
<1>6. ASSUME Server!EndOfRequests \/ Server!ReadAborted PROVE LoopMoves
  <2>1. /\ pc = "reading" /\ pc' = "completing"
        /\ clientGone \/ (received = sent /\ clientDone)
        /\ (channelOpen' <=> channelOpen) /\ UNCHANGED <<received, consumer>>
        /\ UNCHANGED <<Server!clientVars, queued, consumed, broadcasts, members>>
    BY <1>6 DEF Server!EndOfRequests, Server!ReadAborted, Server!Throw
  <2>2. UNCHANGED <<sent, clientDone, clientGone>>
    BY <2>1 DEF Server!clientVars
  <2>3. MarkerFirst'
    BY <1>2, <2>1 DEF IInv, MarkerFirst
  <2>4. OpenInLoop'
    BY <2>1 DEF IInv, OpenInLoop
  <2>5. EndsAfterAll'
    BY <1>2, <2>1, <2>2 DEF IInv, EndsAfterAll, MarkerFirst
  <2>8. received' \in received..sent /\ (pc' = "invoking" => received' > 0)
    BY <1>t, <2>1
  <2> QED
    BY <1>1, <2>1, <2>8, <2>3, <2>4, <2>5, LoopFrame
<1>7. ASSUME Server!MarkDisconnected \/ Server!CloseQueue \/ Server!OnDisconnected \/ Server!Return
      PROVE  LoopMoves
  <2>1. /\ pc \in {"completing", "closing", "disconnected", "leaving"}
        /\ pc' \in {"closing", "disconnected", "leaving", "returned"}
        /\ pc' = "closing" => pc = "completing" /\ (channelOpen' <=> channelOpen)
        /\ UNCHANGED <<outcome, received>>
        /\ consumer' = consumer \/ (consumer = "none" /\ consumer' = "idle")
        /\ UNCHANGED <<Server!clientVars, queued, consumed, broadcasts, members>>
    BY <1>7 DEF Server!MarkDisconnected, Server!CloseQueue, Server!OnDisconnected, Server!Return,
       Server!Created
  <2>2. UNCHANGED <<sent, clientDone, clientGone>>
    BY <2>1 DEF Server!clientVars
  <2>3. MarkerFirst'
    BY <1>2, <2>1 DEF IInv, MarkerFirst
  <2>4. OpenInLoop'
    BY <2>1 DEF IInv, OpenInLoop
  <2>5. EndsAfterAll'
    BY <1>2, <2>1, <2>2 DEF IInv, EndsAfterAll
  <2>8. received' \in received..sent /\ (pc' = "invoking" => received' > 0)
    BY <1>t, <2>1
  <2> QED
    BY <1>1, <2>1, <2>8, <2>3, <2>4, <2>5, LoopFrame
<1> QED
  BY <1>1, <1>3, <1>4, <1>5, <1>6, <1>7 DEF LoopStep

\* Groups are left, joined and recorded; only a connection that has read a
\* request joins.
LEMMA GroupsIInv ==
  ASSUME IInv, UNCHANGED <<clientVars, callVars, Server!clientVars, Server!queueVars>>,
         UNCHANGED <<pc, outcome, received>>,
         members' \in [Groups -> Nat],
         received = 0 => members' = members
  PROVE  IInv'
<1> USE DEF IInv
<1>1. /\ UNCHANGED <<connection, issued, callerPc, cur, callState, halfClosed>>
      /\ UNCHANGED <<wire, inbox, arrived, marked, passed, cut>>
      /\ UNCHANGED <<kind, sent, clientDone, clientGone>>
      /\ UNCHANGED <<queued, consumed, channelOpen, consumer, broadcasts>>
  BY DEF clientVars, callVars, Server!clientVars, Server!queueVars
<1>2. Limit' = Limit /\ BroadcastsBounded'
  BY <1>1, QueueStays
<1>3. Types'
  BY <1>1 DEF Types, ClientTypes, ServerTypes, CallTypes
<1>4. RequestsOfConnected' /\ KindsMatch' /\ GoneIsKnown' /\ MarkerFirst' /\ OpenInLoop'
  BY <1>1 DEF RequestsOfConnected, KindsMatch, GoneIsKnown, MarkerFirst, OpenInLoop
<1>5. QuietBeginning' /\ EndedIsSent' /\ EndsAfterAll'
  BY <1>1 DEF QuietBeginning, EndedIsSent, EndsAfterAll, Server!NoGroups
<1>6. SentInOrder'
  BY <1>1, <1>2 DEF SentInOrder
<1> QED
  BY <1>2, <1>3, <1>4, <1>5, <1>6

\* RemoveAsync takes one membership away, if there is one.
LEMMA WithoutOne ==
  ASSUME members \in [Groups -> Nat], NEW g \in Groups
  PROVE  /\ Server!Without(members, g) \in [Groups -> Nat]
         /\ members = Server!NoGroups => Server!Without(members, g) = members
BY DEF Server!Without, Server!NoGroups

\* What threads do with groups keeps the invariant and leaves the queue, the call
\* and the loop alone.
LEMMA OtherGroupSteps ==
  ASSUME IInv,
         \/ \E g \in Groups : ServerOnly(Server!LeaveAddedGroup(g))
         \/ \E t \in Server!Threads, g \in Groups : ServerOnly(Server!JoinGroup(t, g) \/ Server!LeaveGroup(t, g))
         \/ \E t \in 0..MaxRequests : RecordGroup(t)
         \/ \E r \in 1..MaxRequests : FinishDetached(r)
  PROVE  /\ IInv'
         /\ UNCHANGED <<clientVars, callVars, pc, received, queued>>
<1> USE DEF Server!connectVars
<1>t. members \in [Groups -> Nat] /\ (received = 0 => members = Server!NoGroups)
      /\ (pc = "invoking" => received > 0)
  BY DEF IInv, Types, ServerTypes, QuietBeginning
<1>1. /\ UNCHANGED <<clientVars, wire, inbox, arrived, marked, passed, cut>>
      /\ UNCHANGED <<Server!clientVars, Server!queueVars>> /\ UNCHANGED <<pc, outcome, received>>
  BY DEF ServerOnly, Server!LeaveAddedGroup, Server!JoinGroup, Server!LeaveGroup, RecordGroup, FinishDetached,
     Server!RecordGroup, Server!FinishDetached
<1>2. members' \in [Groups -> Nat] /\ (received = 0 => members' = members)
  <2>1. ASSUME NEW g \in Groups, Server!LeaveAddedGroup(g) PROVE <1>2!1 /\ <1>2!2
    BY <1>t, <2>1, WithoutOne DEF Server!LeaveAddedGroup
  <2>2. ASSUME NEW t \in Server!Threads, NEW g \in Groups, Server!LeaveGroup(t, g) PROVE <1>2!1 /\ <1>2!2
    BY <1>t, <2>2, WithoutOne DEF Server!LeaveGroup
  <2>3. ASSUME NEW t \in Server!Threads, NEW g \in Groups, Server!JoinGroup(t, g) PROVE <1>2!1 /\ <1>2!2
    <3>1. pc = "invoking"
      BY <2>3 DEF Server!JoinGroup, Server!MayJoin
    <3>2. received # 0
      BY <3>1, <1>t
    <3> QED
      BY <1>t, <2>3, <3>2 DEF Server!JoinGroup
  <2>4. ASSUME (\E t \in 0..MaxRequests : RecordGroup(t)) \/ (\E r \in 1..MaxRequests : FinishDetached(r))
        PROVE  <1>2!1 /\ <1>2!2
    BY <1>t, <2>4 DEF RecordGroup, FinishDetached, ServerOnly, Server!RecordGroup, Server!FinishDetached,
       Server!groupVars
  <2> QED
    BY <2>1, <2>2, <2>3, <2>4 DEF ServerOnly
<1>3. IInv'
  BY <1>1, <1>2, GroupsIInv DEF callVars
<1> QED
  BY <1>1, <1>3 DEF Server!queueVars, callVars
-----------------------------------------------------------------------------
(* The queue and its consumer keep the invariant.                          *)

\* The broadcasts among the first of the queue can be counted.
LEMMA CountType ==
  ASSUME IInv
  PROVE  /\ Limit \in Nat /\ Limit <= Len(queued) /\ Len(queued) \in Nat
         /\ IsFiniteSet({i \in 1..Limit : queued[i].kind = "broadcast"})
         /\ Broadcasts \in Nat
<1>1. Limit \in Nat /\ Limit <= Len(queued) /\ Len(queued) \in Nat
  BY LenProperties DEF IInv, Types, ServerTypes, CallTypes, Limit
<1>2. IsFiniteSet(1..Limit)
  BY <1>1, FS_Interval
<1>3. IsFiniteSet({i \in 1..Limit : queued[i].kind = "broadcast"})
  BY <1>2, FS_Subset
<1> QED
  BY <1>1, <1>3, FS_CardinalityType DEF Broadcasts

\* An item is queued: the client may be sent one more as long as its side of
\* the call is open.
LEMMA QueueGrows ==
  ASSUME IInv, NEW item \in Items, queued' = Append(queued, item), UNCHANGED <<callState, cut>>
  PROVE  /\ queued' \in Seq(Items) /\ Len(queued') = Len(queued) + 1
         /\ \A i \in 1..Len(queued) : queued'[i] = queued[i]
         /\ queued'[Len(queued) + 1] = item
         /\ callState = "open" => Limit = Len(queued) /\ Limit' = Limit + 1
         /\ callState # "open" => Limit' = Limit
         /\ Broadcasts' = Broadcasts + (IF callState = "open" /\ item.kind = "broadcast" THEN 1 ELSE 0)
<1>q. queued \in Seq(Items)
  BY DEF IInv, Types, ServerTypes
<1>1. /\ queued' \in Seq(Items) /\ Len(queued') = Len(queued) + 1
      /\ \A i \in 1..Len(queued) : queued'[i] = queued[i]
      /\ queued'[Len(queued) + 1] = item
  BY <1>q
<1>2. /\ callState = "open" => Limit = Len(queued) /\ Limit' = Limit + 1
      /\ callState # "open" => Limit' = Limit
  BY <1>1 DEF Limit
<1> DEFINE old == {i \in 1..Limit : queued[i].kind = "broadcast"}
           new == {i \in 1..Limit' : queued'[i].kind = "broadcast"}
<1>3. /\ IsFiniteSet(old) /\ Broadcasts = Cardinality(old) /\ Broadcasts' = Cardinality(new)
      /\ Limit \in Nat /\ Limit <= Len(queued) /\ Len(queued) \in Nat /\ Broadcasts \in Nat
  BY CountType DEF Broadcasts
<1>4. CASE callState = "open" /\ item.kind = "broadcast"
  <2>1. new = old \cup {Limit + 1} /\ Limit + 1 \notin old
    BY <1>1, <1>2, <1>3, <1>4
  <2> HIDE DEF old, new
  <2>2. Cardinality(new) = Cardinality(old) + 1
    BY <1>3, <2>1, FS_AddElement
  <2> QED
    BY <1>1, <1>2, <1>3, <1>4, <2>2
<1>5. CASE ~(callState = "open" /\ item.kind = "broadcast")
  <2>1. new = old
    BY <1>1, <1>2, <1>3, <1>5
  <2> HIDE DEF old, new
  <2> QED
    BY <1>1, <1>2, <1>3, <1>5, <2>1
<1> QED
  BY <1>4, <1>5

\* An item of a request that was read, or a broadcast, is queued.
LEMMA EnqueueIInv ==
  ASSUME IInv, NEW item \in Items, Server!Enqueue(item), received > 0,
         item.kind # "broadcast" => item.request \in 1..received,
         UNCHANGED <<clientVars, wire, inbox, arrived, marked, passed, cut>>,
         UNCHANGED <<Server!clientVars, consumed, members, outcome, received>>,
         channelOpen' <=> channelOpen,
         pc' = pc \/ (pc = "invoking" /\ pc' = "reading"),
         broadcasts' = broadcasts + (IF item.kind = "broadcast" THEN 1 ELSE 0)
  PROVE  IInv'
<1> USE DEF IInv
<1>1. /\ UNCHANGED <<connection, issued, callerPc, cur, callState, halfClosed>>
      /\ UNCHANGED <<kind, sent, clientDone, clientGone>>
  BY DEF clientVars, Server!clientVars
<1>2. consumer' = consumer \/ (consumer = "none" /\ consumer' = "idle")
  BY DEF Server!Enqueue, Server!Created
<1>3. /\ queued' \in Seq(Items)
      /\ Len(queued') \in Nat /\ Len(queued) <= Len(queued') /\ Len(queued) \in Nat
      /\ \A i \in 1..Len(queued') : queued'[i].kind # "broadcast" => queued'[i].request \in 1..received
      /\ Limit \in Nat /\ Limit' \in Nat /\ Limit <= Limit'
      /\ Broadcasts' <= broadcasts'
  <2>t. /\ Limit \in Nat /\ Limit <= Len(queued) /\ Len(queued) \in Nat /\ Broadcasts \in Nat
        /\ broadcasts \in Nat /\ Broadcasts <= broadcasts
        /\ \A i \in 1..Len(queued) : queued[i].kind # "broadcast" => queued[i].request \in 1..received
        /\ queued \in Seq(Items)
    BY CountType DEF Types, ServerTypes, BroadcastsBounded
  <2>1. ASSUME channelOpen PROVE <1>3
    <3>1. queued' = Append(queued, item)
      BY <2>1 DEF Server!Enqueue
    <3>2. /\ queued' \in Seq(Items) /\ Len(queued') = Len(queued) + 1
          /\ \A i \in 1..Len(queued) : queued'[i] = queued[i]
          /\ queued'[Len(queued) + 1] = item
          /\ Limit' = Limit + 1 \/ Limit' = Limit
          /\ Broadcasts' = Broadcasts + (IF callState = "open" /\ item.kind = "broadcast" THEN 1 ELSE 0)
      BY <1>1, <3>1, QueueGrows
    <3>3. ASSUME NEW i \in 1..Len(queued'), queued'[i].kind # "broadcast"
          PROVE  queued'[i].request \in 1..received
      <4>1. CASE i \in 1..Len(queued)
        BY <2>t, <3>2, <3>3, <4>1
      <4>2. CASE i = Len(queued) + 1
        BY <3>2, <3>3, <4>2
      <4> QED
        BY <2>t, <3>2, <4>1, <4>2
    <3> QED
      BY <2>t, <3>2, <3>3
  <2>2. ASSUME ~channelOpen PROVE <1>3
    <3>1. queued' = queued
      BY <2>2 DEF Server!Enqueue
    <3>2. Limit' = Limit /\ Broadcasts' = Broadcasts
      BY <1>1, <3>1 DEF Limit, Broadcasts
    <3> QED
      BY <2>t, <3>1, <3>2
  <2> QED
    BY <2>1, <2>2
<1>4. Types'
  <2>1. ClientTypes'
    BY <1>1 DEF Types, ClientTypes
  <2>2. ServerTypes'
    BY <1>1, <1>3 DEF Types, ServerTypes
  <2>3. CallTypes'
    BY <1>1, <1>3 DEF Types, CallTypes
  <2> QED
    BY <2>1, <2>2, <2>3 DEF Types
<1>5. RequestsOfConnected' /\ KindsMatch' /\ GoneIsKnown' /\ EndsAfterAll'
  BY <1>1 DEF RequestsOfConnected, KindsMatch, GoneIsKnown, EndsAfterAll
<1>6. QuietBeginning'
  BY DEF QuietBeginning
<1>7. MarkerFirst' /\ OpenInLoop' /\ EndedIsSent'
  BY <1>1 DEF MarkerFirst, OpenInLoop, EndedIsSent
<1>8. SentInOrder'
  <2>1. passed \in Nat
    BY DEF Types, CallTypes
  <2> QED
    BY <1>1, <1>2, <1>3, <2>1 DEF SentInOrder
<1> QED
  BY <1>3, <1>4, <1>5, <1>6, <1>7, <1>8 DEF BroadcastsBounded

\* The answer of a call is queued.
LEMMA AnswerIInv ==
  ASSUME IInv, NEW k \in {"response", "error"}, ServerOnly(Server!AnswerCall(k))
  PROVE  IInv'
<1>1. /\ pc = "invoking" /\ pc' = "reading"
      /\ UNCHANGED <<Server!clientVars, consumed, members, outcome, received>>
      /\ channelOpen' <=> channelOpen
      /\ UNCHANGED broadcasts
  BY DEF ServerOnly, Server!AnswerCall, Server!groupVars
<1>2. Server!Enqueue(Server!Answer(k, received))
  BY DEF ServerOnly, Server!AnswerCall
<1>3. UNCHANGED <<clientVars, wire, inbox, arrived, marked, passed, cut>>
  BY DEF ServerOnly
<1>t. received > 0 /\ received \in 1..MaxRequests /\ broadcasts \in Nat
  BY <1>1, IdType DEF IInv, Types, ServerTypes
<1> DEFINE item == Server!Answer(k, received)
<1>4. item \in Items /\ item.kind # "broadcast" /\ item.request \in 1..received
  BY <1>t DEF Server!Answer, Items, Server!Items
<1>5. broadcasts' = broadcasts + (IF item.kind = "broadcast" THEN 1 ELSE 0)
  BY <1>1, <1>t, <1>4
<1> HIDE DEF item
<1>6. Server!Enqueue(item)
  BY <1>2 DEF item
<1> QED
  BY <1>1, <1>t, <1>3, <1>4, <1>5, <1>6, EnqueueIInv

\* A broadcast reaches a connection that has made a request.
LEMMA BroadcastFacts ==
  ASSUME IInv, NEW g \in Groups, ServerOnly(Server!Broadcast(g))
  PROVE  /\ received > 0 /\ connection = "connected"
         /\ Server!BroadcastItem \in Items /\ Server!BroadcastItem.kind = "broadcast"
<1>1. received > 0
  <2>1. members[g] > 0
    BY DEF ServerOnly, Server!Broadcast
  <2>2. received # 0
    BY <2>1 DEF IInv, QuietBeginning, Server!NoGroups
  <2> QED
    BY <2>2, IdType DEF IInv, Types, ServerTypes
<1>2. connection = "connected"
  BY <1>1, IdType DEF IInv, RequestsOfConnected, Types, ServerTypes
<1>3. Server!BroadcastItem \in Items /\ Server!BroadcastItem.kind = "broadcast"
  BY IdType DEF Server!BroadcastItem, Items, Server!Items
<1> QED
  BY <1>1, <1>2, <1>3

\* A broadcast is queued.
LEMMA BroadcastIInv ==
  ASSUME IInv, NEW g \in Groups, ServerOnly(Server!Broadcast(g))
  PROVE  IInv'
<1>1. /\ UNCHANGED <<Server!clientVars, consumed, members, outcome, received, pc>>
      /\ channelOpen' <=> channelOpen
      /\ broadcasts' = broadcasts + 1
  BY DEF ServerOnly, Server!Broadcast, Server!groupVars, Server!connectVars
<1>2. Server!Enqueue(Server!BroadcastItem)
  BY DEF ServerOnly, Server!Broadcast
<1>3. UNCHANGED <<clientVars, wire, inbox, arrived, marked, passed, cut>>
  BY DEF ServerOnly
<1> DEFINE item == Server!BroadcastItem
<1>4. item \in Items /\ item.kind = "broadcast" /\ received > 0
  BY BroadcastFacts
<1>5. broadcasts' = broadcasts + (IF item.kind = "broadcast" THEN 1 ELSE 0)
  BY <1>1, <1>4
<1> HIDE DEF item
<1>6. Server!Enqueue(item)
  BY <1>2 DEF item
<1> QED
  BY <1>1, <1>3, <1>4, <1>5, <1>6, EnqueueIInv

\* The consumer takes items and sends them.
LEMMA ConsumerIInv == ASSUME IInv, ConsumerStep PROVE IInv'
<1> USE DEF IInv
<1>1. /\ UNCHANGED <<clientVars, wire, arrived, marked, cut>>
      /\ UNCHANGED <<Server!connectVars, Server!clientVars, queued, broadcasts, Server!groupVars>>
      /\ channelOpen' <=> channelOpen
  BY DEF ConsumerStep, ItemStep, ServerOnly, Server!ConsumerStep, Server!TakeItem, Server!ItemWritten,
     Server!QueueDrained, Server!Woken
<1>2. /\ UNCHANGED <<connection, issued, callerPc, cur, callState, halfClosed>>
      /\ UNCHANGED <<kind, sent, clientDone, clientGone, pc, outcome, received, members>>
  BY <1>1 DEF clientVars, Server!connectVars, Server!clientVars, Server!groupVars
<1>3. Limit' = Limit /\ Broadcasts' = Broadcasts
  BY <1>1, <1>2 DEF Limit, Broadcasts
<1>t. /\ passed \in Nat /\ consumed \in Nat /\ consumed <= Len(queued) /\ Len(queued) \in Nat
      /\ Limit \in Nat /\ (callState = "open" => Limit = Len(queued))
      /\ passed <= Limit
  BY CountType DEF Types, CallTypes, ServerTypes, Limit, SentInOrder
<1>4. /\ consumed' \in 0..Len(queued) /\ passed' \in Nat
      /\ inbox' \in Seq(Messages)
      /\ SentInOrder'
      /\ callState # "open" => passed' = passed
  <2>1. CASE ItemStep
    <3>1. consumer = "sending" /\ consumer' = "idle" /\ consumed' = consumed /\ consumed > 0
      BY <2>1 DEF ItemStep, Server!ItemWritten, SentInOrder
    <3>2. IF callState = "open"
            THEN inbox' = Append(inbox, AsMessage(queued[consumed])) /\ passed' = consumed
            ELSE UNCHANGED <<inbox, passed>>
      BY <2>1 DEF ItemStep
    <3>3. AsMessage(queued[consumed]) \in Messages
      <4>1. /\ queued[consumed] \in Items
            /\ queued[consumed].kind # "broadcast" => queued[consumed].request \in 1..Len(arrived)
        BY <3>1, <1>t DEF Types, ServerTypes, CallTypes
      <4>2. ASSUME queued[consumed].kind # "broadcast" PROVE arrived[queued[consumed].request] \in Requests
        BY <4>1, <4>2 DEF Types, CallTypes
      <4> QED
        BY <4>1, <4>2, IdType DEF AsMessage, Messages, Client!Messages, Requests, Client!Requests, Items, Server!Items
    <3>4. inbox' \in Seq(Messages)
      <4>1. Append(inbox, AsMessage(queued[consumed])) \in Seq(Messages)
        <5> HIDE DEF IInv
        <5> QED
          BY <3>3, AppendType DEF IInv, Types, CallTypes
      <4> QED
        BY <3>2, <4>1 DEF Types, CallTypes
    <3>5. SentInOrder'
      BY <1>2, <1>3, <1>t, <3>1, <3>2 DEF SentInOrder
    <3> QED
      BY <1>t, <3>1, <3>2, <3>4, <3>5
  <2>2. CASE ServerOnly(Server!TakeItem)
    <3>1. /\ consumer = "idle" /\ consumed < Len(queued) /\ consumed' = consumed + 1
          /\ consumer' = "stopped" \/ consumer' = "sending"
          /\ UNCHANGED <<inbox, passed>>
      BY <2>2 DEF ServerOnly, Server!TakeItem
    <3>2. SentInOrder'
      BY <1>2, <1>3, <1>t, <3>1 DEF SentInOrder
    <3> QED
      BY <1>t, <3>1, <3>2 DEF Types, CallTypes
  <2>3. CASE ServerOnly(Server!QueueDrained \/ Server!Woken)
    <3>1. /\ consumer \in {"idle", "waiting"} /\ consumed' = consumed
          /\ consumer' \in {"stopped", "waiting", "idle"}
          /\ UNCHANGED <<inbox, passed>>
      BY <2>3 DEF ServerOnly, Server!QueueDrained, Server!Woken
    <3>2. SentInOrder'
      BY <1>2, <1>3, <1>t, <3>1 DEF SentInOrder
    <3> QED
      BY <1>t, <3>1, <3>2 DEF Types, CallTypes
  <2> QED
    BY <2>1, <2>2, <2>3 DEF ConsumerStep, ServerOnly, Server!ConsumerStep, Server!ItemWritten
<1>5. Types'
  <2>1. ClientTypes'
    BY <1>2 DEF Types, ClientTypes
  <2>2. ServerTypes'
    BY <1>1, <1>2, <1>4 DEF Types, ServerTypes
  <2>3. CallTypes'
    BY <1>1, <1>2, <1>4 DEF Types, CallTypes
  <2> QED
    BY <2>1, <2>2, <2>3 DEF Types
<1>6. RequestsOfConnected' /\ KindsMatch' /\ GoneIsKnown' /\ EndsAfterAll'
  BY <1>1, <1>2 DEF RequestsOfConnected, KindsMatch, GoneIsKnown, EndsAfterAll
<1>7. QuietBeginning' /\ MarkerFirst' /\ OpenInLoop'
  BY <1>1, <1>2 DEF QuietBeginning, MarkerFirst, OpenInLoop, Server!NoGroups
<1>8. EndedIsSent'
  BY <1>1, <1>2, <1>4 DEF EndedIsSent
<1>9. BroadcastsBounded'
  BY <1>1, <1>3 DEF BroadcastsBounded
<1> QED
  BY <1>4, <1>5, <1>6, <1>7, <1>8, <1>9
-----------------------------------------------------------------------------
(* The marker and the call keep the invariant.                             *)

\* The marker is sent, or its write fails.
LEMMA MarkerIInv == ASSUME IInv, MarkerStep PROVE IInv'
<1> USE DEF IInv
<1>1. /\ UNCHANGED <<clientVars, wire, arrived, passed, cut>>
      /\ pc = "writingMarker"
      /\ \/ pc' = "reading" /\ outcome' = outcome
         \/ pc' = "completing" /\ (outcome' = "failed" \/ clientGone)
      /\ UNCHANGED <<Server!clientVars, Server!queueVars, Server!groupVars, received>>
  BY DEF MarkerStep, Server!MarkerWritten, Server!Throw
<1>2. /\ UNCHANGED <<connection, issued, callerPc, cur, callState, halfClosed>>
      /\ UNCHANGED <<kind, sent, clientDone, clientGone>>
      /\ UNCHANGED <<queued, consumed, channelOpen, consumer, broadcasts, members>>
  BY <1>1 DEF clientVars, Server!clientVars, Server!queueVars, Server!groupVars
<1>3. Limit' = Limit /\ BroadcastsBounded'
  BY <1>1, <1>2, QueueStays
<1>4. /\ marked' \in BOOLEAN
      /\ marked' <=> (callState = "open" /\ pc' = "reading")
      /\ inbox' = IF marked' THEN Append(inbox, Marker) ELSE inbox
  BY DEF MarkerStep
<1>5. inbox' \in Seq(Messages)
  <2>1. Marker \in Messages
    BY IdType DEF Marker, Messages, Client!Messages, OneWayId
  <2>2. inbox \in Seq(Messages)
    BY DEF Types, CallTypes
  <2>3. Append(inbox, Marker) \in Seq(Messages)
    BY <2>1, <2>2, AppendType
  <2> QED
    BY <1>4, <2>2, <2>3
<1>6. Types'
  <2>1. ClientTypes'
    BY <1>2 DEF Types, ClientTypes
  <2>2. ServerTypes'
    BY <1>1, <1>2 DEF Types, ServerTypes
  <2>3. CallTypes'
    BY <1>1, <1>2, <1>4, <1>5 DEF Types, CallTypes
  <2> QED
    BY <2>1, <2>2, <2>3 DEF Types
<1>7. RequestsOfConnected' /\ KindsMatch' /\ GoneIsKnown' /\ OpenInLoop' /\ QuietBeginning'
  BY <1>1, <1>2 DEF RequestsOfConnected, KindsMatch, GoneIsKnown, OpenInLoop, QuietBeginning, Server!NoGroups
<1>8. MarkerFirst'
  BY <1>1, <1>2, <1>4 DEF MarkerFirst
<1>9. EndsAfterAll'
  BY <1>1, <1>2, <1>4 DEF EndsAfterAll
<1>10. EndedIsSent'
  BY <1>1, <1>2 DEF EndedIsSent
<1>11. SentInOrder'
  BY <1>1, <1>2, <1>3 DEF SentInOrder
<1> QED
  BY <1>3, <1>6, <1>7, <1>8, <1>9, <1>10, <1>11

\* A request reaches the server as what the client made it.
LEMMA ArriveIInv == ASSUME IInv, RequestArrives PROVE IInv'
<1> USE DEF IInv
<1>1. /\ wire # <<>> /\ sent < MaxRequests /\ sent' = sent + 1
      /\ kind' = [kind EXCEPT ![sent + 1] = IF Head(wire).id = OneWayId THEN "oneway" ELSE "call"]
      /\ arrived' = Append(arrived, Head(wire)) /\ wire' = Tail(wire)
      /\ UNCHANGED <<clientVars, inbox, marked, passed, cut>>
      /\ UNCHANGED <<clientDone, clientGone, Server!connectVars, Server!queueVars, Server!groupVars>>
  BY DEF RequestArrives, Server!ClientSends
<1>2. /\ UNCHANGED <<connection, issued, callerPc, cur, callState, halfClosed>>
      /\ UNCHANGED <<queued, consumed, channelOpen, consumer, broadcasts, members>>
      /\ UNCHANGED <<pc, outcome, received>>
  BY <1>1 DEF clientVars, Server!connectVars, Server!queueVars, Server!groupVars
<1>3. Limit' = Limit /\ BroadcastsBounded'
  BY <1>1, <1>2, QueueStays
<1>t. /\ sent \in Nat /\ received \in Nat /\ received <= sent /\ MaxRequests \in Nat
      /\ arrived \in Seq(Requests) /\ Len(arrived) = sent /\ wire \in Seq(Requests)
      /\ kind \in [1..MaxRequests -> Server!Kinds]
  BY IdType DEF Types, ServerTypes, CallTypes
<1>4. Head(wire) \in Requests /\ Tail(wire) \in Seq(Requests)
  BY <1>1, <1>t, TailType
<1>5. /\ arrived' \in Seq(Requests) /\ Len(arrived') = sent + 1 /\ arrived'[sent + 1] = Head(wire)
      /\ \A r \in 1..sent : arrived'[r] = arrived[r]
  BY <1>1, <1>t, <1>4
<1>6. /\ kind' \in [1..MaxRequests -> Server!Kinds]
      /\ \A r \in 1..MaxRequests : kind'[r] =
           IF r = sent + 1 THEN (IF Head(wire).id = OneWayId THEN "oneway" ELSE "call") ELSE kind[r]
  BY <1>1, <1>t DEF Server!Kinds
<1>7. Types'
  <2>1. ClientTypes'
    BY <1>2 DEF Types, ClientTypes
  <2>2. ServerTypes'
    BY <1>1, <1>2, <1>t, <1>6 DEF Types, ServerTypes
  <2>3. CallTypes'
    BY <1>1, <1>2, <1>4, <1>5 DEF Types, CallTypes
  <2> QED
    BY <2>1, <2>2, <2>3 DEF Types
<1>8. RequestsOfConnected'
  BY <1>1, <1>2 DEF RequestsOfConnected
<1>9. KindsMatch'
  <2> SUFFICES ASSUME NEW r \in 1..(sent + 1)
               PROVE  kind'[r] = IF arrived'[r].id = OneWayId THEN "oneway" ELSE "call"
    BY <1>1 DEF KindsMatch
  <2>1. CASE r = sent + 1
    BY <1>1, <1>t, <1>5, <1>6, <2>1
  <2>2. CASE r \in 1..sent
    BY <1>1, <1>t, <1>5, <1>6, <2>2 DEF KindsMatch
  <2> QED
    BY <1>t, <2>1, <2>2
<1>10. ~clientDone
  BY <1>1 DEF RequestsOfConnected
<1>11. EndsAfterAll'
  BY <1>1, <1>2, <1>10 DEF EndsAfterAll
<1>12. GoneIsKnown' /\ OpenInLoop' /\ QuietBeginning' /\ MarkerFirst' /\ EndedIsSent'
  BY <1>1, <1>2 DEF GoneIsKnown, OpenInLoop, QuietBeginning, MarkerFirst, EndedIsSent, Server!NoGroups
<1>13. SentInOrder'
  BY <1>1, <1>2, <1>3 DEF SentInOrder
<1> QED
  BY <1>3, <1>7, <1>8, <1>9, <1>11, <1>12, <1>13

\* The server learns of the end of the requests, or of the client.
LEMMA EndOfClientIInv ==
  ASSUME IInv, RequestsEnd \/ AbortArrives
  PROVE  /\ IInv'
         /\ UNCHANGED <<clientVars, callVars, pc, received, queued>>
<1> USE DEF IInv
<1>1. /\ UNCHANGED <<clientVars, wire, inbox, arrived, marked, passed, cut>>
      /\ UNCHANGED <<kind, sent, Server!connectVars, Server!queueVars, Server!groupVars>>
  BY DEF RequestsEnd, AbortArrives, ServerOnly, Server!ClientCompletes, Server!ClientDisconnects
<1>2. /\ UNCHANGED <<connection, issued, callerPc, cur, callState, halfClosed>>
      /\ UNCHANGED <<queued, consumed, channelOpen, consumer, broadcasts, members>>
      /\ UNCHANGED <<pc, outcome, received>>
  BY <1>1 DEF clientVars, Server!connectVars, Server!queueVars, Server!groupVars
<1>3. \/ clientDone' = TRUE /\ (clientGone' <=> clientGone) /\ halfClosed /\ wire = <<>>
      \/ clientGone' = TRUE /\ (clientDone' <=> clientDone) /\ (callState = "aborted" \/ connection = "failed")
  BY DEF RequestsEnd, AbortArrives, ServerOnly, Server!ClientCompletes, Server!ClientDisconnects
<1>4. Limit' = Limit /\ BroadcastsBounded'
  BY <1>1, <1>2, QueueStays
<1>5. Types'
  BY <1>1, <1>2 DEF Types, ClientTypes, ServerTypes, CallTypes
<1>6. RequestsOfConnected' /\ GoneIsKnown' /\ EndsAfterAll'
  BY <1>1, <1>2, <1>3 DEF RequestsOfConnected, GoneIsKnown, EndsAfterAll
<1>7. KindsMatch' /\ OpenInLoop' /\ QuietBeginning' /\ MarkerFirst' /\ EndedIsSent'
  BY <1>1, <1>2 DEF KindsMatch, OpenInLoop, QuietBeginning, MarkerFirst, EndedIsSent, Server!NoGroups
<1>8. SentInOrder'
  BY <1>1, <1>2, <1>4 DEF SentInOrder
<1>9. IInv'
  BY <1>4, <1>5, <1>6, <1>7, <1>8
<1> QED
  BY <1>1, <1>2, <1>9 DEF callVars

\* A server that completes the call after the client has sent everything and
\* has the marker.
LEMMA StatusFacts ==
  ASSUME IInv, StatusArrives, callState' = "ended"
  PROVE  /\ halfClosed /\ wire = <<>> /\ received = sent /\ marked /\ pc = "returned"
<1>1. /\ pc = "returned" /\ connection = "connected" /\ callState = "open"
      /\ outcome = "ok" /\ halfClosed
  BY DEF StatusArrives
<1>2. ~clientGone
  BY <1>1 DEF IInv, GoneIsKnown
<1> QED
  BY <1>1, <1>2 DEF IInv, EndsAfterAll, RequestsOfConnected

\* The status of the call reaches the client.
LEMMA StatusIInv == ASSUME IInv, StatusArrives PROVE IInv'
<1> USE DEF IInv
<1>1. /\ pc = "returned" /\ callState = "open"
      /\ callState' = "ended" \/ callState' = "aborted"
      /\ cut' = Len(queued)
      /\ passed' = IF callState' = "ended" THEN Len(queued) ELSE passed
      /\ UNCHANGED <<connection, issued, callerPc, cur>> /\ (halfClosed' <=> halfClosed)
      /\ UNCHANGED <<serverVars, wire, inbox, arrived>>
      /\ marked' <=> marked
  BY DEF StatusArrives
<1>2. /\ UNCHANGED <<pc, outcome, kind, sent, received, queued, consumed, consumer, broadcasts, members>>
      /\ (clientDone' <=> clientDone) /\ (clientGone' <=> clientGone) /\ (channelOpen' <=> channelOpen)
  BY <1>1 DEF serverVars
<1>t. Len(queued) \in Nat /\ Limit = Len(queued) /\ passed \in Nat /\ passed <= Limit
  BY <1>1, CountType DEF Limit, Types, CallTypes, SentInOrder
<1>3. Limit' = Len(queued)
  BY <1>1, <1>2 DEF Limit
<1>4. BroadcastsBounded'
  BY <1>2, <1>t, <1>3 DEF BroadcastsBounded, Broadcasts
<1>5. Types'
  <2>1. halfClosed' \in BOOLEAN /\ marked' \in BOOLEAN
    BY DEF StatusArrives, Types, ClientTypes, CallTypes
  <2>2. ClientTypes'
    BY <1>1, <2>1 DEF Types, ClientTypes
  <2>3. ServerTypes'
    BY <1>1, <1>2 DEF Types, ServerTypes
  <2>4. CallTypes'
    BY <1>1, <1>2, <1>t, <2>1 DEF Types, CallTypes
  <2> QED
    BY <2>2, <2>3, <2>4 DEF Types
<1>6. RequestsOfConnected' /\ KindsMatch' /\ QuietBeginning' /\ OpenInLoop'
  BY <1>1, <1>2 DEF RequestsOfConnected, KindsMatch, QuietBeginning, OpenInLoop, Server!NoGroups
<1>7. MarkerFirst' /\ EndsAfterAll'
  BY <1>1, <1>2 DEF MarkerFirst, EndsAfterAll
<1>8. GoneIsKnown'
  <2>1. clientGone => connection = "failed"
    BY <1>1 DEF GoneIsKnown
  <2> QED
    BY <1>1, <1>2, <2>1 DEF GoneIsKnown
<1>9. EndedIsSent'
  BY <1>1, <1>2, StatusFacts DEF EndedIsSent
<1>10. SentInOrder'
  BY <1>1, <1>2, <1>t, <1>3 DEF SentInOrder
<1> QED
  BY <1>4, <1>5, <1>6, <1>7, <1>8, <1>9, <1>10
-----------------------------------------------------------------------------
\* Every step of the server and the call is one of these.
ServerSteps ==
  \/ ServerOnly(LoopStep)
  \/ \E k \in {"response", "error"} : ServerOnly(Server!AnswerCall(k))
  \/ \E g \in Groups : ServerOnly(Server!Broadcast(g))
  \/ \E g \in Groups : ServerOnly(Server!LeaveAddedGroup(g))
  \/ \E t \in Server!Threads, g \in Groups : ServerOnly(Server!JoinGroup(t, g) \/ Server!LeaveGroup(t, g))
  \/ \E t \in 0..MaxRequests : RecordGroup(t)
  \/ \E r \in 1..MaxRequests : FinishDetached(r)
  \/ MarkerStep \/ ConsumerStep
  \/ RequestArrives \/ RequestsEnd \/ AbortArrives \/ StatusArrives

\* A step is one of the client, or of the server and the call.
LEMMA NextCases == Next => ClientStep \/ ServerSteps
<1>1. ASSUME ConnectStep PROVE ServerSteps
  BY <1>1 DEF ConnectStep, Server!ConnectStep, ServerSteps, ServerOnly, LoopStep, Server!MarkerWritten
<1>2. ASSUME GroupStep PROVE ServerSteps
  BY <1>2 DEF GroupStep, Server!GroupStep, ServerSteps, ServerOnly
<1> QED
  BY <1>1, <1>2 DEF Next, ClientStep, ServerSteps, NetworkStep

\* Every step keeps the invariant.
LEMMA NextIInv == IInv /\ [Next]_vars => IInv'
<1>1. ASSUME IInv, ClientStep PROVE IInv'
  BY <1>1, ClientStepMoves, ClientIInv
<1>2. ASSUME IInv, ServerSteps PROVE IInv'
  BY <1>2, LoopStepMoves, LoopIInv, AnswerIInv, BroadcastIInv, OtherGroupSteps, MarkerIInv,
     ConsumerIInv, ArriveIInv, EndOfClientIInv, StatusIInv DEF ServerSteps
<1>3. ASSUME IInv, UNCHANGED vars PROVE IInv'
  <2>1. UNCHANGED <<clientVars, callVars, Server!clientVars, Server!queueVars>>
    BY <1>3 DEF vars, callVars, serverVars, Server!clientVars, Server!queueVars
  <2>2. UNCHANGED <<pc, outcome, received, members>>
    BY <1>3 DEF vars, serverVars
  <2>3. members \in [Groups -> Nat]
    BY <1>3 DEF IInv, Types, ServerTypes
  <2> QED
    BY <1>3, <2>1, <2>2, <2>3, GroupsIInv
<1> QED
  BY <1>1, <1>2, <1>3, NextCases

\* The invariant holds in every state of the connection.
LEMMA Invariance == Safety => []IInv
BY InitIInv, NextIInv, PTL DEF Safety
-----------------------------------------------------------------------------
(* What the client sees of the server and the call.                        *)

\* The messages behind those under way.
After == (IF marked THEN <<>> ELSE <<Marker>>) \o Unsent

\* What the client sees is of the types HubClient gives it, and the messages are
\* those under way before those behind them.
LEMMA ViewTypes ==
  ASSUME IInv
  PROVE  /\ Handled \in 0..sent /\ Handled \in 0..Len(arrived)
         /\ SubSeq(arrived, Handled + 1, Len(arrived)) \in Seq(Requests)
         /\ PendingRequests \in Seq(Requests)
         /\ \A i \in 1..Len(queued) : AsMessage(queued[i]) \in Messages
         /\ Unsent \in Seq(Messages) /\ Len(Unsent) = Limit - passed
         /\ After \in Seq(Messages)
         /\ PendingMessages = inbox \o After
         /\ PendingMessages \in Seq(Messages)
<1>t. /\ received \in 0..sent /\ sent \in Nat /\ arrived \in Seq(Requests) /\ Len(arrived) = sent
      /\ pc = "invoking" => received > 0
      /\ wire \in Seq(Requests) /\ inbox \in Seq(Messages)
      /\ queued \in Seq(Items) /\ passed \in Nat /\ Limit \in Nat /\ passed <= Limit
      /\ Limit <= Len(queued) /\ Len(queued) \in Nat
  BY IdType, CountType DEF IInv, Types, ServerTypes, CallTypes, SentInOrder
<1>1. Handled \in 0..sent /\ Handled \in 0..Len(arrived)
  BY <1>t DEF Handled
<1>2. SubSeq(arrived, Handled + 1, Len(arrived)) \in Seq(Requests)
  BY <1>t, <1>1, SubSeqProperties
<1>3. PendingRequests \in Seq(Requests)
  BY <1>t, <1>2, ConcatProperties DEF PendingRequests
<1>4. ASSUME NEW i \in 1..Len(queued) PROVE AsMessage(queued[i]) \in Messages
  <2>1. queued[i] \in Items /\ (queued[i].kind # "broadcast" => queued[i].request \in 1..received)
    BY <1>t DEF IInv, Types, ServerTypes
  <2>2. ASSUME queued[i].kind # "broadcast" PROVE arrived[queued[i].request] \in Requests
    BY <1>t, <2>1, <2>2
  <2> QED
    BY <2>1, <2>2, IdType DEF AsMessage, Messages, Client!Messages, Requests, Client!Requests, Items, Server!Items
<1>5. Unsent \in Seq(Messages) /\ Len(Unsent) = Limit - passed
  <2>1. \A i \in 1..(Limit - passed) : AsMessage(queued[passed + i]) \in Messages
    BY <1>t, <1>4
  <2>2. Limit - passed \in Nat
    BY <1>t
  <2> QED
    BY <2>1, <2>2 DEF Unsent
<1>6. (IF marked THEN <<>> ELSE <<Marker>>) \in Seq(Messages)
  <2>1. Marker \in Messages
    BY IdType DEF Marker, Messages, Client!Messages, OneWayId
  <2>2. <<Marker>> \in Seq(Messages) /\ <<>> \in Seq(Messages)
    BY <2>1, EmptySeq
  <2> QED
    BY <2>2
<1>7. After \in Seq(Messages)
  BY <1>5, <1>6, ConcatProperties DEF After
<1>8. PendingMessages = inbox \o After
  <2> DEFINE mark == IF marked THEN <<>> ELSE <<Marker>>
  <2>1. PendingMessages = (inbox \o mark) \o Unsent /\ After = mark \o Unsent
    BY DEF PendingMessages, After
  <2>2. mark \in Seq(Messages)
    BY <1>6
  <2> HIDE DEF mark
  <2> QED
    <3>1. inbox \in Seq(Messages) /\ Unsent \in Seq(Messages)
      BY <1>t, <1>5
    <3>2. (inbox \o mark) \o Unsent = inbox \o (mark \o Unsent)
      BY <2>2, <3>1, ConcatAssociative
    <3> QED
      BY <2>1, <3>2
<1>9. PendingMessages \in Seq(Messages)
  BY <1>t, <1>7, <1>8, ConcatProperties
<1> QED
  BY <1>1, <1>2, <1>3, <1>4, <1>5, <1>7, <1>8, <1>9

\* The same, of the next state.
ViewShape ==
  /\ PendingMessages = inbox \o After
  /\ Unsent \in Seq(Messages) /\ Len(Unsent) = Limit - passed

\* Of the state after a step that keeps the invariant as well.
LEMMA ViewShapeNext == IInv' => ViewShape'
<1>1. IInv => ViewShape
  BY ViewTypes DEF ViewShape
<1> QED
  BY <1>1, PTL

\* What a step of the client does is what it sees of it.
LEMMA ClientSees ==
  ASSUME IInv, IInv', ClientMoves
  PROVE  /\ Executions' = Executions
         /\ Broadcasts' = Broadcasts
         /\ wire' = wire => PendingRequests' = PendingRequests
         /\ \A r \in Requests : wire' = Append(wire, r) => PendingRequests' = Append(PendingRequests, r)
         /\ inbox' = inbox => PendingMessages' = PendingMessages
         /\ inbox # <<>> => /\ PendingMessages # <<>>
                            /\ Head(PendingMessages) = Head(inbox)
                            /\ inbox' = Tail(inbox) => PendingMessages' = Tail(PendingMessages)
<1>1. Limit' = Limit
  BY ClientLimit
<1>2. UNCHANGED <<pc, received, arrived, queued, marked, passed>>
  BY DEF ClientMoves, serverVars
<1>3. Handled' = Handled /\ Unsent' = Unsent
  BY <1>1, <1>2 DEF Handled, Unsent, AsMessage
<1>4. Executions' = Executions /\ Broadcasts' = Broadcasts
  BY <1>1, <1>2, <1>3 DEF Executions, Broadcasts
<1>5. After' = After
  BY <1>2, <1>3 DEF After
<1>6. /\ PendingMessages = inbox \o After /\ PendingMessages' = inbox' \o After
      /\ After \in Seq(Messages) /\ inbox \in Seq(Messages)
  <2>1. (PendingMessages = inbox \o After)'
    BY ViewShapeNext DEF ViewShape
  <2> QED
    BY <1>5, <2>1, ViewTypes DEF IInv, Types, CallTypes
<1>7. inbox # <<>> => /\ PendingMessages # <<>>
                      /\ Head(PendingMessages) = Head(inbox)
                      /\ inbox' = Tail(inbox) => PendingMessages' = Tail(PendingMessages)
  BY <1>6, HeadOfFirst
<1>8. wire' = wire => PendingRequests' = PendingRequests
  BY <1>2, <1>3 DEF PendingRequests
<1>9. ASSUME NEW r \in Requests, wire' = Append(wire, r)
      PROVE  PendingRequests' = Append(PendingRequests, r)
  <2>1. SubSeq(arrived, Handled + 1, Len(arrived)) \in Seq(Requests) /\ wire \in Seq(Requests)
    BY ViewTypes DEF IInv, Types, CallTypes
  <2> QED
    <3> DEFINE front == SubSeq(arrived, Handled + 1, Len(arrived))
    <3>1. PendingRequests = front \o wire
      BY DEF PendingRequests
    <3>2. PendingRequests' = front \o Append(wire, r)
      BY <1>2, <1>3, <1>9 DEF PendingRequests
    <3>3. front \in Seq(Requests)
      BY <2>1
    <3> HIDE DEF front
    <3> QED
      BY <2>1, <3>1, <3>2, <3>3, AppendSecond
<1> QED
  BY <1>4, <1>6, <1>7, <1>8, <1>9
-----------------------------------------------------------------------------
(* A step of the client is a step of HubClient.                            *)

\* ConnectAsync ends as HubClient has it.
LEMMA ConnectSeen == ASSUME IInv, IInv', Connect PROVE ClientView!Next
<1>1. UNCHANGED <<PendingRequests, PendingMessages, Executions, Broadcasts>>
  BY ConnectMoves, ClientSees DEF Connect, Client!Connect, Client!netVars
<1>2. ASSUME NEW header, NEW faulted, Client!Connect(header, faulted)
      PROVE  ClientView!Connect(header, faulted)
  BY <1>1, <1>2 DEF Client!Connect, ClientView!Connect, Client!netVars, ClientView!netVars,
     Client!callerVars, ClientView!callerVars, Client!futureVars, ClientView!futureVars,
     Client!disposeVars, ClientView!disposeVars
<1>3. ClientView!Connect("match", FALSE) \/ ClientView!Connect("absent", TRUE)
  BY <1>2 DEF Connect
<1> QED
  BY <1>3 DEF ClientView!Next

\* A call is begun as HubClient has it.
LEMMA BeginSeen == ASSUME IInv, IInv', NEW c \in Callers, Begin(c) PROVE ClientView!Next
<1>1. UNCHANGED <<PendingRequests, PendingMessages, Executions, Broadcasts>>
  BY BeginMoves, ClientSees DEF Begin, Client!BeginCall, Client!BeginFireAndForget, Client!netVars
<1>2. ASSUME Client!BeginCall(c) PROVE ClientView!BeginCall(c)
  BY <1>1, <1>2 DEF Client!BeginCall, ClientView!BeginCall, Client!netVars, ClientView!netVars,
     Client!subVars, ClientView!subVars, Client!futureVars, ClientView!futureVars,
     Client!disposeVars, ClientView!disposeVars
<1>3. ASSUME Client!BeginFireAndForget(c) PROVE ClientView!BeginFireAndForget(c)
  BY <1>1, <1>3 DEF Client!BeginFireAndForget, ClientView!BeginFireAndForget,
     Client!NoCall, ClientView!NoCall, Client!netVars, ClientView!netVars,
     Client!subVars, ClientView!subVars, Client!futureVars, ClientView!futureVars,
     Client!disposeVars, ClientView!disposeVars
<1> QED
  BY <1>2, <1>3 DEF Begin, ClientView!Next

\* A caller goes on as HubClient has it; what it writes comes after everything
\* that is not handled.
LEMMA CallerSeen == ASSUME IInv, IInv', NEW c \in Callers, CallerStep(c) PROVE ClientView!Next
<1> USE DEF Client!netVars, ClientView!netVars, Client!subVars, ClientView!subVars,
    Client!futureVars, ClientView!futureVars, Client!disposeVars, ClientView!disposeVars
<1>1. ClientMoves /\ Executions' = Executions /\ Broadcasts' = Broadcasts
  BY CallerMoves, ClientSees
<1>2. inbox' = inbox
  BY DEF CallerStep, Client!CallerStep, Client!RegisterFuture, Client!AcquireLock, Client!StartWrite,
     Client!WriteThrows, Client!WriteCompletes, Client!ReturnToCaller
<1>3. PendingMessages' = PendingMessages
  BY <1>1, <1>2, ClientSees
<1>4. ASSUME Client!WriteCompletes(c) PROVE ClientView!CallerStep(c)
  <2> DEFINE r == IF cur[c] = 0 THEN Client!Request(Client!OneWayId, 0)
                                ELSE Client!Request(Client!IdOf(cur[c]), cur[c])
  <2>1. wire' = Append(wire, r)
    BY <1>4 DEF Client!WriteCompletes, Client!NoCall
  <2>2. r \in Requests
    <3>1. cur[c] \in 0..MaxCalls
      BY DEF IInv, Types, ClientTypes
    <3> QED
      BY <3>1, IdType DEF Client!Request, Requests, Client!Requests, Client!OneWayId, OneWayId
  <2>3. r = IF cur[c] = ClientView!NoCall THEN ClientView!Request(ClientView!OneWayId, ClientView!NoCall)
                                          ELSE ClientView!Request(ClientView!IdOf(cur[c]), cur[c])
    BY DEF Client!Request, ClientView!Request, Client!IdOf, ClientView!IdOf, ClientView!NoCall,
       Client!OneWayId, ClientView!OneWayId
  <2> HIDE DEF r
  <2>4. PendingRequests' = Append(PendingRequests, r)
    BY <1>1, <2>1, <2>2, ClientSees
  <2>5. ClientView!WriteCompletes(c)
    BY <1>1, <1>3, <1>4, <2>3, <2>4 DEF Client!WriteCompletes, ClientView!WriteCompletes,
       Client!NoCall, ClientView!NoCall
  <2> QED
    BY <2>5 DEF ClientView!CallerStep
<1>5. ASSUME ~Client!WriteCompletes(c) PROVE ClientView!CallerStep(c)
  <2>1. wire' = wire
    BY <1>5 DEF CallerStep, Client!CallerStep, Client!RegisterFuture, Client!AcquireLock,
       Client!StartWrite, Client!WriteThrows, Client!ReturnToCaller
  <2>2. PendingRequests' = PendingRequests
    BY <1>1, <2>1, ClientSees
  <2>3. Client!RegisterFuture(c) => ClientView!RegisterFuture(c)
    BY <1>1, <1>3, <2>2 DEF Client!RegisterFuture, ClientView!RegisterFuture, Client!IdOf, ClientView!IdOf
  <2>4. Client!AcquireLock(c) => ClientView!AcquireLock(c)
    BY <1>1, <1>3, <2>2 DEF Client!AcquireLock, ClientView!AcquireLock
  <2>5. Client!StartWrite(c) => ClientView!StartWrite(c)
    BY <1>1, <1>3, <2>2 DEF Client!StartWrite, ClientView!StartWrite
  <2>6. Client!WriteThrows(c) => ClientView!WriteThrows(c)
    BY <1>1, <1>3, <2>2 DEF Client!WriteThrows, ClientView!WriteThrows
  <2>7. Client!ReturnToCaller(c) => ClientView!ReturnToCaller(c)
    BY <1>1, <1>3, <2>2 DEF Client!ReturnToCaller, ClientView!ReturnToCaller
  <2> QED
    BY <1>5, <2>3, <2>4, <2>5, <2>6, <2>7 DEF CallerStep, Client!CallerStep, ClientView!CallerStep
<1> QED
  BY <1>4, <1>5 DEF ClientView!Next

\* A client that sees the end of an ended call has got every message.
LEMMA EndSeen ==
  ASSUME IInv, callState = "ended", inbox = <<>>
  PROVE  PendingMessages = <<>>
<1>1. marked /\ passed = cut /\ Limit = cut
  BY DEF IInv, EndedIsSent, Limit
<1>2. Len(Unsent) = 0 /\ Unsent \in Seq(Messages)
  BY <1>1, ViewTypes DEF IInv, Types, CallTypes
<1>3. Unsent = <<>>
  BY <1>2, EmptySeq
<1>4. After = <<>>
  BY <1>1, <1>3, ConcatEmptySeq, EmptySeq DEF After
<1> QED
  BY <1>4, ViewTypes, ConcatEmptySeq, EmptySeq

\* The subscription sees the first message of those under way, if there is one,
\* and the end of an ended call only after the last.
LEMMA SubSeen == ASSUME IInv, IInv', SubStep PROVE ClientView!SubStep
<1> USE DEF Client!callerVars, ClientView!callerVars, Client!netVars, ClientView!netVars,
    Client!disposeVars, ClientView!disposeVars, Client!futureVars, ClientView!futureVars
<1>1. /\ ClientMoves /\ Executions' = Executions /\ Broadcasts' = Broadcasts
      /\ inbox' = inbox => PendingMessages' = PendingMessages
      /\ inbox # <<>> => /\ PendingMessages # <<>>
                         /\ Head(PendingMessages) = Head(inbox)
                         /\ inbox' = Tail(inbox) => PendingMessages' = Tail(PendingMessages)
  BY SubMoves, ClientSees
<1>2. PendingRequests' = PendingRequests
  <2>1. wire' = wire
    BY DEF SubStep, Client!SubStep, Client!ReceiveResponse, Client!ReceiveBroadcast, Client!Advance,
       Client!StreamEnds, Client!FinishSubscription, Client!SettleFuture
  <2> QED
    BY <1>1, <2>1, ClientSees
<1>3. Client!ReceiveResponse => ClientView!ReceiveResponse
  BY <1>1, <1>2 DEF Client!ReceiveResponse, ClientView!ReceiveResponse, Client!NoCall, ClientView!NoCall
<1>4. Client!ReceiveBroadcast => ClientView!ReceiveBroadcast
  BY <1>1, <1>2 DEF Client!ReceiveBroadcast, ClientView!ReceiveBroadcast
<1>5. Client!Advance => ClientView!Advance
  BY <1>1, <1>2 DEF Client!Advance, ClientView!Advance
<1>6. Client!StreamEnds => ClientView!StreamEnds
  BY <1>1, <1>2, EndSeen DEF Client!StreamEnds, ClientView!StreamEnds
<1>7. Client!FinishSubscription => ClientView!FinishSubscription
  BY <1>1, <1>2 DEF Client!FinishSubscription, ClientView!FinishSubscription
<1>8. ASSUME NEW o, Client!SettleFuture(o) PROVE ClientView!SettleFuture(o)
  BY <1>1, <1>2, <1>8 DEF Client!SettleFuture, ClientView!SettleFuture, Client!Nothing, ClientView!Nothing,
     Client!NoCall, ClientView!NoCall
<1> QED
  BY <1>3, <1>4, <1>5, <1>6, <1>7, <1>8 DEF SubStep, Client!SubStep, ClientView!SubStep

\* DisposeAsync goes on as HubClient has it.
LEMMA DisposeSeen ==
  ASSUME IInv, IInv', NEW d \in Disposers \cup {Sub}, StartDispose(d) \/ DisposeStep(d)
  PROVE  ClientView!Next
<1> USE DEF Client!callerVars, ClientView!callerVars, Client!netVars, ClientView!netVars,
    Client!subVars, ClientView!subVars, Client!futureVars, ClientView!futureVars
<1>1. ClientMoves /\ Executions' = Executions /\ Broadcasts' = Broadcasts
      /\ (inbox # <<>> => PendingMessages # <<>>)
  BY DisposeMoves, ClientSees
<1>2. UNCHANGED <<PendingRequests, PendingMessages>>
  <2>1. wire' = wire /\ inbox' = inbox
    BY DEF StartDispose, DisposeStep, Client!StartDispose, Client!DisposeStep, Client!MarkDisposed,
       Client!CompleteRequests, Client!CancelToken, Client!DisposeToken, Client!AwaitSubscription,
       Client!StartCleanup, Client!CancelFuture, Client!FinishCleanup
  <2> QED
    BY <1>1, <2>1, ClientSees
<1>3. Client!StartDispose(d) => ClientView!StartDispose(d)
  BY <1>1, <1>2 DEF Client!StartDispose, ClientView!StartDispose
<1>4. Client!MarkDisposed(d) => ClientView!MarkDisposed(d)
  BY <1>1, <1>2 DEF Client!MarkDisposed, ClientView!MarkDisposed
<1>5. Client!CompleteRequests(d) => ClientView!CompleteRequests(d)
  BY <1>1, <1>2 DEF Client!CompleteRequests, ClientView!CompleteRequests
<1>6. Client!CancelToken(d) => ClientView!CancelToken(d)
  BY <1>1, <1>2 DEF Client!CancelToken, ClientView!CancelToken
<1>7. Client!DisposeToken(d) => ClientView!DisposeToken(d)
  BY <1>1, <1>2 DEF Client!DisposeToken, ClientView!DisposeToken, Client!StartCleanup,
     ClientView!StartCleanup, Client!Ids, ClientView!Ids, Client!NoCall, ClientView!NoCall
<1>8. Client!AwaitSubscription(d) => ClientView!AwaitSubscription(d)
  BY <1>1, <1>2 DEF Client!AwaitSubscription, ClientView!AwaitSubscription, Client!StartCleanup,
     ClientView!StartCleanup, Client!Ids, ClientView!Ids, Client!NoCall, ClientView!NoCall
<1>9. Client!CancelFuture(d) => ClientView!CancelFuture(d)
  BY <1>1, <1>2 DEF Client!CancelFuture, ClientView!CancelFuture, Client!Ids, ClientView!Ids,
     Client!NoCall, ClientView!NoCall
<1>10. Client!FinishCleanup(d) => ClientView!FinishCleanup(d)
  BY <1>1, <1>2 DEF Client!FinishCleanup, ClientView!FinishCleanup
<1>11. ClientView!StartDispose(d) \/ ClientView!DisposeStep(d)
  BY <1>3, <1>4, <1>5, <1>6, <1>7, <1>8, <1>9, <1>10
  DEF StartDispose, DisposeStep, Client!DisposeStep, ClientView!DisposeStep
<1> QED
  BY <1>11 DEF ClientView!Next, ClientView!Tasks

\* The connection is lost as HubClient has it.
LEMMA DisconnectSeen == ASSUME IInv, IInv', Disconnect PROVE ClientView!Next
<1>1. wire' = wire /\ inbox' = inbox
  BY DEF Disconnect, Client!Disconnect
<1>2. UNCHANGED <<PendingRequests, PendingMessages, Executions, Broadcasts>>
  BY <1>1, DisconnectMoves, ClientSees
<1>3. ClientView!Disconnect
  BY <1>2 DEF Disconnect, Client!Disconnect, ClientView!Disconnect, Client!callerVars,
     ClientView!callerVars, Client!futureVars, ClientView!futureVars, Client!subVars,
     ClientView!subVars, Client!disposeVars, ClientView!disposeVars
<1> QED
  BY <1>3 DEF ClientView!Next

\* Every step of the client is a step of HubClient.
LEMMA ClientStepSeen == ASSUME IInv, IInv', ClientStep PROVE ClientView!Next
<1>1. ASSUME SubStep PROVE ClientView!Next
  BY <1>1, SubSeen DEF ClientView!Next
<1> QED
  BY <1>1, ConnectSeen, BeginSeen, CallerSeen, DisposeSeen, DisconnectSeen DEF ClientStep
-----------------------------------------------------------------------------
(* A step of the server or the call is one of the environment, or nothing  *)
(* the client sees.                                                        *)

\* What HubClient calls its variables does not change.
LEMMA NothingSeen ==
  ASSUME UNCHANGED <<clientVars, PendingRequests, PendingMessages, Executions, Broadcasts>>
  PROVE  UNCHANGED ClientView!vars
BY DEF clientVars, ClientView!vars, ClientView!callerVars, ClientView!futureVars, ClientView!subVars,
   ClientView!disposeVars, ClientView!netVars

\* A step that queues, moves and handles nothing is not seen.
LEMMA QuietSeen ==
  ASSUME UNCHANGED <<clientVars, callVars, queued>>, Handled' = Handled
  PROVE  UNCHANGED ClientView!vars
<1>1. UNCHANGED <<wire, inbox, arrived, marked, passed, cut, callState>>
  BY DEF callVars, clientVars
<1>2. Limit' = Limit
  BY <1>1 DEF Limit
<1>3. Unsent' = Unsent
  BY <1>1, <1>2 DEF Unsent, AsMessage
<1>4. PendingMessages' = PendingMessages
  BY <1>1, <1>3 DEF PendingMessages
<1>5. UNCHANGED <<PendingRequests, Executions, Broadcasts>>
  BY <1>1, <1>2 DEF PendingRequests, Executions, Broadcasts
<1> QED
  BY <1>4, <1>5, NothingSeen

\* A handler ends, or is left to run on: one request less is pending, and its
\* call has been executed once more.
LEMMA HandlerEnds ==
  ASSUME IInv, pc = "invoking", pc' = "reading", UNCHANGED <<received, arrived, wire>>
  PROVE  /\ PendingRequests # <<>>
         /\ Head(PendingRequests) = arrived[received]
         /\ PendingRequests' = Tail(PendingRequests)
         /\ Executions' = [k \in ClientView!Calls |->
                             Executions[k] + (IF k = arrived[received].call THEN 1 ELSE 0)]
<1>t. /\ received \in 1..Len(arrived) /\ received \in Nat /\ arrived \in Seq(Requests)
      /\ Len(arrived) \in Nat /\ wire \in Seq(Requests)
  BY IdType DEF IInv, Types, ServerTypes, CallTypes
<1>1. Handled = received - 1 /\ Handled' = received
  BY DEF Handled
<1> DEFINE front == SubSeq(arrived, received, Len(arrived))
           rest  == SubSeq(arrived, received + 1, Len(arrived))
<1>2. front \in Seq(Requests) /\ rest \in Seq(Requests) /\ arrived[received] \in Requests
  BY <1>t, SubSeqProperties
<1>3. front = <<arrived[received]>> \o rest
  BY <1>t, SubSeqRecursiveFirst
<1>4. PendingRequests = front \o wire
  BY <1>t, <1>1 DEF PendingRequests
<1>5. PendingRequests' = rest \o wire
  BY <1>1 DEF PendingRequests
<1>6. /\ PendingRequests # <<>>
      /\ Head(PendingRequests) = arrived[received]
      /\ PendingRequests' = Tail(PendingRequests)
  <2> HIDE DEF front, rest
  <2>1. rest \o wire \in Seq(Requests)
    BY <1>t, <1>2, ConcatProperties
  <2>2. <<arrived[received]>> \in Seq(Requests)
    BY <1>2
  <2>3. PendingRequests = <<arrived[received]>> \o (rest \o wire)
    <3>1. wire \in Seq(Requests) /\ rest \in Seq(Requests)
      BY <1>t, <1>2
    <3>2. (<<arrived[received]>> \o rest) \o wire = <<arrived[received]>> \o (rest \o wire)
      BY <2>2, <3>1, ConcatAssociative
    <3> QED
      BY <1>3, <1>4, <3>2
  <2> QED
    BY <1>2, <1>5, <2>1, <2>3, FirstOfPair
<1>7. ASSUME NEW k \in Calls
      PROVE  Cardinality({i \in 1..received : arrived[i].call = k})
               = Executions[k] + (IF k = arrived[received].call THEN 1 ELSE 0)
  <2> DEFINE old == {i \in 1..(received - 1) : arrived[i].call = k}
             new == {i \in 1..received : arrived[i].call = k}
  <2>1. Executions[k] = Cardinality(old)
    BY <1>1 DEF Executions
  <2>2. IsFiniteSet(old) /\ received \notin old
    <3>1. IsFiniteSet(1..(received - 1))
      BY <1>t, FS_Interval
    <3> QED
      BY <1>t, <3>1, FS_Subset
  <2>3. Cardinality(old) \in Nat
    BY <2>2, FS_CardinalityType
  <2>4. CASE k = arrived[received].call
    <3>1. new = old \cup {received}
      BY <1>t, <2>4
    <3> HIDE DEF old, new
    <3>2. Cardinality(new) = Cardinality(old) + 1
      BY <2>2, <3>1, FS_AddElement
    <3> QED
      BY <2>1, <2>4, <3>2 DEF new
  <2>5. CASE k # arrived[received].call
    <3>1. new = old
      BY <1>t, <2>5
    <3> HIDE DEF old, new
    <3>2. Cardinality(new) = Executions[k] + 0 /\ Executions[k] + 0 = Executions[k]
      BY <2>1, <2>3, <3>1
    <3> QED
      BY <2>5, <3>2 DEF new
  <2> QED
    BY <2>4, <2>5
<1>8. Executions' = [k \in Calls |-> Cardinality({i \in 1..received : arrived[i].call = k})]
  BY <1>1 DEF Executions
<1>9. Executions' = [k \in ClientView!Calls |->
                       Executions[k] + (IF k = arrived[received].call THEN 1 ELSE 0)]
  BY <1>7, <1>8 DEF Calls, ClientView!Calls
<1> QED
  BY <1>6, <1>9

\* A handler runs as long as the client has not seen the server's end.
LEMMA NotEnded == ASSUME IInv, pc # "returned" PROVE callState \in {"open", "aborted"}
BY DEF IInv, Types, ClientTypes, EndedIsSent

\* A fire-and-forget handler ends, or is left to run on: the request is served,
\* with no answer.
LEMMA OneWaySeen ==
  ASSUME IInv, ServerOnly(Server!FinishOneWay) \/ ServerOnly(Server!DetachOneWay)
  PROVE  ClientView!Next
<1>1. /\ pc = "invoking" /\ pc' = "reading" /\ kind[received] = "oneway"
      /\ UNCHANGED <<clientVars, wire, inbox, arrived, marked, passed, cut>>
      /\ UNCHANGED <<received, queued>>
  BY DEF ServerOnly, Server!FinishOneWay, Server!DetachOneWay, Server!queueVars
<1>2. arrived[received].id = OneWayId
  <2>1. received \in 1..sent
    BY <1>1, IdType DEF IInv, Types, ServerTypes
  <2> QED
    BY <1>1, <2>1 DEF IInv, KindsMatch
<1>3. callState' = callState
  BY <1>1 DEF clientVars
<1>4. Limit' = Limit
  BY <1>1, <1>3 DEF Limit
<1>5. PendingMessages' = PendingMessages /\ Broadcasts' = Broadcasts
  <2>1. Unsent' = Unsent
    BY <1>1, <1>4 DEF Unsent, AsMessage
  <2> QED
    BY <1>1, <1>4, <2>1 DEF PendingMessages, Broadcasts
<1>6. /\ PendingRequests # <<>>
      /\ Head(PendingRequests) = arrived[received]
      /\ PendingRequests' = Tail(PendingRequests)
      /\ Executions' = [k \in ClientView!Calls |->
                          Executions[k] + (IF k = arrived[received].call THEN 1 ELSE 0)]
  BY <1>1, HandlerEnds
<1> USE DEF clientVars, ClientView!callerVars, ClientView!futureVars, ClientView!subVars, ClientView!disposeVars
<1>7. CASE callState = "open"
  <2>1. ClientView!Serve("response")
    BY <1>1, <1>2, <1>5, <1>6, <1>7 DEF ClientView!Serve, ClientView!OneWayId, OneWayId
  <2> QED
    BY <2>1 DEF ClientView!Next, ClientView!ServerStep
<1>8. CASE callState = "aborted"
  <2>1. ClientView!LateServe
    BY <1>1, <1>5, <1>6, <1>8 DEF ClientView!LateServe
  <2> QED
    BY <2>1 DEF ClientView!Next
<1> QED
  BY <1>1, <1>7, <1>8, NotEnded

\* The other steps of Connect are not seen.
LEMMA LoopSeen ==
  ASSUME IInv, ServerOnly(LoopStep)
  PROVE  ClientView!Next \/ UNCHANGED ClientView!vars
<1>1. CASE Server!FinishOneWay \/ Server!DetachOneWay
  BY <1>1, OneWaySeen DEF ServerOnly
<1>2. CASE ~(Server!FinishOneWay \/ Server!DetachOneWay)
  <2>1. UNCHANGED <<clientVars, callVars, queued>>
    BY LoopStepMoves DEF LoopMoves
  <2>t. received \in Nat
    BY IdType DEF IInv, Types, ServerTypes
  <2>2. ASSUME Server!ReceiveMessage PROVE Handled' = Handled
    <3>1. pc = "reading" /\ received < sent /\ received' = received + 1
      BY <2>2 DEF Server!ReceiveMessage
    <3>2. kind[received + 1] # "unknown"
      BY <3>1, IdType DEF IInv, Types, ServerTypes, KindsMatch
    <3>3. pc' = "invoking"
      BY <2>2, <3>2 DEF Server!ReceiveMessage
    <3> QED
      BY <2>t, <3>1, <3>3 DEF Handled
  <2>3. ASSUME Server!OnConnecting \/ Server!WriteHeaders \/ Server!StartMarker
               \/ Server!EndOfRequests \/ Server!ReadAborted
        PROVE  Handled' = Handled
    <3>1. pc # "invoking" /\ pc' # "invoking" /\ received' = received
      BY <2>3 DEF Server!OnConnecting, Server!WriteHeaders, Server!StartMarker, Server!Throw,
         Server!EndOfRequests, Server!ReadAborted
    <3> QED
      BY <3>1 DEF Handled
  <2>4. ASSUME Server!MarkDisconnected \/ Server!CloseQueue \/ Server!OnDisconnected \/ Server!Return
        PROVE  Handled' = Handled
    <3>1. pc # "invoking" /\ pc' # "invoking" /\ received' = received
      BY <2>4 DEF Server!MarkDisconnected, Server!CloseQueue, Server!OnDisconnected, Server!Return
    <3> QED
      BY <3>1 DEF Handled
  <2>5. Handled' = Handled
    BY <1>2, <2>2, <2>3, <2>4 DEF ServerOnly, LoopStep
  <2> QED
    BY <2>1, <2>5, QuietSeen
<1> QED
  BY <1>1, <1>2

\* What is queued is the last message the client can get, as long as its side
\* of the call is open.
LEMMA QueueSeen ==
  ASSUME IInv, IInv', NEW item \in Items, queued' = Append(queued, item),
         item.kind # "broadcast" => item.request \in 1..received,
         UNCHANGED <<callState, cut, inbox, arrived, marked, passed>>
  PROVE  /\ callState = "open" => PendingMessages' = Append(PendingMessages, AsMessage(item))
         /\ callState # "open" => PendingMessages' = PendingMessages
<1>1. /\ Len(queued') = Len(queued) + 1
      /\ \A i \in 1..Len(queued) : queued'[i] = queued[i]
      /\ queued'[Len(queued) + 1] = item
      /\ callState = "open" => Limit = Len(queued) /\ Limit' = Limit + 1
      /\ callState # "open" => Limit' = Limit
  BY QueueGrows
<1>2. /\ Limit \in Nat /\ Limit <= Len(queued) /\ Len(queued) \in Nat
      /\ passed \in Nat /\ passed <= Limit
      /\ inbox \in Seq(Messages) /\ After \in Seq(Messages)
      /\ Unsent \in Seq(Messages) /\ Len(Unsent) = Limit - passed
      /\ PendingMessages = inbox \o After
  BY CountType, ViewTypes DEF IInv, Types, CallTypes, SentInOrder
<1>3. PendingMessages' = inbox \o After' /\ Unsent' \in Seq(Messages) /\ Len(Unsent') = Limit' - passed
  BY ViewShapeNext DEF ViewShape
<1>4. /\ \A i \in 1..(Limit - passed) : Unsent[i] = AsMessage(queued[passed + i])
      /\ \A i \in 1..(Limit' - passed) : Unsent'[i] = AsMessage(queued'[passed + i])
  BY DEF Unsent, AsMessage
<1>5. CASE callState = "open"
  <2> DEFINE x    == AsMessage(item)
             mark == IF marked THEN <<>> ELSE <<Marker>>
  <2>1. x \in Messages
    <3>1. ASSUME item.kind # "broadcast" PROVE arrived[item.request] \in Requests
      BY <3>1, IdType DEF IInv, Types, ServerTypes, CallTypes
    <3> QED
      BY <3>1, IdType DEF AsMessage, Messages, Client!Messages, Requests, Client!Requests, Items, Server!Items
  <2>2. mark \in Seq(Messages)
    <3>1. Marker \in Messages
      BY IdType DEF Marker, Messages, Client!Messages, OneWayId
    <3>2. <<Marker>> \in Seq(Messages) /\ <<>> \in Seq(Messages)
      BY <3>1, EmptySeq
    <3> QED
      BY <3>2
  <2>3. After = mark \o Unsent /\ After' = mark \o Unsent'
    BY DEF After
  <2>4. \A i \in 1..(Limit + 1 - passed) : Unsent'[i] = IF i = Limit + 1 - passed THEN x ELSE Unsent[i]
    <3> SUFFICES ASSUME NEW i \in 1..(Limit + 1 - passed)
                 PROVE  Unsent'[i] = IF i = Limit + 1 - passed THEN x ELSE Unsent[i]
      OBVIOUS
    <3>1. Unsent'[i] = AsMessage(queued'[passed + i])
      <4>1. Limit' = Limit + 1
        BY <1>1, <1>5
      <4>2. i \in 1..(Limit' - passed)
        BY <1>2, <4>1
      <4> QED
        BY <1>4, <4>2
    <3>2. ASSUME i = Limit + 1 - passed PROVE queued'[passed + i] = item
      BY <1>1, <1>2, <1>5, <3>2
    <3>3. ASSUME i # Limit + 1 - passed
          PROVE  queued'[passed + i] = queued[passed + i] /\ Unsent[i] = AsMessage(queued[passed + i])
      <4>1. i \in 1..(Limit - passed) /\ passed + i \in 1..Len(queued)
        BY <1>1, <1>2, <1>5, <3>3
      <4> QED
        BY <1>1, <1>4, <4>1
    <3> QED
      BY <3>1, <3>2, <3>3
  <2> HIDE DEF x, mark
  <2>5. Unsent' = Append(Unsent, x)
    <3>1. /\ Append(Unsent, x) \in Seq(Messages) /\ Len(Append(Unsent, x)) = Limit - passed + 1
          /\ \A i \in 1..(Limit + 1 - passed) :
               Append(Unsent, x)[i] = IF i = Limit + 1 - passed THEN x ELSE Unsent[i]
      BY <1>2, <2>1
    <3>2. Len(Unsent') = Len(Append(Unsent, x)) /\ Len(Unsent') = Limit + 1 - passed
      BY <1>1, <1>2, <1>3, <1>5, <3>1
    <3>3. \A i \in 1..Len(Unsent') : Unsent'[i] = Append(Unsent, x)[i]
      BY <2>4, <3>1, <3>2
    <3> QED
      BY <1>3, <3>1, <3>2, <3>3, SeqEqual
  <2>6. After' = Append(After, x)
    <3>1. Unsent \in Seq(Messages)
      BY <1>2
    <3>2. mark \o Append(Unsent, x) = Append(mark \o Unsent, x)
      BY <2>1, <2>2, <3>1, AppendSecond
    <3> QED
      BY <2>3, <2>5, <3>2
  <2>7. inbox \o Append(After, x) = Append(inbox \o After, x)
    <3>1. inbox \in Seq(Messages) /\ After \in Seq(Messages)
      BY <1>2
    <3> QED
      BY <2>1, <3>1, AppendSecond
  <2> QED
    BY <1>2, <1>3, <1>5, <2>6, <2>7 DEF x
<1>6. CASE callState # "open"
  <2>1. ASSUME NEW i \in 1..Len(Unsent) PROVE Unsent'[i] = Unsent[i]
    <3>1. i \in 1..(Limit - passed) /\ i \in 1..(Limit' - passed)
      BY <1>1, <1>2, <1>6
    <3>2. passed + i \in 1..Len(queued)
      BY <1>2, <3>1
    <3>3. queued'[passed + i] = queued[passed + i]
      BY <1>1, <3>2
    <3> QED
      BY <1>4, <3>1, <3>3
  <2>2. Unsent' = Unsent
    BY <1>1, <1>2, <1>3, <1>6, <2>1, SeqEqual
  <2> QED
    BY <1>2, <1>3, <1>6, <2>2 DEF After
<1> QED
  BY <1>5, <1>6

\* A call is answered: the response is one the client may be sent, or the
\* client's side of the call is over.
LEMMA AnswerSeen ==
  ASSUME IInv, IInv', NEW k \in {"response", "error"}, ServerOnly(Server!AnswerCall(k))
  PROVE  ClientView!Next
<1>1. /\ pc = "invoking" /\ pc' = "reading" /\ kind[received] = "call"
      /\ UNCHANGED <<clientVars, wire, inbox, arrived, marked, passed, cut>>
      /\ UNCHANGED <<received, broadcasts>>
      /\ Server!Enqueue(Server!Answer(k, received))
  BY DEF ServerOnly, Server!AnswerCall
<1>2. callState' = callState
  BY <1>1 DEF clientVars
<1>3. received \in 1..sent /\ sent \in Nat /\ sent \in 0..MaxRequests /\ MaxRequests \in Nat
  BY <1>1, IdType DEF IInv, Types, ServerTypes
<1>4. arrived[received].id # OneWayId
  BY <1>1, <1>3 DEF IInv, KindsMatch
<1> DEFINE item == Server!Answer(k, received)
<1>5. /\ item \in Items /\ item.kind # "broadcast" /\ item.request \in 1..received
      /\ AsMessage(item) = ClientView!Message(k, arrived[received].id, arrived[received].call)
  BY <1>3 DEF Server!Answer, Items, Server!Items, AsMessage, ClientView!Message
<1> HIDE DEF item
<1>6. queued' = Append(queued, item)
  <2>1. channelOpen
    BY <1>1 DEF IInv, OpenInLoop
  <2> QED
    BY <1>1, <2>1 DEF Server!Enqueue, item
<1>7. /\ callState = "open" => PendingMessages' = Append(PendingMessages, AsMessage(item))
      /\ callState # "open" => PendingMessages' = PendingMessages
  BY <1>1, <1>2, <1>5, <1>6, QueueSeen
<1>8. Broadcasts' = Broadcasts
  <2>1. Broadcasts' = Broadcasts + 0
    BY <1>1, <1>2, <1>5, <1>6, QueueGrows
  <2> QED
    BY <2>1, CountType
<1>9. /\ PendingRequests # <<>>
      /\ Head(PendingRequests) = arrived[received]
      /\ PendingRequests' = Tail(PendingRequests)
      /\ Executions' = [c \in ClientView!Calls |->
                          Executions[c] + (IF c = arrived[received].call THEN 1 ELSE 0)]
  BY <1>1, HandlerEnds
<1> USE DEF clientVars, ClientView!callerVars, ClientView!futureVars, ClientView!subVars, ClientView!disposeVars
<1>10. CASE callState = "open"
  <2>1. ClientView!Serve(k)
    BY <1>1, <1>4, <1>5, <1>7, <1>8, <1>9, <1>10 DEF ClientView!Serve, ClientView!OneWayId, OneWayId
  <2> QED
    BY <2>1 DEF ClientView!Next, ClientView!ServerStep
<1>11. CASE callState = "aborted"
  <2>1. ClientView!LateServe
    BY <1>1, <1>7, <1>8, <1>9, <1>11 DEF ClientView!LateServe
  <2> QED
    BY <2>1 DEF ClientView!Next
<1> QED
  BY <1>1, <1>10, <1>11, NotEnded

\* A broadcast is one the client may be sent; after the end of the client's
\* side of the call, or of the queue, it is not seen.
LEMMA BroadcastSeen ==
  ASSUME IInv, IInv', NEW g \in Groups, ServerOnly(Server!Broadcast(g))
  PROVE  ClientView!Next \/ UNCHANGED ClientView!vars
<1>1. /\ UNCHANGED <<clientVars, wire, inbox, arrived, marked, passed, cut>>
      /\ UNCHANGED <<pc, received>>
      /\ broadcasts < MaxBroadcasts
      /\ Server!Enqueue(Server!BroadcastItem)
  BY DEF ServerOnly, Server!Broadcast, Server!connectVars
<1>2. callState' = callState
  BY <1>1 DEF clientVars
<1>3. connection = "connected"
  BY BroadcastFacts
<1> DEFINE item == Server!BroadcastItem
<1>4. /\ item \in Items /\ item.kind = "broadcast"
      /\ AsMessage(item) = ClientView!Message("broadcast", 0, ClientView!NoCall)
  BY BroadcastFacts DEF Server!BroadcastItem, AsMessage, ClientView!Message, ClientView!NoCall
<1>5. UNCHANGED <<PendingRequests, Executions>>
  BY <1>1 DEF PendingRequests, Executions, Handled
<1> HIDE DEF item
<1>6. CASE ~channelOpen
  <2>1. UNCHANGED <<clientVars, callVars, queued>> /\ Handled' = Handled
    BY <1>1, <1>6 DEF Server!Enqueue, callVars, Handled
  <2> QED
    BY <2>1, QuietSeen
<1>7. CASE channelOpen
  <2>1. queued' = Append(queued, item)
    BY <1>1, <1>7 DEF Server!Enqueue, item
  <2>2. /\ callState = "open" => PendingMessages' = Append(PendingMessages, AsMessage(item))
        /\ callState # "open" => PendingMessages' = PendingMessages
    BY <1>1, <1>2, <1>4, <2>1, QueueSeen
  <2>3. Broadcasts' = Broadcasts + (IF callState = "open" /\ item.kind = "broadcast" THEN 1 ELSE 0)
    BY <1>1, <1>2, <1>4, <2>1, QueueGrows
  <2>4. CASE callState = "open"
    <3>1. Broadcasts < MaxBroadcasts
      BY <1>1, CountType, BoundsAssumption DEF IInv, BroadcastsBounded, Types, ServerTypes
    <3>2. Broadcasts' = Broadcasts + 1
      BY <1>4, <2>3, <2>4
    <3>3. ClientView!SendBroadcast
      BY <1>1, <1>3, <1>4, <1>5, <2>2, <2>4, <3>1, <3>2
      DEF ClientView!SendBroadcast, clientVars, ClientView!callerVars, ClientView!futureVars,
          ClientView!subVars, ClientView!disposeVars
    <3> QED
      BY <3>3 DEF ClientView!Next
  <2>5. CASE callState # "open"
    <3>1. Broadcasts' = Broadcasts
      BY <2>3, <2>5, CountType
    <3> QED
      BY <1>1, <1>5, <2>2, <2>5, <3>1, NothingSeen
  <2> QED
    BY <2>4, <2>5
<1> QED
  BY <1>6, <1>7

\* The marker was on its way to the client since it connected.
LEMMA MarkerSeen == ASSUME IInv, IInv', MarkerStep PROVE UNCHANGED ClientView!vars
<1>1. /\ UNCHANGED <<clientVars, wire, arrived, passed, cut>>
      /\ pc = "writingMarker" /\ pc' # "invoking" /\ received' = received
      /\ queued' = queued
      /\ marked' <=> (callState = "open" /\ pc' = "reading")
      /\ inbox' = IF marked' THEN Append(inbox, Marker) ELSE inbox
  BY DEF MarkerStep, Server!MarkerWritten, Server!Throw, Server!queueVars
<1>2. callState' = callState
  BY <1>1 DEF clientVars
<1>3. ~marked
  BY <1>1 DEF IInv, MarkerFirst
<1>4. Limit' = Limit /\ Unsent' = Unsent
  BY <1>1, <1>2 DEF Limit, Unsent, AsMessage
<1>5. UNCHANGED <<PendingRequests, Executions, Broadcasts>>
  BY <1>1, <1>4 DEF PendingRequests, Executions, Broadcasts, Handled
<1>6. /\ PendingMessages = inbox \o After /\ Unsent \in Seq(Messages) /\ inbox \in Seq(Messages)
      /\ PendingMessages' = inbox' \o After'
  BY ViewTypes, ViewShapeNext DEF ViewShape, IInv, Types, CallTypes
<1>7. PendingMessages' = PendingMessages
  <2>1. CASE marked'
    <3>1. After = <<Marker>> \o Unsent
      BY <1>3 DEF After
    <3>2. After' = Unsent
      BY <1>4, <1>6, <2>1, ConcatEmptySeq DEF After
    <3>3. Marker \in Messages
      BY IdType DEF Marker, Messages, Client!Messages, OneWayId
    <3>4. Append(inbox, Marker) \o Unsent = inbox \o (<<Marker>> \o Unsent)
      BY <1>6, <3>3, FirstMoves
    <3> QED
      BY <1>1, <1>6, <2>1, <3>1, <3>2, <3>4
  <2>2. CASE ~marked'
    BY <1>1, <1>3, <1>4, <1>6, <2>2 DEF After
  <2> QED
    BY <2>1, <2>2
<1> QED
  BY <1>1, <1>5, <1>7, NothingSeen

\* What the consumer sends was on its way to the client since it was queued.
LEMMA ItemSeen == ASSUME IInv, IInv', ItemStep, callState = "open" PROVE PendingMessages' = PendingMessages
<1>1. /\ consumer = "sending" /\ UNCHANGED <<callState, queued, arrived, marked, cut, received>>
      /\ inbox' = Append(inbox, AsMessage(queued[consumed]))
      /\ passed' = consumed
  BY DEF ItemStep, Server!ItemWritten, clientVars, Server!connectVars
<1>2. /\ consumed \in 1..Len(queued) /\ passed = consumed - 1 /\ Limit = Len(queued)
      /\ Len(queued) \in Nat
  <2>1. consumed > 0 /\ passed = consumed - 1
    BY <1>1 DEF IInv, SentInOrder
  <2> QED
    BY <2>1, CountType DEF IInv, Types, ServerTypes, Limit
<1>3. marked
  <2>1. received > 0
    BY <1>2, IdType DEF IInv, Types, ServerTypes, QuietBeginning
  <2> QED
    BY <2>1 DEF IInv, MarkerFirst
<1>4. Limit' = Limit
  BY <1>1 DEF Limit
<1> DEFINE x == AsMessage(queued[consumed])
<1>5. /\ PendingMessages = inbox \o After /\ PendingMessages' = inbox' \o After'
      /\ Unsent \in Seq(Messages) /\ Unsent' \in Seq(Messages)
      /\ Len(Unsent) = Limit - passed /\ Len(Unsent') = Limit' - passed'
      /\ inbox \in Seq(Messages) /\ x \in Messages
  BY <1>2, ViewTypes, ViewShapeNext DEF ViewShape, IInv, Types, CallTypes
<1>6. After = Unsent /\ After' = Unsent'
  BY <1>1, <1>3, <1>5, ConcatEmptySeq DEF After
<1>7. /\ \A i \in 1..(Limit - passed) : Unsent[i] = AsMessage(queued[passed + i])
      /\ \A i \in 1..(Limit' - passed') : Unsent'[i] = AsMessage(queued[passed' + i])
  BY <1>1 DEF Unsent, AsMessage
<1>8. Unsent # <<>> /\ Head(Unsent) = x
  <2>1. Len(Unsent) \in Nat \ {0} /\ 1 \in 1..(Limit - passed) /\ passed + 1 = consumed
    BY <1>2, <1>5
  <2>2. Unsent # <<>>
    BY <1>5, <2>1, EmptySeq
  <2>3. Unsent[1] = x
    BY <1>7, <2>1
  <2> QED
    BY <1>5, <2>2, <2>3, HeadTailProperties
<1>9. Tail(Unsent) = Unsent'
  <2> HIDE DEF x
  <2>1. /\ Tail(Unsent) \in Seq(Messages) /\ Len(Tail(Unsent)) = Len(Unsent) - 1
        /\ \A i \in 1..Len(Tail(Unsent)) : Tail(Unsent)[i] = Unsent[i + 1]
    BY <1>5, <1>8, HeadTailProperties
  <2>2. Len(Tail(Unsent)) = Len(Unsent') /\ Len(Unsent') = Len(queued) - consumed
    <3>1. Len(Unsent') = Len(queued) - consumed
      BY <1>1, <1>2, <1>4, <1>5
    <3>2. Len(Unsent) = Len(queued) - (consumed - 1)
      BY <1>2, <1>5
    <3> QED
      BY <1>2, <2>1, <3>1, <3>2
  <2>3. ASSUME NEW i \in 1..Len(Tail(Unsent)) PROVE Tail(Unsent)[i] = Unsent'[i]
    <3>1. i \in 1..(Limit' - passed') /\ i + 1 \in 1..(Limit - passed) /\ passed + (i + 1) = passed' + i
      BY <1>1, <1>2, <1>4, <2>2
    <3>2. Unsent'[i] = AsMessage(queued[passed' + i]) /\ Unsent[i + 1] = AsMessage(queued[passed + (i + 1)])
      BY <1>7, <3>1
    <3>3. Unsent[i + 1] = Unsent'[i]
      BY <3>1, <3>2
    <3> QED
      BY <2>1, <3>3
  <2> QED
    BY <1>5, <2>1, <2>2, <2>3, SeqEqual
<1>10. Append(inbox, x) \o Unsent' = inbox \o (<<x>> \o Unsent')
  <2> HIDE DEF x
  <2> QED
    BY <1>5, FirstMoves
<1>11. Unsent = <<x>> \o Unsent'
  <2> HIDE DEF x
  <2> QED
    BY <1>5, <1>8, <1>9, HeadAndTail
<1> QED
  BY <1>1, <1>5, <1>6, <1>10, <1>11

\* The consumer changes nothing of what is on its way to the client.
LEMMA ConsumerSeen == ASSUME IInv, IInv', ConsumerStep PROVE UNCHANGED ClientView!vars
<1>1. CASE ItemStep /\ callState = "open"
  <2>1. UNCHANGED <<clientVars, wire, arrived, cut, queued, pc, received>>
    BY <1>1 DEF ItemStep, Server!ItemWritten, Server!connectVars
  <2>2. PendingMessages' = PendingMessages
    BY <1>1, ItemSeen
  <2>3. UNCHANGED <<PendingRequests, Executions, Broadcasts>>
    BY <2>1 DEF PendingRequests, Executions, Broadcasts, Handled, Limit, clientVars
  <2> QED
    BY <2>1, <2>2, <2>3, NothingSeen
<1>2. CASE ~(ItemStep /\ callState = "open")
  <2>1. UNCHANGED <<clientVars, callVars, queued>> /\ UNCHANGED <<pc, received>>
    BY <1>2 DEF ConsumerStep, ItemStep, ServerOnly, Server!ConsumerStep, Server!TakeItem, Server!ItemWritten,
       Server!QueueDrained, Server!Woken, Server!connectVars, callVars
  <2> QED
    BY <2>1, QuietSeen DEF Handled
<1> QED
  BY <1>1, <1>2

\* A request that reaches the server stays one that is not handled.
LEMMA ArriveSeen == ASSUME IInv, IInv', RequestArrives PROVE UNCHANGED ClientView!vars
<1>1. /\ wire # <<>>
      /\ arrived' = Append(arrived, Head(wire)) /\ wire' = Tail(wire)
      /\ UNCHANGED <<clientVars, inbox, marked, passed, cut>>
      /\ UNCHANGED <<pc, received, queued>>
  BY DEF RequestArrives, Server!ClientSends, Server!connectVars, Server!queueVars
<1>2. Handled' = Handled /\ Limit' = Limit
  BY <1>1 DEF Handled, Limit, clientVars
<1>t. /\ arrived \in Seq(Requests) /\ Len(arrived) \in Nat /\ wire \in Seq(Requests)
      /\ Handled \in 0..Len(arrived) /\ received \in 0..Len(arrived)
      /\ Head(wire) \in Requests /\ Tail(wire) \in Seq(Requests)
      /\ wire = <<Head(wire)>> \o Tail(wire)
  <2>1. arrived \in Seq(Requests) /\ Len(arrived) \in Nat /\ wire \in Seq(Requests) /\ Len(arrived) = sent
    BY LenProperties DEF IInv, Types, CallTypes
  <2>2. Handled \in 0..Len(arrived) /\ received \in 0..Len(arrived)
    BY <2>1, ViewTypes DEF IInv, Types, ServerTypes
  <2>3. Head(wire) \in Requests /\ Tail(wire) \in Seq(Requests) /\ wire = <<Head(wire)>> \o Tail(wire)
    BY <1>1, <2>1, HeadAndTail
  <2> QED
    BY <2>1, <2>2, <2>3
<1>3. /\ arrived' \in Seq(Requests) /\ Len(arrived') = Len(arrived) + 1
      /\ \A i \in 1..Len(arrived) : arrived'[i] = arrived[i]
      /\ arrived'[Len(arrived) + 1] = Head(wire)
  BY <1>1, <1>t
<1>4. Executions' = Executions
  <2>1. ASSUME NEW k \in Calls
        PROVE  {i \in 1..Handled : arrived'[i].call = k} = {i \in 1..Handled : arrived[i].call = k}
    BY <1>t, <1>3
  <2>2. Executions' = [k \in Calls |-> Cardinality({i \in 1..Handled : arrived'[i].call = k})]
    BY <1>2 DEF Executions
  <2> QED
    BY <2>1, <2>2 DEF Executions
<1>5. Broadcasts' = Broadcasts
  BY <1>1, <1>2 DEF Broadcasts
<1>6. PendingMessages' = PendingMessages
  <2>0. /\ passed \in Nat /\ Limit \in Nat /\ Limit <= Len(queued) /\ Len(queued) \in Nat
        /\ \A i \in 1..Len(queued) : queued[i].kind # "broadcast" => queued[i].request \in 1..received
    BY CountType DEF IInv, Types, ServerTypes, CallTypes
  <2>1. ASSUME NEW i \in 1..(Limit - passed)
        PROVE  AsMessage(queued[passed + i])' = AsMessage(queued[passed + i])
    <3>1. passed + i \in 1..Len(queued)
      BY <2>0
    <3>2. ASSUME queued[passed + i].kind # "broadcast"
          PROVE  arrived'[queued[passed + i].request] = arrived[queued[passed + i].request]
      <4>1. queued[passed + i].request \in 1..Len(arrived)
        BY <1>t, <2>0, <3>1, <3>2
      <4> QED
        BY <1>3, <4>1
    <3> QED
      BY <1>1, <3>2 DEF AsMessage
  <2>2. Unsent' = [i \in 1..(Limit - passed) |-> AsMessage(queued[passed + i])']
    BY <1>1, <1>2 DEF Unsent
  <2>3. Unsent' = Unsent
    BY <2>1, <2>2 DEF Unsent
  <2> QED
    BY <1>1, <2>3 DEF PendingMessages
<1>7. PendingRequests' = PendingRequests
  <2> DEFINE front == SubSeq(arrived, Handled + 1, Len(arrived))
             more  == SubSeq(arrived', Handled + 1, Len(arrived) + 1)
             h     == Head(wire)
             rest  == Tail(wire)
  <2>1. front \in Seq(Requests) /\ Len(front) = Len(arrived) - Handled
        /\ \A i \in 1..Len(front) : front[i] = arrived[Handled + i]
    BY <1>t, SubSeqProperties
  <2>2. more \in Seq(Requests) /\ Len(more) = Len(arrived) + 1 - Handled
        /\ \A i \in 1..Len(more) : more[i] = arrived'[Handled + i]
    BY <1>t, <1>3, SubSeqProperties
  <2>3. PendingRequests = front \o wire /\ PendingRequests' = more \o rest
    BY <1>1, <1>2, <1>3 DEF PendingRequests
  <2>4. h \in Requests /\ rest \in Seq(Requests) /\ wire = <<h>> \o rest
    BY <1>t
  <2>a. arrived'[Len(arrived) + 1] = h
    BY <1>3
  <2> HIDE DEF front, more, h, rest
  <2>5. more = Append(front, h)
    <3>1. /\ Append(front, h) \in Seq(Requests) /\ Len(Append(front, h)) = Len(front) + 1
          /\ \A i \in 1..(Len(front) + 1) :
               Append(front, h)[i] = IF i = Len(front) + 1 THEN h ELSE front[i]
      BY <2>1, <2>4
    <3>2. Len(more) = Len(front) + 1 /\ Len(front) \in Nat
      BY <1>t, <2>1, <2>2
    <3>3. ASSUME NEW i \in 1..Len(more) PROVE more[i] = Append(front, h)[i]
      <4>1. CASE i = Len(front) + 1
        BY <1>t, <2>1, <2>2, <2>a, <3>1, <3>2, <4>1
      <4>2. CASE i \in 1..Len(front)
        BY <1>t, <1>3, <2>1, <2>2, <3>1, <3>2, <4>2
      <4> QED
        BY <3>2, <4>1, <4>2
    <3> QED
      BY <2>2, <3>1, <3>2, <3>3, SeqEqual
  <2>6. Append(front, h) \o rest = front \o (<<h>> \o rest)
    BY <2>1, <2>4, FirstMoves
  <2> QED
    BY <2>3, <2>4, <2>5, <2>6
<1> QED
  BY <1>1, <1>4, <1>5, <1>6, <1>7, NothingSeen

\* The status ends the client's side of the call: after everything was served,
\* or as one that is over for the client before.
LEMMA StatusSeen == ASSUME IInv, IInv', StatusArrives PROVE ClientView!Next
<1>1. /\ pc = "returned" /\ connection = "connected" /\ callState = "open"
      /\ callState' = "ended" \/ callState' = "aborted"
      /\ cut' = Len(queued)
      /\ UNCHANGED <<connection, issued, oneWays, callerPc, cur, futures, tcs, replyTo, lock, sub,
                     taken, disposed, cts, dpc, unvisited, waitForDisconnect, halfClosed>>
      /\ UNCHANGED <<serverVars, wire, inbox, arrived, marked>>
  BY DEF StatusArrives
<1>2. UNCHANGED <<pc, received, queued>>
  BY <1>1 DEF serverVars
<1>3. Handled' = Handled /\ Limit' = Limit
  BY <1>1, <1>2 DEF Handled, Limit
<1>4. UNCHANGED <<PendingRequests, Executions, Broadcasts>>
  BY <1>1, <1>2, <1>3 DEF PendingRequests, Executions, Broadcasts
<1> USE DEF ClientView!callerVars, ClientView!futureVars, ClientView!subVars, ClientView!disposeVars
<1>5. CASE callState' = "ended"
  <2>1. halfClosed /\ wire = <<>> /\ received = sent /\ marked /\ pc = "returned"
    BY <1>5, StatusFacts
  <2>2. PendingRequests = <<>>
    <3>1. Handled = Len(arrived) /\ Len(arrived) \in Nat /\ arrived \in Seq(Requests)
      BY <2>1, IdType DEF Handled, IInv, Types, ServerTypes, CallTypes
    <3>2. SubSeq(arrived, Handled + 1, Len(arrived)) = <<>>
      BY <3>1, SubSeqEmpty
    <3> QED
      BY <2>1, <3>2, ConcatEmptySeq, EmptySeq DEF PendingRequests
  <2>3. PendingMessages' = inbox
    <3>1. marked' /\ passed' = Len(queued) /\ Limit' = Len(queued) /\ Len(queued) \in Nat
      BY <1>1, <1>5, <2>1, CountType DEF StatusArrives, Limit
    <3>2. Unsent' = <<>>
      <4>1. Unsent' \in Seq(Messages) /\ Len(Unsent') = 0
        BY <3>1, ViewShapeNext DEF ViewShape
      <4> QED
        BY <4>1, EmptySeq
    <3>3. After' = <<>>
      BY <3>1, <3>2, ConcatEmptySeq, EmptySeq DEF After
    <3>4. PendingMessages' = inbox \o <<>> /\ inbox \in Seq(Messages)
      BY <1>1, <3>3, ViewShapeNext DEF ViewShape, IInv, Types, CallTypes
    <3> QED
      BY <3>4, ConcatEmptySeq
  <2>4. \E n \in 0..Len(PendingMessages) : PendingMessages' = SubSeq(PendingMessages, 1, n)
    <3>1. PendingMessages = inbox \o After /\ inbox \in Seq(Messages) /\ After \in Seq(Messages)
      BY ViewTypes DEF IInv, Types, CallTypes
    <3>2. Len(inbox) \in 0..Len(PendingMessages) /\ SubSeq(PendingMessages, 1, Len(inbox)) = inbox
      BY <3>1, FirstIsPrefix
    <3> QED
      BY <2>3, <3>2
  <2>5. ClientView!EndCall
    BY <1>1, <1>4, <1>5, <2>1, <2>2, <2>4 DEF ClientView!EndCall
  <2> QED
    BY <2>5 DEF ClientView!Next, ClientView!ServerStep
<1>6. CASE callState' = "aborted"
  <2>1. passed' = passed
    BY <1>6 DEF StatusArrives
  <2>2. Unsent' = Unsent
    BY <1>1, <1>2, <1>3, <2>1 DEF Unsent, AsMessage
  <2>3. PendingMessages' = PendingMessages
    BY <1>1, <2>2 DEF PendingMessages
  <2>4. ClientView!Disconnect
    BY <1>1, <1>4, <1>6, <2>3 DEF ClientView!Disconnect
  <2> QED
    BY <2>4 DEF ClientView!Next
<1> QED
  BY <1>1, <1>5, <1>6

\* What is about groups, and what only the server learns, is not seen.
LEMMA UnseenSteps ==
  ASSUME IInv,
         \/ \E g \in Groups : ServerOnly(Server!LeaveAddedGroup(g))
         \/ \E t \in Server!Threads, g \in Groups : ServerOnly(Server!JoinGroup(t, g) \/ Server!LeaveGroup(t, g))
         \/ \E t \in 0..MaxRequests : RecordGroup(t)
         \/ \E r \in 1..MaxRequests : FinishDetached(r)
         \/ RequestsEnd \/ AbortArrives
  PROVE  UNCHANGED ClientView!vars
<1>1. UNCHANGED <<clientVars, callVars, pc, received, queued>>
  BY OtherGroupSteps, EndOfClientIInv
<1> QED
  BY <1>1, QuietSeen DEF Handled

\* Every step of the server and the call is a step of the environment, or
\* nothing the client sees.
LEMMA ServerStepsSeen ==
  ASSUME IInv, IInv', ServerSteps
  PROVE  ClientView!Next \/ UNCHANGED ClientView!vars
BY LoopSeen, AnswerSeen, BroadcastSeen, UnseenSteps, MarkerSeen, ConsumerSeen, ArriveSeen, StatusSeen
DEF ServerSteps

\* Every step of the connection is a step of HubClient, or nothing the client sees.
LEMMA StepSeen == IInv /\ IInv' /\ [Next]_vars => [ClientView!Next]_(ClientView!vars)
<1>1. ASSUME IInv, IInv', Next PROVE [ClientView!Next]_(ClientView!vars)
  BY <1>1, NextCases, ClientStepSeen, ServerStepsSeen
<1>2. ASSUME UNCHANGED vars PROVE UNCHANGED ClientView!vars
  <2>1. UNCHANGED <<clientVars, callVars, queued>> /\ Handled' = Handled
    BY <1>2 DEF vars, callVars, serverVars, Handled
  <2> QED
    BY <2>1, QuietSeen
<1> QED
  BY <1>1, <1>2

\* The real server behind the real call is an environment HubClient allows:
\* every behaviour of the connection is, as the client sees it, one of
\* HubClient, whatever the handlers, the queue and its consumer, the groups
\* and the end of the connection do.
THEOREM ServerKeepsAssumptions == Safety => ServerAsAssumed
<1>1. Init => ClientView!Init
  BY DEF Init
<1> QED
  BY <1>1, Invariance, StepSeen, PTL DEF Safety, ServerAsAssumed, ClientView!Safety
=============================================================================
