-------------------------- MODULE HubClientProofs ---------------------------
(***************************************************************************)
(* The safety of the client's calls for every number of threads, calls and *)
(* broadcasts, and every width of the message id.                          *)
(***************************************************************************)
EXTENDS HubClient, TLAPS

\* A caller that registers a future made a call with a response.
RegistersCall == \A c \in Callers : pc[c] = "registering" => cur[c] # NoCall

TypeInv == TypeOK /\ RegistersCall

\* Every id of a call is an Int32.
LEMMA IdType == \A k \in Calls : IdOf(k) \in Ids
BY IdAssumption DEF Calls, IdOf, Ids

\* Two calls of one connection have the same id only after all ids were used.
LEMMA IdInjective == \A k, l \in Calls : IdOf(k) = IdOf(l) => k = l
BY IdAssumption DEF Calls, IdOf

\* The ids the protocol uses for itself are ids.
LEMMA SpecialIds == OneWayId \in Ids /\ 0 \in Ids /\ -1 \in Ids
BY IdAssumption DEF Ids, OneWayId

\* Taking the head of a queue leaves a queue.
LEMMA TailType ==
  ASSUME NEW S, NEW q \in Seq(S), q # <<>>
  PROVE  Head(q) \in S /\ Tail(q) \in Seq(S)
OBVIOUS

\* A prefix of a queue is a queue.
LEMMA PrefixType ==
  ASSUME NEW S, NEW q \in Seq(S), NEW n \in 0..Len(q)
  PROVE  /\ SubSeq(q, 1, n) \in Seq(S)
         /\ DOMAIN SubSeq(q, 1, n) = 1..n /\ DOMAIN q = 1..Len(q)
         /\ \A i \in 1..n : SubSeq(q, 1, n)[i] = q[i]
OBVIOUS

\* The initial state has the types.
LEMMA InitTypeInv == Init => TypeInv
<1> SUFFICES ASSUME Init PROVE TypeInv
  OBVIOUS
<1> USE DEF Init
<1>1. /\ issued \in 0..MaxCalls /\ oneWays \in 0..MaxOneWay /\ broadcasts \in 0..MaxBroadcasts
      /\ cur \in [Callers -> 0..MaxCalls] /\ futures \in [Ids -> 0..MaxCalls]
      /\ replyTo \in [Calls -> 0..MaxCalls] /\ executions \in [Calls -> Nat]
  BY IdAssumption, BoundsAssumption DEF NoCall
<1>2. taken \in [future : 0..MaxCalls, kind : {"response", "error"}, call : 0..MaxCalls]
  BY IdAssumption DEF Nothing, NoCall
<1>3. wire \in Seq(Requests)
  OBVIOUS
<1>4. inbox \in Seq(Messages)
  <2>1. Marker \in Messages
    BY IdAssumption, SpecialIds DEF Marker, Messages, NoCall
  <2> QED
    BY <2>1
<1> QED
  BY <1>1, <1>2, <1>3, <1>4 DEF TypeInv, TypeOK, RegistersCall

\* What callers do keeps the types.
LEMMA CallerTypeInv ==
  ASSUME TypeInv, NEW c \in Callers,
         BeginCall(c) \/ BeginFireAndForget(c) \/ CallerStep(c)
  PROVE  TypeInv'
<1> USE DEF TypeInv, RegistersCall, callerVars, futureVars, subVars, disposeVars, netVars
<1>1. CASE BeginCall(c)
  <2>1. issued' \in 0..MaxCalls /\ issued + 1 \in 0..MaxCalls /\ issued + 1 # NoCall
    BY <1>1, IdAssumption DEF TypeOK, BeginCall, NoCall
  <2>2. cur' \in [Callers -> 0..MaxCalls]
    BY <1>1, <2>1 DEF TypeOK, BeginCall
  <2>3. RegistersCall'
    BY <1>1, <2>1 DEF TypeOK, BeginCall
  <2> QED
    BY <1>1, <2>1, <2>2, <2>3 DEF TypeOK, BeginCall
<1>2. CASE RegisterFuture(c)
  <2>1. cur[c] \in Calls
    BY <1>2 DEF TypeOK, RegisterFuture, NoCall, Calls
  <2>2. futures' \in [Ids -> 0..MaxCalls]
    BY <1>2 DEF TypeOK, RegisterFuture
  <2>3. tcs' \in [Calls -> {"unused", "pending", "result", "error", "canceled"}]
    BY <1>2 DEF TypeOK, RegisterFuture
  <2>4. /\ pc' = [pc EXCEPT ![c] = "locking"]
        /\ UNCHANGED <<connection, issued, oneWays, cur, lock, replyTo,
                       subVars, disposeVars, netVars>>
    BY <1>2 DEF RegisterFuture
  <2> QED
    BY <2>2, <2>3, <2>4 DEF TypeOK
<1>3. CASE BeginFireAndForget(c)
  <2>1. oneWays' \in 0..MaxOneWay
    BY <1>3, BoundsAssumption DEF TypeOK, BeginFireAndForget
  <2>2. cur' \in [Callers -> 0..MaxCalls]
    BY <1>3, IdAssumption DEF TypeOK, BeginFireAndForget, NoCall
  <2> QED
    BY <1>3, <2>1, <2>2 DEF TypeOK, BeginFireAndForget
<1>4. CASE AcquireLock(c)
  BY <1>4 DEF TypeOK, AcquireLock
<1>5. CASE StartWrite(c)
  BY <1>5 DEF TypeOK, StartWrite
<1>6. CASE WriteThrows(c)
  BY <1>6 DEF TypeOK, WriteThrows
<1>7. CASE WriteCompletes(c)
  <2>1. wire' \in Seq(Requests)
    <3>1. Request(OneWayId, NoCall) \in Requests
      BY SpecialIds, IdAssumption DEF Request, Requests, NoCall
    <3>2. cur[c] # NoCall => Request(IdOf(cur[c]), cur[c]) \in Requests
      BY IdType DEF TypeOK, Request, Requests, NoCall, Calls
    <3> QED
      BY <1>7, <3>1, <3>2 DEF TypeOK, WriteCompletes
  <2> QED
    BY <1>7, <2>1 DEF TypeOK, WriteCompletes
<1>8. CASE ReturnToCaller(c)
  BY <1>8 DEF TypeOK, ReturnToCaller
<1> QED
  BY <1>1, <1>2, <1>3, <1>4, <1>5, <1>6, <1>7, <1>8 DEF CallerStep

\* What the subscription does keeps the types.
LEMMA SubTypeInv ==
  ASSUME TypeInv, SubStep
  PROVE  TypeInv'
<1> USE DEF TypeInv, RegistersCall, callerVars, futureVars, subVars, disposeVars, netVars
<1>1. CASE ReceiveResponse
  <2>1. Head(inbox) \in Messages /\ Tail(inbox) \in Seq(Messages)
    BY <1>1, TailType DEF TypeOK, ReceiveResponse
  <2>2. /\ Head(inbox).id \in Ids /\ Head(inbox).call \in 0..MaxCalls
        /\ Head(inbox).kind \in {"response", "error"}
    BY <1>1, <2>1 DEF Messages, ReceiveResponse
  <2>3. futures[Head(inbox).id] \in 0..MaxCalls
    BY <2>2 DEF TypeOK
  <2>4. futures' \in [Ids -> 0..MaxCalls]
    <3>1. futures' = futures \/ futures' = [futures EXCEPT ![Head(inbox).id] = NoCall]
      BY <1>1 DEF ReceiveResponse
    <3>2. NoCall \in 0..MaxCalls
      BY IdAssumption DEF NoCall
    <3> QED
      BY <3>1, <3>2 DEF TypeOK
  <2>5. taken' \in [future : 0..MaxCalls, kind : {"response", "error"}, call : 0..MaxCalls]
    BY <1>1, <2>2, <2>3 DEF TypeOK, ReceiveResponse
  <2>6. sub' \in {"settling", "advancing"} /\ inbox' \in Seq(Messages)
    BY <1>1, <2>1 DEF ReceiveResponse
  <2>7. UNCHANGED <<connection, callerVars, tcs, replyTo, waitForDisconnect, disposeVars,
                    callState, halfClosed, wire, executions, broadcasts>>
    BY <1>1 DEF ReceiveResponse
  <2> QED
    BY <2>4, <2>5, <2>6, <2>7 DEF TypeOK
<1>2. CASE ReceiveBroadcast
  <2>1. Tail(inbox) \in Seq(Messages)
    BY <1>2, TailType DEF TypeOK, ReceiveBroadcast
  <2> QED
    BY <1>2, <2>1 DEF TypeOK, ReceiveBroadcast
<1>3. CASE Advance
  BY <1>3 DEF TypeOK, Advance
<1>4. CASE StreamEnds
  BY <1>4 DEF TypeOK, StreamEnds
<1>5. CASE FinishSubscription
  BY <1>5 DEF TypeOK, FinishSubscription
<1>6. CASE \E outcome \in {"result", "error"} : SettleFuture(outcome)
  <2>1. PICK outcome \in {"result", "error"} : SettleFuture(outcome)
    BY <1>6
  <2>2. tcs' \in [Calls -> {"unused", "pending", "result", "error", "canceled"}]
    <3>1. tcs' = tcs \/ tcs' = [tcs EXCEPT ![taken.future] = outcome]
      BY <2>1 DEF SettleFuture
    <3> QED
      BY <3>1 DEF TypeOK
  <2>3. replyTo' \in [Calls -> 0..MaxCalls]
    BY <2>1 DEF TypeOK, SettleFuture
  <2>4. taken' \in [future : 0..MaxCalls, kind : {"response", "error"}, call : 0..MaxCalls]
    BY <2>1, IdAssumption DEF SettleFuture, Nothing, NoCall
  <2>5. /\ sub' = "advancing"
        /\ UNCHANGED <<connection, callerVars, futures, waitForDisconnect, disposeVars, netVars>>
    BY <2>1 DEF SettleFuture
  <2> QED
    BY <2>2, <2>3, <2>4, <2>5 DEF TypeOK
<1> QED
  BY <1>1, <1>2, <1>3, <1>4, <1>5, <1>6 DEF SubStep

\* What the tasks in DisposeAsyncCore do keeps the types.
LEMMA DisposeTypeInv ==
  ASSUME TypeInv, NEW d \in Tasks, StartDispose(d) \/ DisposeStep(d)
  PROVE  TypeInv'
<1> USE DEF TypeInv, RegistersCall, callerVars, futureVars, subVars, disposeVars, netVars
<1>1. CASE StartDispose(d) \/ MarkDisposed(d) \/ CompleteRequests(d) \/ CancelToken(d)
             \/ DisposeToken(d) \/ AwaitSubscription(d) \/ FinishCleanup(d)
  <2>1. dpc' \in [Tasks -> {"idle", "disposing", "completing", "cancelling", "closing",
                            "waiting", "cleaning", "returned", "faulted"}]
    <3>1. \E place \in {"disposing", "completing", "cancelling", "closing", "waiting",
                        "cleaning", "returned", "faulted"} : dpc' = [dpc EXCEPT ![d] = place]
      BY <1>1 DEF StartDispose, MarkDisposed, CompleteRequests, CancelToken, DisposeToken,
         AwaitSubscription, StartCleanup, FinishCleanup
    <3> QED
      BY <3>1 DEF TypeOK
  <2>2. /\ disposed' \in BOOLEAN /\ halfClosed' \in BOOLEAN
        /\ cts' \in {"live", "cancelled", "disposed"}
        /\ callState' \in {"open", "ended", "aborted"}
    BY <1>1 DEF TypeOK, StartDispose, MarkDisposed, CompleteRequests, CancelToken,
       DisposeToken, AwaitSubscription, FinishCleanup
  <2>3. UNCHANGED <<connection, callerVars, futureVars, subVars, wire, inbox, executions, broadcasts>>
    BY <1>1 DEF StartDispose, MarkDisposed, CompleteRequests, CancelToken, DisposeToken,
       AwaitSubscription, FinishCleanup
  <2>4. unvisited' \in [Tasks -> SUBSET Ids]
    <3>1. unvisited' = unvisited \/ StartCleanup(d)
      BY <1>1 DEF StartDispose, MarkDisposed, CompleteRequests, CancelToken, DisposeToken,
         AwaitSubscription, FinishCleanup
    <3>2. {i \in Ids : futures[i] # NoCall} \in SUBSET Ids
      OBVIOUS
    <3>3. StartCleanup(d) => unvisited' \in [Tasks -> SUBSET Ids]
      <4> DEFINE present == {i \in Ids : futures[i] # NoCall}
      <4>1. StartCleanup(d) => unvisited' = [unvisited EXCEPT ![d] = present]
        BY DEF StartCleanup
      <4>2. present \in SUBSET Ids
        BY <3>2
      <4> HIDE DEF present
      <4> QED
        BY <4>1, <4>2 DEF TypeOK
    <3> QED
      BY <3>1, <3>3 DEF TypeOK
  <2> QED
    BY <2>1, <2>2, <2>3, <2>4 DEF TypeOK
<1>2. CASE CancelFuture(d)
  <2>1. PICK i \in Ids :
          /\ tcs' = IF tcs[futures[i]] = "pending" THEN [tcs EXCEPT ![futures[i]] = "canceled"] ELSE tcs
          /\ unvisited' = [unvisited EXCEPT ![d] = @ \ {i}]
    BY <1>2 DEF CancelFuture
  <2>2. tcs' \in [Calls -> {"unused", "pending", "result", "error", "canceled"}]
    BY <2>1 DEF TypeOK
  <2>3. unvisited' \in [Tasks -> SUBSET Ids]
    BY <2>1 DEF TypeOK
  <2> QED
    BY <1>2, <2>2, <2>3 DEF TypeOK, CancelFuture
<1> QED
  BY <1>1, <1>2 DEF DisposeStep

\* What the environment does keeps the types.
LEMMA EnvironmentTypeInv ==
  ASSUME TypeInv,
         \/ \E header \in {"match", "mismatch", "absent"}, faulted \in BOOLEAN : Connect(header, faulted)
         \/ ServerStep \/ LateServe \/ SendBroadcast \/ Disconnect
  PROVE  TypeInv'
<1> USE DEF TypeInv, RegistersCall, callerVars, futureVars, subVars, disposeVars, netVars
<1>1. CASE \E header \in {"match", "mismatch", "absent"}, faulted \in BOOLEAN : Connect(header, faulted)
  BY <1>1 DEF TypeOK, Connect
<1>2. CASE \E kind \in {"response", "error"} : Serve(kind)
  <2>1. PICK kind \in {"response", "error"} : Serve(kind)
    BY <1>2
  <2>2. Head(wire) \in Requests /\ Tail(wire) \in Seq(Requests)
    BY <2>1, TailType DEF TypeOK, Serve
  <2>3. Message(kind, Head(wire).id, Head(wire).call) \in Messages
    BY <2>2 DEF Message, Messages, Requests
  <2>4. inbox' \in Seq(Messages)
    BY <2>1, <2>3 DEF TypeOK, Serve
  <2>5. executions' \in [Calls -> Nat]
    BY <2>1 DEF TypeOK, Serve
  <2>6. /\ wire' = Tail(wire)
        /\ UNCHANGED <<connection, callerVars, futureVars, subVars, disposeVars,
                       callState, halfClosed, broadcasts>>
    BY <2>1 DEF Serve
  <2> QED
    BY <2>2, <2>4, <2>5, <2>6 DEF TypeOK
<1>3. CASE Disconnect
  BY <1>3 DEF TypeOK, Disconnect
<1>5. CASE EndCall
  <2>1. inbox' \in Seq(Messages)
    BY <1>5, PrefixType DEF TypeOK, EndCall
  <2> QED
    BY <1>5, <2>1 DEF TypeOK, EndCall
<1>6. CASE LateServe
  <2>1. wire' \in Seq(Requests)
    BY <1>6, TailType DEF TypeOK, LateServe
  <2>2. executions' \in [Calls -> Nat]
    BY <1>6 DEF TypeOK, LateServe
  <2> QED
    BY <1>6, <2>1, <2>2 DEF TypeOK, LateServe
<1>4. CASE SendBroadcast
  <2>1. broadcasts' \in 0..MaxBroadcasts
    BY <1>4, BoundsAssumption DEF TypeOK, SendBroadcast
  <2>2. Message("broadcast", 0, NoCall) \in Messages
    BY SpecialIds, IdAssumption DEF Message, Messages, NoCall
  <2>3. inbox' \in Seq(Messages)
    BY <1>4, <2>2 DEF TypeOK, SendBroadcast
  <2> QED
    BY <1>4, <2>1, <2>3 DEF TypeOK, SendBroadcast
<1> QED
  BY <1>1, <1>2, <1>3, <1>4, <1>5, <1>6 DEF ServerStep

\* The types hold in every reachable state.
LEMMA TypeInvariance == Safety => []TypeInv
<1>1. TypeInv /\ [Next]_vars => TypeInv'
  <2>1. ASSUME TypeInv, Next PROVE TypeInv'
    BY <2>1, CallerTypeInv, SubTypeInv, DisposeTypeInv, EnvironmentTypeInv DEF Next
  <2>2. ASSUME TypeInv, UNCHANGED vars PROVE TypeInv'
    BY <2>2 DEF vars, callerVars, futureVars, subVars, disposeVars, netVars, TypeInv, TypeOK, RegistersCall
  <2> QED
    BY <2>1, <2>2
<1> QED
  BY <1>1, InitTypeInv, PTL DEF Safety

\* The variables of the client keep their types.
THEOREM Typing == Safety => []TypeOK
<1>1. TypeInv => TypeOK
  BY DEF TypeInv
<1> QED
  BY <1>1, TypeInvariance, PTL
-----------------------------------------------------------------------------
\* Only a caller takes the AsyncLock, when nobody has it, and only its holder
\* gives it back.
LEMMA NextWriterExclusive ==
  ASSUME TypeInv, WriterExclusive, Next
  PROVE  WriterExclusive'
<1> USE DEF WriterExclusive, callerVars, futureVars, subVars, disposeVars, netVars
<1>a. pc = [c \in Callers |-> pc[c]]
  BY DEF TypeInv, TypeOK
<1>1. ASSUME NEW c \in Callers, BeginCall(c) \/ BeginFireAndForget(c) \/ CallerStep(c)
      PROVE  WriterExclusive'
  <2>1. CASE AcquireLock(c)
    <3>1. \A e \in Callers : pc[e] \notin {"locked", "writing"}
      BY <2>1, ThreadsAssumption DEF AcquireLock
    <3> QED
      BY <1>a, <2>1, <3>1 DEF AcquireLock
  <2>2. CASE WriteThrows(c) \/ WriteCompletes(c)
    <3>1. lock = c /\ \A e \in Callers : e # c => pc[e] \notin {"locked", "writing"}
      BY <2>2 DEF WriteThrows, WriteCompletes
    <3>2. \E place \in {"idle", "awaiting"} : pc' = [pc EXCEPT ![c] = place]
      BY <2>2 DEF WriteThrows, WriteCompletes
    <3> QED
      BY <1>a, <3>1, <3>2
  <2>3. CASE StartWrite(c)
    BY <1>a, <2>3 DEF StartWrite
  <2>4. CASE BeginCall(c) \/ BeginFireAndForget(c) \/ RegisterFuture(c) \/ ReturnToCaller(c)
    <3>1. /\ \E place \in {"idle", "registering", "locking"} : pc' = [pc EXCEPT ![c] = place]
          /\ UNCHANGED lock
      BY <2>4 DEF BeginCall, BeginFireAndForget, RegisterFuture, ReturnToCaller
    <3> QED
      BY <1>a, <3>1
  <2> QED
    BY <1>1, <2>1, <2>2, <2>3, <2>4 DEF CallerStep
<1>2. CASE \/ \E header \in {"match", "mismatch", "absent"}, faulted \in BOOLEAN : Connect(header, faulted)
           \/ SubStep
           \/ \E d \in Tasks : StartDispose(d) \/ DisposeStep(d)
           \/ ServerStep \/ LateServe \/ SendBroadcast \/ Disconnect
  <2>1. UNCHANGED <<pc, lock>>
    BY <1>2 DEF Connect, SubStep, ReceiveResponse, ReceiveBroadcast, Advance, StreamEnds,
       FinishSubscription, SettleFuture, StartDispose, DisposeStep, MarkDisposed,
       CompleteRequests, CancelToken, DisposeToken, AwaitSubscription, CancelFuture, FinishCleanup,
       ServerStep,
       Serve, EndCall, LateServe, SendBroadcast, Disconnect
  <2> QED
    BY <2>1
<1> QED
  BY <1>1, <1>2 DEF Next

\* At most one WriteAsync is pending on the request stream, whatever the number
\* of threads that make calls.
THEOREM OneWrite == Safety => []WriterExclusive
<1>1. Init => WriterExclusive
  BY DEF Init, WriterExclusive
<1>2. TypeInv /\ WriterExclusive /\ [Next]_vars => WriterExclusive'
  <2>1. ASSUME TypeInv, WriterExclusive, Next PROVE WriterExclusive'
    BY <2>1, NextWriterExclusive
  <2>2. ASSUME WriterExclusive, UNCHANGED vars PROVE WriterExclusive'
    BY <2>2 DEF vars, callerVars, WriterExclusive
  <2> QED
    BY <2>1, <2>2
<1> QED
  BY <1>1, <1>2, TypeInvariance, PTL DEF Safety
-----------------------------------------------------------------------------
(***************************************************************************)
(* A response finds its future.  A call has one message in flight at most, *)
(* and none before it is written; the entry of the table that its response *)
(* will look up is its own and is removed by that response only.           *)
(***************************************************************************)
Queued(q)   == {q[i] : i \in DOMAIN q}
CallsIn(q)  == {m.call : m \in Queued(q)}
OnceEach(q) == \A i, j \in DOMAIN q : q[i].call = q[j].call /\ q[i].call \in Calls => i = j

\* The calls with a request or a response in flight.
InFlight(k) == k \in CallsIn(wire) \cup CallsIn(inbox)

BeforeWrite == {"registering", "locking", "locked", "writing"}
Registered  == {"locking", "locked", "writing"}

\* Calls are numbered as they are begun.
InOrderOfIssue ==
  /\ \A c \in Callers : cur[c] <= issued
  /\ \A k \in Calls : InFlight(k) => k <= issued

\* A call belongs to one caller, and is not in flight before it is written.
OneCaller ==
  \A c \in Callers : pc[c] \in BeforeWrite /\ cur[c] \in Calls =>
    /\ ~InFlight(cur[c])
    /\ \A e \in Callers : pc[e] \in BeforeWrite /\ cur[e] = cur[c] => e = c

OneMessage ==
  /\ OnceEach(wire) /\ OnceEach(inbox)
  /\ \A k \in Calls : ~(k \in CallsIn(wire) /\ k \in CallsIn(inbox))

Matching(m) == m.id = IF m.call \in Calls THEN IdOf(m.call) ELSE OneWayId

IdsMatch ==
  /\ \A m \in Queued(wire) : Matching(m)
  /\ \A m \in Queued(inbox) : IF m.kind = "broadcast" THEN m.call = NoCall ELSE Matching(m)
  /\ \A i \in Ids : futures[i] # NoCall => i = IdOf(futures[i])

\* The table has the future of every call that is registered and not answered.
FuturesKept ==
  \A k \in Calls :
    /\ InFlight(k) \/ \E c \in Callers : pc[c] \in Registered /\ cur[c] = k
    /\ tcs[k] = "pending"
    => futures[IdOf(k)] = k

FlightInv == InOrderOfIssue /\ OneCaller /\ OneMessage /\ IdsMatch /\ FuturesKept

\* What appending a message does to a queue.
LEMMA AppendQueue ==
  ASSUME NEW S, NEW q \in Seq(S), NEW m \in S
  PROVE  /\ Queued(Append(q, m)) = Queued(q) \cup {m}
         /\ OnceEach(q) /\ (m.call \in Calls => m.call \notin CallsIn(q))
              => OnceEach(Append(q, m))
<1> DEFINE p == Append(q, m)
<1>1. /\ DOMAIN p = 1..(Len(q) + 1) /\ DOMAIN q = 1..Len(q) /\ Len(q) \in Nat
      /\ \A i \in 1..Len(q) : p[i] = q[i]
      /\ p[Len(q) + 1] = m
  OBVIOUS
<1> HIDE DEF p
<1>2. Queued(p) = Queued(q) \cup {m}
  <2>1. ASSUME NEW x \in Queued(p) PROVE x \in Queued(q) \cup {m}
    BY <1>1 DEF Queued
  <2>2. ASSUME NEW x \in Queued(q) PROVE x \in Queued(p)
    <3>1. PICK i \in DOMAIN q : x = q[i]
      BY DEF Queued
    <3>2. i \in DOMAIN p /\ p[i] = x
      BY <1>1, <3>1
    <3> QED
      BY <3>2 DEF Queued
  <2>3. m \in Queued(p)
    <3>1. Len(q) + 1 \in DOMAIN p
      BY <1>1
    <3> QED
      BY <1>1, <3>1 DEF Queued
  <2> QED
    BY <2>1, <2>2, <2>3
<1>3. ASSUME OnceEach(q), m.call \in Calls => m.call \notin CallsIn(q),
             NEW i \in DOMAIN p, NEW j \in DOMAIN p, p[i].call = p[j].call, p[i].call \in Calls
      PROVE  i = j
  <2>1. CASE i \in DOMAIN q /\ j \in DOMAIN q
    BY <1>1, <1>3, <2>1 DEF OnceEach
  <2>2. \A l \in DOMAIN q : q[l].call = m.call => m.call \notin Calls
    BY <1>3 DEF CallsIn, Queued
  <2>3. CASE i \in DOMAIN q /\ j = Len(q) + 1
    BY <1>1, <1>3, <2>2, <2>3
  <2>4. CASE i = Len(q) + 1 /\ j \in DOMAIN q
    BY <1>1, <1>3, <2>2, <2>4
  <2> QED
    BY <1>1, <2>1, <2>3, <2>4
<1>4. OnceEach(q) /\ (m.call \in Calls => m.call \notin CallsIn(q)) => OnceEach(p)
  BY <1>3 DEF OnceEach
<1> QED
  BY <1>2, <1>4 DEF p

\* What cutting off the end of a queue does to it.
LEMMA PrefixQueue ==
  ASSUME NEW S, NEW q \in Seq(S), NEW n \in 0..Len(q)
  PROVE  /\ Queued(SubSeq(q, 1, n)) \subseteq Queued(q)
         /\ OnceEach(q) => OnceEach(SubSeq(q, 1, n))
<1> DEFINE p == SubSeq(q, 1, n)
<1>1. /\ DOMAIN p = 1..n /\ DOMAIN q = 1..Len(q) /\ n <= Len(q)
      /\ \A i \in 1..n : p[i] = q[i]
  BY PrefixType
<1> HIDE DEF p
<1>2. \A i \in DOMAIN p : i \in DOMAIN q /\ p[i] = q[i]
  BY <1>1
<1>3. Queued(p) \subseteq Queued(q) /\ (OnceEach(q) => OnceEach(p))
  BY <1>2 DEF Queued, OnceEach
<1> QED
  BY <1>3 DEF p

\* What taking the head of a queue does to it.
LEMMA TailQueue ==
  ASSUME NEW S, NEW q \in Seq(S), q # <<>>
  PROVE  /\ Head(q) \in Queued(q)
         /\ Queued(Tail(q)) \subseteq Queued(q)
         /\ OnceEach(q) => /\ OnceEach(Tail(q))
                           /\ Head(q).call \in Calls => Head(q).call \notin CallsIn(Tail(q))
<1> DEFINE p == Tail(q)
<1>1. /\ DOMAIN p = 1..(Len(q) - 1) /\ DOMAIN q = 1..Len(q) /\ Len(q) \in Nat \ {0}
      /\ \A i \in 1..(Len(q) - 1) : p[i] = q[i + 1]
      /\ Head(q) = q[1]
  OBVIOUS
<1> HIDE DEF p
<1>2. Head(q) \in Queued(q)
  <2>1. 1 \in DOMAIN q
    BY <1>1
  <2> QED
    BY <1>1, <2>1 DEF Queued
<1>3. Queued(p) \subseteq Queued(q)
  <2> SUFFICES ASSUME NEW i \in DOMAIN p PROVE p[i] \in Queued(q)
    BY DEF Queued
  <2>1. i + 1 \in DOMAIN q /\ p[i] = q[i + 1]
    BY <1>1
  <2> QED
    BY <2>1 DEF Queued
<1>4. ASSUME OnceEach(q) PROVE OnceEach(p)
  <2> SUFFICES ASSUME NEW i \in DOMAIN p, NEW j \in DOMAIN p, p[i].call = p[j].call,
                      p[i].call \in Calls
               PROVE  i = j
    BY DEF OnceEach
  <2>1. /\ i + 1 \in DOMAIN q /\ p[i] = q[i + 1]
        /\ j + 1 \in DOMAIN q /\ p[j] = q[j + 1]
    BY <1>1
  <2>2. i + 1 = j + 1
    BY <1>4, <2>1 DEF OnceEach
  <2> QED
    BY <1>1, <2>2
<1>5. ASSUME OnceEach(q), Head(q).call \in Calls PROVE Head(q).call \notin CallsIn(p)
  <2> SUFFICES ASSUME NEW i \in DOMAIN p, p[i].call = Head(q).call PROVE FALSE
    BY DEF CallsIn, Queued
  <2>1. i + 1 \in DOMAIN q /\ p[i] = q[i + 1] /\ 1 \in DOMAIN q /\ i + 1 # 1
    BY <1>1
  <2> QED
    BY <1>1, <1>5, <2>1 DEF OnceEach
<1> QED
  BY <1>2, <1>3, <1>4, <1>5 DEF p

\* What a caller does keeps a message, a future and a call together.
LEMMA CallerFlight ==
  ASSUME TypeInv, FlightInv, NEW c \in Callers,
         BeginCall(c) \/ BeginFireAndForget(c) \/ CallerStep(c)
  PROVE  FlightInv'
<1> USE DEF FlightInv, BeforeWrite, Registered, callerVars, futureVars, subVars, disposeVars, netVars
<1>a. /\ pc = [e \in Callers |-> pc[e]] /\ cur \in [Callers -> 0..MaxCalls]
      /\ futures \in [Ids -> 0..MaxCalls] /\ tcs = [k \in Calls |-> tcs[k]]
      /\ issued \in Nat /\ Calls \subseteq Nat /\ NoCall \notin Calls
      /\ wire \in Seq(Requests) /\ inbox \in Seq(Messages)
  BY IdAssumption DEF TypeInv, TypeOK, Calls, NoCall
<1>b. \A e \in Callers : cur[e] \in Nat /\ (cur[e] # NoCall => cur[e] \in Calls)
  BY IdAssumption DEF TypeInv, TypeOK, Calls, NoCall
<1>c. UNCHANGED <<wire, inbox>> => \A k : InFlight(k)' <=> InFlight(k)
  BY DEF InFlight, CallsIn, Queued
<1>d. UNCHANGED <<wire, inbox>> => OneMessage'
  BY DEF OneMessage, OnceEach, CallsIn, Queued
<1>e. UNCHANGED <<wire, inbox, futures>> => IdsMatch'
  BY DEF IdsMatch, Matching, Queued
<1>1. CASE BeginCall(c)
  <2>1. /\ pc[c] = "idle" /\ pc' = [pc EXCEPT ![c] = "registering"]
        /\ issued' = issued + 1 /\ cur' = [cur EXCEPT ![c] = issued + 1]
        /\ UNCHANGED <<wire, inbox, futures, tcs>>
    BY <1>1 DEF BeginCall
  <2>2. InOrderOfIssue'
    BY <1>a, <1>b, <1>c, <2>1 DEF InOrderOfIssue
  <2>3. OneCaller'
    <3>1. ~InFlight(issued + 1) \/ issued + 1 \notin Calls
      BY <1>a DEF InOrderOfIssue
    <3>2. ASSUME NEW e \in Callers PROVE cur[e] # issued + 1
      <4>1. cur[e] \in Nat /\ cur[e] <= issued /\ issued \in Nat
        BY <1>a, <1>b DEF InOrderOfIssue
      <4> QED
        BY <4>1
    <3> QED
      BY <1>a, <1>c, <2>1, <3>1, <3>2 DEF OneCaller
  <2>4. FuturesKept'
    BY <1>a, <1>c, <2>1 DEF FuturesKept
  <2> QED
    BY <1>d, <1>e, <2>1, <2>2, <2>3, <2>4
<1>2. CASE RegisterFuture(c)
  <2>1. /\ pc[c] = "registering" /\ pc' = [pc EXCEPT ![c] = "locking"]
        /\ futures' = [futures EXCEPT ![IdOf(cur[c])] = cur[c]]
        /\ tcs' = [tcs EXCEPT ![cur[c]] = "pending"]
        /\ UNCHANGED <<wire, inbox, cur, issued>>
    BY <1>2 DEF RegisterFuture
  <2>2. cur[c] \in Calls /\ IdOf(cur[c]) \in Ids
    BY <1>b, <2>1, IdType DEF TypeInv, RegistersCall
  <2>3. InOrderOfIssue'
    BY <1>c, <2>1 DEF InOrderOfIssue
  <2>4. OneCaller'
    BY <1>a, <1>c, <2>1 DEF OneCaller
  <2>5. IdsMatch'
    <3>1. UNCHANGED <<Queued(wire), Queued(inbox)>>
      BY <2>1 DEF Queued
    <3>2. \A i \in Ids : futures'[i] # NoCall => i = IdOf(futures'[i])
      BY <1>a, <2>1, <2>2 DEF IdsMatch
    <3> QED
      BY <3>1, <3>2 DEF IdsMatch, Matching
  <2>6. FuturesKept'
    <3> SUFFICES ASSUME NEW k \in Calls, tcs'[k] = "pending",
                        InFlight(k)' \/ \E e \in Callers : pc'[e] \in Registered /\ cur'[e] = k
                 PROVE  futures'[IdOf(k)] = k
      BY DEF FuturesKept
    <3>1. CASE k = cur[c]
      BY <1>a, <2>1, <2>2, <3>1
    <3>2. CASE k # cur[c]
      <4>1. IdOf(k) \in Ids /\ IdOf(k) # IdOf(cur[c])
        BY <2>2, <3>2, IdType, IdInjective
      <4>2. tcs[k] = "pending"
        BY <1>a, <2>1, <3>2
      <4>3. InFlight(k) \/ \E e \in Callers : pc[e] \in Registered /\ cur[e] = k
        BY <1>a, <1>c, <2>1, <3>2
      <4> QED
        BY <1>a, <2>1, <4>1, <4>2, <4>3 DEF FuturesKept
    <3> QED
      BY <3>1, <3>2
  <2> QED
    BY <1>d, <2>1, <2>3, <2>4, <2>5, <2>6
<1>3. CASE BeginFireAndForget(c)
  <2>1. /\ pc' = [pc EXCEPT ![c] = "locking"] /\ cur' = [cur EXCEPT ![c] = NoCall]
        /\ UNCHANGED <<wire, inbox, futures, tcs, issued>>
    BY <1>3 DEF BeginFireAndForget
  <2>2. InOrderOfIssue'
    BY <1>a, <1>b, <1>c, <2>1 DEF InOrderOfIssue, NoCall
  <2>3. OneCaller'
    BY <1>a, <1>c, <2>1 DEF OneCaller
  <2>4. FuturesKept'
    BY <1>a, <1>c, <2>1 DEF FuturesKept
  <2> QED
    BY <1>d, <1>e, <2>1, <2>2, <2>3, <2>4
<1>4. CASE AcquireLock(c) \/ StartWrite(c) \/ WriteThrows(c) \/ ReturnToCaller(c)
  <2>1. /\ \/ pc[c] \in Registered /\ pc' = [pc EXCEPT ![c] = "locked"]
           \/ pc[c] \in Registered /\ pc' = [pc EXCEPT ![c] = "writing"]
           \/ pc' = [pc EXCEPT ![c] = "idle"]
        /\ UNCHANGED <<wire, inbox, futures, tcs, issued, cur>>
    BY <1>4 DEF AcquireLock, StartWrite, WriteThrows, ReturnToCaller
  <2>2. InOrderOfIssue'
    BY <1>c, <2>1 DEF InOrderOfIssue
  <2>3. OneCaller'
    BY <1>a, <1>c, <2>1 DEF OneCaller
  <2>4. FuturesKept'
    BY <1>a, <1>c, <2>1 DEF FuturesKept
  <2> QED
    BY <1>d, <1>e, <2>1, <2>2, <2>3, <2>4
<1>5. CASE WriteCompletes(c)
  <2> DEFINE m == IF cur[c] = NoCall THEN Request(OneWayId, NoCall) ELSE Request(IdOf(cur[c]), cur[c])
  <2>1. /\ pc[c] = "writing" /\ wire' = Append(wire, m)
        /\ pc' = [pc EXCEPT ![c] = IF cur[c] = NoCall THEN "idle" ELSE "awaiting"]
        /\ UNCHANGED <<inbox, futures, tcs, issued, cur>>
    BY <1>5 DEF WriteCompletes
  <2>2. m \in Requests /\ m.call = cur[c] /\ Matching(m)
    <3>1. CASE cur[c] = NoCall
      BY <1>a, <3>1, SpecialIds, IdAssumption DEF Request, Requests, Matching, NoCall
    <3>2. CASE cur[c] # NoCall
      BY <1>b, <3>2, IdType DEF Request, Requests, Matching, Calls
    <3> QED
      BY <3>1, <3>2
  <2> HIDE DEF m
  <2>3. ~InFlight(cur[c]) \/ cur[c] \notin Calls
    BY <2>1 DEF OneCaller
  <2>4. Queued(wire)' = Queued(wire) \cup {m} /\ OnceEach(wire)'
    BY <1>a, <2>1, <2>2, <2>3, AppendQueue DEF OneMessage, InFlight
  <2>5. CallsIn(wire)' = CallsIn(wire) \cup {cur[c]} /\ CallsIn(inbox)' = CallsIn(inbox)
    BY <2>1, <2>2, <2>4 DEF CallsIn, Queued
  <2>6. \A k : InFlight(k)' <=> InFlight(k) \/ k = cur[c]
    BY <2>5 DEF InFlight
  <2>7. InOrderOfIssue'
    BY <2>1, <2>6 DEF InOrderOfIssue
  <2>8. OneCaller'
    BY <1>a, <2>1, <2>6 DEF OneCaller
  <2>9. OneMessage'
    <3>1. OnceEach(inbox)'
      BY <2>1 DEF OneMessage, OnceEach
    <3> QED
      BY <2>3, <2>4, <2>5, <3>1 DEF OneMessage, InFlight
  <2>10. IdsMatch'
    <3>1. UNCHANGED Queued(inbox)
      BY <2>1 DEF Queued
    <3> QED
      BY <2>1, <2>2, <2>4, <3>1 DEF IdsMatch, Matching
  <2>11. FuturesKept'
    BY <1>a, <2>1, <2>6 DEF FuturesKept
  <2> QED
    BY <2>7, <2>8, <2>9, <2>10, <2>11
<1> QED
  BY <1>1, <1>2, <1>3, <1>4, <1>5 DEF CallerStep

\* Taking a response removes its own future: that of no other call.
LEMMA ReceiveFlight ==
  ASSUME MaxCalls <= 2 * IdMax, TypeInv, FlightInv, ReceiveResponse
  PROVE  FlightInv'
<1> USE DEF FlightInv, callerVars, disposeVars
<1> DEFINE m == Head(inbox)
<1>1. /\ inbox # <<>> /\ m.kind # "broadcast" /\ inbox' = Tail(inbox)
      /\ futures' = futures \/ (futures[m.id] # NoCall /\ futures' = [futures EXCEPT ![m.id] = NoCall])
      /\ UNCHANGED <<wire, tcs, pc, cur, issued>>
  BY DEF ReceiveResponse
<1>2. inbox \in Seq(Messages) /\ futures \in [Ids -> 0..MaxCalls] /\ NoCall \notin Calls
  BY DEF TypeInv, TypeOK, Calls, NoCall
<1>3. /\ m \in Queued(inbox) /\ Queued(inbox)' \subseteq Queued(inbox)
      /\ OnceEach(inbox)'
      /\ m.call \in Calls => m.call \notin CallsIn(inbox)'
  BY <1>1, <1>2, TailQueue DEF OneMessage
<1>4. m \in Messages
  BY <1>1, <1>2, TailType
<1> HIDE DEF m
<1>5. /\ CallsIn(inbox)' \subseteq CallsIn(inbox) /\ CallsIn(wire)' = CallsIn(wire)
      /\ m.call \in CallsIn(inbox)
  BY <1>1, <1>3 DEF CallsIn, Queued
<1>6. /\ \A k : InFlight(k)' => InFlight(k)
      /\ InFlight(m.call)
      /\ \A k \in Calls : InFlight(k)' => k # m.call
  <2>1. (\A k : InFlight(k)' => InFlight(k)) /\ InFlight(m.call)
    BY <1>5 DEF InFlight
  <2>2. ASSUME m.call \in Calls PROVE m.call \notin CallsIn(wire)
    BY <1>5, <2>2 DEF OneMessage
  <2>3. ASSUME NEW k \in Calls, k = m.call PROVE ~InFlight(k)'
    <3>1. k \notin CallsIn(wire)' /\ k \notin CallsIn(inbox)'
      BY <1>3, <1>5, <2>2, <2>3
    <3> QED
      BY <3>1 DEF InFlight
  <2> QED
    BY <2>1, <2>3
<1>7. Matching(m)
  BY <1>1, <1>3 DEF IdsMatch
<1>8. m.call \notin Calls => futures' = futures
  <2> SUFFICES ASSUME m.call \notin Calls, futures[m.id] # NoCall PROVE FALSE
    BY <1>1
  <2>1. m.id = -1 /\ m.id \in Ids
    BY <1>7, SpecialIds DEF Matching, OneWayId
  <2>2. futures[m.id] \in Calls /\ m.id = IdOf(futures[m.id])
    BY <1>2, <2>1, IdAssumption DEF IdsMatch, Calls, NoCall
  <2>3. \A k \in Calls : IdOf(k) # -1
    BY IdAssumption DEF Calls, IdOf
  <2> QED
    BY <2>1, <2>2, <2>3
<1>9. InOrderOfIssue' /\ OneCaller'
  BY <1>1, <1>6 DEF InOrderOfIssue, OneCaller
<1>10. OneMessage'
  <2>1. OnceEach(wire)'
    BY <1>1 DEF OneMessage, OnceEach
  <2> QED
    BY <1>3, <1>5, <2>1 DEF OneMessage
<1>11. IdsMatch'
  <2>1. UNCHANGED Queued(wire)
    BY <1>1 DEF Queued
  <2>2. \A i \in Ids : futures'[i] # NoCall => futures'[i] = futures[i]
    BY <1>1, <1>2
  <2> QED
    BY <1>3, <2>1, <2>2 DEF IdsMatch, Matching
<1>12. FuturesKept'
  <2> SUFFICES ASSUME NEW k \in Calls, tcs'[k] = "pending",
                      InFlight(k)' \/ \E e \in Callers : pc'[e] \in Registered /\ cur'[e] = k
               PROVE  futures'[IdOf(k)] = k
    BY DEF FuturesKept
  <2>1. InFlight(k) \/ \E e \in Callers : pc[e] \in Registered /\ cur[e] = k
    BY <1>1, <1>6
  <2>2. futures[IdOf(k)] = k
    BY <1>1, <2>1 DEF FuturesKept
  <2>3. k # m.call
    <3>1. CASE InFlight(k)'
      BY <1>6, <3>1
    <3>2. CASE \E e \in Callers : pc'[e] \in Registered /\ cur'[e] = k
      <4>1. PICK e \in Callers : pc[e] \in Registered /\ cur[e] = k
        BY <1>1, <3>2
      <4>2. ~InFlight(k)
        BY <4>1 DEF OneCaller, Registered, BeforeWrite
      <4> QED
        BY <1>6, <4>2
    <3> QED
      BY <3>1, <3>2
  <2>4. CASE m.call \in Calls
    <3>1. IdOf(k) \in Ids /\ IdOf(k) # m.id
      BY <1>7, <2>3, <2>4, IdType, IdInjective DEF Matching
    <3> QED
      BY <1>1, <1>2, <2>2, <3>1
  <2>5. CASE m.call \notin Calls
    BY <1>8, <2>2, <2>5
  <2> QED
    BY <2>4, <2>5
<1> QED
  BY <1>9, <1>10, <1>11, <1>12

\* Settling and cancelling calls only make fewer calls pending; the other steps
\* of the client and of the connection leave calls and messages alone.
LEMMA QuietFlight ==
  ASSUME TypeInv, FlightInv,
         UNCHANGED <<wire, inbox, futures, pc, cur, issued>>,
         \A k \in Calls : tcs'[k] = "pending" => tcs[k] = "pending"
  PROVE  FlightInv'
<1>1. /\ UNCHANGED <<Queued(wire), Queued(inbox)>>
      /\ UNCHANGED <<CallsIn(wire), CallsIn(inbox)>>
      /\ OnceEach(wire)' <=> OnceEach(wire)
      /\ OnceEach(inbox)' <=> OnceEach(inbox)
  BY DEF Queued, CallsIn, OnceEach
<1>2. \A k : InFlight(k)' <=> InFlight(k)
  BY <1>1 DEF InFlight
<1>3. InOrderOfIssue' /\ OneCaller'
  BY <1>2 DEF FlightInv, InOrderOfIssue, OneCaller
<1>4. OneMessage' /\ IdsMatch'
  BY <1>1 DEF FlightInv, OneMessage, IdsMatch, Matching
<1>5. FuturesKept'
  BY <1>2 DEF FlightInv, FuturesKept
<1> QED
  BY <1>3, <1>4, <1>5 DEF FlightInv

\* The server turns a request into its response, and a broadcast is no response.
LEMMA ServerFlight ==
  ASSUME TypeInv, FlightInv,
         \/ \E kind \in {"response", "error"} : Serve(kind)
         \/ SendBroadcast \/ ReceiveBroadcast \/ LateServe \/ EndCall
  PROVE  FlightInv'
<1> USE DEF FlightInv, callerVars, futureVars, disposeVars
<1>a. wire \in Seq(Requests) /\ inbox \in Seq(Messages) /\ NoCall \notin Calls
  BY DEF TypeInv, TypeOK, Calls, NoCall
<1>1. ASSUME UNCHANGED <<futures, tcs, pc, cur, issued>>,
             OneMessage', \A k \in Calls : InFlight(k)' => InFlight(k)
      PROVE  InOrderOfIssue' /\ OneCaller' /\ FuturesKept'
  BY <1>1 DEF InOrderOfIssue, OneCaller, FuturesKept
<1>2. ASSUME NEW kind \in {"response", "error"}, Serve(kind) PROVE FlightInv'
  <2> DEFINE r == Head(wire)
             m == Message(kind, r.id, r.call)
  <2>1. /\ wire # <<>> /\ wire' = Tail(wire)
        /\ inbox' = IF r.id = OneWayId THEN inbox ELSE Append(inbox, m)
        /\ UNCHANGED <<futures, tcs, pc, cur, issued>>
    BY <1>2 DEF Serve
  <2>2. /\ r \in Queued(wire) /\ Queued(wire)' \subseteq Queued(wire)
        /\ OnceEach(wire)'
        /\ r.call \in Calls => r.call \notin CallsIn(wire)'
    BY <1>a, <2>1, TailQueue DEF OneMessage
  <2>3. r \in Requests
    BY <1>a, <2>1, TailType
  <2>4. m \in Messages /\ m.call = r.call /\ m.id = r.id /\ m.kind # "broadcast"
    BY <2>3 DEF Message, Messages, Requests
  <2> HIDE DEF m, r
  <2>5. Matching(r) /\ Matching(m)
    BY <2>2, <2>4 DEF IdsMatch, Matching
  <2>6. r.call \in CallsIn(wire) /\ CallsIn(wire)' \subseteq CallsIn(wire)
    BY <2>2 DEF CallsIn, Queued
  <2>7. /\ OnceEach(inbox)'
        /\ Queued(inbox)' \subseteq Queued(inbox) \cup {m}
    <3>1. CASE r.id = OneWayId
      BY <2>1, <3>1 DEF OneMessage, OnceEach, Queued
    <3>2. CASE r.id # OneWayId
      BY <1>a, <2>1, <2>4, <2>6, <3>2, AppendQueue DEF OneMessage
    <3> QED
      BY <3>1, <3>2
  <2>8. CallsIn(inbox)' \subseteq CallsIn(inbox) \cup {r.call}
    BY <2>4, <2>7 DEF CallsIn
  <2>9. OneMessage'
    BY <2>2, <2>6, <2>7, <2>8 DEF OneMessage
  <2>10. \A k \in Calls : InFlight(k)' => InFlight(k)
    BY <2>6, <2>8 DEF InFlight
  <2>11. IdsMatch'
    BY <2>1, <2>2, <2>4, <2>5, <2>7 DEF IdsMatch, Matching
  <2> QED
    BY <1>1, <2>1, <2>9, <2>10, <2>11
<1>3. CASE SendBroadcast
  <2> DEFINE m == Message("broadcast", 0, NoCall)
  <2>1. /\ inbox' = Append(inbox, m)
        /\ UNCHANGED <<wire, futures, tcs, pc, cur, issued>>
    BY <1>3 DEF SendBroadcast
  <2>2. m \in Messages /\ m.call = NoCall /\ m.kind = "broadcast"
    BY SpecialIds, IdAssumption DEF Message, Messages, NoCall
  <2> HIDE DEF m
  <2>3. Queued(inbox)' = Queued(inbox) \cup {m} /\ OnceEach(inbox)'
    BY <1>a, <2>1, <2>2, AppendQueue DEF OneMessage
  <2>4. UNCHANGED Queued(wire) /\ UNCHANGED CallsIn(wire) /\ OnceEach(wire)'
    BY <2>1 DEF Queued, CallsIn, OneMessage, OnceEach
  <2>5. CallsIn(inbox)' = CallsIn(inbox) \cup {NoCall}
    BY <2>2, <2>3 DEF CallsIn
  <2>6. OneMessage' /\ \A k \in Calls : InFlight(k)' => InFlight(k)
    BY <1>a, <2>3, <2>4, <2>5 DEF OneMessage, InFlight
  <2>7. IdsMatch'
    BY <2>1, <2>2, <2>3, <2>4 DEF IdsMatch, Matching
  <2> QED
    BY <1>1, <2>1, <2>6, <2>7
<1>4. CASE ReceiveBroadcast
  <2>1. /\ inbox # <<>> /\ inbox' = Tail(inbox)
        /\ UNCHANGED <<wire, futures, tcs, pc, cur, issued>>
    BY <1>4 DEF ReceiveBroadcast
  <2>2. Queued(inbox)' \subseteq Queued(inbox) /\ OnceEach(inbox)'
    BY <1>a, <2>1, TailQueue DEF OneMessage
  <2>3. UNCHANGED Queued(wire) /\ UNCHANGED CallsIn(wire) /\ OnceEach(wire)'
    BY <2>1 DEF Queued, CallsIn, OneMessage, OnceEach
  <2>4. CallsIn(inbox)' \subseteq CallsIn(inbox)
    BY <2>2 DEF CallsIn
  <2>5. OneMessage' /\ \A k \in Calls : InFlight(k)' => InFlight(k)
    BY <2>2, <2>3, <2>4 DEF OneMessage, InFlight
  <2>6. IdsMatch'
    BY <2>1, <2>2, <2>3 DEF IdsMatch, Matching
  <2> QED
    BY <1>1, <2>1, <2>5, <2>6
<1>5. CASE LateServe
  <2>1. /\ wire # <<>> /\ wire' = Tail(wire)
        /\ UNCHANGED <<inbox, futures, tcs, pc, cur, issued>>
    BY <1>5 DEF LateServe
  <2>2. Queued(wire)' \subseteq Queued(wire) /\ OnceEach(wire)'
    BY <1>a, <2>1, TailQueue DEF OneMessage
  <2>3. UNCHANGED Queued(inbox) /\ UNCHANGED CallsIn(inbox) /\ OnceEach(inbox)'
    BY <2>1 DEF Queued, CallsIn, OneMessage, OnceEach
  <2>4. CallsIn(wire)' \subseteq CallsIn(wire)
    BY <2>2 DEF CallsIn
  <2>5. OneMessage' /\ \A k \in Calls : InFlight(k)' => InFlight(k)
    BY <2>2, <2>3, <2>4 DEF OneMessage, InFlight
  <2>6. IdsMatch'
    BY <2>1, <2>2, <2>3 DEF IdsMatch, Matching
  <2> QED
    BY <1>1, <2>1, <2>5, <2>6
<1>6. CASE EndCall
  <2>1. PICK n \in 0..Len(inbox) : inbox' = SubSeq(inbox, 1, n)
    BY <1>6 DEF EndCall
  <2>2. UNCHANGED <<wire, futures, tcs, pc, cur, issued>>
    BY <1>6 DEF EndCall
  <2>3. Queued(inbox)' \subseteq Queued(inbox) /\ OnceEach(inbox)'
    BY <1>a, <2>1, PrefixQueue DEF OneMessage
  <2>4. UNCHANGED Queued(wire) /\ UNCHANGED CallsIn(wire) /\ OnceEach(wire)'
    BY <2>2 DEF Queued, CallsIn, OneMessage, OnceEach
  <2>5. CallsIn(inbox)' \subseteq CallsIn(inbox)
    BY <2>3 DEF CallsIn
  <2>6. OneMessage' /\ \A k \in Calls : InFlight(k)' => InFlight(k)
    BY <2>3, <2>4, <2>5 DEF OneMessage, InFlight
  <2>7. IdsMatch'
    BY <2>2, <2>3, <2>4 DEF IdsMatch, Matching
  <2> QED
    BY <1>1, <2>2, <2>6, <2>7
<1> QED
  BY <1>2, <1>3, <1>4, <1>5, <1>6

\* Every step keeps the invariant of the messages in flight.
LEMMA NextFlight ==
  ASSUME MaxCalls <= 2 * IdMax, TypeInv, FlightInv, Next
  PROVE  FlightInv'
<1> USE DEF callerVars, futureVars, subVars, disposeVars, netVars
<1>1. CASE \/ \E header \in {"match", "mismatch", "absent"}, faulted \in BOOLEAN : Connect(header, faulted)
           \/ Advance \/ StreamEnds \/ FinishSubscription \/ Disconnect
           \/ \E d \in Tasks : \/ StartDispose(d) \/ MarkDisposed(d) \/ CompleteRequests(d)
                               \/ CancelToken(d) \/ DisposeToken(d) \/ AwaitSubscription(d)
                               \/ FinishCleanup(d)
  <2>1. UNCHANGED <<wire, inbox, futures, pc, cur, issued>> /\ UNCHANGED tcs
    BY <1>1 DEF Connect, Advance, StreamEnds, FinishSubscription, Disconnect,
       StartDispose, MarkDisposed, CompleteRequests, CancelToken, DisposeToken, AwaitSubscription,
       FinishCleanup
  <2> QED
    BY <2>1, QuietFlight
<1>2. CASE \E outcome \in {"result", "error"} : SettleFuture(outcome)
  <2>1. PICK outcome \in {"result", "error"} : SettleFuture(outcome)
    BY <1>2
  <2>2. UNCHANGED <<wire, inbox, futures, pc, cur, issued>>
    BY <2>1 DEF SettleFuture
  <2>3. tcs' = tcs \/ tcs' = [tcs EXCEPT ![taken.future] = outcome]
    BY <2>1 DEF SettleFuture
  <2>4. \A k \in Calls : tcs'[k] = "pending" => tcs[k] = "pending"
    BY <2>3 DEF TypeInv, TypeOK
  <2> QED
    BY <2>2, <2>4, QuietFlight
<1>3. CASE \E d \in Tasks : CancelFuture(d)
  <2>1. UNCHANGED <<wire, inbox, futures, pc, cur, issued>>
    BY <1>3 DEF CancelFuture
  <2>2. tcs' = tcs \/ \E k : tcs' = [tcs EXCEPT ![k] = "canceled"]
    BY <1>3 DEF CancelFuture
  <2>3. \A k \in Calls : tcs'[k] = "pending" => tcs[k] = "pending"
    BY <2>2 DEF TypeInv, TypeOK
  <2> QED
    BY <2>1, <2>3, QuietFlight
<1> QED
  BY <1>1, <1>2, <1>3, CallerFlight, ReceiveFlight, ServerFlight
  DEF Next, SubStep, DisposeStep, ServerStep

\* The invariant of the messages in flight holds in every reachable state.
LEMMA FlightInvariance ==
  ASSUME MaxCalls <= 2 * IdMax
  PROVE  Safety => []FlightInv
<1>1. Init => FlightInv
  <2> SUFFICES ASSUME Init PROVE FlightInv
    OBVIOUS
  <2>1. /\ wire = <<>> /\ inbox = <<Marker>> /\ NoCall \notin Calls
        /\ Marker.call = NoCall /\ Marker.kind = "response" /\ Marker.id = OneWayId
    BY DEF Init, Marker, NoCall, Calls, OneWayId
  <2>2. Queued(wire) = {} /\ Queued(inbox) = {Marker}
    BY <2>1 DEF Queued
  <2>3. \A k \in Calls : ~InFlight(k)
    BY <2>1, <2>2 DEF InFlight, CallsIn
  <2>4. OneMessage
    BY <2>1, <2>3 DEF OneMessage, OnceEach, InFlight
  <2>5. IdsMatch
    BY <2>1, <2>2 DEF IdsMatch, Matching, Init
  <2>6. InOrderOfIssue /\ OneCaller /\ FuturesKept
    BY <2>3 DEF Init, InOrderOfIssue, OneCaller, FuturesKept, NoCall, BeforeWrite, Registered
  <2> QED
    BY <2>4, <2>5, <2>6 DEF FlightInv
<1>2. TypeInv /\ FlightInv /\ [Next]_vars => FlightInv'
  <2>1. ASSUME TypeInv, FlightInv, Next PROVE FlightInv'
    BY <2>1, NextFlight
  <2>2. ASSUME TypeInv, FlightInv, UNCHANGED vars PROVE FlightInv'
    BY <2>2, QuietFlight DEF vars, callerVars, futureVars, netVars
  <2> QED
    BY <2>1, <2>2
<1> QED
  BY <1>1, <1>2, TypeInvariance, PTL DEF Safety

\* A response finds its future: while a request or its response is in flight
\* and its call is not settled, the table maps the id on the wire to that call,
\* for any interleaving of callers, responses, failed writes and disposal.
\* The ids must not have come round to -1, the id of a fire-and-forget message.
THEOREM ResponseHasFuture ==
  ASSUME MaxCalls <= 2 * IdMax
  PROVE  Safety => []ResponseFindsFuture
<1>1. TypeInv /\ FlightInv => ResponseFindsFuture
  <2> SUFFICES ASSUME TypeInv, FlightInv,
                      NEW m \in {wire[i] : i \in DOMAIN wire} \cup
                                {inbox[i] : i \in {j \in DOMAIN inbox : inbox[j].kind # "broadcast"}},
                      m.call # NoCall
               PROVE  m.id = IdOf(m.call) /\ (tcs[m.call] = "pending" => futures[m.id] = m.call)
    BY DEF ResponseFindsFuture
  <2>1. m \in Queued(wire) \/ (m \in Queued(inbox) /\ m.kind # "broadcast")
    BY DEF Queued
  <2>2. m.call \in Calls
    <3>1. \A q \in Requests \cup Messages : q.call \in 0..MaxCalls
      BY DEF Requests, Messages
    <3>2. m \in Requests \cup Messages
      BY DEF TypeInv, TypeOK
    <3> QED
      BY <3>1, <3>2, IdAssumption DEF Calls, NoCall
  <2>3. m.id = IdOf(m.call)
    BY <2>1, <2>2 DEF FlightInv, IdsMatch, Matching
  <2>4. InFlight(m.call)
    BY <2>1 DEF InFlight, CallsIn
  <2> QED
    BY <2>2, <2>3, <2>4 DEF FlightInv, FuturesKept
<1> QED
  BY <1>1, TypeInvariance, FlightInvariance, PTL
-----------------------------------------------------------------------------
(***************************************************************************)
(* The clean-up of DisposeAsyncCore misses nothing.  A call that waits is  *)
(* in the table or in the hands of the subscription, and whoever cleans up *)
(* does so when the subscription takes no more responses.                  *)
(***************************************************************************)
\* Nothing runs before ConnectAsync has returned.
NotBefore ==
  connection = "connecting" => sub = "none" /\ \A d \in Tasks : dpc[d] = "idle"

\* The subscription disposes when its loop has ended, and another task cleans
\* up when the subscription is over.
CleansAlone ==
  /\ dpc[Sub] \notin {"idle", "returned", "faulted"} => sub = "stopping"
  /\ \A d \in Disposers : dpc[d] = "cleaning" => sub = "done"

\* A pending call is in the table, or was taken from it to be settled.
PendingHeld ==
  \A k \in Calls : tcs[k] = "pending" =>
    futures[IdOf(k)] = k \/ (sub = "settling" /\ taken.future = k)

CleanupInv == NotBefore /\ CleansAlone /\ PendingHeld

\* Disposal and the subscription keep the two parts about their order.
LEMMA NextAlone ==
  ASSUME TypeInv, NotBefore, CleansAlone, Next
  PROVE  NotBefore' /\ CleansAlone'
<1> USE DEF NotBefore, CleansAlone, callerVars, futureVars, subVars, disposeVars, netVars
<1>a. /\ dpc = [d \in Tasks |-> dpc[d]]
      /\ Sub \in Tasks /\ Sub \notin Disposers /\ Tasks = Disposers \cup {Sub}
  BY ThreadsAssumption DEF TypeInv, TypeOK, Tasks
<1>1. CASE \E header \in {"match", "mismatch", "absent"}, faulted \in BOOLEAN : Connect(header, faulted)
  <2>1. connection = "connecting" /\ connection' # "connecting" /\ UNCHANGED dpc
    BY <1>1 DEF Connect
  <2> QED
    BY <1>a, <2>1
<1>2. ASSUME NEW d \in Tasks, StartDispose(d)
      PROVE  NotBefore' /\ CleansAlone'
  <2>1. /\ connection = "connected" /\ UNCHANGED <<connection, sub>>
        /\ d = Sub => sub = "stopping"
        /\ \E place \in {"returned", "disposing"} : dpc' = [dpc EXCEPT ![d] = place]
    BY <1>2 DEF StartDispose
  <2> QED
    BY <1>a, <2>1
<1>3. ASSUME NEW d \in Tasks, DisposeStep(d)
      PROVE  NotBefore' /\ CleansAlone'
  <2>1. UNCHANGED <<connection, sub>> /\ dpc[d] \notin {"idle", "returned", "faulted"}
    BY <1>3 DEF DisposeStep, MarkDisposed, CompleteRequests, CancelToken, DisposeToken,
       AwaitSubscription, StartCleanup, CancelFuture, FinishCleanup
  <2>2. \E place \in {"completing", "cancelling", "closing", "waiting", "cleaning", "returned",
                      "faulted"} :
          /\ dpc' = [dpc EXCEPT ![d] = place]
          /\ place = "cleaning" => d = Sub \/ sub = "done"
    <3>1. CASE CancelFuture(d)
      <4>1. dpc[d] = "cleaning" /\ UNCHANGED dpc
        BY <3>1 DEF CancelFuture
      <4>2. dpc' = [dpc EXCEPT ![d] = "cleaning"]
        BY <1>a, <4>1
      <4>3. d = Sub \/ sub = "done"
        BY <1>a, <4>1
      <4> QED
        BY <4>2, <4>3
    <3> QED
      BY <1>3, <3>1 DEF DisposeStep, MarkDisposed, CompleteRequests, CancelToken, DisposeToken,
         AwaitSubscription, StartCleanup, FinishCleanup
  <2> QED
    BY <1>a, <2>1, <2>2
<1>4. CASE SubStep
  <2>1. UNCHANGED <<connection, dpc>>
    BY <1>4 DEF SubStep, ReceiveResponse, ReceiveBroadcast, Advance, StreamEnds,
       FinishSubscription, SettleFuture
  <2>2. sub # "done" /\ sub # "none" /\ (sub = "stopping" => dpc[Sub] \in {"returned", "faulted"})
    BY <1>4 DEF SubStep, ReceiveResponse, ReceiveBroadcast, Advance, StreamEnds,
       FinishSubscription, SettleFuture
  <2> QED
    BY <1>a, <2>1, <2>2
<1>5. CASE \/ \E c \in Callers : BeginCall(c) \/ BeginFireAndForget(c) \/ CallerStep(c)
           \/ ServerStep \/ LateServe \/ SendBroadcast \/ Disconnect
  <2>1. UNCHANGED <<connection, sub, dpc>>
    BY <1>5 DEF BeginCall, BeginFireAndForget, CallerStep, RegisterFuture, AcquireLock, StartWrite,
       WriteThrows, WriteCompletes, ReturnToCaller, ServerStep, Serve, EndCall, LateServe,
       SendBroadcast, Disconnect
  <2> QED
    BY <2>1
<1> QED
  BY <1>1, <1>2, <1>3, <1>4, <1>5 DEF Next

\* No step loses a pending call.
LEMMA NextHeld ==
  ASSUME TypeInv, CleanupInv, Next
  PROVE  PendingHeld'
<1> USE DEF callerVars, futureVars, subVars, disposeVars, netVars
<1>a. /\ futures = [i \in Ids |-> futures[i]] /\ tcs = [k \in Calls |-> tcs[k]]
      /\ PendingHeld
  BY DEF TypeInv, TypeOK, CleanupInv
<1>b. NoCall \notin Calls
  BY DEF NoCall, Calls
<1> SUFFICES ASSUME NEW k \in Calls, tcs'[k] = "pending"
             PROVE  futures'[IdOf(k)] = k \/ (sub' = "settling" /\ taken'.future = k)
  BY DEF PendingHeld
<1>1. ASSUME NEW c \in Callers, RegisterFuture(c)
      PROVE  futures'[IdOf(k)] = k \/ (sub' = "settling" /\ taken'.future = k)
  <2>1. /\ futures' = [futures EXCEPT ![IdOf(cur[c])] = cur[c]]
        /\ tcs' = [tcs EXCEPT ![cur[c]] = "pending"]
        /\ UNCHANGED <<sub, taken>>
    BY <1>1 DEF RegisterFuture
  <2>2. CASE k = cur[c]
    BY <1>a, <2>1, <2>2, IdType
  <2>3. CASE k # cur[c]
    <3>1. cur[c] \in Calls
      BY <1>1 DEF RegisterFuture, TypeInv, TypeOK, RegistersCall, Calls, NoCall
    <3>2. IdOf(k) # IdOf(cur[c]) /\ IdOf(k) \in Ids
      BY <2>3, <3>1, IdInjective, IdType
    <3>3. futures'[IdOf(k)] = futures[IdOf(k)] /\ tcs[k] = "pending"
      BY <1>a, <2>1, <2>3, <3>2
    <3> QED
      BY <1>a, <2>1, <3>3 DEF PendingHeld
  <2> QED
    BY <2>2, <2>3
<1>2. CASE ReceiveResponse
  <2>1. tcs[k] = "pending" /\ futures[IdOf(k)] = k
    BY <1>a, <1>2 DEF ReceiveResponse, PendingHeld
  <2>2. CASE futures' = futures
    BY <2>1, <2>2
  <2>3. CASE futures' # futures
    <3>1. PICK i : /\ futures' = [futures EXCEPT ![i] = NoCall]
                   /\ taken'.future = futures[i] /\ sub' = "settling"
      BY <1>2, <2>3 DEF ReceiveResponse
    <3>2. CASE i = IdOf(k)
      BY <2>1, <3>1, <3>2
    <3>3. CASE i # IdOf(k)
      BY <1>a, <2>1, <3>1, <3>3, IdType
    <3> QED
      BY <3>2, <3>3
  <2> QED
    BY <2>2, <2>3
<1>3. ASSUME NEW outcome \in {"result", "error"}, SettleFuture(outcome)
      PROVE  futures'[IdOf(k)] = k \/ (sub' = "settling" /\ taken'.future = k)
  <2>1. /\ UNCHANGED futures
        /\ IF tcs[taken.future] = "pending" THEN tcs' = [tcs EXCEPT ![taken.future] = outcome]
                                            ELSE UNCHANGED tcs
    BY <1>3 DEF SettleFuture
  <2>2. tcs[k] = "pending" /\ taken.future # k
    BY <1>a, <2>1
  <2> QED
    BY <1>a, <2>1, <2>2 DEF PendingHeld
<1>4. ASSUME NEW d \in Tasks, CancelFuture(d)
      PROVE  futures'[IdOf(k)] = k \/ (sub' = "settling" /\ taken'.future = k)
  <2>1. UNCHANGED <<futures, sub, taken>>
    BY <1>4 DEF CancelFuture
  <2>2. tcs' = tcs \/ \E l : tcs' = [tcs EXCEPT ![l] = "canceled"]
    BY <1>4 DEF CancelFuture
  <2>3. tcs[k] = "pending"
    BY <1>a, <2>2
  <2> QED
    BY <1>a, <2>1, <2>3 DEF PendingHeld
<1>5. CASE \E header \in {"match", "mismatch", "absent"}, faulted \in BOOLEAN : Connect(header, faulted)
  <2>1. UNCHANGED <<futures, tcs>> /\ sub = "none"
    BY <1>5 DEF Connect, CleanupInv, NotBefore
  <2> QED
    BY <1>a, <2>1 DEF PendingHeld
<1>6. CASE ReceiveBroadcast \/ Advance \/ StreamEnds \/ FinishSubscription
  <2>1. UNCHANGED <<futures, tcs>> /\ sub # "settling"
    BY <1>6 DEF ReceiveBroadcast, Advance, StreamEnds, FinishSubscription
  <2> QED
    BY <1>a, <2>1 DEF PendingHeld
<1>7. CASE \/ \E c \in Callers : \/ BeginCall(c) \/ BeginFireAndForget(c) \/ AcquireLock(c)
                                 \/ StartWrite(c) \/ WriteThrows(c) \/ WriteCompletes(c)
                                 \/ ReturnToCaller(c)
           \/ \E d \in Tasks : \/ StartDispose(d) \/ MarkDisposed(d) \/ CompleteRequests(d)
                               \/ CancelToken(d) \/ DisposeToken(d) \/ AwaitSubscription(d)
                               \/ FinishCleanup(d)
           \/ ServerStep \/ LateServe \/ SendBroadcast \/ Disconnect
  <2>1. UNCHANGED <<futures, tcs, sub, taken>>
    BY <1>7 DEF BeginCall, BeginFireAndForget, AcquireLock, StartWrite, WriteThrows,
       WriteCompletes, ReturnToCaller, StartDispose, MarkDisposed, CompleteRequests, CancelToken,
       DisposeToken, AwaitSubscription, FinishCleanup, ServerStep, Serve, EndCall, LateServe, SendBroadcast,
       Disconnect
  <2> QED
    BY <1>a, <2>1 DEF PendingHeld
<1> QED
  BY <1>1, <1>2, <1>3, <1>4, <1>5, <1>6, <1>7 DEF Next, CallerStep, SubStep, DisposeStep

\* A call that is made belongs to one caller, and who awaits a response made a
\* call that has one.
OwnCall ==
  /\ \A c \in Callers : cur[c] <= issued
  /\ \A c, e \in Callers : /\ pc[c] # "idle" /\ pc[e] # "idle"
                           /\ cur[c] = cur[e] /\ cur[c] # NoCall
                           => c = e
  /\ \A c \in Callers : pc[c] = "awaiting" => cur[c] # NoCall

\* Nothing can be written after CompleteAsync took effect, or after a
\* subscription has ended without the application disposing.
Ended == {"stopping", "done", "faulted"}
NobodyDisposes == \A d \in Disposers : dpc[d] = "idle"
NoLateWrite ==
  /\ halfClosed => \A c \in Callers : pc[c] # "writing"
  /\ dpc[Sub] # "idle" => sub \in Ended
  /\ \A d \in Tasks : dpc[d] \notin {"idle", "disposing"} => disposed
  /\ NobodyDisposes => /\ disposed \/ cts # "live" => dpc[Sub] # "idle"
                       /\ sub \in Ended => callState # "open"

\* Task d is going to cancel call k.
WillCancel(d, k) ==
  \/ dpc[d] \in {"completing", "cancelling", "closing", "waiting"}
  \/ dpc[d] = "cleaning" /\ IdOf(k) \in unvisited[d]

\* No disposal went wrong, or is about to because another one has disposed of
\* the token source before it.
InTime ==
  /\ \A d \in Tasks : dpc[d] # "faulted"
  /\ cts = "disposed" => \A d \in Tasks : dpc[d] \notin {"disposing", "completing", "cancelling"}

Closed == halfClosed \/ NobodyDisposes

\* While a caller waits for a response that cannot come, a task is still going
\* to cancel its call.
Reached ==
  disposed /\ InTime /\ Closed =>
    \A c \in Callers : pc[c] = "awaiting" /\ tcs[cur[c]] = "pending" =>
      \E d \in Tasks : WillCancel(d, cur[c])

\* Callers keep their calls apart.
LEMMA NextOwn ==
  ASSUME TypeInv, OwnCall, Next
  PROVE  OwnCall'
<1> USE DEF OwnCall, callerVars, futureVars, subVars, disposeVars, netVars
<1>a. /\ pc = [c \in Callers |-> pc[c]] /\ cur = [c \in Callers |-> cur[c]]
      /\ cur \in [Callers -> 0..MaxCalls] /\ issued \in 0..MaxCalls /\ MaxCalls \in Int
  BY IdAssumption DEF TypeInv, TypeOK
<1>1. ASSUME NEW c \in Callers, BeginCall(c)
      PROVE  OwnCall'
  <2>1. /\ pc[c] = "idle" /\ issued' = issued + 1
        /\ cur' = [cur EXCEPT ![c] = issued + 1] /\ pc' = [pc EXCEPT ![c] = "registering"]
    BY <1>1 DEF BeginCall
  <2>2. \A e \in Callers : e # c => cur[e] # issued + 1
    BY <1>a
  <2> QED
    BY <1>a, <2>1, <2>2
<1>2. ASSUME NEW c \in Callers, BeginFireAndForget(c)
      PROVE  OwnCall'
  <2>1. /\ UNCHANGED issued /\ cur' = [cur EXCEPT ![c] = NoCall]
        /\ pc' = [pc EXCEPT ![c] = "locking"]
    BY <1>2 DEF BeginFireAndForget
  <2> QED
    BY <1>a, <2>1 DEF NoCall
<1>3. ASSUME NEW c \in Callers, CallerStep(c)
      PROVE  OwnCall'
  <2>1. /\ UNCHANGED <<issued, cur>> /\ pc[c] # "idle"
        /\ \E place \in {"idle", "locking", "locked", "writing", "awaiting"} :
             /\ pc' = [pc EXCEPT ![c] = place]
             /\ place = "awaiting" => cur[c] # NoCall
    BY <1>3 DEF CallerStep, RegisterFuture, AcquireLock, StartWrite, WriteThrows, WriteCompletes,
       ReturnToCaller
  <2> QED
    BY <1>a, <2>1
<1>4. CASE \/ \E header \in {"match", "mismatch", "absent"}, faulted \in BOOLEAN : Connect(header, faulted)
           \/ SubStep
           \/ \E d \in Tasks : StartDispose(d) \/ DisposeStep(d)
           \/ ServerStep \/ LateServe \/ SendBroadcast \/ Disconnect
  <2>1. UNCHANGED <<issued, cur, pc>>
    BY <1>4 DEF Connect, SubStep, ReceiveResponse, ReceiveBroadcast, Advance, StreamEnds,
       FinishSubscription, SettleFuture, StartDispose, DisposeStep, MarkDisposed,
       CompleteRequests, CancelToken, DisposeToken, AwaitSubscription, CancelFuture, FinishCleanup,
       ServerStep, Serve, EndCall, LateServe, SendBroadcast, Disconnect
  <2> QED
    BY <2>1
<1> QED
  BY <1>1, <1>2, <1>3, <1>4 DEF Next

\* What is closed for writing stays closed.
LEMMA NextNoLateWrite ==
  ASSUME TypeInv, CleanupInv, NoLateWrite, Next
  PROVE  NoLateWrite'
<1> USE DEF NoLateWrite, NobodyDisposes, Ended, callerVars, futureVars, subVars, disposeVars, netVars
<1>a. /\ dpc = [d \in Tasks |-> dpc[d]] /\ pc = [c \in Callers |-> pc[c]]
      /\ Sub \in Tasks /\ Sub \notin Disposers /\ Tasks = Disposers \cup {Sub}
  BY ThreadsAssumption DEF TypeInv, TypeOK, Tasks
<1>1. CASE \E header \in {"match", "mismatch", "absent"}, faulted \in BOOLEAN : Connect(header, faulted)
  <2>1. /\ UNCHANGED <<dpc, disposed, cts, callState, halfClosed, pc>>
        /\ dpc[Sub] = "idle" /\ sub' \in {"none", "moving"}
    BY <1>a, <1>1 DEF Connect, CleanupInv, NotBefore
  <2> QED
    BY <1>a, <2>1
<1>2. ASSUME NEW c \in Callers, BeginCall(c) \/ BeginFireAndForget(c) \/ CallerStep(c)
      PROVE  NoLateWrite'
  <2>1. /\ UNCHANGED <<dpc, disposed, cts, callState, halfClosed, sub>>
        /\ \E place \in {"idle", "registering", "locking", "locked", "writing", "awaiting"} :
             /\ pc' = [pc EXCEPT ![c] = place]
             /\ place = "writing" => ~halfClosed
    BY <1>2 DEF BeginCall, BeginFireAndForget, CallerStep, RegisterFuture, AcquireLock, StartWrite,
       WriteThrows, WriteCompletes, ReturnToCaller
  <2> QED
    BY <1>a, <2>1
<1>3. CASE SubStep
  <2>1. UNCHANGED <<dpc, disposed, cts, halfClosed, pc>>
    BY <1>3 DEF SubStep, ReceiveResponse, ReceiveBroadcast, Advance, StreamEnds,
       FinishSubscription, SettleFuture
  <2>2. /\ callState # "open" => callState' # "open"
        /\ sub \in Ended => sub' \in Ended
        /\ sub' \in Ended => sub \in Ended \/ callState' # "open" \/ cts = "disposed"
    BY <1>3 DEF SubStep, ReceiveResponse, ReceiveBroadcast, Advance, StreamEnds,
       FinishSubscription, SettleFuture
  <2> QED
    BY <1>a, <2>1, <2>2
<1>4. ASSUME NEW d \in Tasks, StartDispose(d)
      PROVE  NoLateWrite'
  <2>1. /\ UNCHANGED <<disposed, cts, callState, halfClosed, sub, pc>>
        /\ dpc[d] = "idle" /\ (d = Sub => sub = "stopping")
        /\ dpc' = [dpc EXCEPT ![d] = IF disposed THEN "returned" ELSE "disposing"]
    BY <1>4 DEF StartDispose
  <2>2. ASSUME NobodyDisposes' PROVE d = Sub /\ NobodyDisposes
    BY <1>a, <2>1, <2>2
  <2> QED
    BY <1>a, <2>1, <2>2
<1>5. ASSUME NEW d \in Tasks, DisposeStep(d)
      PROVE  NoLateWrite'
  <2>1. /\ UNCHANGED <<sub, pc>> /\ dpc[d] # "idle"
        /\ callState # "open" => callState' # "open"
        /\ disposed => disposed'
        /\ halfClosed' => halfClosed \/ \A c \in Callers : pc[c] # "writing"
        /\ dpc[d] # "disposing" \/ disposed'
    <3>1. UNCHANGED <<sub, pc>> /\ dpc[d] # "idle"
      BY <1>5 DEF DisposeStep, MarkDisposed, CompleteRequests, CancelToken, DisposeToken,
         AwaitSubscription, CancelFuture, FinishCleanup
    <3>2. callState # "open" => callState' # "open"
      BY <1>5 DEF DisposeStep, MarkDisposed, CompleteRequests, CancelToken, DisposeToken,
         AwaitSubscription, CancelFuture, FinishCleanup
    <3>3. (disposed => disposed') /\ (dpc[d] # "disposing" \/ disposed')
      BY <1>5 DEF DisposeStep, MarkDisposed, CompleteRequests, CancelToken, DisposeToken,
         AwaitSubscription, CancelFuture, FinishCleanup
    <3>4. CASE CompleteRequests(d)
      <4>1. halfClosed' <=> halfClosed \/ (callState = "open" /\ \A c \in Callers : pc[c] # "writing")
        BY <3>4 DEF CompleteRequests
      <4> QED
        BY <3>1, <3>2, <3>3, <4>1
    <3>5. CASE ~CompleteRequests(d)
      <4>1. UNCHANGED halfClosed
        BY <1>5, <3>5 DEF DisposeStep, MarkDisposed, CancelToken, DisposeToken,
           AwaitSubscription, CancelFuture, FinishCleanup
      <4> QED
        BY <3>1, <3>2, <3>3, <4>1
    <3> QED
      BY <3>4, <3>5
  <2>2. \E place \in {"completing", "cancelling", "closing", "waiting", "cleaning", "returned",
                      "faulted"} : dpc' = [dpc EXCEPT ![d] = place]
    <3>1. dpc' = dpc => dpc[d] = "cleaning" /\ dpc' = [dpc EXCEPT ![d] = "cleaning"]
      BY <1>a, <1>5 DEF DisposeStep, MarkDisposed, CompleteRequests, CancelToken, DisposeToken,
         AwaitSubscription, StartCleanup, CancelFuture, FinishCleanup
    <3> QED
      BY <1>5, <3>1 DEF DisposeStep, MarkDisposed, CompleteRequests, CancelToken, DisposeToken,
         AwaitSubscription, StartCleanup, CancelFuture, FinishCleanup
  <2>3. NobodyDisposes' => d = Sub /\ NobodyDisposes
    BY <1>a, <2>1, <2>2
  <2> QED
    BY <1>a, <2>1, <2>2, <2>3
<1>6. CASE ServerStep \/ LateServe \/ SendBroadcast \/ Disconnect
  <2>1. /\ UNCHANGED <<dpc, disposed, cts, halfClosed, sub, pc>>
        /\ callState # "open" => callState' # "open"
    BY <1>6 DEF ServerStep, Serve, EndCall, LateServe, SendBroadcast, Disconnect
  <2> QED
    BY <1>a, <2>1
<1> QED
  BY <1>1, <1>2, <1>3, <1>4, <1>5, <1>6 DEF Next

\* Nobody is left waiting by a step of a caller.
LEMMA CallerReached ==
  ASSUME TypeInv, NoLateWrite, OwnCall, Reached, NEW c \in Callers,
         BeginCall(c) \/ BeginFireAndForget(c) \/ CallerStep(c)
  PROVE  Reached'
<1> USE DEF callerVars, futureVars, subVars, disposeVars, netVars
<1>a. /\ pc = [e \in Callers |-> pc[e]] /\ cur = [e \in Callers |-> cur[e]]
      /\ tcs = [k \in Calls |-> tcs[k]]
  BY DEF TypeInv, TypeOK
<1> SUFFICES ASSUME disposed', InTime', Closed', NEW e \in Callers,
                    pc'[e] = "awaiting", tcs'[cur'[e]] = "pending"
             PROVE  \E d \in Tasks : WillCancel(d, cur[e])' /\ cur'[e] = cur[e]
  BY DEF Reached, WillCancel
<1>1. UNCHANGED <<disposed, cts, dpc, unvisited, halfClosed, callState, sub>>
  BY DEF BeginCall, BeginFireAndForget, CallerStep, RegisterFuture, AcquireLock, StartWrite,
     WriteThrows, WriteCompletes, ReturnToCaller
<1>2. disposed /\ InTime /\ Closed
  BY <1>1 DEF InTime, Closed, NobodyDisposes
<1>3. ~WriteCompletes(c)
  BY <1>2 DEF WriteCompletes, NoLateWrite, Closed
<1>4. e # c /\ pc[e] = "awaiting" /\ cur'[e] = cur[e]
  <2>1. \E place \in {"idle", "registering", "locking", "locked", "writing"} :
          pc' = [pc EXCEPT ![c] = place]
    BY <1>3 DEF BeginCall, BeginFireAndForget, CallerStep, RegisterFuture, AcquireLock, StartWrite,
       WriteThrows, ReturnToCaller
  <2>2. e # c /\ pc[e] = "awaiting"
    BY <1>a, <2>1
  <2>3. cur' = cur \/ \E k : cur' = [cur EXCEPT ![c] = k]
    BY <1>3 DEF BeginCall, BeginFireAndForget, CallerStep, RegisterFuture, AcquireLock, StartWrite,
       WriteThrows, ReturnToCaller
  <2> QED
    BY <1>a, <2>2, <2>3
<1>5. tcs[cur[e]] = "pending"
  <2>1. tcs' = tcs \/ (RegisterFuture(c) /\ tcs' = [tcs EXCEPT ![cur[c]] = "pending"])
    BY <1>3 DEF BeginCall, BeginFireAndForget, CallerStep, RegisterFuture, AcquireLock, StartWrite,
       WriteThrows, ReturnToCaller
  <2>2. RegisterFuture(c) => cur[e] # cur[c]
    BY <1>4 DEF RegisterFuture, OwnCall
  <2>3. cur[e] \in Calls
    BY <1>4 DEF OwnCall, TypeInv, TypeOK, Calls, NoCall
  <2>4. tcs'[cur[e]] = "pending"
    BY <1>4
  <2> QED
    BY <1>a, <2>1, <2>2, <2>3, <2>4
<1>6. PICK d \in Tasks : WillCancel(d, cur[e])
  BY <1>2, <1>4, <1>5 DEF Reached
<1> QED
  BY <1>1, <1>4, <1>6 DEF WillCancel

\* A task that is in the clean-up finds every pending call in the table.
LEMMA CleanerFinds ==
  ASSUME TypeInv, CleanupInv, NEW d \in Tasks, NEW k \in Calls, tcs[k] = "pending",
         dpc[d] = "cleaning" \/ (d = Sub /\ dpc[d] = "closing") \/ sub = "done"
  PROVE  IdOf(k) \in Ids /\ futures[IdOf(k)] = k
<1>1. sub # "settling"
  BY DEF CleanupInv, CleansAlone, Tasks
<1> QED
  BY <1>1, IdType DEF CleanupInv, PendingHeld

\* Nobody is left waiting by a step of a disposal.
LEMMA DisposeReached ==
  ASSUME TypeInv, CleanupInv, NoLateWrite, OwnCall, Reached, NEW e \in Tasks,
         StartDispose(e) \/ DisposeStep(e)
  PROVE  Reached'
<1> USE DEF callerVars, futureVars, subVars, disposeVars, netVars
<1>a. /\ dpc = [d \in Tasks |-> dpc[d]] /\ unvisited = [d \in Tasks |-> unvisited[d]]
      /\ tcs = [k \in Calls |-> tcs[k]] /\ Disposers \subseteq Tasks
      /\ cur \in [Callers -> 0..MaxCalls]
  BY DEF TypeInv, TypeOK, Tasks
<1>b. UNCHANGED <<pc, cur>>
  BY DEF StartDispose, DisposeStep, MarkDisposed, CompleteRequests, CancelToken, DisposeToken,
     AwaitSubscription, CancelFuture, FinishCleanup
<1> SUFFICES ASSUME disposed', InTime', Closed', NEW c \in Callers, NEW k \in Calls, k = cur[c],
                    pc[c] = "awaiting", tcs'[k] = "pending"
             PROVE  \E d \in Tasks : WillCancel(d, k)'
  <2>1. \A c \in Callers : pc[c] = "awaiting" => cur[c] \in Calls
    BY <1>a DEF OwnCall, Calls, NoCall
  <2> QED
    BY <1>b, <2>1 DEF Reached, WillCancel
<1>d. ASSUME StartCleanup(e), UNCHANGED <<tcs, futures>>, (e = Sub /\ dpc[e] = "closing") \/ sub = "done"
      PROVE  WillCancel(e, k)'
  <2>1. futures[IdOf(k)] = k /\ IdOf(k) \in Ids
    BY <1>d, CleanerFinds
  <2>2. dpc'[e] = "cleaning" /\ IdOf(k) \in unvisited'[e]
    BY <1>a, <1>d, <2>1 DEF StartCleanup, NoCall, Calls
  <2> QED
    BY <2>2 DEF WillCancel
<1>1. CASE MarkDisposed(e) \/ CompleteRequests(e)
  <2>1. dpc'[e] \in {"completing", "cancelling"}
    BY <1>a, <1>1 DEF MarkDisposed, CompleteRequests
  <2> QED
    BY <2>1 DEF WillCancel
<1>2. CASE CancelToken(e)
  <2>1. dpc'[e] = "faulted" \/ dpc'[e] = "closing"
    BY <1>a, <1>2 DEF CancelToken
  <2> QED
    BY <2>1 DEF WillCancel, InTime
<1>3. CASE DisposeToken(e)
  <2>1. CASE e = Sub
    BY <1>3, <1>d, <2>1 DEF DisposeToken
  <2>2. CASE e # Sub
    <3>1. dpc'[e] = "waiting"
      BY <1>a, <1>3, <2>2 DEF DisposeToken
    <3> QED
      BY <3>1 DEF WillCancel
  <2> QED
    BY <2>1, <2>2
<1>4. CASE AwaitSubscription(e)
  <2>1. CASE sub = "done" /\ StartCleanup(e)
    BY <1>4, <1>d, <2>1 DEF AwaitSubscription
  <2>2. CASE dpc' = [dpc EXCEPT ![e] = "faulted"]
    BY <1>a, <2>2 DEF InTime
  <2> QED
    BY <1>4, <2>1, <2>2 DEF AwaitSubscription
<1>5. CASE StartDispose(e)
  <2>1. /\ UNCHANGED <<disposed, cts, halfClosed, tcs, unvisited>>
        /\ dpc[e] = "idle"
        /\ dpc' = [dpc EXCEPT ![e] = "returned"] \/ dpc' = [dpc EXCEPT ![e] = "disposing"]
    BY <1>5 DEF StartDispose
  <2>2. InTime /\ Closed
    <3>1. \A d \in Tasks : dpc[d] = dpc'[d] \/ dpc[d] = "idle"
      BY <1>a, <2>1
    <3>2. InTime
      BY <2>1, <3>1 DEF InTime
    <3>3. NobodyDisposes' => NobodyDisposes
      BY <1>a, <2>1, <3>1 DEF NobodyDisposes
    <3> QED
      BY <2>1, <3>2, <3>3 DEF Closed
  <2>3. PICK d \in Tasks : WillCancel(d, k)
    BY <2>1, <2>2 DEF Reached
  <2>4. d # e /\ dpc'[d] = dpc[d]
    BY <1>a, <2>1, <2>3 DEF WillCancel
  <2> QED
    BY <2>1, <2>3, <2>4 DEF WillCancel
<1>6. CASE CancelFuture(e)
  <2>1. PICK i \in Ids :
          /\ tcs' = IF tcs[futures[i]] = "pending" THEN [tcs EXCEPT ![futures[i]] = "canceled"] ELSE tcs
          /\ unvisited' = [unvisited EXCEPT ![e] = @ \ {i}]
    BY <1>6 DEF CancelFuture
  <2>2. UNCHANGED <<disposed, cts, halfClosed, dpc, futures>> /\ dpc[e] = "cleaning"
    BY <1>6 DEF CancelFuture
  <2>3. tcs[k] = "pending"
    BY <1>a, <2>1
  <2>4. InTime /\ Closed
    BY <2>2 DEF InTime, Closed, NobodyDisposes
  <2>5. PICK d \in Tasks : WillCancel(d, k)
    BY <2>2, <2>3, <2>4 DEF Reached
  <2>6. i # IdOf(k)
    <3>1. futures[IdOf(k)] = k
      BY <2>2, <2>3, CleanerFinds
    <3> QED
      BY <1>a, <2>1, <2>3, <3>1
  <2>7. IdOf(k) \in unvisited[d] => IdOf(k) \in unvisited'[d]
    BY <1>a, <2>1, <2>6
  <2> QED
    BY <2>2, <2>5, <2>7 DEF WillCancel
<1>7. CASE FinishCleanup(e)
  <2>1. /\ UNCHANGED <<disposed, cts, halfClosed, tcs, unvisited>>
        /\ dpc[e] = "cleaning" /\ unvisited[e] = {} /\ dpc' = [dpc EXCEPT ![e] = "returned"]
    BY <1>7 DEF FinishCleanup
  <2>2. \A d \in Tasks : d # e => dpc'[d] = dpc[d]
    BY <1>a, <2>1
  <2>3. InTime /\ Closed
    <3>1. InTime
      BY <2>1, <2>2 DEF InTime
    <3>2. NobodyDisposes' => NobodyDisposes
      BY <1>a, <2>1 DEF NobodyDisposes
    <3> QED
      BY <2>1, <3>1, <3>2 DEF Closed
  <2>4. PICK d \in Tasks : WillCancel(d, k)
    BY <2>1, <2>3 DEF Reached
  <2>5. d # e
    BY <2>1, <2>4 DEF WillCancel
  <2> QED
    BY <2>1, <2>2, <2>4, <2>5 DEF WillCancel
<1> QED
  BY <1>1, <1>2, <1>3, <1>4, <1>5, <1>6, <1>7 DEF DisposeStep

\* Nobody is left waiting by a step.
LEMMA NextReached ==
  ASSUME TypeInv, CleanupInv, NoLateWrite, OwnCall, Reached, Next
  PROVE  Reached'
<1> USE DEF callerVars, futureVars, subVars, disposeVars, netVars
<1>1. CASE \/ \E header \in {"match", "mismatch", "absent"}, faulted \in BOOLEAN : Connect(header, faulted)
           \/ SubStep \/ ServerStep \/ LateServe \/ SendBroadcast \/ Disconnect
  <2>1. UNCHANGED <<pc, cur, disposed, cts, dpc, unvisited, halfClosed>>
    BY <1>1 DEF Connect, SubStep, ReceiveResponse, ReceiveBroadcast, Advance, StreamEnds,
       FinishSubscription, SettleFuture, ServerStep, Serve, EndCall, LateServe, SendBroadcast, Disconnect
  <2>2. tcs' = tcs \/ \E k, outcome : outcome # "pending" /\ tcs' = [tcs EXCEPT ![k] = outcome]
    BY <1>1 DEF Connect, SubStep, ReceiveResponse, ReceiveBroadcast, Advance, StreamEnds,
       FinishSubscription, SettleFuture, ServerStep, Serve, EndCall, LateServe, SendBroadcast, Disconnect
  <2>3. \A c \in Callers : pc[c] = "awaiting" /\ tcs'[cur[c]] = "pending" => tcs[cur[c]] = "pending"
    <3>1. \A c \in Callers : pc[c] = "awaiting" => cur[c] \in Calls
      BY DEF TypeInv, TypeOK, OwnCall, Calls, NoCall
    <3>2. tcs = [k \in Calls |-> tcs[k]]
      BY DEF TypeInv, TypeOK
    <3> QED
      BY <2>2, <3>1, <3>2
  <2> QED
    BY <2>1, <2>3 DEF Reached, InTime, Closed, NobodyDisposes, WillCancel
<1> QED
  BY <1>1, CallerReached, DisposeReached DEF Next

\* DisposeAsyncCore: when the disposals are over nobody waits for a response
\* that cannot come, for any number of tasks that dispose, of callers that
\* register behind a clean-up under way, and of responses, and however they
\* interleave.
THEOREM CleanupComplete == Safety => []CleanupLeavesNobodyWaiting
<1> DEFINE Inv == CleanupInv /\ NoLateWrite /\ OwnCall /\ Reached
<1>1. Init => Inv
  <2> SUFFICES ASSUME Init PROVE Inv
    OBVIOUS
  <2>1. CleanupInv
    BY ThreadsAssumption DEF Init, CleanupInv, NotBefore, CleansAlone, PendingHeld, Tasks
  <2>2. NoLateWrite
    BY DEF Init, NoLateWrite, Tasks, Ended
  <2>3. OwnCall /\ Reached
    BY DEF Init, OwnCall, Reached, NoCall
  <2> QED
    BY <2>1, <2>2, <2>3
<1>2. TypeInv /\ Inv /\ [Next]_vars => Inv'
  <2>1. ASSUME TypeInv, Inv, Next PROVE Inv'
    <3>1. CleanupInv'
      BY <2>1, NextAlone, NextHeld DEF CleanupInv
    <3> QED
      BY <2>1, <3>1, NextNoLateWrite, NextOwn, NextReached
  <2>2. ASSUME Inv, UNCHANGED vars PROVE Inv'
    BY <2>2 DEF vars, callerVars, futureVars, subVars, disposeVars, netVars, CleanupInv,
       NotBefore, CleansAlone, PendingHeld, NoLateWrite, NobodyDisposes, OwnCall, Reached, InTime,
       Closed, WillCancel
  <2> QED
    BY <2>1, <2>2
<1>3. Inv => CleanupLeavesNobodyWaiting
  <2> SUFFICES ASSUME Inv, DisposalsOver, Closed, NEW c \in Callers,
                      pc[c] = "awaiting", tcs[cur[c]] = "pending"
               PROVE  FALSE
    BY DEF CleanupLeavesNobodyWaiting, Closed, NobodyDisposes
  <2>1. disposed
    BY DEF DisposalsOver, NoLateWrite
  <2>2. InTime
    BY DEF DisposalsOver, InTime
  <2>3. PICK d \in Tasks : WillCancel(d, cur[c])
    BY <2>1, <2>2 DEF Reached
  <2> QED
    BY <2>3 DEF DisposalsOver, WillCancel
<1> QED
  BY <1>1, <1>2, <1>3, TypeInvariance, PTL DEF Safety
-----------------------------------------------------------------------------
(***************************************************************************)
(* The calls of HubClient are those of HubCalls.                           *)
(***************************************************************************)
\* What has not been begun has not happened.
NotBegun == \A k \in Calls : k > issued => tcs[k] = "unused" /\ executions[k] = 0

\* A call is pending, or more, once it is registered, and is executed only
\* after its request was written.
NotWritten ==
  \A c \in Callers : pc[c] \in BeforeWrite /\ cur[c] \in Calls =>
    /\ executions[cur[c]] = 0
    /\ tcs[cur[c]] = "unused" <=> pc[c] = "registering"

\* A request on the wire was not executed, the call of a response was, once.
Executed ==
  /\ \A k \in Calls \cap CallsIn(wire)  : executions[k] = 0 /\ tcs[k] # "unused"
  /\ \A k \in Calls \cap CallsIn(inbox) : executions[k] = 1

\* The subscription settles a call with its own answer.
OwnAnswer ==
  sub = "settling" =>
    taken.call \in Calls /\ taken.future = taken.call /\ executions[taken.call] = 1

ExecutionInv == NotBegun /\ NotWritten /\ Executed /\ OwnAnswer

\* Steps that settle pending calls at most, and take nothing new in flight.
LEMMA QuietExecution ==
  ASSUME TypeInv, ExecutionInv,
         UNCHANGED <<pc, cur, issued, wire, executions>>,
         CallsIn(inbox)' \cap Calls \subseteq CallsIn(inbox),
         sub' = "settling" => UNCHANGED <<sub, taken>>,
         \A k \in Calls : tcs'[k] = "unused" <=> tcs[k] = "unused"
  PROVE  ExecutionInv'
<1>1. NotBegun' /\ NotWritten' /\ OwnAnswer'
  BY DEF ExecutionInv, NotBegun, NotWritten, OwnAnswer
<1>2. CallsIn(wire)' = CallsIn(wire)
  BY DEF CallsIn, Queued
<1>3. Executed'
  BY <1>2 DEF ExecutionInv, Executed
<1> QED
  BY <1>1, <1>3 DEF ExecutionInv

\* What a caller does.
LEMMA CallerExecution ==
  ASSUME TypeInv, FlightInv, ExecutionInv, NEW c \in Callers,
         BeginCall(c) \/ BeginFireAndForget(c) \/ CallerStep(c)
  PROVE  ExecutionInv'
<1> USE DEF ExecutionInv, BeforeWrite, callerVars, futureVars, subVars, disposeVars, netVars
<1>a. /\ pc = [e \in Callers |-> pc[e]] /\ cur \in [Callers -> 0..MaxCalls]
      /\ tcs = [k \in Calls |-> tcs[k]]
      /\ issued \in Nat /\ Calls \subseteq Nat /\ NoCall \notin Calls
      /\ wire \in Seq(Requests) /\ inbox \in Seq(Messages)
  BY IdAssumption DEF TypeInv, TypeOK, Calls, NoCall
<1>b. UNCHANGED <<executions, sub, taken>> => OwnAnswer'
  BY DEF OwnAnswer
<1>c. UNCHANGED <<wire, inbox>> => UNCHANGED <<CallsIn(wire), CallsIn(inbox)>>
  BY DEF CallsIn, Queued
<1>1. CASE BeginCall(c)
  <2>1. /\ pc' = [pc EXCEPT ![c] = "registering"]
        /\ issued' = issued + 1 /\ cur' = [cur EXCEPT ![c] = issued + 1]
        /\ UNCHANGED <<wire, inbox, tcs, executions, sub, taken>>
    BY <1>1 DEF BeginCall
  <2>2. NotBegun' /\ Executed'
    BY <1>a, <1>c, <2>1 DEF NotBegun, Executed
  <2>3. NotWritten'
    BY <1>a, <2>1 DEF NotBegun, NotWritten
  <2> QED
    BY <1>b, <2>1, <2>2, <2>3
<1>2. CASE RegisterFuture(c)
  <2>1. /\ pc[c] = "registering" /\ pc' = [pc EXCEPT ![c] = "locking"]
        /\ tcs' = [tcs EXCEPT ![cur[c]] = "pending"]
        /\ UNCHANGED <<cur, issued, wire, inbox, executions, sub, taken>>
    BY <1>2 DEF RegisterFuture
  <2>2. cur[c] \in Calls /\ cur[c] <= issued
    BY <1>a, <2>1, IdAssumption
    DEF TypeInv, RegistersCall, FlightInv, InOrderOfIssue, Calls, NoCall
  <2>3. NotBegun' /\ Executed'
    BY <1>a, <1>c, <2>1, <2>2 DEF NotBegun, Executed
  <2>4. NotWritten'
    <3> SUFFICES ASSUME NEW e \in Callers, pc'[e] \in BeforeWrite, cur[e] \in Calls
                 PROVE  /\ executions[cur[e]] = 0
                        /\ tcs'[cur[e]] = "unused" <=> pc'[e] = "registering"
      BY <2>1 DEF NotWritten
    <3>1. CASE e = c
      BY <1>a, <2>1, <2>2, <3>1 DEF NotWritten
    <3>2. CASE e # c
      <4>1. pc'[e] = pc[e] /\ cur[e] # cur[c]
        BY <1>a, <2>1, <2>2, <3>2 DEF FlightInv, OneCaller
      <4> QED
        BY <1>a, <2>1, <4>1 DEF NotWritten
    <3> QED
      BY <3>1, <3>2
  <2> QED
    BY <1>b, <2>1, <2>3, <2>4
<1>3. CASE WriteCompletes(c)
  <2> DEFINE m == IF cur[c] = NoCall THEN Request(OneWayId, NoCall)
                                     ELSE Request(IdOf(cur[c]), cur[c])
  <2>1. /\ pc[c] = "writing"
        /\ pc' = [pc EXCEPT ![c] = IF cur[c] = NoCall THEN "idle" ELSE "awaiting"]
        /\ wire' = Append(wire, m)
        /\ UNCHANGED <<cur, issued, tcs, inbox, executions, sub, taken>>
    BY <1>3 DEF WriteCompletes
  <2>2. m \in Requests /\ m.call = cur[c] /\ (cur[c] # NoCall => cur[c] \in Calls)
    BY <1>a, IdType, SpecialIds, IdAssumption DEF Request, Requests, Calls, NoCall
  <2> HIDE DEF m
  <2>3. CallsIn(wire)' = CallsIn(wire) \cup {cur[c]} /\ CallsIn(inbox)' = CallsIn(inbox)
    <3>1. Queued(wire)' = Queued(wire) \cup {m}
      BY <1>a, <2>1, <2>2, AppendQueue
    <3> QED
      BY <2>1, <2>2, <3>1 DEF CallsIn, Queued
  <2>4. cur[c] \in Calls => executions[cur[c]] = 0 /\ tcs[cur[c]] # "unused"
    BY <2>1 DEF NotWritten
  <2>5. Executed'
    BY <2>1, <2>3, <2>4 DEF Executed
  <2>6. NotBegun' /\ NotWritten'
    BY <1>a, <2>1 DEF NotBegun, NotWritten
  <2> QED
    BY <1>b, <2>1, <2>5, <2>6
<1>4. CASE BeginFireAndForget(c)
  <2>1. /\ cur' = [cur EXCEPT ![c] = NoCall] /\ pc' = [pc EXCEPT ![c] = "locking"]
        /\ UNCHANGED <<issued, tcs, wire, inbox, executions, sub, taken>>
    BY <1>4 DEF BeginFireAndForget
  <2>2. NotBegun' /\ NotWritten' /\ Executed'
    BY <1>a, <1>c, <2>1 DEF NotBegun, NotWritten, Executed
  <2> QED
    BY <1>b, <2>1, <2>2
<1>5. CASE AcquireLock(c) \/ StartWrite(c) \/ WriteThrows(c) \/ ReturnToCaller(c)
  <2>1. /\ pc[c] # "registering"
        /\ \E place \in {"locked", "writing", "idle"} :
             /\ pc' = [pc EXCEPT ![c] = place]
             /\ place # "idle" => pc[c] \in BeforeWrite
        /\ UNCHANGED <<cur, issued, tcs, wire, inbox, executions, sub, taken>>
    BY <1>5 DEF AcquireLock, StartWrite, WriteThrows, ReturnToCaller
  <2>2. NotBegun' /\ NotWritten' /\ Executed'
    BY <1>a, <1>c, <2>1 DEF NotBegun, NotWritten, Executed
  <2> QED
    BY <1>b, <2>1, <2>2
<1> QED
  BY <1>1, <1>2, <1>3, <1>4, <1>5 DEF CallerStep

\* A handler is executed for a request on the wire, which is the only one of
\* its call.
LEMMA HandlerExecution ==
  ASSUME TypeInv, FlightInv, ExecutionInv,
         (\E kind \in {"response", "error"} : Serve(kind)) \/ LateServe
  PROVE  /\ ExecutionInv'
         /\ UNCHANGED <<tcs, replyTo>>
         /\ UNCHANGED executions
              \/ \E k \in Calls : /\ executions[k] = 0 /\ tcs[k] # "unused"
                                  /\ executions' = [executions EXCEPT ![k] = 1]
<1> USE DEF ExecutionInv, callerVars, futureVars, subVars, disposeVars
<1> DEFINE r == Head(wire)
<1>a. /\ wire \in Seq(Requests) /\ inbox \in Seq(Messages)
      /\ executions \in [Calls -> Nat] /\ Calls \subseteq Nat
  BY IdAssumption DEF TypeInv, TypeOK, Calls
<1>1. /\ wire # <<>> /\ wire' = Tail(wire)
      /\ executions' = [k \in Calls |-> executions[k] + (IF k = r.call THEN 1 ELSE 0)]
      /\ UNCHANGED <<pc, cur, issued, tcs, replyTo, sub, taken>>
  BY DEF Serve, LateServe
<1>2. \/ inbox' = inbox
      \/ \E m \in Messages : m.call = r.call /\ inbox' = Append(inbox, m)
  <2>1. ASSUME NEW kind \in {"response", "error"}, Serve(kind), r.id # OneWayId
        PROVE  \E m \in Messages : m.call = r.call /\ inbox' = Append(inbox, m)
    <3>1. inbox' = Append(inbox, Message(kind, r.id, r.call))
      BY <2>1 DEF Serve
    <3>2. r \in Requests
      BY <1>a, <1>1, TailType
    <3> QED
      BY <3>1, <3>2 DEF Message, Messages, Requests
  <2> QED
    BY <2>1 DEF Serve, LateServe
<1>3. /\ r.call \in CallsIn(wire) /\ CallsIn(wire)' \subseteq CallsIn(wire)
      /\ r.call \in Calls => r.call \notin CallsIn(wire)'
  <2>1. /\ r \in Queued(wire) /\ Queued(wire)' \subseteq Queued(wire)
        /\ r.call \in Calls => r.call \notin CallsIn(wire)'
    BY <1>a, <1>1, TailQueue DEF FlightInv, OneMessage
  <2> QED
    BY <2>1 DEF CallsIn, Queued
<1>4. CallsIn(inbox)' \subseteq CallsIn(inbox) \cup {r.call}
  <2>1. ASSUME NEW m \in Messages, m.call = r.call, inbox' = Append(inbox, m)
        PROVE  CallsIn(inbox)' \subseteq CallsIn(inbox) \cup {r.call}
    <3>1. Queued(inbox)' = Queued(inbox) \cup {m}
      BY <1>a, <2>1, AppendQueue
    <3> QED
      BY <2>1, <3>1 DEF CallsIn
  <2>2. inbox' = inbox => CallsIn(inbox)' = CallsIn(inbox)
    BY DEF CallsIn, Queued
  <2> QED
    BY <1>2, <2>1, <2>2
<1> HIDE DEF r
<1>5. r.call \in Calls => /\ executions[r.call] = 0 /\ tcs[r.call] # "unused"
                          /\ r.call <= issued /\ InFlight(r.call)
  BY <1>3 DEF Executed, FlightInv, InOrderOfIssue, InFlight
<1>6. /\ \A k \in Calls : k # r.call => executions'[k] = executions[k]
      /\ r.call \in Calls => executions'[r.call] = 1
  BY <1>a, <1>1, <1>5
<1>7. NotBegun' /\ OwnAnswer'
  <2>1. issued \in Nat
    BY DEF TypeInv, TypeOK
  <2>2. NotBegun'
    BY <1>1, <1>a, <1>5, <1>6, <2>1 DEF NotBegun
  <2>3. OwnAnswer'
    BY <1>1, <1>5, <1>6 DEF OwnAnswer
  <2> QED
    BY <2>2, <2>3
<1>8. NotWritten'
  <2> SUFFICES ASSUME NEW c \in Callers, pc[c] \in BeforeWrite, cur[c] \in Calls
               PROVE  executions'[cur[c]] = 0 /\ (tcs[cur[c]] = "unused" <=> pc[c] = "registering")
    BY <1>1 DEF NotWritten
  <2>1. cur[c] # r.call
    BY <1>5 DEF FlightInv, OneCaller
  <2> QED
    BY <1>6, <2>1 DEF NotWritten
<1>9. Executed'
  BY <1>1, <1>3, <1>4, <1>6 DEF Executed
<1>10. CASE r.call \in Calls
  <2>1. executions' = [executions EXCEPT ![r.call] = 1]
    <3>1. DOMAIN executions' = Calls /\ executions' = [k \in Calls |-> executions'[k]]
      BY <1>1
    <3>2. \A k \in Calls : executions'[k] = [executions EXCEPT ![r.call] = 1][k]
      BY <1>a, <1>6, <1>10
    <3> QED
      BY <1>a, <3>1, <3>2
  <2> QED
    BY <1>1, <1>5, <1>7, <1>8, <1>9, <1>10, <2>1
<1>11. CASE r.call \notin Calls
  <2>1. executions' = executions
    BY <1>a, <1>1, <1>11
  <2> QED
    BY <1>1, <1>7, <1>8, <1>9, <2>1
<1> QED
  BY <1>10, <1>11

\* A response takes the future of its own call.
LEMMA ReceiveExecution ==
  ASSUME MaxCalls <= 2 * IdMax, TypeInv, FlightInv, ExecutionInv, ReceiveResponse
  PROVE  ExecutionInv'
<1> USE DEF ExecutionInv, callerVars, disposeVars
<1> DEFINE m == Head(inbox)
<1>a. /\ inbox \in Seq(Messages) /\ futures \in [Ids -> 0..MaxCalls]
  BY DEF TypeInv, TypeOK
<1>1. /\ inbox # <<>> /\ m.kind # "broadcast" /\ inbox' = Tail(inbox)
      /\ \/ sub' = "advancing"
         \/ /\ futures[m.id] # NoCall
            /\ taken'.future = futures[m.id] /\ taken'.call = m.call
      /\ UNCHANGED <<wire, tcs, pc, cur, issued, executions>>
  BY DEF ReceiveResponse
<1>2. m \in Queued(inbox) /\ Queued(inbox)' \subseteq Queued(inbox) /\ m \in Messages
  BY <1>a, <1>1, TailQueue, TailType
<1> HIDE DEF m
<1>3. NotBegun' /\ NotWritten'
  BY <1>1 DEF NotBegun, NotWritten
<1>4. Executed'
  BY <1>1, <1>2 DEF Executed, CallsIn, Queued
<1>5. OwnAnswer'
  <2> SUFFICES ASSUME sub' = "settling"
               PROVE  m.call \in Calls /\ futures[m.id] = m.call /\ executions[m.call] = 1
    BY <1>1 DEF OwnAnswer
  <2>1. futures[m.id] # NoCall /\ Matching(m) /\ m.id \in Ids
    BY <1>1, <1>2 DEF FlightInv, IdsMatch, Messages
  <2>2. futures[m.id] \in Calls /\ m.id = IdOf(futures[m.id])
    BY <1>a, <2>1, IdAssumption DEF FlightInv, IdsMatch, Calls, NoCall
  <2>3. \A k \in Calls : IdOf(k) # OneWayId
    BY IdAssumption DEF Calls, IdOf, OneWayId
  <2>4. m.call \in Calls /\ IdOf(m.call) = m.id
    BY <2>1, <2>2, <2>3 DEF Matching
  <2>5. futures[m.id] = m.call
    BY <2>2, <2>4, IdInjective
  <2>6. executions[m.call] = 1
    BY <1>2, <2>4 DEF Executed, CallsIn
  <2> QED
    BY <2>4, <2>5, <2>6
<1> QED
  BY <1>3, <1>4, <1>5

\* Every step keeps requests, executions and answers together.
LEMMA NextExecution ==
  ASSUME MaxCalls <= 2 * IdMax, TypeInv, FlightInv, ExecutionInv, Next
  PROVE  ExecutionInv'
<1> USE DEF callerVars, futureVars, subVars, disposeVars, netVars
<1>a. inbox \in Seq(Messages) /\ tcs = [k \in Calls |-> tcs[k]] /\ NoCall \notin Calls
  BY DEF TypeInv, TypeOK, Calls, NoCall
<1>1. CASE \/ \E header \in {"match", "mismatch", "absent"}, faulted \in BOOLEAN : Connect(header, faulted)
           \/ Advance \/ StreamEnds \/ FinishSubscription \/ Disconnect
           \/ \E d \in Tasks : \/ StartDispose(d) \/ MarkDisposed(d) \/ CompleteRequests(d)
                               \/ CancelToken(d) \/ DisposeToken(d) \/ AwaitSubscription(d)
                               \/ FinishCleanup(d)
  <2>1. /\ UNCHANGED <<pc, cur, issued, wire, inbox, executions, tcs>>
        /\ sub' = "settling" => UNCHANGED <<sub, taken>>
    BY <1>1 DEF Connect, Advance, StreamEnds, FinishSubscription, Disconnect,
       StartDispose, MarkDisposed, CompleteRequests, CancelToken, DisposeToken, AwaitSubscription,
       FinishCleanup
  <2>2. CallsIn(inbox)' = CallsIn(inbox)
    BY <2>1 DEF CallsIn, Queued
  <2> QED
    BY <2>1, <2>2, QuietExecution
<1>2. ASSUME NEW outcome \in {"result", "error"}, SettleFuture(outcome) PROVE ExecutionInv'
  <2>1. /\ UNCHANGED <<pc, cur, issued, wire, inbox, executions>> /\ sub' = "advancing"
        /\ IF tcs[taken.future] = "pending" THEN tcs' = [tcs EXCEPT ![taken.future] = outcome]
                                            ELSE UNCHANGED tcs
    BY <1>2 DEF SettleFuture
  <2>2. CallsIn(inbox)' = CallsIn(inbox)
    BY <2>1 DEF CallsIn, Queued
  <2>3. \A k \in Calls : tcs'[k] = "unused" <=> tcs[k] = "unused"
    BY <1>a, <2>1
  <2> QED
    BY <2>1, <2>2, <2>3, QuietExecution
<1>3. ASSUME NEW d \in Tasks, CancelFuture(d) PROVE ExecutionInv'
  <2>1. /\ UNCHANGED <<pc, cur, issued, wire, inbox, executions, sub, taken>>
        /\ \A k \in Calls : tcs'[k] = "unused" <=> tcs[k] = "unused"
    <3>1. PICK i \in Ids :
            tcs' = IF tcs[futures[i]] = "pending" THEN [tcs EXCEPT ![futures[i]] = "canceled"] ELSE tcs
      BY <1>3 DEF CancelFuture
    <3> QED
      BY <1>3, <1>a, <3>1 DEF CancelFuture
  <2>2. CallsIn(inbox)' = CallsIn(inbox)
    BY <2>1 DEF CallsIn, Queued
  <2> QED
    BY <2>1, <2>2, QuietExecution
<1>4. CASE ReceiveBroadcast \/ EndCall
  <2>1. /\ UNCHANGED <<pc, cur, issued, wire, executions, tcs>>
        /\ sub' = "settling" => UNCHANGED <<sub, taken>>
    BY <1>4 DEF ReceiveBroadcast, EndCall
  <2>2. Queued(inbox)' \subseteq Queued(inbox)
    <3>1. CASE ReceiveBroadcast
      BY <1>a, <3>1, TailQueue DEF ReceiveBroadcast
    <3>2. CASE EndCall
      <4>1. PICK n \in 0..Len(inbox) : inbox' = SubSeq(inbox, 1, n)
        BY <3>2 DEF EndCall
      <4> QED
        BY <1>a, <4>1, PrefixQueue
    <3> QED
      BY <1>4, <3>1, <3>2
  <2>3. CallsIn(inbox)' \subseteq CallsIn(inbox)
    BY <2>2 DEF CallsIn
  <2> QED
    BY <2>1, <2>3, QuietExecution
<1>5. CASE SendBroadcast
  <2> DEFINE m == Message("broadcast", 0, NoCall)
  <2>1. /\ UNCHANGED <<pc, cur, issued, wire, executions, tcs, sub, taken>>
        /\ inbox' = Append(inbox, m)
    BY <1>5 DEF SendBroadcast
  <2>2. m \in Messages /\ m.call = NoCall
    BY SpecialIds, IdAssumption DEF Message, Messages, NoCall
  <2> HIDE DEF m
  <2>3. Queued(inbox)' = Queued(inbox) \cup {m}
    BY <1>a, <2>1, <2>2, AppendQueue
  <2>4. CallsIn(inbox)' \cap Calls \subseteq CallsIn(inbox)
    BY <1>a, <2>2, <2>3 DEF CallsIn
  <2> QED
    BY <2>1, <2>4, QuietExecution
<1> QED
  BY <1>1, <1>2, <1>3, <1>4, <1>5, CallerExecution, HandlerExecution, ReceiveExecution
  DEF Next, SubStep, DisposeStep, ServerStep

-----------------------------------------------------------------------------
\* What HubCalls sees of the client changes as HubCalls says.
LEMMA StepRefined ==
  ASSUME TypeInv, FlightInv, ExecutionInv, Next
  PROVE  HubCallsSpec!Next \/ UNCHANGED HubCallsSpec!vars
<1> DEFINE view == [k \in Calls |-> CallStatus(k)]
<1> USE DEF callerVars, futureVars, subVars, disposeVars, netVars
<1>a. /\ tcs \in [Calls -> {"unused", "pending", "result", "error", "canceled"}]
      /\ replyTo \in [Calls -> 0..MaxCalls] /\ executions \in [Calls -> Nat]
  BY DEF TypeInv, TypeOK
<1>b. ASSUME UNCHANGED <<tcs, replyTo>> PROVE UNCHANGED view
  BY <1>b DEF CallStatus
<1>c. view \in [Calls -> {"unused", "pending", "result", "error", "canceled", "crossed"}]
  BY <1>a DEF CallStatus
<1>d. HubCallsSpec!Calls = Calls
  BY DEF HubCallsSpec!Calls, Calls
<1>1. ASSUME NEW c \in Callers, RegisterFuture(c) PROVE HubCallsSpec!Next
  <2> DEFINE k == cur[c]
  <2>1. /\ pc[c] = "registering" /\ tcs' = [tcs EXCEPT ![k] = "pending"]
        /\ UNCHANGED <<replyTo, executions>>
    BY <1>1 DEF RegisterFuture
  <2>2. k \in Calls /\ tcs[k] = "unused"
    BY <2>1, IdAssumption
    DEF TypeInv, TypeOK, RegistersCall, ExecutionInv, NotWritten, BeforeWrite, Calls, NoCall
  <2> HIDE DEF k
  <2>3. view[k] = "unused" /\ view' = [view EXCEPT ![k] = "pending"]
    BY <1>a, <2>1, <2>2 DEF CallStatus
  <2>4. HubCallsSpec!Begin(k)
    BY <2>1, <2>3 DEF HubCallsSpec!Begin
  <2> QED
    BY <1>d, <2>2, <2>4 DEF HubCallsSpec!Next
<1>2. ASSUME NEW outcome \in {"result", "error"}, SettleFuture(outcome)
      PROVE  HubCallsSpec!Next \/ UNCHANGED HubCallsSpec!vars
  <2> DEFINE k == taken.future
  <2>1. /\ sub = "settling" /\ UNCHANGED executions
        /\ IF tcs[k] = "pending"
             THEN /\ tcs' = [tcs EXCEPT ![k] = outcome]
                  /\ replyTo' = [replyTo EXCEPT ![k] = taken.call]
             ELSE UNCHANGED <<tcs, replyTo>>
    BY <1>2 DEF SettleFuture
  <2>2. k \in Calls /\ taken.call = k /\ executions[k] = 1
    BY <2>1 DEF ExecutionInv, OwnAnswer
  <2> HIDE DEF k
  <2>3. CASE tcs[k] = "pending"
    <3>1. view[k] = "pending" /\ view' = [view EXCEPT ![k] = outcome]
      BY <1>a, <2>1, <2>2, <2>3 DEF CallStatus
    <3>2. HubCallsSpec!Answer(k)
      BY <2>1, <2>2, <3>1 DEF HubCallsSpec!Answer
    <3> QED
      BY <1>d, <2>2, <3>2 DEF HubCallsSpec!Next
  <2>4. CASE tcs[k] # "pending"
    BY <1>b, <2>1, <2>4 DEF HubCallsSpec!vars
  <2> QED
    BY <2>3, <2>4
<1>3. ASSUME NEW d \in Tasks, CancelFuture(d)
      PROVE  HubCallsSpec!Next \/ UNCHANGED HubCallsSpec!vars
  <2>1. PICK i \in Ids :
          /\ futures[i] # NoCall
          /\ tcs' = IF tcs[futures[i]] = "pending" THEN [tcs EXCEPT ![futures[i]] = "canceled"] ELSE tcs
    BY <1>3 DEF CancelFuture
  <2>2. UNCHANGED <<replyTo, executions>>
    BY <1>3 DEF CancelFuture
  <2> DEFINE k == futures[i]
  <2>3. k \in Calls
    BY <2>1, IdAssumption DEF TypeInv, TypeOK, Calls, NoCall
  <2> HIDE DEF k
  <2>4. CASE tcs[k] = "pending"
    <3>1. tcs' = [tcs EXCEPT ![k] = "canceled"]
      BY <2>1, <2>4 DEF k
    <3>2. view[k] = "pending" /\ view' = [view EXCEPT ![k] = "canceled"]
      BY <1>a, <2>2, <2>3, <2>4, <3>1 DEF CallStatus
    <3>3. HubCallsSpec!Cancel(k)
      BY <2>2, <3>2 DEF HubCallsSpec!Cancel
    <3> QED
      BY <1>d, <2>3, <3>3 DEF HubCallsSpec!Next
  <2>5. CASE tcs[k] # "pending"
    <3>1. tcs' = tcs
      BY <2>1, <2>5 DEF k
    <3> QED
      BY <1>b, <2>2, <3>1 DEF HubCallsSpec!vars
  <2> QED
    BY <2>4, <2>5
<1>4. CASE (\E kind \in {"response", "error"} : Serve(kind)) \/ LateServe
  <2>1. UNCHANGED view
    BY <1>b, <1>4, HandlerExecution
  <2>2. CASE UNCHANGED executions
    BY <2>1, <2>2 DEF HubCallsSpec!vars
  <2>3. ASSUME NEW k \in Calls, executions[k] = 0, tcs[k] # "unused",
               executions' = [executions EXCEPT ![k] = 1]
        PROVE  HubCallsSpec!Next
    <3>1. view[k] # "unused"
      BY <2>3 DEF CallStatus
    <3>2. HubCallsSpec!Execute(k)
      BY <2>1, <2>3, <3>1 DEF HubCallsSpec!Execute
    <3> QED
      BY <1>d, <2>3, <3>2 DEF HubCallsSpec!Next
  <2> QED
    BY <1>4, <2>2, <2>3, HandlerExecution
<1>5. CASE \/ \E header \in {"match", "mismatch", "absent"}, faulted \in BOOLEAN : Connect(header, faulted)
           \/ \E c \in Callers : \/ BeginCall(c) \/ BeginFireAndForget(c) \/ AcquireLock(c)
                                 \/ StartWrite(c) \/ WriteThrows(c) \/ WriteCompletes(c)
                                 \/ ReturnToCaller(c)
           \/ ReceiveResponse \/ ReceiveBroadcast \/ Advance \/ StreamEnds \/ FinishSubscription
           \/ \E d \in Tasks : \/ StartDispose(d) \/ MarkDisposed(d) \/ CompleteRequests(d)
                               \/ CancelToken(d) \/ DisposeToken(d) \/ AwaitSubscription(d)
                               \/ FinishCleanup(d)
           \/ EndCall \/ SendBroadcast \/ Disconnect
  <2>1. UNCHANGED <<tcs, replyTo, executions>>
    BY <1>5 DEF Connect, BeginCall, BeginFireAndForget, AcquireLock, StartWrite, WriteThrows,
       WriteCompletes, ReturnToCaller, ReceiveResponse, ReceiveBroadcast, Advance, StreamEnds,
       FinishSubscription, StartDispose, MarkDisposed, CompleteRequests, CancelToken,
       DisposeToken, AwaitSubscription, FinishCleanup, EndCall, SendBroadcast, Disconnect
  <2> QED
    BY <1>b, <2>1 DEF HubCallsSpec!vars
<1> QED
  BY <1>1, <1>2, <1>3, <1>4, <1>5 DEF Next, CallerStep, SubStep, DisposeStep, ServerStep

\* The calls of a connection behave as HubCalls promises, for any number of
\* callers, calls and tasks that dispose: a handler runs once at most, and a
\* call is settled once at most, with its own answer and only after its handler
\* ran, or cancelled.  The ids must not have come round to -1.
THEOREM ImplementsHubCalls ==
  ASSUME MaxCalls <= 2 * IdMax
  PROVE  Safety => CallsRefined
<1>1. Init => ExecutionInv
  <2> SUFFICES ASSUME Init PROVE ExecutionInv
    OBVIOUS
  <2>1. /\ wire = <<>> /\ inbox = <<Marker>> /\ NoCall \notin Calls /\ Marker.call = NoCall
    BY DEF Init, Marker, NoCall, Calls
  <2>2. CallsIn(wire) \cap Calls = {} /\ CallsIn(inbox) \cap Calls = {}
    BY <2>1 DEF CallsIn, Queued
  <2> QED
    BY <2>2 DEF Init, ExecutionInv, NotBegun, NotWritten, Executed, OwnAnswer, BeforeWrite, NoCall, Calls
<1>2. TypeInv /\ FlightInv /\ ExecutionInv /\ [Next]_vars => ExecutionInv'
  <2>1. ASSUME TypeInv, FlightInv, ExecutionInv, Next PROVE ExecutionInv'
    BY <2>1, NextExecution
  <2>2. ASSUME TypeInv, ExecutionInv, UNCHANGED vars PROVE ExecutionInv'
    <3>1. CallsIn(inbox)' = CallsIn(inbox)
      BY <2>2 DEF vars, netVars, CallsIn, Queued
    <3> QED
      BY <2>2, <3>1, QuietExecution DEF vars, callerVars, futureVars, subVars, netVars
  <2> QED
    BY <2>1, <2>2
<1>3. Init => HubCallsSpec!Init
  BY DEF Init, HubCallsSpec!Init, HubCallsSpec!Calls, Calls, CallStatus
<1>4. TypeInv /\ FlightInv /\ ExecutionInv /\ [Next]_vars => [HubCallsSpec!Next]_(HubCallsSpec!vars)
  <2>1. ASSUME TypeInv, FlightInv, ExecutionInv, Next
        PROVE  HubCallsSpec!Next \/ UNCHANGED HubCallsSpec!vars
    BY <2>1, StepRefined
  <2>2. ASSUME UNCHANGED vars PROVE UNCHANGED HubCallsSpec!vars
    BY <2>2 DEF vars, futureVars, netVars, HubCallsSpec!vars, CallStatus
  <2> QED
    BY <2>1, <2>2
<1> QED
  BY <1>1, <1>2, <1>3, <1>4, TypeInvariance, FlightInvariance, PTL
  DEF Safety, CallsRefined, HubCallsSpec!Spec
=============================================================================
