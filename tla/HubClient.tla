----------------------------- MODULE HubClient ------------------------------
(***************************************************************************)
(* The client side of one StreamingHub connection:                         *)
(* StreamingHubClientBase of MagicOnion.Client.                            *)
(*                                                                         *)
(* Application threads (Callers) invoke hub methods, the subscription task *)
(* (Sub) reads the response stream, and application threads (Disposers)    *)
(* call DisposeAsync.  They share the table of response futures, the       *)
(* AsyncLock around the request stream, the `disposed' flag and the        *)
(* CancellationTokenSource.  One action is what a thread does between two  *)
(* points where another thread can run in between.  The gRPC call and the  *)
(* server behind it are the environment.                                   *)
(*                                                                         *)
(* A call that expects a response is named by the number k of the          *)
(* increment of `messageId' that made it; the id on the wire is IdOf(k).   *)
(***************************************************************************)
EXTENDS Integers, Sequences

CONSTANTS
  Callers,        \* threads that invoke hub methods
  Disposers,      \* threads that call DisposeAsync
  Sub,            \* the subscription task
  NoCaller,       \* nobody holds the AsyncLock
  IdMax,          \* Int32.MaxValue of the model
  MaxCalls,       \* bound: calls with a response on this connection
  MaxOneWay,      \* bound: fire-and-forget calls
  MaxBroadcasts   \* bound: broadcasts the server sends

ASSUME ThreadsAssumption == Sub \notin Disposers /\ NoCaller \notin Callers
ASSUME IdAssumption      == IdMax \in Nat \ {0} /\ MaxCalls \in 0..(2 * IdMax + 2)
ASSUME BoundsAssumption  == MaxOneWay \in Nat /\ MaxBroadcasts \in Nat

VARIABLES
  connection,     \* __ConnectAndSubscribeAsync: "connecting", "connected", "failed"
  issued,         \* increments of messageId so far; messageId = IdOf(issued)
  oneWays,        \* fire-and-forget calls so far
  pc,             \* pc[c]: where caller c is in WriteMessage...Async
  cur,            \* cur[c]: its call, 0 for a fire-and-forget call
  futures,        \* responseFutures[id]: the call whose TaskCompletionSource is stored
  tcs,            \* tcs[k]: state of the TaskCompletionSource of call k
  replyTo,        \* replyTo[k]: the call whose response settled k
  lock,           \* asyncLock: the caller that holds it
  sub,            \* where the subscription task is
  taken,          \* the response the subscription took from the stream, and its future
  disposed,
  cts,            \* CancellationTokenSource: "live", "cancelled", "disposed"
  dpc,            \* dpc[d]: where task d is in DisposeAsyncCore
  unvisited,      \* unvisited[d]: ids the clean-up of d has still to come to
  waitForDisconnect,
  callState,      \* the gRPC call: "open", "ended", "aborted"
  halfClosed,     \* CompleteAsync took effect on the request stream
  wire,           \* requests on their way to the server
  inbox,          \* messages on their way to the client
  executions,     \* executions[k]: how often the server executed call k
  broadcasts      \* broadcasts sent so far

callerVars  == <<issued, oneWays, pc, cur, lock>>
futureVars  == <<futures, tcs, replyTo>>
subVars     == <<sub, taken, waitForDisconnect>>
disposeVars == <<disposed, cts, dpc, unvisited>>
netVars     == <<callState, halfClosed, wire, inbox, executions, broadcasts>>
vars == <<connection, callerVars, futureVars, subVars, disposeVars, netVars>>

Calls     == 1..MaxCalls
Ids       == (-(IdMax + 1))..IdMax
NoCall    == 0
Tasks     == Disposers \cup {Sub}    \* the tasks that run DisposeAsyncCore

\* `messageId' is an Int32 and Interlocked.Increment wraps: after IdMax come
\* the negative ids.
IdOfSame(k) == 1
IdOf(k) == IF k <= IdMax THEN k ELSE k - 2 * (IdMax + 1)

OneWayId == -1     \* what the server decodes for a two-element message
Marker   == [kind |-> "response", id |-> -1, call |-> NoCall]

Request(id, k)        == [id |-> id, call |-> k]
Message(kind, id, k)  == [kind |-> kind, id |-> id, call |-> k]
Requests == [id : Ids, call : 0..MaxCalls]
Messages == [kind : {"response", "error", "broadcast"}, id : Ids, call : 0..MaxCalls]
Nothing  == [future |-> NoCall, kind |-> "response", call |-> NoCall]

TypeOK ==
  /\ connection \in {"connecting", "connected", "failed"}
  /\ issued \in 0..MaxCalls
  /\ oneWays \in 0..MaxOneWay
  /\ pc \in [Callers -> {"idle", "registering", "locking", "locked", "writing", "awaiting"}]
  /\ cur \in [Callers -> 0..MaxCalls]
  /\ futures \in [Ids -> 0..MaxCalls]
  /\ tcs \in [Calls -> {"unused", "pending", "result", "error", "canceled"}]
  /\ replyTo \in [Calls -> 0..MaxCalls]
  /\ lock \in Callers \cup {NoCaller}
  /\ sub \in {"none", "moving", "settling", "advancing", "stopping", "done", "faulted"}
  /\ taken \in [future : 0..MaxCalls, kind : {"response", "error"}, call : 0..MaxCalls]
  /\ disposed \in BOOLEAN
  /\ cts \in {"live", "cancelled", "disposed"}
  /\ dpc \in [Tasks -> {"idle", "disposing", "completing", "cancelling", "closing",
                        "waiting", "cleaning", "returned", "faulted"}]
  /\ unvisited \in [Tasks -> SUBSET Ids]
  /\ waitForDisconnect \in BOOLEAN
  /\ callState \in {"open", "ended", "aborted"}
  /\ halfClosed \in BOOLEAN
  /\ wire \in Seq(Requests)
  /\ inbox \in Seq(Messages)
  /\ executions \in [Calls -> Nat]
  /\ broadcasts \in 0..MaxBroadcasts

Init ==
  /\ connection = "connecting"
  /\ issued = 0
  /\ oneWays = 0
  /\ pc = [c \in Callers |-> "idle"]
  /\ cur = [c \in Callers |-> NoCall]
  /\ futures = [i \in Ids |-> NoCall]
  /\ tcs = [k \in Calls |-> "unused"]
  /\ replyTo = [k \in Calls |-> NoCall]
  /\ lock = NoCaller
  /\ sub = "none"
  /\ taken = Nothing
  /\ disposed = FALSE
  /\ cts = "live"
  /\ dpc = [d \in Tasks |-> "idle"]
  /\ unvisited = [d \in Tasks |-> {}]
  /\ waitForDisconnect = FALSE
  /\ callState = "open"
  /\ halfClosed = FALSE
  /\ wire = <<>>
  /\ inbox = <<Marker>>
  /\ executions = [k \in Calls |-> 0]
  /\ broadcasts = 0
-----------------------------------------------------------------------------
(***************************************************************************)
(* Connecting.  The application gets the client object only from a         *)
(* ConnectAsync that succeeded: no call is made before.                    *)
(***************************************************************************)
Connect(header, firstMoveFaulted) ==
  /\ connection = "connecting"
  /\ IF header = "match" /\ ~firstMoveFaulted
       THEN /\ connection' = "connected"
            /\ sub' = "moving"
       ELSE /\ connection' = "failed"
            /\ UNCHANGED sub
  /\ UNCHANGED <<callerVars, futureVars, taken, waitForDisconnect, disposeVars, netVars>>
-----------------------------------------------------------------------------
(***************************************************************************)
(* WriteMessageWithResponseAsync and WriteMessageFireAndForgetAsync.       *)
(* ThrowIfDisposed is the guard of the first step; the increment of        *)
(* messageId is part of it, nothing reads messageId in between.            *)
(***************************************************************************)
BeginCall(c) ==
  /\ connection = "connected"
  /\ pc[c] = "idle"
  /\ ~disposed
  /\ issued < MaxCalls
  /\ issued' = issued + 1
  /\ cur' = [cur EXCEPT ![c] = issued + 1]
  /\ pc' = [pc EXCEPT ![c] = "registering"]
  /\ UNCHANGED <<connection, oneWays, lock, futureVars, subVars, disposeVars, netVars>>

RegisterFuture(c) ==
  /\ pc[c] = "registering"
  /\ futures' = [futures EXCEPT ![IdOf(cur[c])] = cur[c]]
  /\ tcs' = [tcs EXCEPT ![cur[c]] = "pending"]
  /\ pc' = [pc EXCEPT ![c] = "locking"]
  /\ UNCHANGED <<connection, issued, oneWays, cur, lock, replyTo,
                 subVars, disposeVars, netVars>>

BeginFireAndForget(c) ==
  /\ connection = "connected"
  /\ pc[c] = "idle"
  /\ ~disposed
  /\ oneWays < MaxOneWay
  /\ oneWays' = oneWays + 1
  /\ cur' = [cur EXCEPT ![c] = NoCall]
  /\ pc' = [pc EXCEPT ![c] = "locking"]
  /\ UNCHANGED <<connection, issued, lock, futureVars, subVars, disposeVars, netVars>>

AcquireLockUnguarded(c) ==
  /\ pc[c] = "locking"
  /\ lock' = c
  /\ pc' = [pc EXCEPT ![c] = "locked"]
  /\ UNCHANGED <<connection, issued, oneWays, cur, futureVars, subVars, disposeVars, netVars>>

AcquireLock(c) ==
  /\ pc[c] = "locking"
  /\ lock = NoCaller
  /\ lock' = c
  /\ pc' = [pc EXCEPT ![c] = "locked"]
  /\ UNCHANGED <<connection, issued, oneWays, cur, futureVars, subVars, disposeVars, netVars>>

\* WriteAsync is called: the message is in flight, or the call is over or
\* half-closed and WriteAsync throws.  The exception leaves the caller with
\* its future still in the table.
StartWrite(c) ==
  /\ pc[c] = "locked"
  /\ callState = "open" /\ ~halfClosed
  /\ pc' = [pc EXCEPT ![c] = "writing"]
  /\ UNCHANGED <<connection, issued, oneWays, cur, lock, futureVars,
                 subVars, disposeVars, netVars>>

WriteThrows(c) ==
  /\ \/ pc[c] = "locked" /\ (callState # "open" \/ halfClosed)
     \/ pc[c] = "writing" /\ callState # "open"
  /\ lock' = NoCaller
  /\ pc' = [pc EXCEPT ![c] = "idle"]
  /\ UNCHANGED <<connection, issued, oneWays, cur, futureVars, subVars, disposeVars, netVars>>

WriteCompletes(c) ==
  /\ pc[c] = "writing"
  /\ callState = "open"
  /\ wire' = Append(wire, IF cur[c] = NoCall THEN Request(OneWayId, NoCall)
                                             ELSE Request(IdOf(cur[c]), cur[c]))
  /\ lock' = NoCaller
  /\ pc' = [pc EXCEPT ![c] = IF cur[c] = NoCall THEN "idle" ELSE "awaiting"]
  /\ UNCHANGED <<connection, issued, oneWays, cur, futureVars, subVars, disposeVars,
                 callState, halfClosed, inbox, executions, broadcasts>>

\* await tcs.Task
ReturnToCaller(c) ==
  /\ pc[c] = "awaiting"
  /\ tcs[cur[c]] \notin {"unused", "pending"}
  /\ pc' = [pc EXCEPT ![c] = "idle"]
  /\ UNCHANGED <<connection, issued, oneWays, cur, lock, futureVars,
                 subVars, disposeVars, netVars>>
-----------------------------------------------------------------------------
(***************************************************************************)
(* StartSubscribe and ConsumeData: the subscription task.                  *)
(***************************************************************************)
\* A response or error response: TryRemove its future.  An id without a
\* future, as that of the marker, is ignored.
ReceiveResponseInCallOrder ==
  /\ sub = "moving"
  /\ inbox # <<>> /\ Head(inbox).kind # "broadcast"
  /\ LET waiting == {i \in Ids : futures[i] # NoCall}
         first   == CHOOSE i \in waiting : \A j \in waiting : futures[i] <= futures[j]
     IN  IF waiting = {} \/ Head(inbox) = Marker
           THEN sub' = "advancing" /\ UNCHANGED <<futures, taken>>
           ELSE /\ futures' = [futures EXCEPT ![first] = NoCall]
                /\ taken' = [future |-> futures[first], kind |-> Head(inbox).kind,
                             call |-> Head(inbox).call]
                /\ sub' = "settling"
  /\ inbox' = Tail(inbox)
  /\ UNCHANGED <<connection, callerVars, tcs, replyTo, waitForDisconnect, disposeVars,
                 callState, halfClosed, wire, executions, broadcasts>>

ReceiveResponse ==
  /\ sub = "moving"
  /\ inbox # <<>> /\ Head(inbox).kind # "broadcast"
  /\ LET m == Head(inbox)
     IN  IF futures[m.id] = NoCall
           THEN sub' = "advancing" /\ UNCHANGED <<futures, taken>>
           ELSE /\ futures' = [futures EXCEPT ![m.id] = NoCall]
                /\ taken' = [future |-> futures[m.id], kind |-> m.kind, call |-> m.call]
                /\ sub' = "settling"
  /\ inbox' = Tail(inbox)
  /\ UNCHANGED <<connection, callerVars, tcs, replyTo, waitForDisconnect, disposeVars,
                 callState, halfClosed, wire, executions, broadcasts>>

\* OnResponseEvent deserializes and calls TrySetResult; when it throws, and
\* for an error response, TrySetException.
SettleFuture(outcome) ==
  /\ sub = "settling"
  /\ taken.kind = "error" => outcome = "error"
  /\ IF tcs[taken.future] = "pending"
       THEN /\ tcs' = [tcs EXCEPT ![taken.future] = outcome]
            /\ replyTo' = [replyTo EXCEPT ![taken.future] = taken.call]
       ELSE UNCHANGED <<tcs, replyTo>>
  /\ taken' = Nothing
  /\ sub' = "advancing"
  /\ UNCHANGED <<connection, callerVars, futures, waitForDisconnect, disposeVars, netVars>>

\* OnBroadcastEvent calls the receiver; an exception of it is logged.
ReceiveBroadcast ==
  /\ sub = "moving"
  /\ inbox # <<>> /\ Head(inbox).kind = "broadcast"
  /\ inbox' = Tail(inbox)
  /\ sub' = "advancing"
  /\ UNCHANGED <<connection, callerVars, futureVars, taken, waitForDisconnect, disposeVars,
                 callState, halfClosed, wire, executions, broadcasts>>

\* reader.MoveNext(cts.Token): the Token of a disposed source throws, and
\* MoveNext with a cancelled token cancels the gRPC call.
Advance ==
  /\ sub = "advancing"
  /\ sub' = IF cts = "disposed" THEN "stopping" ELSE "moving"
  /\ callState' = IF cts = "cancelled" THEN "aborted" ELSE callState
  /\ UNCHANGED <<connection, callerVars, futureVars, taken, waitForDisconnect, disposeVars,
                 halfClosed, wire, inbox, executions, broadcasts>>

\* MoveNext returns false or throws: what follows is DisposeAsyncCore(false).
StreamEnds ==
  /\ sub = "moving"
  /\ callState = "aborted" \/ (callState = "ended" /\ inbox = <<>>)
  /\ sub' = "stopping"
  /\ UNCHANGED <<connection, callerVars, futureVars, taken, waitForDisconnect,
                 disposeVars, netVars>>

FinishSubscriptionUnlessFaulted ==
  /\ sub = "stopping"
  /\ dpc[Sub] \in {"returned", "faulted"}
  /\ waitForDisconnect' = (dpc[Sub] = "returned")
  /\ sub' = IF dpc[Sub] = "returned" THEN "done" ELSE "faulted"
  /\ UNCHANGED <<connection, callerVars, futureVars, taken, disposeVars, netVars>>

FinishSubscription ==
  /\ sub = "stopping"
  /\ dpc[Sub] \in {"returned", "faulted"}
  /\ waitForDisconnect' = TRUE
  /\ sub' = IF dpc[Sub] = "returned" THEN "done" ELSE "faulted"
  /\ UNCHANGED <<connection, callerVars, futureVars, taken, disposeVars, netVars>>
-----------------------------------------------------------------------------
(***************************************************************************)
(* DisposeAsyncCore(waitSubscription): run by every task in Disposers with *)
(* TRUE and by the subscription with FALSE.  The test of `disposed' and    *)
(* its assignment are two steps.                                           *)
(***************************************************************************)
StartDispose(d) ==
  /\ connection = "connected"
  /\ dpc[d] = "idle"
  /\ d = Sub => sub = "stopping"
  /\ dpc' = [dpc EXCEPT ![d] = IF disposed THEN "returned" ELSE "disposing"]
  /\ UNCHANGED <<connection, callerVars, futureVars, subVars, disposed, cts, unvisited, netVars>>

MarkDisposed(d) ==
  /\ dpc[d] = "disposing"
  /\ disposed' = TRUE
  /\ dpc' = [dpc EXCEPT ![d] = "completing"]
  /\ UNCHANGED <<connection, callerVars, futureVars, subVars, cts, unvisited, netVars>>

\* CompleteAsync, not under the AsyncLock: while a write is pending or when
\* the call is over it throws, which is ignored.
CompleteRequests(d) ==
  /\ dpc[d] = "completing"
  /\ halfClosed' = (halfClosed \/ (callState = "open" /\ \A c \in Callers : pc[c] # "writing"))
  /\ dpc' = [dpc EXCEPT ![d] = "cancelling"]
  /\ UNCHANGED <<connection, callerVars, futureVars, subVars, disposed, cts, unvisited,
                 callState, wire, inbox, executions, broadcasts>>

CancelTokenForgotten(d) ==
  /\ dpc[d] = "cancelling"
  /\ dpc' = [dpc EXCEPT ![d] = "closing"]
  /\ UNCHANGED <<connection, callerVars, futureVars, subVars, disposed, cts, unvisited, netVars>>

\* cts.Cancel() throws when the source is disposed; otherwise it cancels the
\* gRPC call of a MoveNext that is pending.
CancelToken(d) ==
  /\ dpc[d] = "cancelling"
  /\ IF cts = "disposed"
       THEN /\ dpc' = [dpc EXCEPT ![d] = "faulted"]
            /\ UNCHANGED <<cts, callState>>
       ELSE /\ dpc' = [dpc EXCEPT ![d] = "closing"]
            /\ cts' = "cancelled"
            /\ \/ sub = "moving" /\ callState' = "aborted"
               \/ (sub # "moving" \/ inbox # <<>>) /\ UNCHANGED callState
  /\ UNCHANGED <<connection, callerVars, futureVars, subVars, disposed, unvisited,
                 halfClosed, wire, inbox, executions, broadcasts>>

\* The clean-up is a foreach over the table, a ConcurrentDictionary that others
\* go on using: it comes to every entry that was there when it began and stays,
\* and it may come to one that is added meanwhile or miss it.
StartCleanup(d) ==
  /\ dpc' = [dpc EXCEPT ![d] = "cleaning"]
  /\ unvisited' = [unvisited EXCEPT ![d] = {i \in Ids : futures[i] # NoCall}]

DisposeToken(d) ==
  /\ dpc[d] = "closing"
  /\ cts' = "disposed"
  /\ IF d = Sub THEN StartCleanup(d)
                ELSE dpc' = [dpc EXCEPT ![d] = "waiting"] /\ UNCHANGED unvisited
  /\ UNCHANGED <<connection, callerVars, futureVars, subVars, disposed, netVars>>

AwaitNothing(d) ==
  /\ dpc[d] = "waiting"
  /\ StartCleanup(d)
  /\ UNCHANGED <<connection, callerVars, futureVars, subVars, disposed, cts, netVars>>

\* await subscription: rethrows the exception of a faulted subscription,
\* which skips the clean-up.
AwaitSubscription(d) ==
  /\ dpc[d] = "waiting"
  /\ \/ sub = "done" /\ StartCleanup(d)
     \/ sub = "faulted" /\ dpc' = [dpc EXCEPT ![d] = "faulted"] /\ UNCHANGED unvisited
  /\ UNCHANGED <<connection, callerVars, futureVars, subVars, disposed, cts, netVars>>

LeaveFuture(d) ==
  /\ dpc[d] = "cleaning"
  /\ \E i \in unvisited[d] : unvisited' = [unvisited EXCEPT ![d] = @ \ {i}]
  /\ UNCHANGED <<connection, callerVars, futureVars, subVars, disposed, cts, dpc, netVars>>

\* The loop comes to an entry: TrySetCanceled, which leaves a settled future
\* as it is.  The entry stays in the table.
CancelFuture(d) ==
  /\ dpc[d] = "cleaning"
  /\ \E i \in {j \in Ids : futures[j] # NoCall} :
       /\ i \in unvisited[d] \/ tcs[futures[i]] = "pending"
       /\ tcs' = IF tcs[futures[i]] = "pending" THEN [tcs EXCEPT ![futures[i]] = "canceled"]
                                               ELSE tcs
       /\ unvisited' = [unvisited EXCEPT ![d] = @ \ {i}]
  /\ UNCHANGED <<connection, callerVars, futures, replyTo, subVars, disposed, cts, dpc, netVars>>

FinishCleanup(d) ==
  /\ dpc[d] = "cleaning"
  /\ unvisited[d] = {}
  /\ dpc' = [dpc EXCEPT ![d] = "returned"]
  /\ UNCHANGED <<connection, callerVars, futureVars, subVars, disposed, cts, unvisited, netVars>>
-----------------------------------------------------------------------------
(***************************************************************************)
(* The environment: the server reads requests in order, answers those with *)
(* an id, broadcasts, completes after the client completed, and may        *)
(* disconnect at any time, with whatever was in flight.                    *)
(***************************************************************************)
Serve(kind) ==
  /\ callState = "open"
  /\ wire # <<>>
  /\ LET r == Head(wire)
     IN  /\ executions' = [k \in Calls |-> executions[k] + (IF k = r.call THEN 1 ELSE 0)]
         /\ inbox' = IF r.id = OneWayId THEN inbox
                     ELSE Append(inbox, Message(kind, r.id, r.call))
  /\ wire' = Tail(wire)
  /\ UNCHANGED <<connection, callerVars, futureVars, subVars, disposeVars,
                 callState, halfClosed, broadcasts>>

SendBroadcast ==
  /\ callState = "open" /\ connection = "connected"
  /\ broadcasts < MaxBroadcasts
  /\ broadcasts' = broadcasts + 1
  /\ inbox' = Append(inbox, Message("broadcast", 0, NoCall))
  /\ UNCHANGED <<connection, callerVars, futureVars, subVars, disposeVars,
                 callState, halfClosed, wire, executions>>

\* A request that had left before the call was aborted may still reach its
\* handler; nothing comes back.
LateServe ==
  /\ callState = "aborted"
  /\ wire # <<>>
  /\ executions' = [k \in Calls |-> executions[k] + (IF k = Head(wire).call THEN 1 ELSE 0)]
  /\ wire' = Tail(wire)
  /\ UNCHANGED <<connection, callerVars, futureVars, subVars, disposeVars,
                 callState, halfClosed, inbox, broadcasts>>

\* The server completes the call; what its queue still held is not sent.
EndCall ==
  /\ callState = "open" /\ halfClosed /\ wire = <<>>
  /\ callState' = "ended"
  /\ \E n \in 0..Len(inbox) : inbox' = SubSeq(inbox, 1, n)
  /\ UNCHANGED <<connection, callerVars, futureVars, subVars, disposeVars,
                 halfClosed, wire, executions, broadcasts>>

Disconnect ==
  /\ callState = "open" /\ connection = "connected"
  /\ callState' = "aborted"
  /\ UNCHANGED <<connection, callerVars, futureVars, subVars, disposeVars,
                 halfClosed, wire, inbox, executions, broadcasts>>
-----------------------------------------------------------------------------
CallerStep(c) ==
  \/ RegisterFuture(c) \/ AcquireLock(c) \/ StartWrite(c) \/ WriteThrows(c)
  \/ WriteCompletes(c) \/ ReturnToCaller(c)

SubStep ==
  \/ ReceiveResponse \/ ReceiveBroadcast \/ Advance \/ StreamEnds \/ FinishSubscription
  \/ \E outcome \in {"result", "error"} : SettleFuture(outcome)

DisposeStep(d) ==
  \/ MarkDisposed(d) \/ CompleteRequests(d) \/ CancelToken(d) \/ DisposeToken(d)
  \/ AwaitSubscription(d) \/ CancelFuture(d) \/ FinishCleanup(d)

ServerStep == \/ \E kind \in {"response", "error"} : Serve(kind)
              \/ EndCall

Next ==
  \/ \E header \in {"match", "mismatch", "absent"}, faulted \in BOOLEAN : Connect(header, faulted)
  \/ \E c \in Callers : BeginCall(c) \/ BeginFireAndForget(c) \/ CallerStep(c)
  \/ SubStep
  \/ \E d \in Tasks : StartDispose(d) \/ DisposeStep(d)
  \/ ServerStep \/ LateServe \/ SendBroadcast \/ Disconnect

\* Threads and tasks that can run do run, a server that has a request
\* answers it; nobody has to make a call, to dispose, or to disconnect.
Fairness ==
  /\ \A c \in Callers : WF_vars(CallerStep(c))
  /\ WF_vars(SubStep)
  /\ WF_vars(StartDispose(Sub))
  /\ \A d \in Tasks : WF_vars(DisposeStep(d))
  /\ WF_vars(ServerStep)

Safety == Init /\ [][Next]_vars
Spec   == Safety /\ Fairness
-----------------------------------------------------------------------------
(***************************************************************************)
(* Properties.                                                             *)
(***************************************************************************)

\* asyncLock: at most one WriteAsync is pending on the request stream, and
\* only the holder of the lock is between acquiring and releasing it.
WriterExclusive ==
  \A c \in Callers : pc[c] \in {"locked", "writing"} => lock = c

\* A response that is on its way finds its future: as long as a call whose
\* request or response is in flight is not settled, the table maps the id on
\* the wire to that call.  WriteMessageWithResponseAsync registers before it
\* writes, and no other call or response touches the entry.
ResponseFindsFuture ==
  \A m \in {wire[i] : i \in DOMAIN wire} \cup
          {inbox[i] : i \in {j \in DOMAIN inbox : inbox[j].kind # "broadcast"}} :
    m.call # NoCall =>
      /\ m.id = IdOf(m.call)
      /\ tcs[m.call] = "pending" => futures[m.id] = m.call

\* Once the disposals are over, nobody waits for a response that cannot come:
\* calls that the clean-up came to are cancelled, one the subscription had
\* taken is settled, and one that was registered behind the clean-up cannot be
\* written.  The last needs the request stream to be closed, by CompleteAsync
\* or, where the application did not dispose, by the end of the call.
DisposalsOver ==
  /\ \E d \in Tasks : dpc[d] = "returned"
  /\ \A d \in Tasks : dpc[d] \in {"idle", "returned"}
CleanupLeavesNobodyWaiting ==
  DisposalsOver /\ (halfClosed \/ \A d \in Disposers : dpc[d] = "idle")
    => \A c \in Callers : pc[c] = "awaiting" => tcs[cur[c]] # "pending"

\* The calls behave as HubCalls promises.  A call that was settled with
\* the response of another one would be no status of HubCalls.
CallStatus(k) == IF tcs[k] \in {"result", "error"} /\ replyTo[k] # k THEN "crossed" ELSE tcs[k]
HubCallsSpec  == INSTANCE HubCalls WITH status <- [k \in Calls |-> CallStatus(k)]
CallsRefined  == HubCallsSpec!Spec

\* "if connection was closed, throws cancellation from DisposeAsyncCore":
\* every call that was begun comes back to its caller.
EveryCallReturns == \A c \in Callers : pc[c] # "idle" ~> pc[c] = "idle"

\* As long as the application has not begun to dispose, every call comes back:
\* with the response, with the exception of its write, or cancelled by the end
\* of the subscription.
CallsReturnUndisposed ==
  \A c \in Callers :
    pc[c] # "idle" ~> pc[c] = "idle" \/ \E d \in Disposers : dpc[d] # "idle"

\* DisposeAsync comes back, with or without an exception, whatever the
\* subscription and the callers are doing.
DisposeReturns ==
  \A d \in Disposers : dpc[d] # "idle" ~> dpc[d] \in {"returned", "faulted"}

\* WaitForDisconnect completes once the connection is over.
DisconnectSignalled == (connection = "connected" /\ callState # "open") ~> waitForDisconnect
=============================================================================
