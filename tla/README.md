# A verification project for MagicOnion

MagicOnion is an RPC framework for .NET on gRPC. A service has unary and streaming
methods, called through filters on both sides. Its `StreamingHub` gives a client and a
server a long-lived duplex stream: the client calls methods of the hub and gets
answers, the server broadcasts to groups of clients, in the memory of one server or
over Redis. What can go wrong at run time, and is hard to test, is in the interleaving
of these parts, and so is most of this project.

Source paths below are relative to `src/src/` of the repository unless they name
another directory.

## 1. Inventory

### StreamingHub client: `MagicOnion.Client/StreamingHubClientBase.cs`, `MagicOnion.Shared/AsyncLock.cs`

*State*: the counter `messageId`, the table `responseFutures` from message ids to
completion sources, `asyncLock` around the request stream, `disposed`, the
`CancellationTokenSource`, the task `subscription`, the source `waitForDisconnect`.
*Operations*: `__ConnectAndSubscribeAsync`, `WriteMessageFireAndForgetAsync`,
`WriteMessageWithResponseAsync`, the loop of `StartSubscribe` with `ConsumeData`,
`DisposeAsync`, `WaitForDisconnect`.
*Hard*: application threads, the subscription and disposal share all of it. Only the
writes are under a lock. The end of the stream and `DisposeAsync` run the same
`DisposeAsyncCore`, whose test of `disposed` and its assignment are two steps;
`DisposeAsync` waits for the subscription while the subscription disposes.
*Correct when*: one write is pending at a time; an answer settles the call it belongs
to, at most once; every call comes back; `DisposeAsync` and `WaitForDisconnect` complete.

### StreamingHub server connection: `MagicOnion.Server/Hubs/StreamingHub.cs`, `StreamingHubContext.cs`

*State*: where `Connect` is, `IsDisconnected`, the message being handled, the handlers
of fire-and-forget messages that nobody awaits.
*Operations*: `Connect` with `OnConnecting`, the response headers, the marker, the
message loop of `HandleMessageAsync`, the `finally` block with `CompleteStreamingHub`,
`OnDisconnected` and `Group.DisposeAsync`; `WriteResponseMessage`, `WriteErrorMessage`.
*Hard*: the loop awaits the handlers of requests but not those of fire-and-forget
messages; the marker bypasses the queue of the response stream; a hook can throw.
*Correct when*: answers are sent once and in order; the response stream has one writer;
an ended connection has left its groups; `Connect` returns.

### Queue of responses: `MagicOnion.Server/Internal/QueuedResponseWriter.cs`, `ServiceContext.Streaming.cs`

*State*: an unbounded channel, created with its consumer task at the first use, and
whether it was completed. *Operations*: `Write`, `ConsumeQueueAsync`, `Dispose`.
*Hard*: created lazily by whoever comes first, written by any connection of a group,
closed while others write. *Correct when*: order is kept and the consumer stops with
the connection.

### Groups: `MagicOnion.Server/Hubs/Group.cs`, `Group.ImmutableArray.cs`, `Group.ConcurrentDictionary.cs`

*State*: a dictionary from names to `IGroup` objects shared by all connections of a
hub; in each object the members and the in-memory storage; in each connection the bag
`addedGroups`. *Operations*: `AddAsync` and `TryAddAsync` of `HubGroupRepository`, with
and without data, `IGroup.AddAsync`, `IGroup.RemoveAsync`, `DisposeAsync`, and the seven
`Write...Async` methods that broadcast. *Hard*: an object removes its name from the
dictionary when its last member leaves, while other connections are between looking it
up and adding themselves; broadcasts walk over members that change.
*Correct when*: a disconnected connection is in no group; connections that joined one
name reach each other; empty objects are dropped; storage has entries of members only;
counts are right; a member that stays gets each message for it once.

### RedisGroup: `MagicOnion.Server.Redis/RedisGroup.cs`

*State*: per server its own dictionary of group objects, each with an in-memory
`ConcurrentDictionaryGroup` and a subscription to a Redis channel; per name one counter
in Redis. *Operations*: as for groups; every one awaits Redis commands.
*Hard*: connections of several servers interleave at every command; a command fails,
executed or not; a server crashes and nobody takes back what it added to the counter.
*Correct when*: ended connections are members nowhere; members are subscribed and get
what is published on any server; the counter bounds the members.

### Service methods: `MagicOnion.Server/MethodHandler.cs`, `ServiceContext.cs`, `Internal/MagicOnionMethodHandlerBinder.cs`, `Filters/Internal/FilterHelper.cs`

*State*: per call the filters that run, `ServiceContext.Result`, the status of the call
context. *Operations*: the four server methods, the helpers that set the result, the
filters, the binder. *Hard*: what a filter may do: run the rest of the chain again,
replace the result, catch or throw; the mapping of what leaves it to a status and a
response differs from method kind to method kind.
*Correct when*: filters nest in the documented order; the client is told the right
status; the result that was set last reaches it.

### Client calls: `MagicOnion.Client/Internal/InterceptInvokeHelper.cs`, `MagicOnionMethodInvoker.cs`, `ResponseContext.cs`, `MagicOnion.Abstractions/UnaryResult.cs`

*State*: per call the running filters, the response context with its gRPC call, the
task the `UnaryResult` holds. *Operations*: invocation with and without filters,
awaiting, `Dispose`. *Hard*: a filter retries while the first gRPC call may still run;
`Dispose` may come before there is anything to dispose of.
*Correct when*: no gRPC call is left running behind the caller's back; the caller comes
back with what the service set.

### Helpers and Unity

* `MagicOnion.Shared/Utils/ReservedWhenAllPromise.cs`: an awaitable that completes when
  a reserved number of tasks has; callbacks of tasks on any thread meet the awaiter
  without a lock. Correct when the awaiter is resumed once and told the truth. Its only
  user, `ToPromise` of `Group.ConcurrentDictionary.cs`, is called by nothing at this
  commit.
* `MagicOnion.Shared/Utils/UniqueHashDictionary.cs`: the table by which a hub finds the
  handler of an `Int32` method id. Correct when every id finds its own handler only.
* `MagicOnion.Client.Unity/.../GrpcChannelx.cs`, `GrpcChannelProvider.cs`: channels, the
  hub clients each of them manages, and the provider that can shut all of them down.
  Threads dispose of the same channel at the same time, hub clients connect and
  disconnect meanwhile. Correct when nothing deadlocks, a disposed channel is shut down
  and forgotten by the provider, and no hub client is dropped without being told.

### How they interact

A hub client and a hub server share one gRPC duplex call: `HubConnection` composes them.
The groups of a server are shared by all of its connections; their `Write` methods put
messages on the queue of each member's connection. `RedisGroup` keeps an in-memory group
and adds the counter and the channel that servers share. A unary call goes from client
filters over gRPC to server filters and back: `UnaryRoundTrip` composes both sides.

### Not modelled

| Component | Why |
|---|---|
| Broadcaster proxies (`DynamicBroadcasterBuilder`) | IL emitted at start-up; each method is one call of a `Write` method of the group, which the broadcast modules start with any arguments |
| `MagicOnionEngine` | start-up by reflection, once and single-threaded |
| `StreamingHubHandlerRepository`, invokers of handlers | a cache per hub filled at start-up |
| `AsyncUnaryResultMethodBuilder` | stores one value around the builder of .NET |
| `ArrayPoolBufferWriter` | one buffer per thread, used within one synchronous call |
| Serialization | stateless conversion by MessagePack or MemoryPack |
| Code generator, IL builders of clients | generation; nothing of it is state at run time |
| HTTP gateway, OpenTelemetry | translate requests and record measurements |
| `MagicOnion.Server.HttpGateway/Swagger/SwaggerUI/*.js` | minified bundles of swagger-ui, a third party's; they are the only JavaScript of a repository whose program is C# |
| `Unity` copies of Client, Shared and Abstractions | duplicates of what is modelled |

Hazards known and covered by no property, because no document or test says what should
happen: `QueuedResponseWriter.cs:40` tests `IsDisconnected` before `WriteAsync`, which may
then run on after `Connect` has returned and throw into a logger; the channel of
`QueuedResponseWriter.cs:17` has no bound; `AddAsync` with data throws
`NotSupportedException` for a `RedisGroup` after the connection has joined
(`Group.cs:106`); `WriteToAsync` of `ConcurrentDictionaryGroup` writes twice for an id
given twice; `OnCompleted` of the promise stores its state before the contexts of the
continuation. `PROJECT.json` lists the components again, and under `hazards` what is
hard to test in each of them, at its line.

## 2. The modules

| Module | Models | Used by |
|---|---|---|
| `HubCalls` | what a hub promises about calls with a response (abstract) | `HubClient`, which implements it |
| `HubClient` | the client of one connection, its server an assumption | `MCHubClient`, `HubConnection`, `HubClientProofs` |
| `HubServer` | the server side of one connection, its queue, its groups by name | `MCHubServer`, `HubConnection`, `HubServerProofs` |
| `HubConnection` | both sides and the duplex call between them | `MCHubConnection`, `HubConnectionProofs` |
| `HubGroups` | the connections of a hub and the group objects of one name | the next two |
| `ImmutableArrayGroups` | `HubGroups` with `ImmutableArrayGroup` | `GroupFactories` |
| `ConcurrentDictionaryGroups` | `HubGroups` with `ConcurrentDictionaryGroup` | `GroupFactories` |
| `GroupFactories` | a hub with either kind of group object | `MCHubGroups`, `MemoryGroupsProofs` |
| `RedisGroups` | `RedisGroup` on several servers over one Redis | `RedisSituations` |
| `RedisSituations` | `RedisGroups` with races, with failures, or with members that stay | `MCRedisGroups`, `RedisGroupsProofs` |
| `GroupBroadcast` | what a broadcast promises while members change (abstract) | `Broadcasts`, which implements it |
| `ArrayBroadcasts` | the `Write` methods of `ImmutableArrayGroup` | `Broadcasts` |
| `DictionaryBroadcasts` | the `Write` methods of `ConcurrentDictionaryGroup` | `Broadcasts` |
| `Broadcasts` | the `Write` methods of either kind of group object | `MCBroadcasts`, `MemoryGroupsProofs` |
| `ServiceCalls` | one call on the server: filters, method, status, response | `UnaryRoundTrip` |
| `UnaryCalls` | one call on the client: filters, response context, `UnaryResult` | `UnaryRoundTrip`, `UnaryRoundTripProofs` |
| `UnaryRoundTrip` | both sides and the gRPC calls between them | `MCUnaryRoundTrip`, `UnaryRoundTripProofs` |
| `ReservedWhenAllPromise` | the awaitable of that name | `MCReservedWhenAllPromise`, `SharedUtilsProofs` |
| `UnityChannels` | channels, the provider and managed hub clients | `MCUnityChannels`, `UnityChannelsProofs` |
| `HandlerTable` | construction and lookup of `UniqueHashDictionary` | `MCHandlerTable`, `SharedUtilsProofs` |

The `MC` modules give the constants of a run their values, and those of the two connection
sides and of `HubConnection` bound the runs. A choice that a behaviour makes once is a
variable of a module between: `GroupFactories` chooses the kind of group object (`factory`)
and remembers whether joins and leaves overlapped, and whether anybody joined without a
limit; `Broadcasts` chooses the kind of group; `RedisSituations` chooses a `situation`. `map` of `PROJECT.json` names for each definition
the lines it models.

### HubClient

`pc[c]` follows a thread through `WriteMessage...Async`: `BeginCall` is `ThrowIfDisposed`
with the increment of the id, `RegisterFuture` the store into the table, `AcquireLock`,
`StartWrite`, `WriteCompletes` or `WriteThrows` the write under the `AsyncLock`,
`ReturnToCaller` the continuation of `await tcs.Task`. `sub` follows the subscription:
`ReceiveResponse` is `TryRemove` of the future, `SettleFuture` the `TrySetResult` or
`TrySetException` after it, `Advance` the evaluation of `cts.Token` and the call of
`MoveNext`. `dpc[d]` follows each task in `DisposeAsyncCore`, statement by statement.

The clean-up (`:368`) is a `foreach` over a `ConcurrentDictionary` that callers go on filling, and
its enumerator takes no snapshot. `StartCleanup` notes in `unvisited[d]` the ids that are there when
the walk begins, `CancelFuture` is one round of the loop, `FinishCleanup` its end. The walk comes to
every entry noted; to one that is added meanwhile it comes or not, as `CancelFuture` may cancel it
and `FinishCleanup` does not wait for it. Reading an entry and `TrySetCanceled` are one step: both
the subscription and the walk use `Try` methods, so what happens between the two leaves the same
state.

The network is two queues, `wire` and `inbox`; the server answers the requests in their order,
and the connection can be lost at any time with all that is in flight.

A call is named by the number of the increment that made it, and `IdOf` gives the Int32 on
the wire, with its wrap after `IdMax`. The table maps ids, so that two calls with one id
would collide in the model as they do in the code. A message that a task has been given
does not go away when its token is cancelled: `CancelToken` leaves the stream alone when
the pending `MoveNext` already has its message, and aborts it otherwise.

### HubServer

`pc` is where `Connect` is. Hooks and handlers are reduced to what they can do to the
framework: join a group, leave it, broadcast, return or throw. Three constants say what an
application does beyond that: `OnConnectingJoins`, `OnDisconnectedThrows`,
`DetachedJoins`. `joining[t]` is the gap in `HubGroupRepository.AddAsync` between the
member list of the group and `addedGroups`. A broadcast comes from any connection whenever
this one is a member, which is what lets the queue start early. Two writes on a response
stream may or may not fail in gRPC: `MarkerWritten` allows both.

### HubConnection

Both modules are instantiated, and every step of a side is an action of that side together
with what the network does of it: a response leaves the server when its consumer has
written it, the marker passes the queue by, the request stream ends after the last
request, a cancelled or lost call is known to the client at once and to the server later.
`ClientView` is `HubClient` seen through this state: the requests that are not handled
yet are its `wire`, the responses that are queued, written or under way its `inbox`.

### HubGroups, ImmutableArrayGroups, ConcurrentDictionaryGroups, GroupFactories

Group objects are numbered in the order of their creation, `registered` is the entry of
the dictionary, `grp[x]` the object connection `x` holds in a local variable. So an object
that has left the dictionary can still get members. `ImmutableArrayGroup` locks, and its
`AddAsync` and `RemoveAsync` are one action each; `ConcurrentDictionaryGroup` does not, and
every access to the dictionary of members, `approximatelyLength`, the storage and the
repository is an action. Names share nothing but the dictionary, so one name is enough.

### RedisGroups, RedisSituations

Each server has its dictionary, its objects and their members; the counter and the channel
are shared. An action is the code between two awaits of a Redis command. `CommandFails`
lets the command a connection waits for fail, executed or not, and follows the exception
to where it is caught; `Crash` ends a server with all its connections, and leaves the
counter as it is. `backlog[s][o]` is what Redis still has to deliver to an object. The
`situation` of `RedisSituations` is `interleaved` (nothing fails, nothing is published),
`serialized` (one join or leave at a time; messages, failures, crashes) or `staying` (the
same, and connections leave only by their end).

### GroupBroadcast, ArrayBroadcasts, DictionaryBroadcasts, Broadcasts

`GroupBroadcast` is the promise: an addressed connection that is a member from the start of
the call to its end gets the message once, one that joins or leaves meanwhile at most once,
nobody else gets it. `ArrayBroadcasts` walks over the immutable array that was read once,
by index; `DictionaryBroadcasts` over what the enumerator of a `ConcurrentDictionary`
shows, or looks ids up one by one. `must` and `may` of the promise are computed from where
a walk is. Ids a caller gives are sets, and a connection is in the array once: `AddAsync`
of one connection twice puts it in the array twice, and it then gets everything twice.

### ServiceCalls, UnaryCalls, UnaryRoundTrip

Filters and method bodies are the application's: whatever the interfaces let them do is a
choice. `ServiceCalls.order` gives every filter its `Order`, and `GetFilters` sorts as
`FilterHelper` does; `active` is the stack of filters that are running. `Body` sets a
result, a status, both or throws; one action per server method of `MethodHandler` maps what
left the filters to the status and the response; `Bind` is the binder. `UnaryCalls.depth`
is the number of client filters that run; `future` is the task in the `UnaryResult`;
`FilterRetries` calls `next` again. `UnaryRoundTrip` starts the handler anew with every gRPC
call, and gives its answer to the client.

### ReservedWhenAllPromise, UnityChannels, HandlerTable

The promise has one action per stretch of a thread between two atomic operations on the
counter or the continuation; a task that ends runs its callback on its own thread. In
`UnityChannels` the lock on `_channels` is a variable, because `ShutdownAllChannels`
disposes of channels while it holds it, and disposal takes it again at its end on the same
thread; `_disposed` is tested and set in two steps. The lock on `_streamingHubs` is held within one
action only: an inversion of the two locks through code of the application that disposal calls
while it holds one (`DisposeAsync` of a hub client, `:229`) cannot be seen. `HandlerTable` keeps the list and the
buckets, and adds one entry a step; hash codes are any integers, negative ones among them.

## 3. The runs

| Run | Asks | Answer |
|---|---|---|
| `client_dispose` | with disposal and loss of the connection: one writer, no lost or crossed answer, nobody left waiting once disposal is over, `HubCalls` implemented; does everybody who waits come back, as long as `DisposeAsync` does not race the end of the stream? | yes |
| `client_dispose_race` | does every call come back when it does? | **no** |
| `server_safety` | answers once and in order, one writer, groups left, when hooks behave | yes |
| `server_liveness` | do `Connect` and the consumer end, are answers sent, whatever hooks do? | yes |
| `connection` | is the real server the environment `HubClient` assumes? does an end on one side end the other? do calls return? | yes |
| `groups` | members, storage, counter and registration under every interleaving; one object per name and the limit when joins and leaves do not overlap | yes |
| `broadcasts` | do both kinds of group implement `GroupBroadcast`? | yes |
| `redis` | what holds of members, deliveries and the counter with races, with failing commands, with crashes | see the properties |
| `promise` | is the awaiter resumed, once, and told the truth? | yes |
| `calls` | for every kind of method and whatever filters do: nesting, status, result; is a gRPC call left behind; does the caller come back? | yes |
| `unity` | do threads that shut down channels block each other; is a hub client forgotten? | no |
| `handlers` | does every hash code find its own handler? | yes |

### What the violation shows

`client_dispose_race`: the application calls `DisposeAsync` while the stream ends by
itself. Both pass `if (disposed) return`. One disposes of the token source, `cts.Cancel()`
of the other throws. If that is the subscription, it faults, and `await subscription` in
the first throws too: neither reaches the loop that cancels the futures, and a call that
was written waits forever. A comment in the same file (`:319`) says that a call is
cancelled by `DisposeAsyncCore` when the connection was closed. `CallsReturnUndisposed` of
`client_dispose` is what remains.

`CleanupLeavesNobodyWaiting` of that run is about what a clean-up that does take place achieves:
once all disposals have returned, no caller waits for an answer that cannot come. A caller that
was past `ThrowIfDisposed` when disposal began may store its future behind the enumerator, and what
stops it then is the request stream, over which its write throws. That is why the property asks
that the stream is closed: by `CompleteAsync`, or, where only the subscription disposes, by the end
of the call. It also fails without the other condition, while one disposal is still on its way.

### Other disagreements, and how to see them

The properties of the runs hold under conditions. Each condition is there because the code
does something surprising without it; the same modules show it when the condition is
dropped.

* *Marker and queue write together*: `server_safety` with `OnConnectingJoins = TRUE`
  violates `OneWriteAtATime`. A group joined in `OnConnecting` lets the consumer write while
  `Connect` writes the marker.
* *Groups are not left*: with `DetachedJoins = TRUE` (a fire-and-forget handler joins after
  `addedGroups` was enumerated) or `OnDisconnectedThrows = TRUE` (the exception skips
  `Group.DisposeAsync`) `LeftEveryGroup` fails.
* *A member nobody finds*: `JoinedIsRegistered` as an invariant of `MCHubGroups`. With the
  array, `GetOrAdd` and `AddAsync` are two steps, and the last member removes the name in
  between. With the dictionary no race is needed: `Group.ConcurrentDictionary.cs:123` removes
  the name of an empty object also for a connection that left before, when another object has
  long taken the name.
* *The limit is passed*: `SerializedLimit` without `~overlapped`: `TryAddAsync` tests before
  it adds.
* *The counter of Redis drifts*: `Cardinality` of the joined connections differs from `counter`
  with all connections idle. `RedisGroup.cs:104` decrements also for a connection that left
  before, and the key is deleted (`:96`) while another server joins. `NeverOvercounts` and
  `StayingIsCounted` are the two halves that do hold, each in its situation.
* *A failed command leaves members behind*: `GoneIsNoMember` without `failures = 0`. The loop of
  `Group.cs:151` ends with the exception, and the remaining groups are not left.
* *Unsubscribed with a member*: `JoinedIsSubscribed` in the situation `interleaved`
  (`RedisGroup.cs:98`).
* *A server that has no object of the name does not ask the counter*: `Group.cs:80`, `TryAdd` of
  `RedisGroups`.
* *A raw message misses its members*: `BroadcastPromise` with `WriteToRaw` among the
  `Methods` of `MCBroadcasts`.
  `WriteToRawAsync` (`Group.ImmutableArray.cs:332`) skips a member unless all given ids are
  its own. Nothing in the repository calls it on this kind of group.
* *A client that was never told*: `waitForDisconnect ~> members = Server!NoGroups` in
  `HubConnection` fails: a client whose disposal faults (`StreamingHubClientBase.cs:349`) does
  not end the call.
* *A hub client connected to a disposed channel* stays connected: it was put under management
  after disposal took its snapshot (`GrpcChannelx.cs:172`).
* *A stack trace is lost*: with `IsReturnExceptionStackTraceInErrorDetail`, a failing method
  with a value type as its result: `MethodHandler.cs:293` leaves the result unset, and the binder
  throws over it. Raw bytes a filter sets are dropped for client streaming
  (`MethodHandler.cs:336`).
* *Disposing of a call with filters waits for its answer* (`UnaryResult.cs:307`), although the
  remark above it says it requests cancellation; `PlainDisposeCancels` is about calls without
  filters.
* *A call behind the clean-up waits forever*: `CleanupLeavesNobodyWaiting` without its condition
  that the request stream is closed. `CompleteAsync` (`StreamingHubClientBase.cs:349`) is called
  without the `AsyncLock` and throws while another write is pending, which is ignored; and when the
  token source is cancelled and disposed of while the subscription is between two `MoveNext`s, it
  ends with the exception of `cts.Token`, so that nobody cancels the gRPC call. A call whose future
  is stored after the clean-up is then written over a stream that is still open.
* *The id -1*: with `MaxCalls` up to the whole range of ids a call gets the id the server takes for
  fire-and-forget, and never gets an answer.

### Bounds

* `client_dispose`: two callers, so that they compete for the lock and overlap calls; two
  messages in all besides the answers: calls, one-way messages or a broadcast, so that two calls
  are in the table when one is answered, cancelled or late; `IdMax = 1`, so that the second call
  has an id beyond the first wrap (1, then -2). One disposer and the subscription give the two
  tasks of `DisposeAsyncCore`.
* `server_safety`, `server_liveness`: two messages, so that a detached handler overlaps the next
  one and two answers have an order; two groups and two joins of one group for safety, so that
  a group is joined twice, left once and left to the enumeration.
* `connection`: one caller, one message, one group, no group that a handler
  leaves again, and with a fire-and-forget message neither a group nor a `DisposeAsync`:
  what two of them do to each other is in the runs of the sides; what is new is that the sides
  see each other late.
* `groups`: two connections, two objects, so that an old object and its successor coexist; two
  entries of an object in `addedGroups`; the limit 1, which the second connection meets.
* `redis`: one connection on a server and two on another, so that a server empties its object
  while it has another connection, and while the other server has members; limit 2; one
  failure, which may be a crash; one message.
* `broadcasts`: three connections, so that a walk has something behind it and ahead of it;
  two broadcasts of one sender, for their order. Senders share only the members.
* `promise`: three tasks. `unity`: two threads, which dispose of the same channel; two channels,
  so that `ShutdownAllChannels` goes on to a second one; one hub client.
* `calls`: one client filter and three server filters, one of each kind; two gRPC calls, so
  that there is a retry; two runs of the method body in one gRPC call. `Orders` are 1 and 9, the
  9 for a filter without an order.
* `handlers`: lists of up to three, hash codes that share a bucket, and the limits of Int32
  among them.

Deadlock is checked where nothing ends for good: in `unity`, whose threads may always begin
again, and in `handlers`, where a built table stays as it is. Elsewhere connections end, calls are done or bounds are used up.

### Fairness

* `HubClient`: weak fairness of each caller after it has begun a call, of the subscription, of
  every task in `DisposeAsyncCore`, and of the server. These are continuations that the task
  scheduler runs when what they await has completed; a healthy server answers. None for
  beginning a call, disposing, broadcasting or losing the connection. The lock needs no
  strong fairness because each caller writes a bounded number of times.
* `HubServer`: weak fairness of `Connect`, of the consumer, of the continuation in `AddAsync`
  and of detached handlers. It assumes that hooks and handlers of the application return. None
  for the client, for joins and for broadcasts.
* `HubConnection`: the tasks of both sides as above, and the transport delivers what was sent or
  lets the other side know of the end.
* `Broadcasts`: a sender goes on with its `Write` method. `ReservedWhenAllPromise`: a task that
  has ended runs its callback, threads and the owner go on; tasks need not end.
* `UnityChannels`: strong fairness per thread, since it competes for monitors that are free again
  and again; a hub client that was told to dispose disconnects, and its continuation runs.
* `UnaryRoundTrip`: the continuations of the client run, and no filter calls `next` for ever
  (strong fairness of `FilterEnds`). Nothing is assumed of the server: `AnsweredReturns` says what
  follows if gRPC ends every call.
* `HubGroups`, `RedisGroups`, `HandlerTable` have safety properties only.

`TypeOK` is a theorem for the two sides of a connection, the groups, `RedisGroups`, `UnaryCalls`,
`ReservedWhenAllPromise`, `UnityChannels` and `HandlerTable` (section 4). In the others it documents
the types, and the invariants of the proofs have those they need.

## 4. What is proved

The proofs are for all values of the constants, under the named assumptions the modules make
of them, which TLC evaluates in the runs: threads and tasks have different names, bounds are
natural numbers, a limit and the bound of joins are positive, connections and tasks are finitely
many, orders of filters are integers and `OK` is none of the status codes of an exception. Every
safety property that a passing run checks is a theorem, the refinements among them; of
`BroadcastPromise`, which has fairness, it is the part without.

### MemoryGroupsProofs

The groups of one name with either kind of object (`GroupFactories`), and the broadcasts to them
(`Broadcasts`).

* `Typing`, `LeavesAllGroups` (`GoneIsNoMember`) and `StorageHasMembers` (`StorageOfMembers`).
  `GoneIsNoMember` speaks of the end of a connection only and says nothing of how it got there.
  Its strengthening is `Accounted`: at any time a connection is in an object at most as often as
  `addedGroups` holds the object, or, once `DisposeAsync` runs, as often as the enumeration still
  has it, plus one for the entry in transit, between the member list and `addedGroups` or between
  the enumeration and `RemoveAsync`. It is inductive because the steps that change a membership
  are each paired with exactly one such transit; when the enumeration is empty what is left
  is 0. `StorageOfMembers` needs `MemberBeforeStorage`: nobody removes a connection from an
  object but itself; with the dictionary, an entry may outlive the membership by the step that
  forgets it (`DataHeld`). All of it is proved once for both kinds, from what a step does to the
  variables of `HubGroups` (`AddEffect`, `RemoveEffect` and the other effects).
* `EmptyUnregistered` (`EmptyIsUnregistered`): whoever can still join the registered object, or
  has to remove its name, is on the way to it (`OnTheWay`). It needs that the positive limit does
  not turn away from an empty object.
* `CountsMembers` (`LengthAccurate`): `Accurate` is inductive as it stands, once the steps of the
  dictionary are known to move one connection into or out of one place at a time; the work is
  in the cardinalities.
* `KeepsTogether` (`SerializedKeepsTogether`): `OneBusy` gives `overlapped` its meaning, so that a
  step finds everybody else outside (`Alone`). `Together` says of the array what the property
  does, and that whoever is about to join has the registered object; `Created`, that nobody is in
  an object that was not yet created.
* `KeepsLimit` (`SerializedLimit`): `Limited` says that whoever is about to add itself found room,
  and that whoever is about to create an object found no registered one.
* `KeepsPromise`: every step of the `Write` methods, of both kinds, is a step of `GroupBroadcast`
  or a stutter. For the array it takes that nobody is in it twice and that `WriteAll` and `WriteTo`
  get the ids they have parameters for (`ArrayIInv`); for the dictionary that a found member is
  behind the walk, and that a lookup finds given ids only (`DictionaryIInv`). The hypothesis, no
  `WriteToRaw` on the array, is the condition of section 3: with it the statement is false.

### RedisGroupsProofs

For any servers, connections and messages that interleave at every Redis command.

* `Typing`.
* `LeavesAllGroups` (`GoneIsNoMember`): the same accounting. `UntilFailure` says that it holds until
  the first command fails or a server crashes, and from then on nothing is claimed.
* `CountsNoGhosts` (`NeverOvercounts`): a decrement is owed for every entry of `addedGroups`, or of
  the enumeration, and for a connection that is on its way. `Balanced` says what a step does to the
  counter and to the number of decrements that are owed: both alike, or the counter alone, which
  then falls, or is deleted. It is inductive because an owed decrement is a pair of an object and
  a number, so that the entries of a bag can be counted.
* `CountsMembers` (`StayingIsCounted`): `Staying` has, for connections that leave only by their
  end, that the key is deleted at 0 only and that the counter counts at least what will be taken
  back, and so every member.
* `StaysSubscribed`, of which `SerializedDelivers` is the other half: with one join or leave at a
  time the registered object, those that have members and the one somebody is about to enter are
  subscribed (`RegisteredListens`, `MembersListen`, `EntersListening`), since the one that is
  unsubscribed has no members and is not registered (`LastHasLeft`).
* `DeliversToMembers` (`SerializedDelivers`): a message that was published to a member stays on its
  way until it is delivered or the member has left (`OnItsWay`). It assumes `MaxAdds <= 1`. A
  connection that leaves and joins again is a member of the audience again, and may have missed
  the message in between; the property is about those that never left (`JoinsOnce`).

### HubServerProofs

* `Typing`, with `InvokesReceived`.
* `OneWriter`, if no group is joined in `OnConnecting`: until the marker is written the connection
  is in no group, so no broadcast has created the consumer (`QuietBeginning`).
* `LeavesEveryGroup`, if `OnDisconnected` does not throw and detached handlers do not join: the
  accounting for the groups of one connection, and `JoinPlaces`: only the own flow of `Connect` is
  ever between joining and recording, so the enumeration starts with nothing in transit.
* `AnswersOrdered`: the queue holds exactly one answer per handled request, in the order of the
  requests. Inductive together with `OpenBefore`: the channel is not completed before the loop has
  ended.

### HubClientProofs

* `Typing`, with `RegistersCall`: a caller that registers a future made a call with a response.
* `OneWrite` (`WriterExclusive`): inductive given the types.
* `ResponseHasFuture` (`ResponseFindsFuture`), if `MaxCalls <= 2 * IdMax`: the counter has not
  wrapped as far as -1, and all ids of calls differ (`IdInjective`). The property speaks of calls
  that have a message in flight and is not inductive. Its strengthening is `FlightInv`: a call has
  one caller at most (`OneCaller`), no message before it is written and one message afterwards,
  a request or a response (`OneMessage`); messages and entries of the table carry the id of their
  call (`IdsMatch`); and the table keeps the future of a pending call from the moment it is
  registered (`FuturesKept`). The step that needs all of them is `ReceiveResponse`: it removes one
  entry, and only the call of that response can have had it.
* `CleanupComplete` (`CleanupLeavesNobodyWaiting`): `PendingHeld` says that a pending call is in the
  table or was taken from it by a subscription that is about to settle it; `CleansAlone` that the
  subscription has stopped, or is over, whenever somebody cleans up; so a walk that begins finds
  every call that is pending then. `Reached` says that while a caller waits for an answer that
  cannot come, a task is still going to cancel its call (`WillCancel`): it has not begun its walk,
  or has the entry among the `unvisited`. It is inductive for disposals that have not failed and
  will not (`InTime`), since nobody begins to wait once the request stream is closed
  (`NoLateWrite`), and because callers do not share calls (`OwnCall`). When all disposals have
  returned, there is no such task, so there is no such caller.
* `ImplementsHubCalls` (`CallsRefined`), under the assumption of `ResponseHasFuture`: the initial
  state is one of `HubCalls`, and every step is one of its steps or a stutter (`StepRefined`).
  `ExecutionInv` is what it takes beyond `FlightInv`: a request on the wire has not been executed and
  the call of a response in flight has, once (`Executed`); a call begins as unused (`NotBegun`,
  `NotWritten`); and the subscription holds the future of the call it has the answer of
  (`OwnAnswer`).

### HubConnectionProofs

`ServerKeepsAssumptions` (`ServerAsAssumed`): the server with its queue, its consumer and its
groups, behind the duplex call, is an environment `HubClient` allows. So what the theorems above
say of the client alone, where the server is an assumption, they say of the connection, for any
callers, messages, groups and broadcasts; the run has one message and no broadcasts.

Every step of a side is a step of `HubClient` seen through `ClientView`, or changes nothing there.
A handler that ends is `Serve`, or `LateServe` when the client is gone (`HandlerEnds`): its request
leaves the ones that are not handled, and its answer is the last of the messages the client can
still get (`QueueSeen`). The consumer, the marker and the arrival of a request only move messages
from one of the queues in a row to the next (`ItemSeen`, `MarkerSeen`, `ArriveSeen`). The status of
the server is `EndCall` or `Disconnect` (`StatusSeen`). What the steps rest on is the inductive
invariant `IInv`:

* `SentInOrder`: the consumer has sent exactly what it has taken, but for the item in its hands.
* `MarkerFirst`, `QuietBeginning`: nothing is queued before the marker was sent, so that the marker,
  which passes the queue by, is the first message.
* `OpenInLoop`: the queue takes the answer of every handler that `Connect` awaits.
* `EndsAfterAll`, `GoneIsKnown`: a server that ends well while the client is there has read
  everything and knows that the client has half-closed, which is when `EndCall` may happen;
  `EndedIsSent`: a call that has ended has nothing left to send.
* `KindsMatch`: the server takes a request for a fire-and-forget message when it was written as
  one, so that there is an answer exactly when the client waits for one.

### SharedUtilsProofs

`ReservedWhenAllPromise`: `Typing`, `ResumesOnce` (`ResumedOnce`), `TellsTheTruth` (`ResultIsTrue`),
for any finite set of tasks. `OneHand` is the argument for the second: the right to call the
continuation is in one place, in the field or in the hands of the one thread that exchanged it.
`CountIsRight` relates the counter to the callbacks that ran, so that it reaches the number of tasks
only when all have succeeded; `CallbacksOfEnded` and `ExceptionIsReal` say where a count or an
exception can come from.

`HandlerTable`: `TableTyping`, `LooksUpExactly` (`LookupExact`) and `RefusesDuplicates`, for lists of
any length, any hash codes and any number of buckets. The invariant says that the first `placed`
entries of the list are in their buckets (`AllPlaced`), that nothing else is (`FromList`), and that
hash codes in a bucket differ (`BucketsDistinct`); it then follows that a lookup gives the handler of
the list.

### UnaryRoundTripProofs

For any number of filters on either side and of retries.

* `Typing` and `LeavesNoCall` (`NoCallLeftBehind`) of the client alone. `RunsWhileWaiting`: with
  filters a gRPC call runs only while the chain waits for it, and it is the one of the response
  context, so a retry comes after the end of the call before it. `ResumedAfterChain`: the caller
  comes back after the chain.
* `ImplementsUnaryCalls`: a round trip, with the real server, is a behaviour of the client alone;
  `RoundTripLeavesNoCall` follows.
* `NestsFilters` (`FiltersNested`): the filters that run are the first ones of the sorted list
  (`ActiveIsPrefix`). The sort puts at each place the filter with that rank; that
  every place has exactly one such filter (`OrderBySorts`), so that orders ascend and equal ones
  keep the order of registration, is part of the proof.
* `TellsStatus` (`StatusTold`): `Responding` says that what the server method returns to the binder
  fits the exception which left the filters, if one did, and the status the method set otherwise.
* `DeliversResult` (`ResultReachesCaller`): only the last gRPC call can run or be in the response
  context (`RunningIsNewest`), it has the answer the server gave, and an OK comes with the result
  (`Responded`, `Delivered`).

### UnityChannelsProofs

`Typing` and `ForgetsNoHub` (`NoHubForgotten`), for any threads, channels and hub clients.
`HasTarget`, `SnapshotCreated` and `FlagSet` tie where a thread is to the channel it works on.

### Only model-checked

* Liveness: `CallsReturnUndisposed`, `DisposeReturns`, `DisconnectSignalled` of the client,
  `ConnectReturns`, `ConsumerStops`, `AnswersSent` of the server, `EndsOnBothSides` and
  `EveryCallReturns` of the connection, `AwaitReturns`, `DisposedChannelGoes`,
  `DisconnectedHubGoes`, `PlainDisposeCancels`, `AnsweredReturns`. Reasoning under fairness is out
  of reach of TLAPS.
* The fairness of `GroupBroadcast` in `BroadcastPromise`: that a sender which is not stopped comes
  to the end of its method.
* That the theorems of `HubClientProofs` hold for the connection is the combination of two
  theorems, `ServerKeepsAssumptions` and the one about the client, and is not stated as a third:
  the prover does not use a theorem through an instance of its module.

## 5. What is left

* `SerializedDelivers` for connections that join again: the property would have to say from when on
  a connection has stayed.
* `RedisGroups` with two failures, and with a connection that joins twice, in the run.
* Server streaming and client streaming calls end to end; here their server side only is modelled.
