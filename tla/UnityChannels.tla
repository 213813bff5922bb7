---------------------------- MODULE UnityChannels ---------------------------
(***************************************************************************)
(* The channels of a Unity client: GrpcChannelProviderBase and GrpcChannelx*)
(* with the StreamingHub clients a channel manages.                        *)
(*                                                                         *)
(* Threads create channels, dispose of them (Dispose or DisposeAsync), shut*)
(* one down by ShutdownAsync and all of them by ShutdownAllChannels.       *)
(* A hub client is put under the management of its                         *)
(* channel when ConnectAsync ends, and taken out when it is disconnected   *)
(* or the channel is disposed of.  The lock on _streamingHubs is only held *)
(* inside an action; the lock on _channels is a variable, because          *)
(* ShutdownAllChannels disposes of channels while it holds it.             *)
(***************************************************************************)
EXTENDS FiniteSets, Naturals

CONSTANTS
  Channels, Hubs, Threads,
  Home,            \* Home[h]: the channel hub client h connects by
  Nobody           \* nobody holds the lock, no channel

ASSUME HomeAssumption   == Home \in [Hubs -> Channels]
ASSUME NobodyAssumption == Nobody \notin Threads \cup Channels

VARIABLES
  created,            \* channels that were constructed
  channels,           \* GrpcChannelProviderBase._channels
  channelsLock,       \* the thread in lock (_channels)
  disposed,           \* _disposed of each channel
  shutdownRequested,  \* _shutdownRequested of each channel
  shutdown,           \* channels whose _channel.ShutdownAsync() was called
  streamingHubs,      \* the hub clients in _streamingHubs of their channel
  hub,                \* hub[h]: how far the connection of h is
  toldToDispose,      \* hub clients whose DisposeAsync the channel called
  pc,                 \* pc[x]: where thread x is
  target,             \* target[x]: the channel x works on
  disposing,          \* threads in Dispose or DisposeAsync of their target
  snapshot            \* what ShutdownAllChannels of x has left, or {}

vars == <<created, channels, channelsLock, disposed, shutdownRequested, shutdown,
          streamingHubs, hub, toldToDispose, pc, target, disposing, snapshot>>

HubsOf(c) == {h \in Hubs : Home[h] = c}

TypeOK ==
  /\ created \in SUBSET Channels
  /\ channels \in SUBSET created
  /\ channelsLock \in Threads \cup {Nobody}
  /\ disposed \in SUBSET created
  /\ shutdownRequested \in SUBSET created
  /\ shutdown \in SUBSET shutdownRequested
  /\ streamingHubs \in SUBSET Hubs
  /\ hub \in [Hubs -> {"none", "connecting", "connected", "disconnected", "failed"}]
  /\ toldToDispose \in SUBSET Hubs
  /\ pc \in [Threads -> {"idle", "registering", "testing", "marking", "hubs", "requesting",
                         "setting", "shutdown", "unregistering", "next"}]
  /\ target \in [Threads -> Channels \cup {Nobody}]
  /\ disposing \in SUBSET Threads
  /\ snapshot \in [Threads -> SUBSET Channels]

Init ==
  /\ created = {}
  /\ channels = {}
  /\ channelsLock = Nobody
  /\ disposed = {}
  /\ shutdownRequested = {}
  /\ shutdown = {}
  /\ streamingHubs = {}
  /\ hub = [h \in Hubs |-> "none"]
  /\ toldToDispose = {}
  /\ pc = [x \in Threads |-> "idle"]
  /\ target = [x \in Threads |-> Nobody]
  /\ disposing = {}
  /\ snapshot = [x \in Threads |-> {}]

channelVars  == <<disposed, shutdownRequested, shutdown>>
providerVars == <<created, channels, channelsLock>>
hubVars      == <<streamingHubs, hub, toldToDispose>>
Goto(x, l)   == pc' = [pc EXCEPT ![x] = l]
\* lock (_channels), which a thread may enter again.
LockFree(x)  == channelsLock \in {Nobody, x}
\* The channels that CreateChannel has returned.
Usable       == {c \in created : \A y \in Threads : pc[y] = "registering" => target[y] # c}
\* Where a thread goes on when it has disposed of a channel.
After(x)     == IF channelsLock = x THEN "next" ELSE "idle"
-----------------------------------------------------------------------------
(***************************************************************************)
(* The provider.                                                           *)
(***************************************************************************)
CreateChannel(x, c) ==
  /\ pc[x] = "idle"
  /\ c \notin created
  /\ created' = created \cup {c}
  /\ target' = [target EXCEPT ![x] = c]
  /\ Goto(x, "registering")
  /\ UNCHANGED <<channels, channelsLock, channelVars, hubVars, disposing, snapshot>>

RegisterChannel(x) ==
  /\ pc[x] = "registering"
  /\ LockFree(x)
  /\ channels' = channels \cup {target[x]}
  /\ Goto(x, "idle")
  /\ UNCHANGED <<created, channelsLock, channelVars, hubVars, target, disposing, snapshot>>

ShutdownAllChannels(x) ==
  /\ pc[x] = "idle"
  /\ channelsLock = Nobody
  /\ channelsLock' = x
  /\ snapshot' = [snapshot EXCEPT ![x] = channels]
  /\ Goto(x, "next")
  /\ UNCHANGED <<created, channels, channelVars, hubVars, target, disposing>>

ShutdownNext(x) ==
  /\ pc[x] = "next"
  /\ IF snapshot[x] = {}
       THEN /\ channelsLock' = Nobody
            /\ Goto(x, "idle")
            /\ UNCHANGED <<target, disposing, snapshot>>
       ELSE \E c \in snapshot[x] :
              /\ snapshot' = [snapshot EXCEPT ![x] = @ \ {c}]
              /\ target' = [target EXCEPT ![x] = c]
              /\ disposing' = disposing \cup {x}
              /\ Goto(x, "testing")
              /\ UNCHANGED channelsLock
  /\ UNCHANGED <<created, channels, channelVars, hubVars>>
-----------------------------------------------------------------------------
(***************************************************************************)
(* Dispose and DisposeAsync of GrpcChannelx.                               *)
(***************************************************************************)
Dispose(x, c) ==
  /\ pc[x] = "idle"
  /\ c \in Usable
  /\ target' = [target EXCEPT ![x] = c]
  /\ disposing' = disposing \cup {x}
  /\ Goto(x, "testing")
  /\ UNCHANGED <<providerVars, channelVars, hubVars, snapshot>>

ShutdownAsync(x, c) ==
  /\ pc[x] = "idle"
  /\ c \in Usable
  /\ target' = [target EXCEPT ![x] = c]
  /\ disposing' = disposing \ {x}
  /\ Goto(x, "requesting")
  /\ UNCHANGED <<providerVars, channelVars, hubVars, snapshot>>

TestDisposed(x) ==
  /\ pc[x] = "testing"
  /\ Goto(x, IF target[x] \in disposed THEN After(x) ELSE "marking")
  /\ UNCHANGED <<providerVars, channelVars, hubVars, target, disposing, snapshot>>

MarkDisposed(x) ==
  /\ pc[x] = "marking"
  /\ disposed' = disposed \cup {target[x]}
  /\ Goto(x, "hubs")
  /\ UNCHANGED <<providerVars, shutdownRequested, shutdown, hubVars, target, disposing, snapshot>>

ForgetAllManagedStreamingHubs(x) ==
  /\ pc[x] = "hubs"
  /\ streamingHubs' = streamingHubs \ HubsOf(target[x])
  /\ Goto(x, "requesting")
  /\ UNCHANGED <<providerVars, channelVars, hub, toldToDispose, target, disposing, snapshot>>

DisposeAllManagedStreamingHubs(x) ==
  /\ pc[x] = "hubs"
  /\ LET hubs == streamingHubs \cap HubsOf(target[x])
     IN  /\ toldToDispose' = toldToDispose \cup hubs
         /\ streamingHubs' = streamingHubs \ hubs
  /\ Goto(x, "requesting")
  /\ UNCHANGED <<providerVars, channelVars, hub, target, disposing, snapshot>>

ReturnWhenRequested(x) ==
  /\ pc[x] = "requesting"
  /\ Goto(x, IF target[x] \in shutdownRequested THEN After(x) ELSE "setting")
  /\ UNCHANGED <<providerVars, channelVars, hubVars, target, disposing, snapshot>>

\* ShutdownInternalAsync: the flag is tested and set without a lock.
TestShutdownRequested(x) ==
  /\ pc[x] = "requesting"
  /\ Goto(x, CASE target[x] \notin shutdownRequested -> "setting"
               [] x \in disposing                    -> "unregistering"
               [] OTHER                              -> "idle")
  /\ UNCHANGED <<providerVars, channelVars, hubVars, target, disposing, snapshot>>

SetShutdownRequested(x) ==
  /\ pc[x] = "setting"
  /\ shutdownRequested' = shutdownRequested \cup {target[x]}
  /\ Goto(x, "shutdown")
  /\ UNCHANGED <<providerVars, disposed, shutdown, hubVars, target, disposing, snapshot>>

ShutdownUnderlying(x) ==
  /\ pc[x] = "shutdown"
  /\ shutdown' = shutdown \cup {target[x]}
  /\ Goto(x, IF x \in disposing THEN "unregistering" ELSE "idle")
  /\ UNCHANGED <<providerVars, disposed, shutdownRequested, hubVars, target, disposing, snapshot>>

\* _onDispose: UnregisterChannel of the provider.
UnregisterChannel(x) ==
  /\ pc[x] = "unregistering"
  /\ LockFree(x)
  /\ channels' = channels \ {target[x]}
  /\ Goto(x, After(x))
  /\ UNCHANGED <<created, channelsLock, channelVars, hubVars, target, disposing, snapshot>>
-----------------------------------------------------------------------------
(***************************************************************************)
(* The hub clients.                                                        *)
(***************************************************************************)
\* CreateCallInvoker throws for a disposed channel.
StartConnect(h) ==
  /\ hub[h] = "none"
  /\ Home[h] \in Usable \ disposed
  /\ hub' = [hub EXCEPT ![h] = "connecting"]
  /\ UNCHANGED <<providerVars, channelVars, streamingHubs, toldToDispose, pc, target, disposing, snapshot>>

\* StreamingHubClient.ConnectAsync has the connection and registers it.
ManageStreamingHubClient(h) ==
  /\ hub[h] = "connecting"
  /\ hub' = [hub EXCEPT ![h] = "connected"]
  /\ streamingHubs' = streamingHubs \cup {h}
  /\ UNCHANGED <<providerVars, channelVars, toldToDispose, pc, target, disposing, snapshot>>

\* The connection is not made (external), and ConnectAsync throws.
ConnectFails(h) ==
  /\ hub[h] = "connecting"
  /\ hub' = [hub EXCEPT ![h] = "failed"]
  /\ UNCHANGED <<providerVars, channelVars, streamingHubs, toldToDispose, pc, target, disposing, snapshot>>

\* The connection ends (external): the server or the network ends it, the
\* client disposes of itself, or the channel told it to.
HubDisconnects(h) ==
  /\ hub[h] = "connected"
  /\ hub' = [hub EXCEPT ![h] = "disconnected"]
  /\ UNCHANGED <<providerVars, channelVars, streamingHubs, toldToDispose, pc, target, disposing, snapshot>>

KeepDisconnectedHub(h) ==
  /\ hub[h] = "disconnected"
  /\ h \in streamingHubs \ toldToDispose
  /\ toldToDispose' = toldToDispose \cup {h}
  /\ UNCHANGED <<providerVars, channelVars, streamingHubs, hub, pc, target, disposing, snapshot>>

\* WaitForDisconnectAndDisposeAsync.
DisposeStreamingHubClient(h) ==
  /\ hub[h] = "disconnected"
  /\ h \in streamingHubs
  /\ toldToDispose' = toldToDispose \cup {h}
  /\ streamingHubs' = streamingHubs \ {h}
  /\ UNCHANGED <<providerVars, channelVars, hub, pc, target, disposing, snapshot>>
-----------------------------------------------------------------------------
ThreadStep(x) ==
  \/ RegisterChannel(x) \/ ShutdownNext(x)
  \/ TestDisposed(x) \/ MarkDisposed(x) \/ DisposeAllManagedStreamingHubs(x)
  \/ TestShutdownRequested(x) \/ SetShutdownRequested(x) \/ ShutdownUnderlying(x)
  \/ UnregisterChannel(x)

HubStep(h) ==
  \/ StartConnect(h) \/ ManageStreamingHubClient(h) \/ ConnectFails(h)
  \/ HubDisconnects(h) \/ DisposeStreamingHubClient(h)

Next ==
  \/ \E x \in Threads : ThreadStep(x) \/ ShutdownAllChannels(x)
  \/ \E x \in Threads, c \in Channels :
       CreateChannel(x, c) \/ Dispose(x, c) \/ ShutdownAsync(x, c)
  \/ \E h \in Hubs : HubStep(h)

\* A thread goes on with what it began (a monitor is given to each that waits
\* for it in the end), a hub client that was told to dispose disconnects, and
\* the continuation of its WaitForDisconnect runs.  Nothing is assumed of the
\* shutdown of the channel below: it need not end the calls on it.
Fairness ==
  /\ \A x \in Threads : SF_vars(ThreadStep(x))
  /\ \A h \in Hubs : /\ WF_vars(h \in toldToDispose /\ HubDisconnects(h))
                     /\ WF_vars(DisposeStreamingHubClient(h))

Safety == Init /\ [][Next]_vars
Spec   == Safety /\ Fairness
-----------------------------------------------------------------------------
\* No hub client is dropped: one that left the table of its channel was told
\* to dispose, by the channel or when it was disconnected, whichever came
\* first.
NoHubForgotten ==
  \A h \in Hubs :
    hub[h] \in {"connected", "disconnected"} => h \in streamingHubs \cup toldToDispose

\* Whoever begins to dispose of a channel, and whatever ShutdownAllChannels
\* and ShutdownAsync do at the same time: the channel is shut down and leaves
\* the provider.
DisposedChannelGoes ==
  \A c \in Channels : c \in disposed ~> c \in shutdown /\ c \notin channels

\* The table of a channel does not keep hub clients that are disconnected.
DisconnectedHubGoes ==
  \A h \in Hubs : hub[h] = "disconnected" ~> h \notin streamingHubs
=============================================================================
