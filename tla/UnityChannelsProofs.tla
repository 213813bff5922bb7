------------------------- MODULE UnityChannelsProofs ------------------------
(***************************************************************************)
(* The invariants of UnityChannels for every number of threads, channels   *)
(* and hub clients.                                                        *)
(***************************************************************************)
EXTENDS UnityChannels, TLAPS

\* A thread that works on a channel has one, and one that was constructed.
HasTarget ==
  \A x \in Threads :
    pc[x] \in {"registering", "testing", "marking", "hubs", "requesting", "setting", "shutdown",
               "unregistering"} => target[x] \in created

\* ShutdownAllChannels only visits channels that were constructed.
SnapshotCreated == \A x \in Threads : snapshot[x] \subseteq created

\* Whoever calls ShutdownAsync of the channel below has set the flag.
FlagSet == \A x \in Threads : pc[x] = "shutdown" => target[x] \in shutdownRequested

IInv ==
  /\ TypeOK
  /\ HasTarget
  /\ SnapshotCreated
  /\ FlagSet
  /\ NoHubForgotten

LEMMA InitIInv == Init => IInv
BY Zenon DEF Init, IInv, TypeOK, HasTarget, SnapshotCreated, FlagSet, NoHubForgotten
-----------------------------------------------------------------------------
\* The provider: channels are constructed, registered and enumerated.
LEMMA ProviderIInv ==
  ASSUME IInv, NEW x \in Threads,
         \/ \E c \in Channels : CreateChannel(x, c)
         \/ RegisterChannel(x) \/ ShutdownAllChannels(x) \/ ShutdownNext(x)
  PROVE  IInv'
<1> USE NobodyAssumption
    DEF IInv, TypeOK, HasTarget, SnapshotCreated, FlagSet, NoHubForgotten, Goto,
        providerVars, channelVars, hubVars
<1>1. ASSUME NEW c \in Channels, CreateChannel(x, c) PROVE IInv'
  BY <1>1 DEF CreateChannel
<1>2. CASE RegisterChannel(x)
  BY <1>2 DEF RegisterChannel
<1>3. CASE ShutdownAllChannels(x)
  BY <1>3 DEF ShutdownAllChannels
<1>4. CASE ShutdownNext(x)
  BY <1>4 DEF ShutdownNext
<1> QED
  BY <1>1, <1>2, <1>3, <1>4

\* Dispose, DisposeAsync and ShutdownAsync, step by step.
LEMMA DisposalIInv ==
  ASSUME IInv, NEW x \in Threads,
         \/ \E c \in Channels : Dispose(x, c) \/ ShutdownAsync(x, c)
         \/ TestDisposed(x) \/ MarkDisposed(x) \/ DisposeAllManagedStreamingHubs(x)
         \/ TestShutdownRequested(x) \/ SetShutdownRequested(x) \/ ShutdownUnderlying(x)
         \/ UnregisterChannel(x)
  PROVE  IInv'
<1> USE NobodyAssumption
    DEF IInv, TypeOK, HasTarget, SnapshotCreated, FlagSet, NoHubForgotten, Goto, After,
        providerVars, channelVars, hubVars
<1>1. ASSUME NEW c \in Channels, Dispose(x, c) PROVE IInv'
  BY <1>1 DEF Dispose, Usable
<1>2. ASSUME NEW c \in Channels, ShutdownAsync(x, c) PROVE IInv'
  BY <1>2 DEF ShutdownAsync, Usable
<1>3. CASE TestDisposed(x)
  BY <1>3 DEF TestDisposed
<1>4. CASE MarkDisposed(x)
  BY <1>4 DEF MarkDisposed
<1>5. CASE DisposeAllManagedStreamingHubs(x)
  BY <1>5 DEF DisposeAllManagedStreamingHubs
<1>6. CASE TestShutdownRequested(x)
  BY <1>6 DEF TestShutdownRequested
<1>7. CASE SetShutdownRequested(x)
  BY <1>7 DEF SetShutdownRequested
<1>8. CASE ShutdownUnderlying(x)
  BY <1>8 DEF ShutdownUnderlying
<1>9. CASE UnregisterChannel(x)
  BY <1>9 DEF UnregisterChannel
<1> QED
  BY <1>1, <1>2, <1>3, <1>4, <1>5, <1>6, <1>7, <1>8, <1>9

\* A hub client connects and is managed; when it is disconnected it leaves.
LEMMA HubIInv == ASSUME IInv, NEW h \in Hubs, HubStep(h) PROVE IInv'
<1> USE DEF IInv, TypeOK, HasTarget, SnapshotCreated, FlagSet, NoHubForgotten,
            providerVars, channelVars
<1>1. CASE StartConnect(h)
  BY <1>1 DEF StartConnect
<1>2. CASE ManageStreamingHubClient(h)
  BY <1>2 DEF ManageStreamingHubClient
<1>3. CASE ConnectFails(h)
  BY <1>3 DEF ConnectFails
<1>4. CASE HubDisconnects(h)
  BY <1>4 DEF HubDisconnects
<1>5. CASE DisposeStreamingHubClient(h)
  BY <1>5 DEF DisposeStreamingHubClient
<1> QED
  BY <1>1, <1>2, <1>3, <1>4, <1>5 DEF HubStep

LEMMA NextIInv == IInv /\ [Next]_vars => IInv'
<1> SUFFICES ASSUME IInv, [Next]_vars PROVE IInv'
  OBVIOUS
<1>1. CASE UNCHANGED vars
  BY <1>1 DEF vars, IInv, TypeOK, HasTarget, SnapshotCreated, FlagSet, NoHubForgotten
<1>2. ASSUME NEW x \in Threads, ThreadStep(x) \/ ShutdownAllChannels(x) PROVE IInv'
  BY <1>2, ProviderIInv, DisposalIInv DEF ThreadStep
<1>3. ASSUME NEW x \in Threads, NEW c \in Channels,
             CreateChannel(x, c) \/ Dispose(x, c) \/ ShutdownAsync(x, c)
      PROVE  IInv'
  BY <1>3, ProviderIInv, DisposalIInv
<1>4. ASSUME NEW h \in Hubs, HubStep(h) PROVE IInv'
  BY <1>4, HubIInv
<1> QED
  BY <1>1, <1>2, <1>3, <1>4 DEF Next

LEMMA Invariance == Safety => []IInv
BY InitIInv, NextIInv, PTL DEF Safety
-----------------------------------------------------------------------------
\* The tables hold channels that exist, and whoever shuts the channel below
\* down has announced it.
THEOREM Typing == Safety => []TypeOK
<1>1. IInv => TypeOK
  BY DEF IInv
<1> QED
  BY <1>1, Invariance, PTL

\* For any number of threads that dispose of channels while hub clients
\* connect and disconnect: a hub client that is no longer in the table of its
\* channel was told to dispose.
THEOREM ForgetsNoHub == Safety => []NoHubForgotten
<1>1. IInv => NoHubForgotten
  BY DEF IInv
<1> QED
  BY <1>1, Invariance, PTL
=============================================================================
