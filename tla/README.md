# s2s-proxy in TLA+

`s2s-proxy` sits between two Temporal clusters and forwards their replication
streams. In routing mode the clusters have different shard counts: the proxy
takes the replication tasks of every source shard, sends each to the target
shard that owns its workflow, rewrites task IDs on the way, and turns the
target's acknowledgements back into acknowledgements for the source. The source
deletes what was acknowledged, so an ack that is too high loses data. Several
proxy nodes can share the work; they gossip about which node owns which shard.

This directory models the parts of that which are hard to test: where tasks and
acks go on one node, which node owns a shard, the streams between nodes and what
they carry, the life of a stream's handlers, the multiplexed connections between
two proxies, the names and the sealing of what crosses to the peer, and what a proxy
opens and closes.

## Parts and modules

| Part of the system | Modules | What is hard |
|---|---|---|
| `proxyIDRingBuffer` (proxy/proxy_streams.go) | ProxyIDRing, ProxyIDWindow | growth of a wrapped buffer; a count taken in one critical section and used in another |
| `proxyStreamReceiver`, `proxyStreamSender` and their channels | RoutingChannels, ProxyStreamReceiver, ProxyStreamSender, StreamRouting | retries, full channels, targets that come and go, watermarks under synthetic IDs, a minimum over an incomplete map |
| Shard manager: ownership (proxy/shard_manager.go) | ShardOwnership | several critical sections per call, stale messages, two owners |
| Intra-proxy router (proxy/intra_proxy_router.go) | IntraProxyStreams, IntraForwarding | duplicate streams, cleanup that hits the next stream, messages lost with a stream |
| `streamRouting` handler and the registries of receivers | StreamHandlers | two overlapping streams of a shard, four goroutines that end each other |
| Stream forwarder (proxy/admin_stream_transfer.go) | StreamForwarder | who ends whom, what is dropped at the end |
| Shard counts of the two clusters (common, cluster_connection.go, adminservice.go) | ShardMapping | two servers with mirrored parameters, 32 bit overflow |
| Shard manager: join loop | MembershipJoin | a stop that waits for a loop, callbacks of the memberlist under its locks |
| Names in calls and streams (interceptor, auth, collect/bimap.go, the services' handlers) | NameTranslation | what crosses by one call comes back by another, two names that become one, decisions by a name of the wrong side |
| Namespace names (proxy/namespace_names.go) | NamespaceNames | a lookup shared by callers of different times, cached late |
| Payload encryptors (interceptor, `newEncryptors`) | PayloadSealing | what is sealed in one call is opened in another, after a change of configuration |
| `NewProxy`, `newClusterConnection`, vault, `Start`, `Stop` | ProxyResources | failure half way, double close, something nobody closes |
| One cluster connection: the nine modules IntraForwarding to ProxyResources together | Lifetime, ClusterConnection | the end of the lifetime at any moment |
| Mux manager (transport/mux) and the client's connection list | MuxConnections, MuxPool | permits lost or doubled, a stale list, a shutdown that waits |
| Debug pages, stream tracker and observer, command line, generated code | none | see "Not modelled" |

`PROJECT.json` lists every part with its status, and the hazards at their lines.

**ProxyIDRing** models the ring buffer with its Go layout: a slice of entries, a
head, a size, the ID of the first entry; `EnsureCapacity` copies and doubles,
`RingAppend` fills holes, `RingDiscard` moves the head. Its actions are the
critical sections of the sender that use it: `Append` (send loop), `AggregateUpTo`
and `Discard` (ack loop), interleaved, with the count held in between.
**ProxyIDWindow** is the abstract specification, a window of consecutive entries
with no buffer at all, and `ImplementsWindow` says the first implements the second.

**RoutingChannels**, **ProxyStreamReceiver**, **ProxyStreamSender** and their
composition **StreamRouting** model routing mode on one node. Tasks of a source
are numbered; a routed message has tasks or is a watermark.

| Action | Code |
|---|---|
| `RecvTasks`, `DeliverTasks` | a batch is grouped by target shard; each group is sent when its target is registered and has room (the retry loop is the action waiting for its guard) |
| `RecvEmpty`, `BroadcastWatermark` | an empty batch: the watermark is stored and offered to each registered channel, dropped where full |
| `NotifyNewTargetShard` | `RegisterShard` calls every receiver, which offers its last watermark |
| `SendAck` | one routed ack is stored, the minimum taken, clamped, and sent if it is not below the last |
| `OpenSender`, `SendMessage`, `EndStream` | a target's stream: registration, ID rewriting, end |
| `RecvAck`, `DeliverAck`, `DiscardAcked` | the three critical sections of `recvAck` |
| `TargetApply`, `TargetAck` | external: the target cluster applies tasks in any order and acks its low watermark |

Taken as one step: closing a stream's channel, unregistering and removing it
(ShardOwnership and StreamHandlers have these apart). Left out: keepalives; an ack of
an ended stream that is read after the next one opened; a source stream that ends
(StreamHandlers has its handlers, not its tasks).

**ShardOwnership** models which node owns which shard. A step is one critical
section of the shard manager: `SetRemoteSendChan`, `AddLocalShard`,
`BroadcastRegister` (registration), `CloseStream`, `UnregisterShard`,
`RemoveLocalShard`, `RemoveRemoteSendChan` (cleanup), `NotifyMsg`,
`ForcedUnregister`, `ForcedRemove` (a broadcast of another node),
`LocalState`/`MergeRemoteState` (push/pull), `NotifyLeave`. Clocks of nodes agree
and never read the same twice, which favours the code. memberlist is external:
`PushState` takes and sends a snapshot, `LoseBroadcast` fails a delivery. A node whose
`NotifyLeave` was called is `hung`: its memberlist is locked up (see MembershipJoin),
so it takes in nothing more.

**IntraProxyStreams** models the streams one node opens to another for pairs of a
target shard of its own and a source shard of the other's. A step is one critical
section or the end of one wait.

| Action | Code |
|---|---|
| `ReconcileStart`, `EnsureLookup`, `EnsureInsert`, `ReconcilePrune` | `ReconcilePeerStreams` at the node that receives: reading the shards, the fast path of `ensureStream`, the insertion of a receiver, the pruning |
| `RunStart`, `OpenStream`, `OpenFails`, `ReceiverEnds`, `Cleanup` | the receiver's goroutine, up to the deletion of its key |
| `HandleStream`, `RegisterSender`, `SenderEnds`, `UnregisterSender` | `streamIntraProxyRouting` and the sender's goroutine at the other node |
| `PruneStart`, `PruneSenders` | `ReconcilePeerStreams` at that node |
| `BreakStream`, `ChangeShards` | external: connections break, shards move or become known |

A source shard is never local to the receiving node, nor a target shard to the
sending one.

**IntraForwarding** models what travels on these streams; opening, pruning and
breaking them is its environment. `FindSender` and `SendToPeer` are
`sendReplicationMessages`; `RecvRouted`, `FindChan`, `RetryChan`, `SendToChan` and
`StopSending` the receiver's loop, which looks its channel up, may find it closed
when it uses it, and starts again; `DropReceiver` the deletion of its key.
`ForwardAck`, `RecvRoutedAck`, `DeliverRoutedAck` and `DropSender` carry acks back; a
relay of acks that gives up ends, and `HandlerReturns` ends its stream later.
The pending watermark a new sender sends, and the end of its handler with the
lifetime, are left out.

**StreamHandlers** models two calls of `streamRouting` for one shard that overlap.
The sender half sets its channel, notifies the receivers, closes and removes the
channel; the receiver half terminates the previous receiver (`FindPrevious`,
`CancelPrevious`, `ForceRemoveLocalAckChan`: three critical sections), opens its
source stream, enters three registries and, at the end, leaves them in order. They
share a shutdown channel, which the end of the lifetime closes too.

**StreamForwarder** models `StreamForwarder.Run`: two loops, two listeners,
`CloseSend` in a goroutine with one second to report, and a context whose end
cancels the source stream. Either peer may end its stream, or send something of a type
the loops do not know, at any moment.

**ShardMapping** models what shard counts the two servers of a connection present
(`DescribeCluster`, which gives the count as it is to a caller that has switched
translation off) and what `handleStream` makes of a stream, in each of the three modes,
for every pair of counts up to `MaxShards` and integers of `Width` bits. A
workflow is its hash. `servercommon.MapShardID` is external.

**MembershipJoin** models `Start`, the join loop with its flag and wait group,
`NotifyLeave`, and `Stop`. `mlMutex` is held over calls of the memberlist and is a
variable; a critical section of `mutex` is one step. The memberlist is external,
hashicorp/memberlist v0.5.1 as `go.mod` has it. It calls `NotifyLeave` with its
`nodeLock` held, and its `NumMembers`, the state exchange of a `Join` and its `Leave` take
`nodeLock`; its `Leave` calls `NotifyLeave` for the node itself. So two calls the code
makes do not return, `NumMembers` in `NotifyLeave` and `Leave` in `Stop`, and the module
ends there. The goroutines that announce a metadata change (`UpdateNode`) take `mlMutex`
for one call each and are left out.

**NameTranslation** models the names in what passes the servers. The two clusters may name
a namespace or a search attribute differently; `NewStaticBiMap` makes two maps of the
configured pairs, one for each way, or refuses them (`BuildTranslations`), and the
inbound server has them exchanged. Something of the local cluster crosses to the peer in
a request of the outbound server, or a response or a stream of the inbound one
(`CallPeer`), and comes back the other way (`PeerReturns`, `PeerCalls`). It is a sequence
of parts in the order they are visited: a name, the fields of search attributes, or a
blob of events that is valid, is repaired, cannot be read, which ends the visit, or has
invalid UTF-8 in which the repair finds nothing to change, and is passed on unvisited.
`InterceptRequest`, `InterceptResponse` and `InterceptStream` are the translation
interceptor, `AccessControl` and `StreamIntercept` the one of the inbound server, and
`InboundRequest` their order. `ListNamespaces` and `GetNamespaceReplicationMessages` are
the two handlers that decide by a name; the others pass on what they get. Where a message
has its fields is external, and so is serialization. The search attribute translator is
never asked of a workflow call, whose attributes go by their aliases. `RecvMsg`
translates a message before it is received, so nothing of it; the messages of that
direction have no names. A header switches the translation of a call off; it does so
both ways or neither.

**NamespaceNames** models the cache of one namespace ID, the lookup that callers
share and its timeout, and a namespace that is renamed.

**PayloadSealing** models what becomes of something of the local cluster that crosses
to the peer (`CrossToPeer`) and comes back (`CrossBack`), each time in a workflow or an
admin call of either direction, with a restart under another configuration in between
(`NewEncryptors`). It is a payload (plain, sealed by another codec, sealed by this proxy
earlier, or only named as if), a failure with its text or encoded by the SDK, or opaque
data. `NewEncryptor` and `chainUnary` put the interceptors in order, `Visit` is one of
them at work, `stampAndTranslate`, `label` and the two binders find what a payload is
bound to. A call may name the namespace of the payload, another one, or none. A visit
that fails has no result. Two namespaces have each other's name on the
peer, so that a name of the wrong side is a wrong label. The vault is external, as its
documentation in `config/encryption.go` and its callers describe it: it binds unless
binding is off, and refuses only under `strict`. Keys, listed encodings and translations
stay as they are, and every request is translated.

**ProxyResources** models `NewProxy` as the list of calls it makes, each of which
opens something or fails, what the failing call closes, and the functions that close
the rest after the lifetime. `StartServer` starts the servers one after the other, and
each has a loop around `Serve` (`EnterLoop`, `ServeReturns`) and a `GracefulStop`, which
waits for the calls in flight. The HTTP servers for health, metrics and profiles are
left out. A connection without keys is one with `MaxPolicies = 0`.

**ClusterConnection** composes the nine modules from IntraForwarding on with
**Lifetime**, the context that
`Proxy.Stop` ends and `NewProxy` ends when it fails.

**MuxConnections** models one mux: `Start`'s goroutine (`Acquire`, `NewConnection`,
`NewSession`, `Ping`, `AddConnection`, and `Fail` from each), the goroutine of each
session (`WaitAndCleanup`, `UnregisterMux`, `NotifyRemoved`, `AllowMoreConns`),
`HasConnectionsAvailable` (`TryAcquire`, `ReleaseProbe`), and the end
(`CloseListener`, `WaitForClose`, `CloseMuxes`). **MuxPool** is what it promises: a
set of at most `MuxCount` sessions with IDs that never return, and none opened after
the shutdown was reported. The health check of a session is left out, and
`DrainConns`, which nothing calls.

The `MC` modules instantiate these for TLC. **MCRoutingLiveness** adds a history variable,
the watermarks that were dropped at a full channel. **MCClusterConnection** drives one of
the parts at a time, any: they share only the lifetime, which `Stop` may end in any part
that watches it, and every property is about one of them, so a behaviour of the
composition that violates a property has one, with the other parts left where they began,
that does too. Messages and acks between nodes are driven apart in the same way: they
share only the streams, which may break at any moment. Names are interchangeable, so the
instances of NameTranslation are taken up to renaming, and search attributes have the
mappings of the namespaces: nothing compares a name of one with one of the other.
Definitions whose comment begins "Mutant:" are deliberately wrong variants that show each
property can fail.

## Runs

| Run | Instance | Shows |
|---|---|---|
| `ring` | 2 shards, 6 IDs, buffer starts at 1 entry | `ContiguousIDs` (the hole branch is dead), `AcksMatchDiscard` (what is discarded is what was acked, though appends and growth come between), `ImplementsWindow` |
| `routing_two_targets` | 1 source, 2 targets, 2 tasks, a watermark, channels of 1 | `ReportedTargetsSafe`, `SourceAckMonotone` |
| `routing_two_sources` | 2 sources, 1 target, a task and a watermark each, one stream end | `TargetAckSafe`, `DiscardOnlyAcked` |
| `routing_liveness` | 1 source, 1 target, 2 tasks, 2 watermarks, channels of 1, one stream end | `WatermarkAcked` |
| `intra_streams` | 1 pair of shards, 3 streams, one break, one change of shards | `NoDeadStream`, `PairServed` |
| `ownership` | 2 nodes, 2 shards of which 1 fits a snapshot, 2 streams, 2 snapshots on their way each way, one lost broadcast or node reported gone | `NewestChannel`, `RegistrationHasStream`, `TwoOwnersResolved`, `OwnersKnown` |
| `mux` | 2 permits, 4 sessions, 2 breaks, one failed attempt, either kind of provider | `PermitsConserved`, `ClientListCurrent`, `ImplementsPool`, `PoolFills`, `ShutsDown` |
| `connection` | the parts of a cluster connection, below | below |
| `routing_premature_ack` | 1 source, 2 targets | violated: `SourceAckSafe` |
| `ownership_race` | 1 node, 2 streams | violated: `OldKeepsNew` |
| `intra_sender` | 1 pair of shards, 3 streams, one break | violated: `SenderRegistered` |
| `connection_closed_send` | 2 handlers of a shard | violated: `NoClosedSend` |

What `connection` checks of each part:

| Part and instance | Properties |
|---|---|
| 2 overlapping handlers of a shard, one source stream refused | `NoDeadEntries` (no registry keeps a receiver that is gone), `NewestGetsAcks`, `HandlerEnds` |
| a forwarder, 2 messages one way and an ack the other | `NothingDropped`, `ReasonReturned`, `ForwarderEnds` |
| all modes, all pairs of 1 to 8 shards, integers of 6 bits | `RightWorkflows` (a stream carries exactly the workflows it was opened for) |
| 2 streams between nodes, a message, an ack, 2 channels of the target | `MessagesAccounted`, `AcksKeptOrStreamEnds`, `AbandonedStreamEnds` |
| a join loop, other nodes that come and go | `TriesToJoin`, `RetriesStop` |
| 3 names, up to 2 pairs of them, no policy, one that allows a name, one that allows all, contents of 1 or 2 parts, every call, stream and direction | `NamesReturn` (what comes back has its local names, none lost), `LocalNamesDecide` (the access control and the filters of the handlers go by the local name) |
| 2 callers, 2 renames, 5 units of time, a TTL and a timeout of 2 | `NameFresh` (a name is used less than TTL plus timeout after it changed) |
| every configuration before and after a restart, every content, call and direction | `PeerHoldsSealed` (nothing that can be sealed crosses otherwise, or twice), `NothingStranded` (it comes back as it was; a strict binding refuses only what was unbound or whose calls did not name one namespace) |
| a connection with 2 clients, 2 policies of 2 keys and 2 servers, an extension server | `SomebodyCloses` (and nothing is closed while the proxy runs), `EverythingClosed` |

### What the violations show

* `routing_premature_ack`: `sendAck` takes the minimum over the targets that have
  acked. A target that has not is not in the map, so the source is told that tasks
  queued for it are done. `ReportedTargetsSafe` is the part that does hold.
* `ownership_race`: `UnregisterShard` deletes twice, the second time without
  comparing timestamps, and may delete the registration of the next stream.
* `intra_sender`: the handler of a stream returns before its sender unregisters. If
  the next stream registers in between, `UnregisterSender` deletes the new entry.
  The new stream stays open, so nothing replaces it, and no sender is found for the
  pair. `PairServed` is the part that does hold: the receiving side recovers from
  the same deletion, because a missing entry makes it open another stream.
* `connection_closed_send`: a receiver that is told of a new shard looks up the
  shard's channel and sends its last watermark into it, without the `recover` that the
  other senders have. A stream closes its channel before it removes it, so the channel
  found may be closed, and the process panics.

### What the properties leave out

Where the code does not keep a property in some case, the property names the case and
claims the rest. These are the cases, and each is reachable in the model or the code:

* `WatermarkAcked`: the channel of a target is full when the watermark comes. It is
  dropped, and nothing sends it again before the next one, or the next stream of the
  target. The run has such drops.
* `TriesToJoin`, `RetriesStop`, `OwnersKnown`: a node was lost, and the memberlist of this
  one is locked up. `RetriesStop` says that `Stop` gets to `Leave`, not that it returns.
* `OwnersKnown`: the shards of a node do not fit the 4096 bytes of its metadata. Past
  them `LocalState` sends the bare node name, which the other side cannot decode, so it
  goes on with what it knew.
* `TwoOwnersResolved`: a broadcast was lost or a node taken to have left. Nor does it say
  that an owner is left: each of two may give the shard up to the other.
* `ReasonReturned`: a message of an unknown type. It ends the stream, and `Run` returns nil.
* `HandlerEnds`: the source stream cannot be opened. The receiver returns without a
  shutdown signal, and the sender stays until its target or the lifetime ends. Nor does
  it claim anything after the panic of `connection_closed_send`.
* `NewestGetsAcks` says who gets the acks, not that one receiver is left: of two that
  open together neither may terminate the other, and one that ends deletes the cancel
  function and the entry among the active receivers of whoever has them.
* `AbandonedStreamEnds`: the target shard has no channel on the node. A receiver that
  holds a message waits for one, told to stop or not.
* `AcksKeptOrStreamEnds`: a relay that gave an ack up has ended, its stream not yet. What
  is sent on it meanwhile is lost with it (`AbandonedStreamEnds`).
* `MessagesAccounted`: messages on a stream that breaks are counted as lost.
* `RightWorkflows`: the product of the shard counts overflows 32 bits. The least common
  multiple is then wrong even where it would fit. Or a caller had translation switched off
  in `DescribeCluster`, and opens streams by a count that `handleStream` does not expect.
* `NamesReturn`: a name that is not mapped, while another name is mapped to it. The peer
  cannot tell the two apart, and it comes back as the other. Nothing refuses such a
  configuration.
* `LocalNamesDecide`: a blob with invalid UTF-8 in which the repair finds nothing to
  change. Its names are not visited, by the translation or by the access control.
* `NothingStranded`: under a strict binding, what was sealed while binding was off, or
  whose calls did not all name one namespace, is refused. `config/encryption.go` says so of
  calls that name none and of payloads that cross namespaces, and asks for a rollout that
  avoids the former.
* `EverythingClosed`: a call that does not return keeps the `GracefulStop` of its server
  waiting.
* `SourceAckSafe`, `TargetAckSafe`: a task with no namespace or workflow is in no group,
  is delivered nowhere, and is not counted as undone.

Three further instances show what the properties above leave out.
`RoutingLostTasks.cfg` (MCStreamRouting) violates `SourceAckSafe` with one target:
tasks in the channel or the ring of a stream that ends are not delivered again, and
the next watermark passes them. `MembershipRejoin.cfg` (MCClusterConnection) violates
`RestartsJoinLoop`, what `NotifyLeave`'s comment says ("If we're now isolated and have join
addresses configured, restart join loop", `proxy/shard_manager.go:1262`): `NumMembers`
waits for the `nodeLock` that the caller of `NotifyLeave` holds. `MembershipStop.cfg`
violates `StopCompletes`, what `shutdownMemberlist` is for ("Leave the cluster
gracefully", `proxy/shard_manager.go:385`): `Leave` waits for a `NotifyLeave` that waits
for the `mlMutex` of `Stop`.

The invariants on messages and acks between nodes and on the shard mapping also hold with
`MaxRouted = 2`, `MaxShards = 12` and `Width = 8` in `Connection.cfg`, which takes longer.

### Bounds

Capacities of 100 become 1 or 2, so that full channels happen after one or two messages.
One or two tasks are enough for a task to be overtaken by a watermark, a batch to be split
between targets, and an ack to fall between two tasks; a second stream of a shard is
enough for overlap and a third for the cleanup of an old stream to meet two newer ones.
`MaxTask`, `MaxBatch`, `MaxEmpty`, `MaxCloses`, `WireCap`, `MaxStreams`, `MaxSnapshots`,
`MaxFaults`, `MaxChanges`, `MaxBreaks`, `MaxSessions`, `MaxFailures`, `MaxHandlers`,
`MaxRefused`, `MaxForwarded`, `MaxShards`, `MaxLinks`, `MaxRouted`, `MaxChannels`,
`MaxMappings`, `MaxTime`, `MaxRenames`, `MaxExtensions`, `MaxConnections`, `MaxRestarts`,
`MaxPolicies` and `MaxKeys` are the bounds; each is a guard of the actions that use it up,
or the size of a configuration. The forwarder receives one ack only (`FewAcks`): its two
directions share only the shutdown and the end of `Run`. `MuxCount`, `MetaLimit`, `Width`, `TTL`
and `Timeout` are the code's constants made small. Counts up to 8 include coprime pairs,
multiples and pairs with a common divisor, and with 6 bits products that fit and products
that do not. `PairServed` and `SenderRegistered` claim nothing of behaviours that use up
`MaxStreams`; a mux has sessions for all its permits and all its breaks. Symmetry is used
in `ring`, `routing_two_sources` and `routing_two_targets`, none of which checks liveness.
Deadlock is checked in `ring`, the three passing routing runs, `intra_streams` and
`intra_sender`. It is not in `ownership`, `mux` and `connection`, which stop when the
bounds are used up or the lifetime has ended, nor in the other violation runs.

### Fairness

Routing: goroutines that can run do (weak fairness of every step of receiver and
sender); the target cluster applies and acks what it received and reopens a stream
that ended. A blocked channel send is served first come first served by the Go
runtime, and a delivery that is retried finds room again and again: strong
fairness of `DeliverTasks` and `DeliverAck`. The source has to emit nothing and no
stream has to end. Ownership: memberlist's push/pull repeats for ever and what it
received is merged; nothing else is fair. Intra-proxy streams: the two loops of
`Start` go round for ever, and the goroutines of a stream take the step they can. A
stream need not break, and a receiver that was shut down before its context could be
cancelled may wait in `Recv` for ever. Handlers and forwarder: as long as some
goroutine can go on, one does (weak fairness of their steps together); `Recv` returns
only when its stream has ended or was cancelled, and neither peer has to end. A pruned
receiver takes the step it can, and the channel it is blocked on need not be read; the
handler of a relay that ended returns. Join loop, `NotifyLeave` and `Stop` go on where
they hold or get the lock they need; a `Join` that gets it returns, with an error as often
as it likes. Resources: a construction or a `Start` that began goes on, the functions
after the lifetime run, `Serve` returns from a closed listener; a call takes as long as it
likes. Mux: the
provider, the goroutines of the sessions and the shutdown run; `NewConnection` of an
establisher returns, in the end with a connection when attempts stop failing, and the
lifetime need not end. `Acquire` is strongly fair: the semaphore queues its waiters,
and `TryAcquire` gives back each permit it takes.

## Proofs

All theorems hold for every set of shards, nodes and names and every value of the
bounds. Every safety property that a passing run checks has one.

**ProxyIDRing_proofs.** `TypeCorrect`, `Contiguity`, `RingImplementsWindow` and
`AcksAreOfDiscarded` (`AcksMatchDiscard`). The invariant is the type invariant (head
inside the slice, size within the capacity), contiguity with the allocator, and that the
count `recvAck` holds between its two
critical sections is at most the size. The lemmas say what each ring operation does
to entry i, which sits in slot (head + i) modulo the capacity: growth copies from
the head on and changes no entry, a discard of n makes entry n + i entry i. For the
last theorem the invariant adds that no entry is a hole (`NoHoles`) and that the acks in
hand are what the loop of `AggregateUpTo` makes of the first entries (`Matches`).

**StreamRouting_proofs.**

* `TypeCorrect`: the composed state keeps its shape.
* `AcksAreSafe` (`TargetAckSafe`): no ack derived from a target's watermark passes
  a task still on its way to that target.
* `AcksAreMonotone` (`SourceAckMonotone`) and `ReportedAcksAreSafe`
  (`ReportedTargetsSafe`): what `sendAck` returns to the source.
* `DiscardsAreAcked` (`DiscardOnlyAcked`): nothing leaves a ring before an ack that
  covers it was delivered to its source.

The inductive invariant `IInv` has three parts.
`TypeInv` is the type invariant and that a watermark is broadcast only after one came.
`OrderInv` says what is on its way from a source to a target is in order: the source's
watermarks are at most its next task (`HighIsNext`); proxy IDs are at most the last
one allocated, and an ack on the stream is at most the ID of any task the target has
still to apply (`IDsAllocated`); entries of one source are in the order of their IDs up
to such a task (`EntriesInOrder`); a message in a channel precedes the tasks behind it
(`QueuesInOrder`), the group in the receiver's hand comes after the channel
(`OutboxLast`), and what is in the ring comes before both (`RingFirst`).
`AcksBelow` says every ack for a source that came from a target, whether in `recvAck`,
in the ack channel, in `prevAckBySource` or in `ackByTarget`, is at most every task in
the target's stream, in its channel, in the receiver's hand or still to be emitted.
`TargetAckSafe` alone is not inductive: an ack is made from a ring entry, and that
the entry comes before what follows it needs the order.
For each action there is a lemma on what it changes, and one per part it can disturb.
The last theorem has an invariant of its own: what is about to be discarded is covered by
the acks still to deliver, or by the last one delivered to its source (`AcksCover`).

**MuxConnections_proofs.** `PermitsInvariant`, `ListInvariant`, `MuxTypes`, and
`MuxImplementsPool`, the refinement of MuxPool. `PermitsConserved` counts the permits
that are free, held by sessions and in the provider's or the probe's hand; it needs
that a session's state says whether its permit was returned. The invariant adds who
holds `muxesLock` at which step (`LockHeld`), that IDs not yet given out have no
session (`FreshIds`), and that the shutdown begins only after the lifetime ended
(`ClosedLater`). `AddConnection` opens nothing after that, which is why no session
opens once the shutdown was reported.

**Shards_proofs**, of ShardOwnership: `OwnershipTypes`, `ChannelOfNewest`
(`NewestChannel`), `NoOrphanRegistration` (`RegistrationHasStream`) and
`OwnersResolved` (`TwoOwnersResolved`). The invariant adds that streams open in the
order of their numbers (`OpenedInOrder`) and that registration times are at most the
clock and differ (`FreshTimes`). For the last theorem it adds, of behaviours without a
fault so far, that every node knows of every other (`AllKnown`) and that a stream that
has announced its registration has every node with an older one about to give it up:
a broadcast or a forced removal is on its way (`AllAnnounced`). `TwoOwnersResolved`
itself claims nothing once a broadcast was lost or a node reported gone.

Of ShardMapping: `WorkflowsAreRight` (`RightWorkflows`), for any two shard counts. The
invariant `MappingInv` says that a caller was presented what its server's mode says, and
that a stream was opened between shards of those counts. The rest is arithmetic: the
loop of `GCD` ends with a common divisor (`EuclidCommon`), so `LCM` is a multiple of both
counts if their product is an int32 (`LCMMultiple`); a shard of a multiple of n is part of
one shard of n, which is the only one `MapShardID` has (`MapToDivisor`), and its workflows
are in that shard (`InThePart`).

**Lifetime_proofs**, of four parts of a cluster connection, each with a specification and
an invariant of its own.

* ProxyResources: `ClosedBySomebody` (`SomebodyCloses`). `ResourcesInv` adds that a
  construction goes on only during the lifetime, that an open resource is one an earlier
  call of the plan opened, and that the keys in a function are of a vault that was handed
  over: without it a failing call might close keys that a function closes too.
* MembershipJoin: `KeepsTrying` (`TriesToJoin`). `MembershipInv` adds that
  `joinLoopRunning` says whether there is a loop, that only `Stop` signals it to stop, and
  that nothing happens before `Start` is done (`LoopFlagged`).
* StreamHandlers: `EntriesAlive` (`NoDeadEntries`) and `AcksToNewest` (`NewestGetsAcks`).
  `HandlersInv` adds that the loops of a receiver run only while its `Run` waits for them,
  and that the ack channel in the registry is the newest's, or another receiver is about
  to put its own there (`NewestOrNext`).
* StreamForwarder: `ForwardedAll` (`NothingDropped`) and `ReasonIsReturned`
  (`ReasonReturned`). `ForwarderInv` adds that `Run` returns only after both loops have
  ended (`LoopsEnded`), and that nothing but a `VisitError` ends a loop while both peers
  keep their streams and send nothing unknown (`OnlyVisitErr`).

**Crossing_proofs**, of three more parts.

* NamespaceNames: `NamesAreFresh` (`NameFresh`). `NamesInv` adds that what a lookup read was
  the name at some time since the call began (`CallRecent`), and that what is in the cache
  was the name at some time not longer before it was cached than a call may take
  (`EntryRecent`).
* PayloadSealing: `SealedOnce` (`PeerHoldsSealed`) and `NoneStranded` (`NothingStranded`).
  `SealingInv` says what the peer has of each kind of content (`Crossed`): which layers it
  has, and what they are bound to.
* NameTranslation: `NamesComeBack` (`NamesReturn`) and `AccessByLocalName`
  (`LocalNamesDecide`). `TranslationInv` says that the two maps are each other's inverse
  (`IsBiMap`) and that the peer has what was sent with the visited names renamed
  (`Renamed`), so renaming them back gives what was sent.

**IntraProxy_proofs.**

* IntraProxyStreams: `StreamsAlive` (`NoDeadStream`). `IInv` adds that a stream is in the
  maps under its own key only, with its shutdown handle (`OwnKey`).
* IntraForwarding: `InOnePlace` (`MessagesAccounted`) and `AcksKept`
  (`AcksKeptOrStreamEnds`). `ForwardingInv` adds that every message is in one place and
  there once (`MessagesPlaced`), so that one that moves is not left behind.

**ClusterConnection_proofs.** `ConnectionParts`: every behaviour of ClusterConnection is a
behaviour of each of its nine parts. Each step is a step of one part and leaves the
variables of the others unchanged, except the lifetime, which the parts that watch it
only read. So a theorem about a part holds of the part within the connection.

The assumptions are the named `ASSUME`s of the modules: the bounds are natural numbers,
channels have room for one message, a mux has a permit, a TTL and a timeout are not zero,
"absent" is no name, and shard counts are int32s.

TLC finds every inductive invariant true on the instances of the runs, except
`SealingInv`, `TranslationInv` and the `Matches` of the ring, which it was not asked: the
first two have quantifiers without bounds, and the third is what `AcksMatchDiscard` says.
The prover has no induction over data that takes a formula; where one is needed (the loops
of `GCD` and `AggregateUpTo`, the largest task of a set of entries) the proof takes a
least counterexample, which exists because < is well-founded (`LeastExists`,
`LargestExists`), and shows that there is a smaller one. A recursive function has the
values its definition gives it by the same argument (`EuclidExists`, `ScanExists`).

Model-checked only: liveness (`WatermarkAcked`, `OwnersKnown`, `PairServed`,
`PoolFills`, `ShutsDown`, `HandlerEnds`, `ForwarderEnds`, `AbandonedStreamEnds`,
`RetriesStop`, `EverythingClosed`). It needs fairness and ENABLED, which are out of the
prover's reach.

## Not modelled

* The content of tasks, and how a workflow is hashed to a shard: a task's target is
  any target, or none.
* Parsing of the configuration, metrics, logs, debug output. Where in a message a name, a
  field or a payload is depends on the generated types, which a model would only repeat:
  NameTranslation has a message as the sequence of what is visited in it, PayloadSealing
  has one content at a time. PayloadSealing leaves out how keys are chosen and rotated,
  and how a failed visit is reported. NameTranslation leaves out search attributes of
  several namespaces, which the code refuses with a panic, a search attribute field of an
  unknown type, and the header fields the workflow handlers copy.
* Generated code: protobuf messages and services are about 290,000 of the repository's
  308,000 lines without tests, so the modules cover about two percent of all
  lines. They cover 5,800 of the 18,000 lines that are neither generated nor tests, and
  2,600 of the 3,750 in the four files where most goroutines and locks are
  (shard_manager.go, proxy_streams.go, intra_proxy_router.go, admin_stream_transfer.go).
* What `AddOrUpdateRemoteCluster` and `DescribeCluster` rewrite besides shard counts,
  code generators, test servers, command line.
* The stream tracker and the stream observer: counters that are only shown.
* The reaction of the intra-proxy router to gossip, and the routing of tasks across two
  nodes end to end: ownership, streams and what they carry are checked apart, each with
  the others as its environment.
* Connections that are dropped when a mux shuts down, calls in flight when a vault is
  closed, a memberlist that `Create` returns too late: nothing in the modules stands
  for them (`transport/mux/multi_mux_manager.go:108` and `provider.go:136`,
  `proxy/cluster_connection.go:386`, `proxy/shard_manager.go:334`).
* Intra-proxy receivers of one source for two targets, which share an entry in the
  registry of active receivers (`proxy/intra_proxy_router.go:256`): one pair of shards is
  modelled.
