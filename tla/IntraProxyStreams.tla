------------------------- MODULE IntraProxyStreams -------------------------
(***************************************************************************)
(* The streams between two proxy nodes (src/proxy/intra_proxy_router.go).  *)
(* The receiving node opens a stream for every pair of a target shard it   *)
(* owns and a source shard it knows the other node to own, and sends its   *)
(* acks over it; the sending node accepts the stream and registers a       *)
(* sender, over which it sends the tasks.  Each node has one loop that     *)
(* reconciles its streams with the shards it knows of.                     *)
(*                                                                         *)
(* A step is one critical section, or one wait that ends.  The other       *)
(* direction is the same with the nodes exchanged, under keys of its own.  *)
(* What the two nodes know of each other's shards is the environment: it   *)
(* may be late, and lost when a node is taken to have left.                *)
(***************************************************************************)
EXTENDS Integers, Sequences

CONSTANTS
  Targets, Sources,  \* shards the receiving and the sending node may own
  MaxStreams,        \* bound: streams that are created
  MaxChanges,        \* bound: changes of ownership, or of what is known of it
  MaxBreaks          \* bound: streams that fail to open or break

ASSUME IntraAssumption ==
  /\ MaxStreams \in Nat
  /\ MaxChanges \in Nat
  /\ MaxBreaks \in Nat

Keys    == [target : Targets, source : Sources]   \* peerStreamKey
Streams == 1..MaxStreams

VARIABLES
  \* receiving node
  localTargets,    \* its own shards
  knownSources,    \* the other node's shards as it knows them
  desired,         \* desiredReceivers of the reconciliation under way
  toEnsure,        \* of these, the keys yet to be ensured
  inserting,       \* the keys found to have no open stream (at most one)
  reconciling,     \* whether a reconciliation is under way
  receivers,       \* key -> the stream in ps.receivers, or 0
  recvShutdown,    \* key -> the stream whose shutdown handle it is, or 0
  keyOf,           \* the keys of the streams created so far
  receiver,        \* stream -> how far the receiver's Run is
  cancel,          \* streams whose r.cancel is set
  cancelled,       \* streams whose context was cancelled
  shutdown,        \* streams that were told to shut down
  \* between the nodes
  connected,       \* streams that neither side has ended
  \* sending node
  localSources, knownTargets,
  pruning,         \* whether a reconciliation is under way
  desiredSenders,  \* what it wants
  senders,         \* key -> the stream in ps.senders, or 0
  sender,          \* stream -> how far its handler is
  changes, breaks  \* external: what the environment did so far

loopVars   == <<desired, toEnsure, inserting, reconciling>>
recvVars   == <<receivers, recvShutdown, keyOf, receiver, cancel, cancelled,
                shutdown>>
sendVars   == <<pruning, desiredSenders, senders, sender>>
shardVars  == <<localTargets, knownSources, localSources, knownTargets, changes>>
vars == <<loopVars, recvVars, connected, sendVars, shardVars, breaks>>

Pairs(targets, sources) == {k \in Keys : k.target \in targets /\ k.source \in sources}

(* Any shards are owned and known; there are no streams yet.               *)
Init ==
  /\ localTargets \in SUBSET Targets
  /\ knownSources \in SUBSET Sources
  /\ localSources \in SUBSET Sources
  /\ knownTargets \in SUBSET Targets
  /\ desired = {}
  /\ toEnsure = {}
  /\ inserting = {}
  /\ reconciling = FALSE
  /\ receivers = [k \in Keys |-> 0]
  /\ recvShutdown = [k \in Keys |-> 0]
  /\ keyOf = <<>>
  /\ receiver = [r \in Streams |-> "none"]
  /\ cancel = {}
  /\ cancelled = {}
  /\ shutdown = {}
  /\ connected = {}
  /\ pruning = FALSE
  /\ desiredSenders = {}
  /\ senders = [k \in Keys |-> 0]
  /\ sender = [r \in Streams |-> "none"]
  /\ changes = 0
  /\ breaks = 0
----------------------------------------------------------------------------
(* ReconcilePeerStreams at the receiving node: read both maps of shards.   *)
ReconcileStart ==
  /\ ~reconciling
  /\ reconciling' = TRUE
  /\ desired' = Pairs(localTargets, knownSources)
  /\ toEnsure' = desired'
  /\ UNCHANGED <<inserting, recvVars, connected, sendVars, shardVars, breaks>>

(* r.streamClient is set: the stream has had a handler at the other node.  *)
Opened(r) == r # 0 /\ sender[r] # "none"

(* EnsureReceiverForPeerShard and the fast path of ensureStream: nothing   *)
(* to do when the target shard is no longer local, or the key has a stream *)
(* that was opened.                                                        *)
EnsureLookup(k) ==
  /\ k \in toEnsure
  /\ inserting = {}
  /\ toEnsure' = toEnsure \ {k}
  /\ inserting' = IF k.target \in localTargets /\ ~Opened(receivers[k]) THEN {k} ELSE {}
  /\ UNCHANGED <<desired, reconciling, recvVars, connected, sendVars, shardVars, breaks>>

(* ensureStream: the new receiver replaces whatever has the key.           *)
EnsureInsert(k) ==
  /\ k \in inserting
  /\ Len(keyOf) < MaxStreams
  /\ keyOf' = Append(keyOf, k)
  /\ inserting' = {}
  /\ receivers' = [receivers EXCEPT ![k] = Len(keyOf')]
  /\ recvShutdown' = [recvShutdown EXCEPT ![k] = Len(keyOf')]
  /\ receiver' = [receiver EXCEPT ![Len(keyOf')] = "created"]
  /\ UNCHANGED <<desired, toEnsure, reconciling, cancel, cancelled, shutdown, connected,
                 sendVars, shardVars, breaks>>

(* The keys check finds undesired; closePeerShardLocked shuts their        *)
(* receivers down, cancels those that can be, and deletes them, all under  *)
(* streamsMu.                                                              *)
Undesired == {k \in Keys : receivers[k] # 0 /\ k \notin desired}

Without(f, keys) == [k \in Keys |-> IF k \in keys THEN 0 ELSE f[k]]

ReconcilePrune ==
  LET closed == {receivers[k] : k \in Undesired} \cap cancel
  IN /\ reconciling
     /\ toEnsure = {} /\ inserting = {}
     /\ reconciling' = FALSE
     /\ desired' = {}
     /\ shutdown' = shutdown \cup ({recvShutdown[k] : k \in Undesired} \ {0})
     /\ cancelled' = cancelled \cup closed
     /\ connected' = connected \ closed
     /\ receivers' = Without(receivers, Undesired)
     /\ recvShutdown' = Without(recvShutdown, Undesired)
     /\ UNCHANGED <<toEnsure, inserting, keyOf, receiver, cancel, sendVars,
                    shardVars, breaks>>
----------------------------------------------------------------------------
At(f, r, from, to) == f[r] = from /\ f' = [f EXCEPT ![r] = to]

(* intraProxyStreamReceiver.Run: the context can be cancelled from now on. *)
RunStart(r) ==
  /\ At(receiver, r, "created", "opening")
  /\ cancel' = cancel \cup {r}
  /\ UNCHANGED <<loopVars, receivers, recvShutdown, keyOf, cancelled, shutdown, connected,
                 sendVars, shardVars, breaks>>

(* The other node's handler runs once the stream is open.                  *)
OpenStream(r) ==
  /\ r \notin cancelled
  /\ At(receiver, r, "opening", "open")
  /\ connected' = connected \cup {r}
  /\ sender' = [sender EXCEPT ![r] = "requested"]
  /\ UNCHANGED <<loopVars, receivers, recvShutdown, keyOf, cancel, cancelled, shutdown,
                 pruning, desiredSenders, senders, shardVars, breaks>>

OpenFails(r) ==
  /\ At(receiver, r, "opening", "failed")
  /\ \/ r \in cancelled /\ UNCHANGED breaks
     \/ breaks < MaxBreaks /\ breaks' = breaks + 1
  /\ UNCHANGED <<loopVars, receivers, recvShutdown, keyOf, cancel, cancelled, shutdown,
                 connected, sendVars, shardVars>>

(* Mutant: an error of Recv does not end the loop.                         *)
ReceiverIgnoresError(r) ==
  /\ r \in shutdown
  /\ At(receiver, r, "open", "ended")
  /\ shutdown' = shutdown \cup {r}
  /\ UNCHANGED <<loopVars, receivers, recvShutdown, keyOf, cancel, cancelled, connected,
                 sendVars, shardVars, breaks>>

(* recvReplicationMessages returns: Recv fails, or the loop sees that it   *)
(* was shut down.  Only the former means that the stream is closed.  Its   *)
(* deferred Shutdown makes the handle in recvShutdown one that is shut.    *)
ReceiverEnds(r) ==
  /\ r \in shutdown \/ r \notin connected
  /\ At(receiver, r, "open", "ended")
  /\ shutdown' = shutdown \cup {r}
  /\ UNCHANGED <<loopVars, receivers, recvShutdown, keyOf, cancel, cancelled, connected,
                 sendVars, shardVars, breaks>>

(* Mutant: a receiver that never opened is not deleted.                    *)
CleanupOpened(r) ==
  /\ \E from \in {"ended", "failed"} : At(receiver, r, from, "gone")
  /\ LET keys == IF receiver[r] = "ended" THEN {keyOf[r]} ELSE {}
     IN /\ receivers' = Without(receivers, keys)
        /\ recvShutdown' = Without(recvShutdown, keys)
  /\ UNCHANGED <<loopVars, keyOf, cancel, cancelled, shutdown, connected, sendVars,
                 shardVars, breaks>>

(* The goroutine of ensureStream deletes the key, whoever has it by now.   *)
Cleanup(r) ==
  /\ \E from \in {"ended", "failed"} : At(receiver, r, from, "gone")
  /\ receivers' = Without(receivers, {keyOf[r]})
  /\ recvShutdown' = Without(recvShutdown, {keyOf[r]})
  /\ UNCHANGED <<loopVars, keyOf, cancel, cancelled, shutdown, connected, sendVars,
                 shardVars, breaks>>
----------------------------------------------------------------------------
(* streamIntraProxyRouting: a stream for a source shard that is not local  *)
(* ends at once.                                                           *)
HandleStream(r) ==
  /\ sender[r] = "requested"
  /\ IF keyOf[r].source \in localSources
     THEN At(sender, r, "requested", "accepted") /\ UNCHANGED connected
     ELSE At(sender, r, "requested", "gone") /\ connected' = connected \ {r}
  /\ UNCHANGED <<loopVars, recvVars, pruning, desiredSenders, senders, shardVars, breaks>>

RegisterSender(r) ==
  /\ At(sender, r, "accepted", "registered")
  /\ senders' = [senders EXCEPT ![keyOf[r]] = r]
  /\ UNCHANGED <<loopVars, recvVars, connected, pruning, desiredSenders, shardVars, breaks>>

(* recvAck returns: Recv fails.                                            *)
SenderEnds(r) ==
  /\ r \notin connected
  /\ At(sender, r, "registered", "ending")
  /\ UNCHANGED <<loopVars, recvVars, connected, pruning, desiredSenders, senders, shardVars,
                 breaks>>

(* The deferred UnregisterSender deletes the key, whoever has it by now.   *)
(* The handler has returned before: the other node may have opened the     *)
(* next stream.                                                            *)
UnregisterSender(r) ==
  /\ At(sender, r, "ending", "gone")
  /\ senders' = Without(senders, {keyOf[r]})
  /\ UNCHANGED <<loopVars, recvVars, connected, pruning, desiredSenders, shardVars, breaks>>

(* ReconcilePeerStreams at the sending node: read both maps of shards, and *)
(* later delete the senders that are not desired.  Their streams go on.    *)
PruneStart ==
  /\ ~pruning
  /\ pruning' = TRUE
  /\ desiredSenders' = Pairs(knownTargets, localSources)
  /\ UNCHANGED <<loopVars, recvVars, connected, senders, sender, shardVars, breaks>>

PruneSenders ==
  /\ pruning
  /\ pruning' = FALSE
  /\ desiredSenders' = {}
  /\ senders' = Without(senders, Keys \ desiredSenders)
  /\ UNCHANGED <<loopVars, recvVars, connected, sender, shardVars, breaks>>
----------------------------------------------------------------------------
(* External: the connection breaks, or recvAck gives up because it cannot  *)
(* forward an ack.                                                         *)
BreakStream(r) ==
  /\ r \in connected
  /\ breaks < MaxBreaks
  /\ breaks' = breaks + 1
  /\ connected' = connected \ {r}
  /\ UNCHANGED <<loopVars, recvVars, sendVars, shardVars>>

Toggle(set, all) == \E x \in all : set' = (set \ {x}) \cup ({x} \ set)

(* External: a shard moves, or a node hears of it, or forgets it.          *)
ChangeShards ==
  /\ changes < MaxChanges
  /\ changes' = changes + 1
  /\ \/ Toggle(localTargets, Targets) /\ UNCHANGED <<knownSources, localSources, knownTargets>>
     \/ Toggle(knownSources, Sources) /\ UNCHANGED <<localTargets, localSources, knownTargets>>
     \/ Toggle(localSources, Sources) /\ UNCHANGED <<localTargets, knownSources, knownTargets>>
     \/ Toggle(knownTargets, Targets) /\ UNCHANGED <<localTargets, knownSources, localSources>>
  /\ UNCHANGED <<loopVars, recvVars, connected, sendVars, breaks>>

Reconcile ==
  \/ ReconcileStart
  \/ \E k \in Keys : EnsureLookup(k) \/ EnsureInsert(k)
  \/ ReconcilePrune

StreamStep(r) ==
  \/ RunStart(r) \/ OpenStream(r) \/ OpenFails(r) \/ ReceiverEnds(r) \/ Cleanup(r)
  \/ HandleStream(r) \/ RegisterSender(r) \/ SenderEnds(r) \/ UnregisterSender(r)

Next ==
  \/ Reconcile
  \/ PruneStart \/ PruneSenders
  \/ \E r \in Streams : StreamStep(r) \/ BreakStream(r)
  \/ ChangeShards

Spec == Init /\ [][Next]_vars

(* Both loops go round for ever, and a receiver's goroutine and a          *)
(* handler's take the step they can take.  Nothing makes the environment   *)
(* break a stream or move a shard, and a receiver that is shut down but    *)
(* whose stream is open may wait in Recv for ever.                         *)
Fairness ==
  /\ WF_vars(Reconcile)
  /\ WF_vars(PruneStart \/ PruneSenders)
  /\ \A r \in Streams :
       /\ WF_vars(\/ RunStart(r) \/ OpenStream(r) \/ Cleanup(r)
                  \/ r \in cancelled /\ OpenFails(r)
                  \/ r \notin connected /\ ReceiverEnds(r))
       /\ WF_vars(HandleStream(r) \/ RegisterSender(r) \/ SenderEnds(r) \/ UnregisterSender(r))

FairSpec == Spec /\ Fairness
----------------------------------------------------------------------------
(* A receiver in the map has its cleanup before it, and was shut down by   *)
(* nobody but itself on its way there, although cleanups delete the        *)
(* entries of other receivers and receivers replace each other: no dead    *)
(* entry keeps ensureStream from opening the next stream, or takes acks.   *)
(* A sender in the map has not returned from Run: sendReplicationMessages  *)
(* never uses one whose handler is long gone.                              *)
NoDeadStream ==
  \A k \in Keys :
    /\ receivers[k] # 0 =>
         /\ receiver[receivers[k]] # "gone"
         /\ receivers[k] \in shutdown => receiver[receivers[k]] = "ended"
    /\ senders[k] # 0 => sender[senders[k]] \in {"registered", "ending"}

Wanted(k) ==
  /\ k.target \in localTargets /\ k.source \in knownSources
  /\ k.source \in localSources /\ k.target \in knownTargets

(* "ReconcilePeerStreams ensures receivers exist for desired (local shard, *)
(* remote shard) pairs": a pair that stays wanted ends up with an open     *)
(* stream in the map, whatever was opened twice, replaced or deleted by    *)
(* the cleanup of another stream; or the bound on streams is used up.      *)
PairServed ==
  \A k \in Keys :
    <>[]Wanted(k) =>
      <>[](Len(keyOf) = MaxStreams \/ receivers[k] \in connected)

(* "register this sender so sendMessages can use it": for a pair that      *)
(* stays wanted there ends up to be a sender.                              *)
SenderRegistered ==
  \A k \in Keys :
    <>[]Wanted(k) => <>[](Len(keyOf) = MaxStreams \/ senders[k] # 0)
=============================================================================
