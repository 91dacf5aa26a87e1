--------------------------- MODULE ShardOwnership ---------------------------
(***************************************************************************)
(* Which proxy node owns which target shard (src/proxy/shard_manager.go).  *)
(* A node owns a shard while a stream of it runs there: the sender of the  *)
(* stream registers a channel and a timestamped local shard, tells the     *)
(* other nodes, and undoes this when the stream ends.  A node that hears   *)
(* of a newer registration gives its own up.  Nodes also exchange their    *)
(* whole state from time to time (memberlist's push/pull).                 *)
(*                                                                         *)
(* A step is one critical section.  Streams are numbered in the order they *)
(* register their channels; two of one shard may overlap, on one node or   *)
(* on two.  The nodes' clocks agree and no two readings are equal.  The    *)
(* broadcast of an unregistration only wakes listeners and is left out.    *)
(* The memberlist is external, and a NotifyLeave locks it up for good (see *)
(* MembershipJoin): the node then takes no part in the gossip any more.    *)
(***************************************************************************)
EXTENDS Integers, FiniteSets

CONSTANTS
  Nodes, Shards,
  MetaLimit,         \* shards whose encoding fits the limit of LocalState
  MaxStreams,        \* bound: streams that are opened
  MaxSnapshots,      \* bound: snapshots on their way from one node to another
  MaxFaults          \* bound: broadcasts that SendReliable fails to deliver, and
                     \* nodes that are reported to have left

ASSUME OwnershipAssumption ==
  /\ MetaLimit \in Nat
  /\ MaxStreams \in Nat
  /\ MaxSnapshots \in Nat
  /\ MaxFaults \in Nat

VARIABLES
  clock,               \* the last reading of time.Now()
  localShards,         \* node -> shard -> Created, or 0
  remoteNodeStates,    \* node -> node -> its shards, or Unknown
  remoteSendChannels,  \* node -> shard -> the stream whose channel it is, or 0
  opened,              \* streams opened so far
  nodeOf, shardOf,     \* where each of them runs
  step,                \* how far its sender is in Run
  registeredAt,        \* what its RegisterShard returned
  broadcasts,          \* register messages on their way
  forced,              \* UnregisterShard calls made by NotifyMsg
  snapshots,           \* states on their way to MergeRemoteState
  hung,                \* the nodes whose memberlist is locked up
  faults               \* external: deliveries that failed, nodes that left

streamVars == <<opened, nodeOf, shardOf, step, registeredAt>>
gossipVars == <<remoteNodeStates, snapshots, hung, faults>>
vars == <<clock, localShards, remoteSendChannels, broadcasts, forced,
          streamVars, gossipVars>>

Streams    == 1..MaxStreams
Unknown    == [known |-> FALSE, shards |-> {}]
State(own) == [known |-> TRUE, shards |-> own]
Owned(n)   == {s \in Shards : localShards[n][s] # 0}

(* The nodes have joined and no stream is open.                            *)
Init ==
  /\ clock = 0
  /\ localShards = [n \in Nodes |-> [s \in Shards |-> 0]]
  /\ remoteNodeStates = [n \in Nodes |-> [m \in Nodes |-> State({})]]
  /\ remoteSendChannels = [n \in Nodes |-> [s \in Shards |-> 0]]
  /\ opened = 0
  /\ nodeOf \in [Streams -> Nodes]
  /\ shardOf \in [Streams -> Shards]
  /\ step = [k \in Streams |-> "new"]
  /\ registeredAt = [k \in Streams |-> 0]
  /\ broadcasts = {}
  /\ forced = {}
  /\ snapshots = {}
  /\ hung = {}
  /\ faults = 0

Goto(k, from, to) == step[k] = from /\ step' = [step EXCEPT ![k] = to]

Here(k, f) == f[nodeOf[k]][shardOf[k]]
----------------------------------------------------------------------------
(* proxyStreamSender.Run: SetRemoteSendChan.                               *)
SetRemoteSendChan(k) ==
  /\ k = opened + 1
  /\ opened' = k
  /\ Goto(k, "new", "channel")
  /\ remoteSendChannels' =
       [remoteSendChannels EXCEPT ![nodeOf[k]][shardOf[k]] = k]
  /\ UNCHANGED <<clock, localShards, broadcasts, forced, nodeOf, shardOf,
                 registeredAt, gossipVars>>

(* RegisterShard: addLocalShard.                                           *)
AddLocalShard(k) ==
  /\ Goto(k, "channel", "added")
  /\ clock' = clock + 1
  /\ localShards' = [localShards EXCEPT ![nodeOf[k]][shardOf[k]] = clock + 1]
  /\ registeredAt' = [registeredAt EXCEPT ![k] = clock + 1]
  /\ UNCHANGED <<remoteSendChannels, broadcasts, forced, opened, nodeOf, shardOf,
                 gossipVars>>

(* Mutant: what the sender keeps is the time of the broadcast.             *)
BroadcastRegisterAt(k) ==
  /\ Goto(k, "added", "running")
  /\ clock' = clock + 1
  /\ broadcasts' = broadcasts \cup
       {[to |-> m, shard |-> shardOf[k], timestamp |-> clock + 1] :
          m \in {o \in Nodes \ {nodeOf[k]} : remoteNodeStates[nodeOf[k]][o].known}}
  /\ registeredAt' = [registeredAt EXCEPT ![k] = clock + 1]
  /\ UNCHANGED <<localShards, remoteSendChannels, forced, opened, nodeOf, shardOf,
                 gossipVars>>

(* Mutant: the broadcast goes to the nodes that own no shard yet.          *)
BroadcastToIdle(k) ==
  /\ Goto(k, "added", "running")
  /\ clock' = clock + 1
  /\ broadcasts' = broadcasts \cup
       {[to |-> m, shard |-> shardOf[k], timestamp |-> clock + 1] :
          m \in {o \in Nodes \ {nodeOf[k]} : Owned(o) = {}}}
  /\ UNCHANGED <<localShards, remoteSendChannels, forced, opened, nodeOf, shardOf,
                 registeredAt, gossipVars>>

(* The nodes whose state a node knows, unless Members does not return.     *)
Reached(n) == {m \in Nodes \ {n} : remoteNodeStates[n][m].known /\ n \notin hung}

(* RegisterShard: broadcastShardChange, with a reading of the clock of its *)
(* own, by a goroutine for every node whose state is known.                *)
BroadcastRegister(k) ==
  /\ Goto(k, "added", "running")
  /\ clock' = clock + 1
  /\ broadcasts' = broadcasts \cup
       {[to |-> m, shard |-> shardOf[k], timestamp |-> clock + 1] : m \in Reached(nodeOf[k])}
  /\ UNCHANGED <<localShards, remoteSendChannels, forced, opened, nodeOf, shardOf,
                 registeredAt, gossipVars>>

(* The stream ends: Run closes the channel and starts its deferred calls.  *)
CloseStream(k) ==
  /\ Goto(k, "running", "closed")
  /\ UNCHANGED <<clock, localShards, remoteSendChannels, broadcasts, forced, opened,
                 nodeOf, shardOf, registeredAt, gossipVars>>

(* UnregisterShard: compare the timestamp and delete, under the mutex.     *)
UnregisterShard(k) ==
  /\ IF Here(k, localShards) = registeredAt[k]
     THEN /\ Goto(k, "closed", "removing")
          /\ localShards' = [localShards EXCEPT ![nodeOf[k]][shardOf[k]] = 0]
     ELSE /\ Goto(k, "closed", "unregistered")
          /\ UNCHANGED localShards
  /\ UNCHANGED <<clock, remoteSendChannels, broadcasts, forced, opened, nodeOf,
                 shardOf, registeredAt, gossipVars>>

(* UnregisterShard: removeLocalShard, under the mutex again.               *)
RemoveLocalShard(k) ==
  /\ Goto(k, "removing", "unregistered")
  /\ localShards' = [localShards EXCEPT ![nodeOf[k]][shardOf[k]] = 0]
  /\ UNCHANGED <<clock, remoteSendChannels, broadcasts, forced, opened, nodeOf,
                 shardOf, registeredAt, gossipVars>>

(* Mutant: the channel is removed whoever registered it.                   *)
RemoveAnySendChan(k) ==
  /\ Goto(k, "unregistered", "done")
  /\ remoteSendChannels' =
       [remoteSendChannels EXCEPT ![nodeOf[k]][shardOf[k]] = 0]
  /\ UNCHANGED <<clock, localShards, broadcasts, forced, opened, nodeOf, shardOf,
                 registeredAt, gossipVars>>

(* RemoveRemoteSendChan: only the stream's own channel.                    *)
RemoveRemoteSendChan(k) ==
  /\ Goto(k, "unregistered", "done")
  /\ remoteSendChannels' =
       [remoteSendChannels EXCEPT ![nodeOf[k]][shardOf[k]] = IF @ = k THEN 0 ELSE @]
  /\ UNCHANGED <<clock, localShards, broadcasts, forced, opened, nodeOf, shardOf,
                 registeredAt, gossipVars>>
----------------------------------------------------------------------------
(* Mutant: a shard that is not registered counts as one registered at the  *)
(* zero time.                                                              *)
NotifyMissing(b) ==
  LET created == localShards[b.to][b.shard]
  IN /\ b \in broadcasts
     /\ broadcasts' = broadcasts \ {b}
     /\ forced' = IF created < b.timestamp
                  THEN forced \cup {[node |-> b.to, shard |-> b.shard, created |-> created,
                                     step |-> "check"]}
                  ELSE forced
     /\ UNCHANGED <<clock, localShards, remoteSendChannels, streamVars, gossipVars>>

(* NotifyMsg: a local registration made before the message was sent is to  *)
(* be unregistered, under the timestamp it has now.                        *)
NotifyMsg(b) ==
  LET created == localShards[b.to][b.shard]
  IN /\ b \in broadcasts
     /\ broadcasts' = broadcasts \ {b}
     /\ forced' = IF created # 0 /\ created < b.timestamp
                  THEN forced \cup {[node |-> b.to, shard |-> b.shard, created |-> created,
                                     step |-> "check"]}
                  ELSE forced
     /\ UNCHANGED <<clock, localShards, remoteSendChannels, streamVars, gossipVars>>

(* The two critical sections of the UnregisterShard that NotifyMsg calls.  *)
ForcedUnregister(f) ==
  /\ f \in forced
  /\ f.step = "check"
  /\ IF localShards[f.node][f.shard] = f.created
     THEN /\ localShards' = [localShards EXCEPT ![f.node][f.shard] = 0]
          /\ forced' = (forced \ {f}) \cup {[f EXCEPT !.step = "remove"]}
     ELSE /\ forced' = forced \ {f}
          /\ UNCHANGED localShards
  /\ UNCHANGED <<clock, remoteSendChannels, broadcasts, streamVars, gossipVars>>

ForcedRemove(f) ==
  /\ f \in forced
  /\ f.step = "remove"
  /\ forced' = forced \ {f}
  /\ localShards' = [localShards EXCEPT ![f.node][f.shard] = 0]
  /\ UNCHANGED <<clock, remoteSendChannels, broadcasts, streamVars, gossipVars>>

(* External: SendReliable fails, or the node is no longer a member, which  *)
(* the code logs; or the memberlist hangs before it is sent.               *)
LoseBroadcast(b) ==
  /\ b \in broadcasts
  /\ faults < MaxFaults
  /\ faults' = faults + 1
  /\ broadcasts' = broadcasts \ {b}
  /\ UNCHANGED <<clock, localShards, remoteSendChannels, forced, streamVars,
                 remoteNodeStates, snapshots, hung>>
----------------------------------------------------------------------------
(* What LocalState encodes: all local shards, or a bare node name when     *)
(* they do not fit, which MergeRemoteState cannot decode.                  *)
LocalState(n) ==
  IF Cardinality(Owned(n)) <= MetaLimit THEN State(Owned(n)) ELSE Unknown

InTransit(n, m) == {x \in snapshots : x.from = n /\ x.to = m}

(* External: memberlist's push/pull asks n for its state and sends it on.  *)
PushState(n, m) ==
  /\ n # m
  /\ {n, m} \cap hung = {}
  /\ Cardinality(InTransit(n, m)) < MaxSnapshots
  /\ snapshots' = snapshots \cup {[from |-> n, to |-> m, state |-> LocalState(n)]}
  /\ UNCHANGED <<clock, localShards, remoteSendChannels, broadcasts, forced,
                 streamVars, remoteNodeStates, hung, faults>>

(* Mutant: a node whose state is known is not updated.                     *)
MergeFirstState(x) ==
  /\ x \in snapshots
  /\ x.to \notin hung
  /\ snapshots' = snapshots \ {x}
  /\ remoteNodeStates' =
       IF x.state.known /\ remoteNodeStates[x.to][x.from] \in {Unknown, State({})}
       THEN [remoteNodeStates EXCEPT ![x.to][x.from] = x.state]
       ELSE remoteNodeStates
  /\ UNCHANGED <<clock, localShards, remoteSendChannels, broadcasts, forced,
                 streamVars, hung, faults>>

(* MergeRemoteState: whatever is decoded replaces what was known.          *)
MergeRemoteState(x) ==
  /\ x \in snapshots
  /\ x.to \notin hung
  /\ snapshots' = snapshots \ {x}
  /\ remoteNodeStates' =
       IF x.state.known
       THEN [remoteNodeStates EXCEPT ![x.to][x.from] = x.state]
       ELSE remoteNodeStates
  /\ UNCHANGED <<clock, localShards, remoteSendChannels, broadcasts, forced,
                 streamVars, hung, faults>>

(* NotifyLeave at node n, of node m, up to NumMembers.                     *)
NotifyLeave(n, m) ==
  /\ n # m
  /\ n \notin hung
  /\ hung' = hung \cup {n}
  /\ faults < MaxFaults
  /\ faults' = faults + 1
  /\ remoteNodeStates' = [remoteNodeStates EXCEPT ![n][m] = Unknown]
  /\ UNCHANGED <<clock, localShards, remoteSendChannels, broadcasts, forced,
                 streamVars, snapshots>>

SenderStep(k) ==
  \/ AddLocalShard(k)
  \/ BroadcastRegister(k)
  \/ UnregisterShard(k)
  \/ RemoveLocalShard(k)
  \/ RemoveRemoteSendChan(k)

Next ==
  \/ \E k \in Streams : \/ SetRemoteSendChan(k)
                        \/ CloseStream(k)
                        \/ SenderStep(k)
  \/ \E b \in broadcasts : NotifyMsg(b) \/ LoseBroadcast(b)
  \/ \E f \in forced : ForcedUnregister(f) \/ ForcedRemove(f)
  \/ \E x \in snapshots : MergeRemoteState(x)
  \/ \E n, m \in Nodes : PushState(n, m) \/ NotifyLeave(n, m)

Spec == Init /\ [][Next]_vars

(* memberlist repeats its push/pull for ever and merges what it received.  *)
(* Nothing opens or ends a stream, and no goroutine of the proxy has to    *)
(* get anywhere.                                                           *)
Fairness ==
  \A n \in Nodes : \A m \in Nodes \ {n} :
    WF_vars(PushState(n, m)) /\ WF_vars(\E x \in InTransit(n, m) : MergeRemoteState(x))
----------------------------------------------------------------------------
Broadcast == [to : Nodes, shard : Shards, timestamp : Nat]
Forced    == [node : Nodes, shard : Shards, created : Nat \ {0}, step : {"check", "remove"}]
NodeState == [known : BOOLEAN, shards : SUBSET Shards]

(* The shard manager's maps and the senders' progress have their shape,    *)
(* and NotifyMsg unregisters only what was registered.                     *)
TypeOK ==
  /\ clock \in Nat
  /\ localShards \in [Nodes -> [Shards -> Nat]]
  /\ remoteNodeStates \in [Nodes -> [Nodes -> NodeState]]
  /\ remoteSendChannels \in [Nodes -> [Shards -> 0..opened]]
  /\ opened \in 0..MaxStreams
  /\ nodeOf \in [Streams -> Nodes]
  /\ shardOf \in [Streams -> Shards]
  /\ step \in [Streams -> {"new", "channel", "added", "running", "closed",
                           "removing", "unregistered", "done"}]
  /\ registeredAt \in [Streams -> Nat]
  /\ broadcasts \subseteq Broadcast
  /\ forced \subseteq Forced
  /\ snapshots \subseteq [from : Nodes, to : Nodes, state : NodeState]
  /\ hung \subseteq Nodes
  /\ faults \in 0..MaxFaults

(* RemoveRemoteSendChan's "only if it matches the provided channel": with  *)
(* streams of one shard overlapping on a node in any way, the channel      *)
(* registered is that of the newest one until that one has ended, and then *)
(* none.                                                                   *)
NewestChannel ==
  \A k \in 1..opened :
    (\A j \in (k + 1)..opened : <<nodeOf[j], shardOf[j]>> # <<nodeOf[k], shardOf[k]>>) =>
      Here(k, remoteSendChannels) = IF step[k] = "done" THEN 0 ELSE k

(* A local shard is never left behind: whatever was overwritten, given up  *)
(* or removed, a registration belongs to a stream that has yet to call     *)
(* UnregisterShard, with the very timestamp it compares.                   *)
RegistrationHasStream ==
  \A n \in Nodes, s \in Shards : localShards[n][s] # 0 =>
    \E k \in 1..opened : /\ nodeOf[k] = n /\ shardOf[k] = s
                         /\ registeredAt[k] = localShards[n][s]
                         /\ step[k] \in {"added", "running", "closed"}

(* Two nodes that both own a shard do not stay so, unless a broadcast was  *)
(* lost or a node taken to have left: one of them has still to announce    *)
(* its registration, or is about to hear of, or to act on, an announcement *)
(* that makes it give its own up.                                          *)
TwoOwnersResolved ==
  \A n, m \in Nodes, s \in Shards :
    faults = 0 /\ n # m /\ localShards[n][s] # 0 /\ localShards[m][s] # 0 =>
      \E o \in {n, m} :
        \/ \E k \in 1..opened : /\ step[k] = "added"
                                /\ nodeOf[k] = o /\ shardOf[k] = s
                                /\ registeredAt[k] = localShards[o][s]
        \/ \E b \in broadcasts : /\ b.to = o /\ b.shard = s
                                 /\ localShards[o][s] < b.timestamp
        \/ \E f \in forced : /\ f.node = o /\ f.shard = s
                             /\ f.created = localShards[o][s]

(* GetRemoteShardsForPeer's "returns all shards owned by the specified     *)
(* peer node": once streams stop opening and ending, and nodes leaving,    *)
(* every node comes to know for good what every other one owns, although   *)
(* older snapshots may be merged after newer ones and some could not be    *)
(* decoded.  Not if one of the two memberlists is locked up, nor if what   *)
(* the other owns does not fit its LocalState.                             *)
OwnersKnown ==
  \A n, m \in Nodes : n # m =>
    <>[](/\ {n, m} \cap hung = {}
         /\ Cardinality(Owned(n)) <= MetaLimit
         => remoteNodeStates[m][n] = State(Owned(n)))

(* UnregisterShard's "Only unregister if the registration timestamp        *)
(* matches (prevents old senders from removing new registrations)".        *)
OldKeepsNew ==
  [][\A n \in Nodes, s \in Shards :
       localShards[n][s] # 0 /\ localShards'[n][s] = 0 =>
         \/ \E k \in Streams : step'[k] # step[k] /\ registeredAt[k] = localShards[n][s]
         \/ \E f \in forced \ forced' : f.created = localShards[n][s]]_vars
=============================================================================
