---------------------------- MODULE Shards_proofs ----------------------------
(***************************************************************************)
(* Proofs about ShardOwnership, for any nodes, shards and bounds, and      *)
(* about ShardMapping, for any two shard counts: who has a shard, and      *)
(* which shard a workflow is in.                                           *)
(***************************************************************************)
EXTENDS ShardOwnership, ShardMapping, FiniteSetTheorems, WellFoundedInduction, TLAPS

USE SMTT(30)

(* Streams are opened one after the other.                                 *)
OpenedInOrder == \A k \in Streams : step[k] = "new" <=> k > opened

(* Every registration reads the clock anew, and every stream registers     *)
(* once.                                                                   *)
FreshTimes ==
  /\ \A k \in Streams : registeredAt[k] <= clock
  /\ \A k \in Streams : registeredAt[k] = 0 <=> step[k] \in {"new", "channel"}
  /\ \A j, k \in Streams : registeredAt[j] = registeredAt[k] /\ j # k => registeredAt[k] = 0

(* Nothing is taken to have left, and no memberlist is locked up.          *)
AllKnown ==
  faults = 0 => hung = {} /\ \A n, m \in Nodes : remoteNodeStates[n][m].known

(* Node n is about to hear of, or to act on, an announcement that makes it *)
(* give up its registration of shard s.                                    *)
GivesUp(n, s) ==
  \/ \E b \in broadcasts : b.to = n /\ b.shard = s /\ localShards[n][s] < b.timestamp
  \/ \E f \in forced : f.node = n /\ f.shard = s /\ f.created = localShards[n][s]

(* A stream that has announced its registration has every node give up an  *)
(* older one.                                                              *)
Announced(k) ==
  \A n \in Nodes \ {nodeOf[k]} :
    /\ step[k] \in {"running", "closed"}
    /\ Here(k, localShards) = registeredAt[k]
    /\ localShards[n][shardOf[k]] # 0
    /\ localShards[n][shardOf[k]] < registeredAt[k]
    => GivesUp(n, shardOf[k])

AllAnnounced == faults = 0 => \A k \in Streams : Announced(k)

(* The inductive invariant.                                                *)
IInv ==
  /\ TypeOK
  /\ OpenedInOrder
  /\ FreshTimes
  /\ AllKnown
  /\ NewestChannel
  /\ RegistrationHasStream
  /\ AllAnnounced
----------------------------------------------------------------------------
(* The streams are numbers.                                                *)
LEMMA StreamNumbers == Streams \subseteq Nat /\ \A k \in Streams : k <= MaxStreams
  BY OwnershipAssumption DEF Streams

(* What writing one entry of a map of maps does.                           *)
LEMMA Update ==
  ASSUME NEW S, NEW T, NEW V, NEW f \in [S -> [T -> V]],
         NEW a \in S, NEW b \in T, NEW v \in V
  PROVE  /\ [f EXCEPT ![a][b] = v] \in [S -> [T -> V]]
         /\ \A x \in S, y \in T :
              [f EXCEPT ![a][b] = v][x][y] = IF x = a /\ y = b THEN v ELSE f[x][y]
<1>1. f[a] \in [T -> V]  BY Zenon
<1>2. [f[a] EXCEPT ![b] = v] \in [T -> V]  BY Zenon, <1>1
<1> QED  BY Zenon, <1>1, <1>2

(* Where a stream runs.                                                    *)
LEMMA Place ==
  ASSUME TypeOK, NEW k \in Streams
  PROVE  nodeOf[k] \in Nodes /\ shardOf[k] \in Shards
  BY Zenon DEF TypeOK

(* The states that nodes send have their shape.                            *)
LEMMA LocalStateType == ASSUME NEW n \in Nodes PROVE LocalState(n) \in NodeState
<1>1. Owned(n) \in SUBSET Shards  BY Zenon DEF Owned
<1>2. State(Owned(n)) \in NodeState /\ Unknown \in NodeState
  BY Zenon, <1>1 DEF State, Unknown, NodeState
<1> QED  BY Zenon, <1>2 DEF LocalState

(* The first states have their shape.                                      *)
LEMMA InitTypes == Init => TypeOK
<1> SUFFICES ASSUME Init PROVE TypeOK  BY Zenon
<1>1. State({}) \in NodeState  BY Zenon DEF State, NodeState
<1> QED  BY <1>1, OwnershipAssumption, StreamNumbers DEF Init, TypeOK, Streams

(* A step of a sender keeps the shapes.                                    *)
LEMMA SenderTypes ==
  ASSUME TypeOK, NEW k \in Streams,
         SetRemoteSendChan(k) \/ CloseStream(k) \/ SenderStep(k)
  PROVE  TypeOK'
<1>0. nodeOf[k] \in Nodes /\ shardOf[k] \in Shards  BY Zenon, Place
<1>1. CASE SetRemoteSendChan(k)
  <2>1. opened' \in 0..MaxStreams /\ k \in 0..opened' /\ 0..opened \subseteq 0..opened'
    BY <1>1, StreamNumbers, OwnershipAssumption DEF TypeOK, SetRemoteSendChan
  <2>2. remoteSendChannels \in [Nodes -> [Shards -> 0..opened']]
    <3> DEFINE old == 0..opened
               new == 0..opened'
    <3>1. remoteSendChannels \in [Nodes -> [Shards -> old]]  BY Zenon DEF TypeOK
    <3>2. old \subseteq new  BY Zenon, <2>1
    <3> HIDE DEF old, new
    <3>3. remoteSendChannels \in [Nodes -> [Shards -> new]]
      <4>1. [Shards -> old] \subseteq [Shards -> new]  BY Zenon, <3>2
      <4> QED  BY Zenon, <3>1, <4>1
    <3> QED  BY Zenon, <3>3 DEF new
  <2>3. remoteSendChannels' \in [Nodes -> [Shards -> 0..opened']]
    BY Zenon, <1>0, <1>1, <2>1, <2>2, Update DEF SetRemoteSendChan
  <2> QED  BY Zenon, <1>1, <2>1, <2>3 DEF TypeOK, SetRemoteSendChan, Goto, gossipVars
<1>2. CASE CloseStream(k)
  BY Zenon, <1>2 DEF TypeOK, CloseStream, Goto, gossipVars
<1>3. CASE AddLocalShard(k)
  <2>1. clock + 1 \in Nat  BY DEF TypeOK
  <2>2. localShards' \in [Nodes -> [Shards -> Nat]]
    BY <1>0, <1>3, <2>1, Update DEF TypeOK, AddLocalShard
  <2> QED  BY Zenon, <1>3, <2>1, <2>2 DEF TypeOK, AddLocalShard, Goto, gossipVars
<1>4. CASE BroadcastRegister(k)
  <2>1. broadcasts' \subseteq Broadcast
    BY <1>0, <1>4 DEF TypeOK, BroadcastRegister, Reached, Broadcast
  <2> QED  BY <1>4, <2>1 DEF TypeOK, BroadcastRegister, Goto, gossipVars
<1>5. CASE UnregisterShard(k)
  <2>1. localShards' \in [Nodes -> [Shards -> Nat]]
    <3>1. localShards \in [Nodes -> [Shards -> Nat]] /\ 0 \in Nat  BY Zenon DEF TypeOK
    <3>2. [localShards EXCEPT ![nodeOf[k]][shardOf[k]] = 0] \in [Nodes -> [Shards -> Nat]]
      BY Zenon, <1>0, <3>1, Update
    <3>3. CASE UNCHANGED localShards  BY Zenon, <3>1, <3>3
    <3>4. CASE localShards' = [localShards EXCEPT ![nodeOf[k]][shardOf[k]] = 0]
      BY Zenon, <3>2, <3>4
    <3> QED  BY <1>5, <3>3, <3>4, Zenon DEF UnregisterShard
  <2>2. step' \in [Streams -> {"new", "channel", "added", "running", "closed",
                              "removing", "unregistered", "done"}]
    BY Zenon, <1>5 DEF TypeOK, UnregisterShard, Goto
  <2> QED  BY Zenon, <1>5, <2>1, <2>2 DEF TypeOK, UnregisterShard, gossipVars
<1>6. CASE RemoveLocalShard(k)
  <2>1. localShards' \in [Nodes -> [Shards -> Nat]]
    BY <1>0, <1>6, Update DEF TypeOK, RemoveLocalShard
  <2> QED  BY Zenon, <1>6, <2>1 DEF TypeOK, RemoveLocalShard, Goto, gossipVars
<1>7. CASE RemoveRemoteSendChan(k)
  <2> DEFINE new == IF Here(k, remoteSendChannels) = k THEN 0 ELSE Here(k, remoteSendChannels)
  <2>1. new \in 0..opened
    BY <1>0 DEF TypeOK, Here
  <2>2. remoteSendChannels' = [remoteSendChannels EXCEPT ![nodeOf[k]][shardOf[k]] = new]
    BY Zenon, <1>7 DEF RemoveRemoteSendChan, Here
  <2> HIDE DEF new
  <2>3. remoteSendChannels' \in [Nodes -> [Shards -> 0..opened]]
    BY <1>0, <2>1, <2>2, Update DEF TypeOK
  <2> QED  BY Zenon, <1>7, <2>3 DEF TypeOK, RemoveRemoteSendChan, Goto, gossipVars
<1> QED  BY Zenon, <1>1, <1>2, <1>3, <1>4, <1>5, <1>6, <1>7 DEF SenderStep

(* A step of the gossip keeps the shapes.                                  *)
LEMMA GossipTypes ==
  ASSUME TypeOK
  PROVE  /\ \A b \in broadcasts : NotifyMsg(b) \/ LoseBroadcast(b) => TypeOK'
         /\ \A f \in forced : ForcedUnregister(f) \/ ForcedRemove(f) => TypeOK'
         /\ \A x \in snapshots : MergeRemoteState(x) => TypeOK'
         /\ \A n, m \in Nodes : PushState(n, m) \/ NotifyLeave(n, m) => TypeOK'
<1>1. ASSUME NEW b \in broadcasts, NotifyMsg(b)  PROVE TypeOK'
  <2>1. b \in Broadcast  BY Zenon DEF TypeOK
  <2>2. b.to \in Nodes /\ b.shard \in Shards  BY Zenon, <2>1 DEF Broadcast
  <2>3. localShards[b.to][b.shard] \in Nat  BY Zenon, <2>2 DEF TypeOK
  <2>4. forced' \subseteq Forced
    BY <1>1, <2>2, <2>3 DEF TypeOK, NotifyMsg, Forced
  <2> QED  BY Zenon, <1>1, <2>4 DEF TypeOK, NotifyMsg, streamVars, gossipVars
<1>2. ASSUME NEW b \in broadcasts, LoseBroadcast(b)  PROVE TypeOK'
  BY <1>2, OwnershipAssumption DEF TypeOK, LoseBroadcast, streamVars
<1>3. ASSUME NEW f \in forced, ForcedUnregister(f)  PROVE TypeOK'
  <2>1. f \in Forced  BY Zenon DEF TypeOK
  <2>2. f.node \in Nodes /\ f.shard \in Shards  BY Zenon, <2>1 DEF Forced
  <2>3. [f EXCEPT !.step = "remove"] \in Forced  BY Zenon, <2>1 DEF Forced
  <2>4. [localShards EXCEPT ![f.node][f.shard] = 0] \in [Nodes -> [Shards -> Nat]]
    <3>1. localShards \in [Nodes -> [Shards -> Nat]] /\ 0 \in Nat  BY Zenon DEF TypeOK
    <3> QED  BY Zenon, <2>2, <3>1, Update
  <2>5. localShards' \in [Nodes -> [Shards -> Nat]]
    <3>1. CASE UNCHANGED localShards  BY Zenon, <3>1 DEF TypeOK
    <3>2. CASE localShards' = [localShards EXCEPT ![f.node][f.shard] = 0]  BY Zenon, <2>4, <3>2
    <3> QED  BY <1>3, <3>1, <3>2, Zenon DEF ForcedUnregister
  <2>6. forced' \subseteq Forced
    <3>1. forced \subseteq Forced  BY Zenon DEF TypeOK
    <3> QED  BY <1>3, <2>3, <3>1, Zenon DEF ForcedUnregister
  <2>7. UNCHANGED <<clock, remoteSendChannels, broadcasts, streamVars, gossipVars>>
    BY Zenon, <1>3 DEF ForcedUnregister
  <2> QED  BY Zenon, <2>5, <2>6, <2>7 DEF TypeOK, streamVars, gossipVars
<1>4. ASSUME NEW f \in forced, ForcedRemove(f)  PROVE TypeOK'
  <2>1. f \in Forced  BY Zenon DEF TypeOK
  <2>2. f.node \in Nodes /\ f.shard \in Shards  BY Zenon, <2>1 DEF Forced
  <2>3. localShards' \in [Nodes -> [Shards -> Nat]]
    <3>1. localShards \in [Nodes -> [Shards -> Nat]] /\ 0 \in Nat  BY Zenon DEF TypeOK
    <3> QED  BY Zenon, <1>4, <2>2, <3>1, Update DEF ForcedRemove
  <2>4. forced' \subseteq Forced  BY Zenon, <1>4 DEF TypeOK, ForcedRemove
  <2>5. UNCHANGED <<clock, remoteSendChannels, broadcasts, streamVars, gossipVars>>
    BY Zenon, <1>4 DEF ForcedRemove
  <2> QED  BY Zenon, <2>3, <2>4, <2>5 DEF TypeOK, streamVars, gossipVars
<1>5. ASSUME NEW x \in snapshots, MergeRemoteState(x)  PROVE TypeOK'
  <2>1. x.from \in Nodes /\ x.to \in Nodes /\ x.state \in NodeState  BY Zenon DEF TypeOK
  <2>2. [remoteNodeStates EXCEPT ![x.to][x.from] = x.state] \in [Nodes -> [Nodes -> NodeState]]
    <3>1. remoteNodeStates \in [Nodes -> [Nodes -> NodeState]]  BY Zenon DEF TypeOK
    <3> QED  BY Zenon, <2>1, <3>1, Update
  <2>3. remoteNodeStates' \in [Nodes -> [Nodes -> NodeState]]
    BY Zenon, <1>5, <2>2 DEF TypeOK, MergeRemoteState
  <2> QED  BY Zenon, <1>5, <2>3 DEF TypeOK, MergeRemoteState, streamVars
<1>6. ASSUME NEW n \in Nodes, NEW m \in Nodes, PushState(n, m)  PROVE TypeOK'
  <2>1. snapshots' \subseteq [from : Nodes, to : Nodes, state : NodeState]
    BY <1>6, LocalStateType DEF TypeOK, PushState
  <2> QED  BY Zenon, <1>6, <2>1 DEF TypeOK, PushState, streamVars
<1>7. ASSUME NEW n \in Nodes, NEW m \in Nodes, NotifyLeave(n, m)  PROVE TypeOK'
  <2>1. Unknown \in NodeState  BY Zenon DEF Unknown, NodeState
  <2>2. remoteNodeStates' \in [Nodes -> [Nodes -> NodeState]]
    <3>1. remoteNodeStates \in [Nodes -> [Nodes -> NodeState]]  BY Zenon DEF TypeOK
    <3> QED  BY Zenon, <1>7, <2>1, <3>1, Update DEF NotifyLeave
  <2> QED  BY <1>7, <2>2, OwnershipAssumption DEF TypeOK, NotifyLeave, streamVars
<1> QED  BY Zenon, <1>1, <1>2, <1>3, <1>4, <1>5, <1>6, <1>7

(* Every step keeps the shapes.                                            *)
LEMMA TypeStep == TypeOK /\ [Next]_vars => TypeOK'
<1> SUFFICES ASSUME TypeOK, [Next]_vars PROVE TypeOK'  BY Zenon
<1>1. CASE Next  BY <1>1, SenderTypes, GossipTypes, Zenon DEF Next
<1>2. CASE UNCHANGED vars
  BY Zenon, <1>2 DEF TypeOK, vars, streamVars, gossipVars
<1> QED  BY Zenon, <1>1, <1>2
----------------------------------------------------------------------------
(* What a sender's step does to its own progress and to the others'.       *)
LEMMA GotoStep ==
  ASSUME TypeOK, NEW k \in Streams, NEW from, NEW to, Goto(k, from, to)
  PROVE  /\ step[k] = from /\ step'[k] = to
         /\ \A j \in Streams \ {k} : step'[j] = step[j]
  BY Zenon DEF TypeOK, Goto

(* Only the senders open streams, register them and change their channels. *)
LEMMA GossipKeeps ==
  ASSUME Next
  PROVE  \/ \E k \in Streams : SetRemoteSendChan(k) \/ CloseStream(k) \/ SenderStep(k)
         \/ UNCHANGED <<clock, remoteSendChannels, opened, nodeOf, shardOf, step, registeredAt>>
  BY Zenon DEF Next, NotifyMsg, LoseBroadcast, ForcedUnregister, ForcedRemove, MergeRemoteState,
         PushState, NotifyLeave, streamVars

(* Streams are opened in order, and register once.                         *)
LEMMA StreamStep ==
  ASSUME TypeOK, OpenedInOrder, FreshTimes, [Next]_vars
  PROVE  OpenedInOrder' /\ FreshTimes'
<1>1. ASSUME NEW k \in Streams, SetRemoteSendChan(k)  PROVE OpenedInOrder' /\ FreshTimes'
  <2>1. /\ step[k] = "new" /\ step'[k] = "channel"
        /\ \A j \in Streams \ {k} : step'[j] = step[j]
    BY Zenon, <1>1, GotoStep DEF SetRemoteSendChan
  <2>2. k = opened + 1 /\ opened' = k /\ UNCHANGED <<clock, registeredAt>>
    BY Zenon, <1>1 DEF SetRemoteSendChan
  <2>3. OpenedInOrder'  BY <2>1, <2>2, StreamNumbers DEF OpenedInOrder, TypeOK, Streams
  <2>4. FreshTimes'  BY Zenon, <2>1, <2>2 DEF FreshTimes, Streams
  <2> QED  BY Zenon, <2>3, <2>4
<1>2. ASSUME NEW k \in Streams, AddLocalShard(k)  PROVE OpenedInOrder' /\ FreshTimes'
  <2>1. /\ step[k] = "channel" /\ step'[k] = "added"
        /\ \A j \in Streams \ {k} : step'[j] = step[j]
    BY Zenon, <1>2, GotoStep DEF AddLocalShard
  <2>2. /\ clock' = clock + 1 /\ registeredAt'[k] = clock + 1 /\ opened' = opened
        /\ \A j \in Streams \ {k} : registeredAt'[j] = registeredAt[j]
    BY Zenon, <1>2 DEF AddLocalShard, TypeOK
  <2>3. OpenedInOrder'  BY Zenon, <2>1, <2>2 DEF OpenedInOrder, Streams
  <2>4. clock \in Nat /\ \A j \in Streams : registeredAt[j] \in Nat  BY Zenon DEF TypeOK
  <2>5. FreshTimes'
    <3>1. (\A j \in Streams : registeredAt[j] <= clock)'  BY <2>2, <2>4 DEF FreshTimes, Streams
    <3>2. (\A j \in Streams : registeredAt[j] = 0 <=> step[j] \in {"new", "channel"})'
      BY <2>1, <2>2, <2>4 DEF FreshTimes, Streams
    <3>3. (\A i, j \in Streams : registeredAt[i] = registeredAt[j] /\ i # j => registeredAt[j] = 0)'
      BY <2>2, <2>4 DEF FreshTimes, Streams
    <3> QED  BY Zenon, <3>1, <3>2, <3>3 DEF FreshTimes
  <2> QED  BY Zenon, <2>3, <2>5
<1>3. ASSUME NEW k \in Streams, opened' = opened, registeredAt' = registeredAt,
             clock' \in {clock, clock + 1}, NEW from, NEW to, Goto(k, from, to),
             {from, to} \cap {"new", "channel"} = {}
      PROVE  OpenedInOrder' /\ FreshTimes'
  <2>1. /\ step[k] = from /\ step'[k] = to
        /\ \A j \in Streams \ {k} : step'[j] = step[j]
    BY Zenon, <1>3, GotoStep
  <2>2. \A j \in Streams : /\ step'[j] = "new" <=> step[j] = "new"
                           /\ step'[j] = "channel" <=> step[j] = "channel"
    BY Zenon, <1>3, <2>1
  <2>3. clock \in Nat /\ \A j \in Streams : registeredAt[j] \in Nat  BY Zenon DEF TypeOK
  <2>4. OpenedInOrder'  BY Zenon, <1>3, <2>2 DEF OpenedInOrder, Streams
  <2>5. FreshTimes'  BY <1>3, <2>2, <2>3 DEF FreshTimes, Streams
  <2> QED  BY Zenon, <2>4, <2>5
<1>4. ASSUME NEW k \in Streams, CloseStream(k) \/ SenderStep(k), ~ AddLocalShard(k)
      PROVE  OpenedInOrder' /\ FreshTimes'
  <2>1. opened' = opened /\ registeredAt' = registeredAt /\ clock' \in {clock, clock + 1}
    BY Zenon, <1>4
    DEF SenderStep, CloseStream, BroadcastRegister, UnregisterShard, RemoveLocalShard,
        RemoveRemoteSendChan
  <2>2. \E from, to \in {"added", "running", "closed", "removing", "unregistered", "done"} :
          Goto(k, from, to)
    BY <1>4, Zenon
    DEF SenderStep, CloseStream, BroadcastRegister, UnregisterShard, RemoveLocalShard,
        RemoveRemoteSendChan
  <2> QED  BY Zenon, <1>3, <2>1, <2>2
<1>5. CASE UNCHANGED <<clock, remoteSendChannels, opened, nodeOf, shardOf, step, registeredAt>>
  BY Zenon, <1>5 DEF OpenedInOrder, FreshTimes, Streams
<1>6. CASE UNCHANGED vars
  BY Zenon, <1>5, <1>6 DEF vars, streamVars
<1> QED  BY Zenon, <1>1, <1>2, <1>4, <1>5, <1>6, GossipKeeps DEF SenderStep

(* The channel registered last stays until its stream removes it.          *)
LEMMA ChannelStep ==
  ASSUME TypeOK, TypeOK', OpenedInOrder, NewestChannel, [Next]_vars
  PROVE  NewestChannel'
<1> DEFINE Same(i, j) == nodeOf[i] = nodeOf[j] /\ shardOf[i] = shardOf[j]
           Last(i) == \A j \in (i + 1)..opened : ~ Same(i, j)
<1>0. /\ opened \in Nat /\ opened' \in Nat /\ opened <= MaxStreams /\ opened' <= MaxStreams
      /\ \A i \in Streams : Here(i, remoteSendChannels) = remoteSendChannels[nodeOf[i]][shardOf[i]]
      /\ 1..opened \subseteq Streams /\ 1..opened' \subseteq Streams
  BY OwnershipAssumption DEF TypeOK, Streams, Here
<1>1. NewestChannel <=>
        \A i \in 1..opened :
          Last(i) => Here(i, remoteSendChannels) = IF step[i] = "done" THEN 0 ELSE i
  BY Zenon DEF NewestChannel
<1>2. ASSUME NEW k \in Streams, SetRemoteSendChan(k)  PROVE NewestChannel'
  <2>1. /\ step[k] = "new" /\ step'[k] = "channel"
        /\ \A j \in Streams \ {k} : step'[j] = step[j]
    BY Zenon, <1>2, GotoStep DEF SetRemoteSendChan
  <2>2. k = opened + 1 /\ opened' = k /\ nodeOf' = nodeOf /\ shardOf' = shardOf
    BY Zenon, <1>2 DEF SetRemoteSendChan
  <2>3. \A i \in Streams : Here(i, remoteSendChannels)' =
          IF Same(i, k) THEN k ELSE Here(i, remoteSendChannels)
    <3> DEFINE V == 0..opened'
    <3>1. k \in V  BY <2>2, StreamNumbers DEF Streams
    <3>2. remoteSendChannels \in [Nodes -> [Shards -> V]]
      <4> DEFINE W == 0..opened
      <4>1. W \subseteq V  BY <1>0, <2>2
      <4>2. remoteSendChannels \in [Nodes -> [Shards -> W]]  BY Zenon DEF TypeOK
      <4> HIDE DEF V, W
      <4>3. [Shards -> W] \subseteq [Shards -> V]  BY Zenon, <4>1
      <4> QED  BY Zenon, <4>2, <4>3
    <3> HIDE DEF V
    <3>3. remoteSendChannels' = [remoteSendChannels EXCEPT ![nodeOf[k]][shardOf[k]] = k]
      BY Zenon, <1>2 DEF SetRemoteSendChan
    <3>4. \A n \in Nodes, s \in Shards : remoteSendChannels'[n][s] =
            IF n = nodeOf[k] /\ s = shardOf[k] THEN k ELSE remoteSendChannels[n][s]
      BY <3>1, <3>2, <3>3, Place, Update
    <3> QED  BY Zenon, <2>2, <3>4, Place DEF Here
  <2>4. SUFFICES ASSUME NEW i \in 1..opened', Last(i)'
                 PROVE  Here(i, remoteSendChannels)' = IF step'[i] = "done" THEN 0 ELSE i
    BY Zenon, <2>2 DEF NewestChannel
  <2>5. CASE i = k  BY Zenon, <1>0, <2>1, <2>3, <2>5
  <2>6. CASE i # k
    <3>1. i \in 1..opened /\ i \in Streams /\ k \in (i + 1)..opened'  BY <1>0, <2>2, <2>6
    <3>2. ~ Same(i, k)  BY Zenon, <2>2, <2>4, <3>1
    <3>3. Last(i)  BY <1>0, <2>2, <2>4, <3>1
    <3>4. Here(i, remoteSendChannels) = IF step[i] = "done" THEN 0 ELSE i
      BY Zenon, <1>1, <3>1, <3>3
    <3> QED  BY Zenon, <2>1, <2>3, <2>6, <3>1, <3>2, <3>4
  <2> QED  BY Zenon, <2>5, <2>6
<1>3. ASSUME NEW k \in Streams, RemoveRemoteSendChan(k)  PROVE NewestChannel'
  <2>1. /\ step[k] = "unregistered" /\ step'[k] = "done"
        /\ \A j \in Streams \ {k} : step'[j] = step[j]
    BY Zenon, <1>3, GotoStep DEF RemoveRemoteSendChan
  <2>2. opened' = opened /\ nodeOf' = nodeOf /\ shardOf' = shardOf
    BY Zenon, <1>3 DEF RemoveRemoteSendChan
  <2>3. k \in 1..opened
    BY <1>0, <2>1, StreamNumbers DEF OpenedInOrder, Streams
  <2>4. \A i \in Streams : Here(i, remoteSendChannels)' =
          IF Same(i, k) /\ Here(i, remoteSendChannels) = k THEN 0 ELSE Here(i, remoteSendChannels)
    <3> DEFINE V == 0..opened
               new == IF Here(k, remoteSendChannels) = k THEN 0 ELSE Here(k, remoteSendChannels)
    <3>1. remoteSendChannels \in [Nodes -> [Shards -> V]]  BY Zenon DEF TypeOK
    <3>2. new \in V  BY <1>0, <3>1, Place DEF Here
    <3>3. remoteSendChannels' = [remoteSendChannels EXCEPT ![nodeOf[k]][shardOf[k]] = new]
      BY Zenon, <1>3 DEF RemoveRemoteSendChan, Here
    <3> HIDE DEF V, new
    <3>4. \A n \in Nodes, s \in Shards : remoteSendChannels'[n][s] =
            IF n = nodeOf[k] /\ s = shardOf[k] THEN new ELSE remoteSendChannels[n][s]
      BY <3>1, <3>2, <3>3, Place, Update
    <3> QED  BY <2>2, <3>4, Place DEF Here, new
  <2>5. SUFFICES ASSUME NEW i \in 1..opened, Last(i)
                 PROVE  Here(i, remoteSendChannels)' = IF step'[i] = "done" THEN 0 ELSE i
    BY Zenon, <2>2 DEF NewestChannel
  <2>6. i \in Streams /\ Here(i, remoteSendChannels) = IF step[i] = "done" THEN 0 ELSE i
    BY Zenon, <1>0, <1>1, <2>5
  <2> QED  BY Zenon, <2>1, <2>3, <2>4, <2>6
<1>4. ASSUME NEW k \in Streams, CloseStream(k) \/ SenderStep(k), ~ RemoveRemoteSendChan(k)
      PROVE  NewestChannel'
  <2>1. UNCHANGED <<opened, nodeOf, shardOf, remoteSendChannels>>
    BY Zenon, <1>4 DEF SenderStep, CloseStream, AddLocalShard, BroadcastRegister, UnregisterShard,
                RemoveLocalShard
  <2>2. PICK from, to \in {"channel", "added", "running", "closed", "removing", "unregistered"} :
          Goto(k, from, to)
    BY <1>4, Zenon DEF SenderStep, CloseStream, AddLocalShard, BroadcastRegister, UnregisterShard,
                RemoveLocalShard
  <2>3. \A i \in Streams : step'[i] = "done" <=> step[i] = "done"
    BY Zenon, <2>2, GotoStep
  <2> QED  BY Zenon, <1>0, <2>1, <2>3 DEF NewestChannel, Here
<1>5. CASE UNCHANGED <<clock, remoteSendChannels, opened, nodeOf, shardOf, step, registeredAt>>
  BY Zenon, <1>5 DEF NewestChannel, Here
<1>6. CASE UNCHANGED vars
  BY Zenon, <1>5, <1>6 DEF vars, streamVars
<1> QED  BY Zenon, <1>2, <1>3, <1>4, <1>5, <1>6, GossipKeeps DEF SenderStep

(* A step writes at most one entry of localShards: the clock, or nothing.  *)
LEMMA ShardsStep ==
  ASSUME TypeOK, [Next]_vars, NEW n \in Nodes, NEW s \in Shards
  PROVE  \/ localShards'[n][s] \in {0, localShards[n][s]}
         \/ \E k \in Streams : /\ AddLocalShard(k) /\ nodeOf[k] = n /\ shardOf[k] = s
                              /\ localShards'[n][s] = clock + 1
<1>0. localShards \in [Nodes -> [Shards -> Nat]] /\ 0 \in Nat /\ clock + 1 \in Nat  BY DEF TypeOK
<1>1. ASSUME NEW k \in Streams, AddLocalShard(k)
      PROVE  localShards'[n][s] = IF n = nodeOf[k] /\ s = shardOf[k] THEN clock + 1
                                  ELSE localShards[n][s]
  <2>1. localShards' = [localShards EXCEPT ![nodeOf[k]][shardOf[k]] = clock + 1]
    BY Zenon, <1>1 DEF AddLocalShard
  <2> QED  BY <1>0, <2>1, Place, Update
<1>2. ASSUME NEW m \in Nodes, NEW t \in Shards, localShards' = [localShards EXCEPT ![m][t] = 0]
      PROVE  localShards'[n][s] \in {0, localShards[n][s]}
  BY <1>0, <1>2, Update
<1>3. ASSUME NEW k \in Streams, SetRemoteSendChan(k) \/ CloseStream(k) \/ SenderStep(k),
             ~ AddLocalShard(k)
      PROVE  localShards'[n][s] \in {0, localShards[n][s]}
  <2>1. \/ UNCHANGED localShards
        \/ localShards' = [localShards EXCEPT ![nodeOf[k]][shardOf[k]] = 0]
    BY <1>3, Zenon
    DEF SenderStep, SetRemoteSendChan, CloseStream, BroadcastRegister, UnregisterShard,
        RemoveLocalShard, RemoveRemoteSendChan
  <2> QED  BY Zenon, <1>2, <2>1, Place
<1>4. ASSUME NEW f \in forced, ForcedUnregister(f) \/ ForcedRemove(f)
      PROVE  localShards'[n][s] \in {0, localShards[n][s]}
  <2>1. f.node \in Nodes /\ f.shard \in Shards  BY Zenon DEF TypeOK, Forced
  <2>2. UNCHANGED localShards \/ localShards' = [localShards EXCEPT ![f.node][f.shard] = 0]
    BY <1>4, Zenon DEF ForcedUnregister, ForcedRemove
  <2> QED  BY Zenon, <1>2, <2>1, <2>2
<1>5. CASE UNCHANGED localShards  BY Zenon, <1>5
<1>6. \/ \E k \in Streams : SetRemoteSendChan(k) \/ CloseStream(k) \/ SenderStep(k)
      \/ \E f \in forced : ForcedUnregister(f) \/ ForcedRemove(f)
      \/ UNCHANGED localShards
  BY Zenon DEF Next, NotifyMsg, LoseBroadcast, MergeRemoteState, PushState, NotifyLeave, vars
<1> QED  BY Zenon, <1>1, <1>3, <1>4, <1>5, <1>6

(* A registration and its stream stay together.                            *)
LEMMA RegistrationStep ==
  ASSUME TypeOK, TypeOK', OpenedInOrder, FreshTimes, RegistrationHasStream, [Next]_vars
  PROVE  RegistrationHasStream'
<1> SUFFICES ASSUME NEW n \in Nodes, NEW s \in Shards, localShards'[n][s] # 0
             PROVE  \E k \in 1..opened' : /\ nodeOf'[k] = n /\ shardOf'[k] = s
                                         /\ registeredAt'[k] = localShards'[n][s]
                                         /\ step'[k] \in {"added", "running", "closed"}
  BY DEF RegistrationHasStream
<1>1. ASSUME NEW k \in Streams, AddLocalShard(k), nodeOf[k] = n, shardOf[k] = s,
             localShards'[n][s] = clock + 1
      PROVE  /\ nodeOf'[k] = n /\ shardOf'[k] = s /\ registeredAt'[k] = localShards'[n][s]
             /\ step'[k] = "added" /\ k \in 1..opened'
  <2>1. step[k] = "channel" /\ step'[k] = "added"  BY <1>1, GotoStep DEF AddLocalShard
  <2>2. opened' = opened /\ nodeOf' = nodeOf /\ shardOf' = shardOf /\ registeredAt'[k] = clock + 1
    BY Zenon, <1>1 DEF AddLocalShard, TypeOK
  <2>3. k \in 1..opened'
    BY <2>1, <2>2, StreamNumbers DEF OpenedInOrder, TypeOK, Streams
  <2> QED  BY Zenon, <1>1, <2>1, <2>2, <2>3
<1>2. ASSUME localShards'[n][s] = localShards[n][s]
      PROVE  \E k \in 1..opened' : /\ nodeOf'[k] = n /\ shardOf'[k] = s
                                  /\ registeredAt'[k] = localShards'[n][s]
                                  /\ step'[k] \in {"added", "running", "closed"}
  <2>1. PICK j \in 1..opened : /\ nodeOf[j] = n /\ shardOf[j] = s
                               /\ registeredAt[j] = localShards[n][s]
                               /\ step[j] \in {"added", "running", "closed"}
    BY <1>2 DEF RegistrationHasStream
  <2>2. j \in Streams  BY OwnershipAssumption DEF TypeOK, Streams
  <2>3. ASSUME NEW k \in Streams, SetRemoteSendChan(k) \/ CloseStream(k) \/ SenderStep(k)
        PROVE  /\ nodeOf' = nodeOf /\ shardOf' = shardOf /\ j \in 1..opened'
               /\ registeredAt'[j] = registeredAt[j] /\ step'[j] \in {"added", "running", "closed"}
    <3>1. CASE SetRemoteSendChan(k)
      BY <2>1, <2>2, <3>1, GotoStep DEF SetRemoteSendChan, TypeOK
    <3>2. CASE CloseStream(k)  BY <2>1, <2>2, <3>2, GotoStep DEF CloseStream
    <3>3. CASE AddLocalShard(k)
      BY <2>1, <2>2, <3>3, GotoStep DEF AddLocalShard, TypeOK
    <3>4. CASE BroadcastRegister(k)
      <4>1. /\ nodeOf' = nodeOf /\ shardOf' = shardOf /\ opened' = opened
            /\ registeredAt' = registeredAt /\ Goto(k, "added", "running")
        BY Zenon, <3>4 DEF BroadcastRegister
      <4>2. step'[j] = step[j] \/ step'[j] = "running"
        BY Zenon, <2>2, <4>1, GotoStep
      <4> QED  BY Zenon, <2>1, <4>1, <4>2
    <3>5. CASE UnregisterShard(k)
      <4>1. /\ nodeOf' = nodeOf /\ shardOf' = shardOf
            /\ opened' = opened /\ registeredAt' = registeredAt
        BY Zenon, <3>5 DEF UnregisterShard
      <4>2. k # j
        <5> SUFFICES ASSUME k = j PROVE FALSE  BY Zenon
        <5>1. Here(k, localShards) = registeredAt[k]  BY Zenon, <2>1 DEF Here
        <5>2. localShards' = [localShards EXCEPT ![n][s] = 0]
          BY Zenon, <2>1, <3>5, <5>1 DEF UnregisterShard
        <5>3. localShards \in [Nodes -> [Shards -> Nat]] /\ 0 \in Nat  BY Zenon DEF TypeOK
        <5> QED  BY <5>2, <5>3, Update
      <4>3. \E to \in {"removing", "unregistered"} : Goto(k, "closed", to)
        BY Zenon, <3>5 DEF UnregisterShard
      <4>4. step'[j] = step[j]  BY Zenon, <2>2, <4>2, <4>3, GotoStep
      <4> QED  BY Zenon, <2>1, <4>1, <4>4
    <3>6. CASE RemoveLocalShard(k)  BY <2>1, <2>2, <3>6, GotoStep DEF RemoveLocalShard
    <3>7. CASE RemoveRemoteSendChan(k)  BY <2>1, <2>2, <3>7, GotoStep DEF RemoveRemoteSendChan
    <3> QED  BY Zenon, <2>3, <3>1, <3>2, <3>3, <3>4, <3>5, <3>6, <3>7 DEF SenderStep
  <2>4. CASE UNCHANGED <<opened, nodeOf, shardOf, step, registeredAt>>
    BY Zenon, <1>2, <2>1, <2>4
  <2>5. \/ \E k \in Streams : SetRemoteSendChan(k) \/ CloseStream(k) \/ SenderStep(k)
        \/ UNCHANGED <<opened, nodeOf, shardOf, step, registeredAt>>
    BY Zenon, GossipKeeps DEF vars, streamVars
  <2> QED  BY Zenon, <1>2, <2>1, <2>3, <2>4, <2>5
<1> QED  BY <1>1, <1>2, ShardsStep
----------------------------------------------------------------------------
(* A step without a fault loses no broadcast and forgets no node.          *)
LEMMA NoFault ==
  ASSUME TypeOK, [Next]_vars, faults' = 0
  PROVE  /\ faults = 0
         /\ \A b \in broadcasts : ~ LoseBroadcast(b)
         /\ \A n, m \in Nodes : ~ NotifyLeave(n, m)
<1>1. faults \in Nat  BY OwnershipAssumption DEF TypeOK
<1>2. \A b \in broadcasts : ~ LoseBroadcast(b)  BY <1>1 DEF LoseBroadcast
<1>3. \A n, m \in Nodes : ~ NotifyLeave(n, m)  BY <1>1 DEF NotifyLeave
<1>4. faults' = faults
  BY Zenon, <1>2, <1>3 DEF Next, SenderStep, SetRemoteSendChan, CloseStream, AddLocalShard,
     BroadcastRegister, UnregisterShard, RemoveLocalShard, RemoveRemoteSendChan, NotifyMsg,
     ForcedUnregister, ForcedRemove, MergeRemoteState, PushState, vars, gossipVars
<1> QED  BY Zenon, <1>2, <1>3, <1>4

(* Without a fault every node stays known.                                 *)
LEMMA KnownStep ==
  ASSUME TypeOK, AllKnown, [Next]_vars
  PROVE  AllKnown'
<1> SUFFICES ASSUME faults' = 0, NEW n \in Nodes, NEW m \in Nodes
             PROVE  remoteNodeStates'[n][m].known
  <2>1. ASSUME faults' = 0 PROVE hung' = {}
    <3>1. hung = {}  BY Zenon, <2>1, NoFault DEF AllKnown
    <3>2. hung' = hung
      BY Zenon, <2>1, NoFault DEF Next, SenderStep, SetRemoteSendChan, CloseStream,
         AddLocalShard, BroadcastRegister, UnregisterShard, RemoveLocalShard,
         RemoveRemoteSendChan, NotifyMsg, ForcedUnregister, ForcedRemove, MergeRemoteState,
         PushState, vars, gossipVars
    <3> QED  BY <3>1, <3>2, Zenon
  <2> QED  BY <2>1, Zenon DEF AllKnown
<1>1. remoteNodeStates[n][m].known  BY Zenon, NoFault DEF AllKnown
<1>2. ASSUME NEW x \in snapshots, MergeRemoteState(x)  PROVE remoteNodeStates'[n][m].known
  <2>1. x.from \in Nodes /\ x.to \in Nodes /\ x.state \in NodeState  BY Zenon DEF TypeOK
  <2>2. remoteNodeStates \in [Nodes -> [Nodes -> NodeState]]  BY Zenon DEF TypeOK
  <2>3. CASE x.state.known
    <3>1. remoteNodeStates' = [remoteNodeStates EXCEPT ![x.to][x.from] = x.state]
      BY Zenon, <1>2, <2>3 DEF MergeRemoteState
    <3>2. remoteNodeStates'[n][m] =
            IF n = x.to /\ m = x.from THEN x.state ELSE remoteNodeStates[n][m]
      <4>1. \A u, v \in Nodes :
              [remoteNodeStates EXCEPT ![x.to][x.from] = x.state][u][v] =
                IF u = x.to /\ v = x.from THEN x.state ELSE remoteNodeStates[u][v]
        BY ONLY <2>1, <2>2, SMTT(30)
      <4> QED  BY Zenon, <3>1, <4>1
    <3>3. CASE n = x.to /\ m = x.from
      <4>1. remoteNodeStates'[n][m] = x.state  BY Zenon, <3>2, <3>3
      <4> QED  BY <2>3, <4>1, Zenon
    <3>4. CASE ~ (n = x.to /\ m = x.from)
      <4>1. remoteNodeStates'[n][m] = remoteNodeStates[n][m]  BY Zenon, <3>2, <3>4
      <4> QED  BY <1>1, <4>1, Zenon
    <3> QED  BY Zenon, <3>3, <3>4
  <2>4. CASE ~ x.state.known
    <3>1. remoteNodeStates' = remoteNodeStates  BY Zenon, <1>2, <2>4 DEF MergeRemoteState
    <3> QED  BY <1>1, <3>1, Zenon
  <2> QED  BY <2>3, <2>4, Zenon
<1>3. CASE UNCHANGED remoteNodeStates  BY <1>1, <1>3, Zenon
<1>4. UNCHANGED remoteNodeStates \/ \E x \in snapshots : MergeRemoteState(x)
  BY Zenon, NoFault DEF Next, SenderStep, SetRemoteSendChan, CloseStream, AddLocalShard,
     BroadcastRegister, UnregisterShard, RemoveLocalShard, RemoveRemoteSendChan, NotifyMsg,
     ForcedUnregister, ForcedRemove, PushState, vars, gossipVars
<1> QED  BY <1>2, <1>3, <1>4, Zenon

(* An announcement is not lost while the registration it ends is there.    *)
LEMMA GivesUpStays ==
  ASSUME TypeOK, [Next]_vars, faults' = 0, NEW n \in Nodes, NEW s \in Shards,
         localShards[n][s] # 0, localShards'[n][s] = localShards[n][s], GivesUp(n, s)
  PROVE  GivesUp(n, s)'
<1>0. localShards \in [Nodes -> [Shards -> Nat]] /\ 0 \in Nat  BY Zenon DEF TypeOK
<1>1. ASSUME NEW b \in broadcasts, b.to = n, b.shard = s, localShards[n][s] < b.timestamp
      PROVE  GivesUp(n, s)'
  <2>1. CASE NotifyMsg(b)
    <3> DEFINE f == [node |-> n, shard |-> s, created |-> localShards[n][s], step |-> "check"]
    <3>1. f \in forced'
      <4>1. forced' = IF localShards[n][s] # 0 /\ localShards[n][s] < b.timestamp
                      THEN forced \cup {f} ELSE forced
        BY <1>1, <2>1, Zenon DEF NotifyMsg
      <4> QED  BY <1>1, <4>1, Zenon
    <3>2. f.node = n /\ f.shard = s /\ f.created = localShards'[n][s]  BY Zenon
    <3> QED  BY Zenon, <3>1, <3>2 DEF GivesUp
  <2>2. CASE ~ NotifyMsg(b)
    <3>1. b \in broadcasts'
      BY Zenon, <2>2, NoFault DEF Next, SenderStep, SetRemoteSendChan, CloseStream, AddLocalShard,
         BroadcastRegister, UnregisterShard, RemoveLocalShard, RemoveRemoteSendChan, NotifyMsg,
         ForcedUnregister, ForcedRemove, MergeRemoteState, PushState, vars
    <3> QED  BY Zenon, <1>1, <3>1 DEF GivesUp
  <2> QED  BY Zenon, <2>1, <2>2
<1>2. ASSUME NEW f \in forced, f.node = n, f.shard = s, f.created = localShards[n][s]
      PROVE  GivesUp(n, s)'
  <2>1. [localShards EXCEPT ![n][s] = 0][n][s] = 0  BY <1>0, Update
  <2>2. ~ ForcedUnregister(f) /\ ~ ForcedRemove(f)
    BY Zenon, <1>2, <2>1 DEF ForcedUnregister, ForcedRemove
  <2>3. f \in forced'
    BY Zenon, <2>2, NoFault DEF Next, SenderStep, SetRemoteSendChan, CloseStream, AddLocalShard,
       BroadcastRegister, UnregisterShard, RemoveLocalShard, RemoveRemoteSendChan, NotifyMsg,
       ForcedUnregister, ForcedRemove, MergeRemoteState, PushState, vars
  <2> QED  BY Zenon, <1>2, <2>3 DEF GivesUp
<1> QED  BY Zenon, <1>1, <1>2 DEF GivesUp

(* How a stream gets to have announced its registration.                   *)
LEMMA AnnouncerStep ==
  ASSUME TypeOK, [Next]_vars, NEW k \in Streams, step'[k] \in {"running", "closed"}
  PROVE  /\ nodeOf' = nodeOf /\ shardOf' = shardOf /\ registeredAt'[k] = registeredAt[k]
         /\ step[k] \in {"running", "closed"} \/ BroadcastRegister(k)
<1>1. ASSUME NEW j \in Streams, SetRemoteSendChan(j) \/ CloseStream(j) \/ SenderStep(j)
      PROVE  /\ nodeOf' = nodeOf /\ shardOf' = shardOf /\ registeredAt'[k] = registeredAt[k]
             /\ step[k] \in {"running", "closed"} \/ BroadcastRegister(k)
  <2>1. CASE SetRemoteSendChan(j)  BY Zenon, <2>1, GotoStep DEF SetRemoteSendChan
  <2>2. CASE CloseStream(j)  BY Zenon, <2>2, GotoStep DEF CloseStream
  <2>3. CASE AddLocalShard(j)
    <3>1. step'[j] = "added" /\ \A i \in Streams \ {j} : step'[i] = step[i]
      BY Zenon, <2>3, GotoStep DEF AddLocalShard
    <3>2. j # k  BY Zenon, <3>1
    <3> QED  BY Zenon, <2>3, <3>1, <3>2 DEF AddLocalShard, TypeOK
  <2>4. CASE BroadcastRegister(j)  BY <2>4, GotoStep DEF BroadcastRegister
  <2>5. CASE UnregisterShard(j)
    <3>1. \E to \in {"removing", "unregistered"} : Goto(j, "closed", to)
      BY Zenon, <2>5 DEF UnregisterShard
    <3>2. step[k] \in {"running", "closed"}  BY Zenon, <3>1, GotoStep
    <3> QED  BY Zenon, <2>5, <3>2 DEF UnregisterShard
  <2>6. CASE RemoveLocalShard(j)  BY Zenon, <2>6, GotoStep DEF RemoveLocalShard
  <2>7. CASE RemoveRemoteSendChan(j)  BY Zenon, <2>7, GotoStep DEF RemoveRemoteSendChan
  <2> QED  BY Zenon, <1>1, <2>1, <2>2, <2>3, <2>4, <2>5, <2>6, <2>7 DEF SenderStep
<1>2. CASE UNCHANGED <<nodeOf, shardOf, step, registeredAt>>  BY Zenon, <1>2
<1> QED  BY Zenon, <1>1, <1>2, GossipKeeps DEF vars, streamVars

(* A registration that is announced has the older ones given up.           *)
LEMMA AnnouncedStep ==
  ASSUME TypeOK, FreshTimes, FreshTimes', AllKnown, AllAnnounced, [Next]_vars
  PROVE  AllAnnounced'
<1> SUFFICES ASSUME faults' = 0, NEW k \in Streams, NEW n \in Nodes, n # nodeOf'[k],
                    NEW s, s = shardOf'[k],
                    step'[k] \in {"running", "closed"},
                    Here(k, localShards)' = registeredAt'[k],
                    localShards'[n][s] # 0, localShards'[n][s] < registeredAt'[k]
             PROVE  GivesUp(n, s)'
  BY DEF AllAnnounced, Announced, GivesUp, Streams
<1>1. /\ nodeOf' = nodeOf /\ shardOf' = shardOf /\ registeredAt'[k] = registeredAt[k]
      /\ step[k] \in {"running", "closed"} \/ BroadcastRegister(k)
  BY Zenon, AnnouncerStep
<1>2. nodeOf[k] \in Nodes /\ s \in Shards /\ clock \in Nat /\ registeredAt[k] \in Nat
      /\ localShards[n][s] \in Nat
  BY Zenon, <1>1, Place DEF TypeOK
<1>3. registeredAt[k] # 0 /\ registeredAt[k] <= clock
  BY Zenon, <1>1 DEF FreshTimes, BroadcastRegister, Goto
<1>4. localShards'[n][s] = localShards[n][s]
  <2>1. localShards'[n][s] # clock + 1  BY <1>1, <1>2, <1>3
  <2>2. localShards'[n][s] \in {0, localShards[n][s]}  BY Zenon, <1>2, <2>1, ShardsStep
  <2> QED  BY Zenon, <2>2
<1>5. Here(k, localShards) = registeredAt[k]
  <2>1. localShards'[nodeOf[k]][s] = registeredAt[k]  BY Zenon, <1>1 DEF Here
  <2>2. localShards'[nodeOf[k]][s] # clock + 1  BY <1>2, <1>3, <2>1
  <2>3. localShards'[nodeOf[k]][s] \in {0, localShards[nodeOf[k]][s]}
    BY Zenon, <1>2, <2>2, ShardsStep
  <2> QED  BY Zenon, <1>1, <1>3, <2>1, <2>3 DEF Here
<1>6. CASE step[k] \in {"running", "closed"}
  <2>1. GivesUp(n, s)
    BY Zenon, <1>1, <1>4, <1>5, <1>6, NoFault DEF AllAnnounced, Announced
  <2> QED  BY Zenon, <1>2, <1>4, <2>1, GivesUpStays
<1>7. CASE BroadcastRegister(k)
  <2> DEFINE b == [to |-> n, shard |-> s, timestamp |-> clock + 1]
  <2>1. remoteNodeStates[nodeOf[k]][n].known  BY Zenon, <1>2, NoFault DEF AllKnown
  <2>2. n \in Reached(nodeOf[k])
    BY <1>1, <1>2, <2>1, NoFault, Zenon DEF AllKnown, Reached
  <2>3. b \in broadcasts'  BY <1>1, <1>7, <2>2, Zenon DEF BroadcastRegister
  <2>4. b.to = n /\ b.shard = s /\ b.timestamp = clock + 1  BY Zenon
  <2>5. localShards'[n][s] < b.timestamp  BY <1>1, <1>2, <1>3, <1>4, <2>4
  <2> HIDE DEF b
  <2> QED  BY Zenon, <2>3, <2>4, <2>5 DEF GivesUp
<1> QED  BY Zenon, <1>1, <1>6, <1>7

(* The inductive invariant tells who of two owners gives up.               *)
LEMMA ResolvedFromInv == IInv => TwoOwnersResolved
<1> SUFFICES ASSUME IInv, NEW n \in Nodes, NEW m \in Nodes, NEW s \in Shards,
                    faults = 0, n # m, localShards[n][s] # 0, localShards[m][s] # 0
             PROVE  \E o \in {n, m} :
                      \/ \E k \in 1..opened : /\ step[k] = "added"
                                              /\ nodeOf[k] = o /\ shardOf[k] = s
                                              /\ registeredAt[k] = localShards[o][s]
                      \/ GivesUp(o, s)
  BY DEF TwoOwnersResolved, GivesUp
<1>1. ASSUME NEW o \in Nodes, NEW p \in Nodes, o # p, localShards[o][s] # 0,
             localShards[o][s] < localShards[p][s]
      PROVE  \/ \E k \in 1..opened : /\ step[k] = "added"
                                     /\ nodeOf[k] = p /\ shardOf[k] = s
                                     /\ registeredAt[k] = localShards[p][s]
             \/ GivesUp(o, s)
  <2>1. localShards[o][s] \in Nat /\ localShards[p][s] \in Nat  BY Zenon DEF IInv, TypeOK
  <2>2. PICK k \in 1..opened : /\ nodeOf[k] = p /\ shardOf[k] = s
                               /\ registeredAt[k] = localShards[p][s]
                               /\ step[k] \in {"added", "running", "closed"}
    BY <1>1, <2>1 DEF IInv, RegistrationHasStream
  <2>3. k \in Streams  BY OwnershipAssumption DEF IInv, TypeOK, Streams
  <2>4. CASE step[k] \in {"running", "closed"}
    <3>1. Here(k, localShards) = registeredAt[k]  BY Zenon, <2>2 DEF Here
    <3> QED  BY Zenon, <1>1, <2>2, <2>3, <2>4, <3>1 DEF IInv, AllAnnounced, Announced
  <2> QED  BY Zenon, <2>2, <2>4
<1>2. localShards[n][s] # localShards[m][s]
  <2>1. PICK j \in 1..opened : nodeOf[j] = n /\ registeredAt[j] = localShards[n][s]
    BY DEF IInv, RegistrationHasStream
  <2>2. PICK k \in 1..opened : nodeOf[k] = m /\ registeredAt[k] = localShards[m][s]
    BY DEF IInv, RegistrationHasStream
  <2>3. j \in Streams /\ k \in Streams  BY OwnershipAssumption DEF IInv, TypeOK, Streams
  <2> QED  BY Zenon, <2>1, <2>2, <2>3 DEF IInv, FreshTimes
<1>3. localShards[n][s] \in Nat /\ localShards[m][s] \in Nat  BY Zenon DEF IInv, TypeOK
<1>4. localShards[n][s] < localShards[m][s] \/ localShards[m][s] < localShards[n][s]
  BY <1>2, <1>3
<1> QED  BY Zenon, <1>1, <1>4
----------------------------------------------------------------------------
(* It holds at first.                                                      *)
LEMMA InitInv == Init => IInv
<1> SUFFICES ASSUME Init PROVE IInv  BY Zenon
<1>1. TypeOK  BY Zenon, InitTypes
<1>2. OpenedInOrder /\ FreshTimes
  BY StreamNumbers DEF Init, OpenedInOrder, FreshTimes, Streams
<1>3. AllKnown
  <2>1. \A n, m \in Nodes : remoteNodeStates[n][m] = State({})  BY Zenon DEF Init
  <2>2. State({}).known  BY Zenon DEF State
  <2> QED  BY <2>1, <2>2, Zenon DEF AllKnown, Init
<1>4. NewestChannel /\ RegistrationHasStream
  BY DEF Init, NewestChannel, RegistrationHasStream
<1>5. AllAnnounced
  BY Zenon DEF Init, AllAnnounced, Announced
<1> QED  BY Zenon, <1>1, <1>2, <1>3, <1>4, <1>5 DEF IInv

(* Every step keeps it.                                                    *)
LEMMA InvStep == IInv /\ [Next]_vars => IInv'
<1> SUFFICES ASSUME IInv, [Next]_vars PROVE IInv'  BY Zenon
<1>1. TypeOK'  BY Zenon, TypeStep DEF IInv
<1>2. OpenedInOrder' /\ FreshTimes'  BY Zenon, StreamStep DEF IInv
<1>3. AllKnown'  BY Zenon, KnownStep DEF IInv
<1>4. NewestChannel'  BY Zenon, <1>1, ChannelStep DEF IInv
<1>5. RegistrationHasStream'  BY Zenon, <1>1, RegistrationStep DEF IInv
<1>6. AllAnnounced'  BY Zenon, <1>2, AnnouncedStep DEF IInv
<1> QED  BY Zenon, <1>1, <1>2, <1>3, <1>4, <1>5, <1>6 DEF IInv

(* The maps of the shard manager and the progress of its senders keep      *)
(* their shape, and NotifyMsg unregisters only what was registered.        *)
THEOREM OwnershipTypes == Spec => []TypeOK
  BY InitTypes, TypeStep, PTL DEF Spec

(* However streams of a shard overlap on a node, RemoveRemoteSendChan      *)
(* leaves the channel of the newest one, and leaves none after it.         *)
THEOREM ChannelOfNewest == Spec => []NewestChannel
<1>1. IInv => NewestChannel  BY Zenon DEF IInv
<1> QED  BY <1>1, InitInv, InvStep, PTL DEF Spec

(* UnregisterShard's comparison of timestamps leaves no local shard behind *)
(* without a stream that will still remove it.                             *)
THEOREM NoOrphanRegistration == Spec => []RegistrationHasStream
<1>1. IInv => RegistrationHasStream  BY Zenon DEF IInv
<1> QED  BY <1>1, InitInv, InvStep, PTL DEF Spec

(* As long as no broadcast is lost and no node is taken to have left,      *)
(* NotifyMsg makes one of two owners of a shard give it up.                *)
THEOREM OwnersResolved == Spec => []TwoOwnersResolved
  BY InitInv, InvStep, ResolvedFromInv, PTL DEF Spec
----------------------------------------------------------------------------
(* Some number of a set is the least.                                      *)
LEMMA LeastExists ==
  ASSUME NEW T, T \subseteq Nat, T # {}
  PROVE  \E x \in T : \A y \in T : x <= y
<1> DEFINE R == OpToRel(<, Nat)
<1>1. IsWellFoundedOn(R, Nat)
  BY Zenon, NatLessThanWellFounded
<1> HIDE DEF R
<1>2. PICK x \in T : \A y \in T : ~ (<<y, x>> \in R)
  BY Zenon, <1>1, WFMin
<1>3. ASSUME NEW y \in T PROVE x <= y
  <2>1. x \in Nat /\ y \in Nat
    BY Zenon
  <2>2. y < x => <<y, x>> \in R
    BY ONLY <2>1 DEF R, OpToRel
  <2>3. ~ (y < x)
    BY Zenon, <1>2, <2>2
  <2> QED
    BY ONLY <2>1, <2>3
<1> QED
  BY Zenon, <1>3

(* Division with remainder, on natural numbers.                            *)
LEMMA DivMod ==
  ASSUME NEW x \in Nat, NEW n \in Nat \ {0}
  PROVE  \E q \in Nat : \E r \in Nat : r = x % n /\ r < n /\ x = n * q + r
<1>1. x \div n \in Nat /\ x % n \in Nat /\ x % n < n
  BY SMT
<1>2. ASSUME NEW q \in Nat, NEW r \in Nat, q = x \div n, r = x % n PROVE x = n * q + r
  BY <1>2
<1> QED
  BY Zenon, <1>1, <1>2

(* Quotient and remainder are determined by what they are for.             *)
LEMMA ModIs ==
  ASSUME NEW n \in Nat \ {0}, NEW q \in Nat, NEW r \in Nat, r < n
  PROVE  (n * q + r) % n = r /\ (n * q + r) \div n = q
BY SMT

(* x is n times something.                                                 *)
Multiple(x, n) == \E k \in Nat : x = n * k

(* Remainders modulo a multiple of t tell the ones modulo t.               *)
LEMMA ModMod ==
  ASSUME NEW x \in Nat, NEW t \in Nat \ {0}, NEW L \in Nat \ {0}, Multiple(L, t)
  PROVE  (x % L) % t = x % t
<1>0. PICK m \in Nat : L = t * m
  BY Zenon DEF Multiple
<1>1. PICK q \in Nat : \E r \in Nat : r = x % L /\ r < L /\ x = L * q + r
  BY Zenon, DivMod
<1>2. PICK r \in Nat : r = x % L /\ r < L /\ x = L * q + r
  BY Zenon, <1>1
<1>3. PICK p \in Nat : \E u \in Nat : u = r % t /\ u < t /\ r = t * p + u
  BY Zenon, DivMod
<1>4. PICK u \in Nat : u = r % t /\ u < t /\ r = t * p + u
  BY Zenon, <1>3
<1>5. x = t * (m * q + p) + u /\ m * q + p \in Nat
  <2>1. x = L * q + r /\ r = t * p + u
    BY Zenon, <1>2, <1>4
  <2> QED
    BY ONLY <1>0, <2>1
<1>6. (t * (m * q + p) + u) % t = u
  BY Zenon, <1>4, <1>5, ModIs
<1> QED
  BY Zenon, <1>2, <1>4, <1>5, <1>6

(* g divides both.                                                         *)
Common(g, a, b) == g \in Nat \ {0} /\ Multiple(a, g) /\ Multiple(b, g)

(* One round of the loop keeps the divisors.                               *)
LEMMA CommonStep ==
  ASSUME NEW a \in Nat, NEW b \in Nat \ {0}, NEW g, Common(g, b, a % b)
  PROVE  Common(g, a, b)
<1>1. PICK k \in Nat : b = g * k
  BY Zenon DEF Common, Multiple
<1>2. PICK l \in Nat : a % b = g * l
  BY Zenon DEF Common, Multiple
<1>3. PICK q \in Nat : \E r \in Nat : r = a % b /\ r < b /\ a = b * q + r
  BY Zenon, DivMod
<1>4. g \in Nat \ {0}
  BY Zenon DEF Common
<1>5. a = g * (k * q + l) /\ k * q + l \in Nat
  <2>1. PICK r \in Nat : r = g * l /\ a = b * q + r
    BY Zenon, <1>2, <1>3
  <2> QED
    BY ONLY <1>1, <1>4, <2>1
<1> QED
  BY Zenon, <1>1, <1>4, <1>5 DEF Common, Multiple
----------------------------------------------------------------------------
(* f is the loop of GCD on pairs whose second number is at most n.         *)
IsEuclid(f, n) ==
  f = [p \in (1..MaxShards) \X (0..n) |->
         IF p[2] = 0 THEN p[1] ELSE f[<<p[2], p[1] % p[2]>>]]

(* The loop ends: were there numbers it does not end for, there would be a *)
(* least one, and its remainder is less.                                   *)
LEMMA EuclidExists == \E f : IsEuclid(f, MaxShards)
<1> DEFINE T == {n \in 0..MaxShards : ~ \E f : IsEuclid(f, n)}
<1> USE MappingAssumption
<1> SUFFICES ASSUME MaxShards \in T PROVE FALSE
  BY SMT
<1>1. PICK m \in T : \A y \in T : m <= y
  <2>1. T \subseteq 0..MaxShards /\ T # {}
    BY Zenon
  <2> HIDE DEF T
  <2>2. T \subseteq Nat
    BY <2>1
  <2> QED
    BY Zenon, <2>1, <2>2, LeastExists
<1>2. m \in 0..MaxShards /\ ~ \E f : IsEuclid(f, m)
  BY Zenon
<1>3. m # 0
  <2> DEFINE f == [p \in (1..MaxShards) \X (0..0) |-> p[1]]
  <2>1. \A p \in (1..MaxShards) \X (0..0) : p[2] = 0
    BY SMT
  <2>2. IsEuclid(f, 0)
    BY Zenon, <2>1 DEF IsEuclid
  <2> QED
    BY Zenon, <1>2, <2>2
<1>4. m - 1 \in 0..MaxShards /\ ~ (m <= m - 1)
  BY <1>2, <1>3
<1>5. PICK g : IsEuclid(g, m - 1)
  BY Zenon, <1>1, <1>4
<1> DEFINE next(p) == <<p[2], p[1] % p[2]>>
           small == (1..MaxShards) \X (0..(m - 1))
           large == (1..MaxShards) \X (0..m)
           f == [p \in large |-> IF p[2] = 0 THEN p[1] ELSE g[next(p)]]
<1>6. ASSUME NEW p \in large, p[2] # 0 PROVE next(p) \in small
  <2>1. p[1] \in Nat /\ p[2] \in 1..m /\ p[2] \in 1..MaxShards
    BY <1>2, <1>6
  <2>2. p[1] % p[2] \in 0..(m - 1)
    BY <1>2, <2>1
  <2> QED
    BY Zenon, <2>1, <2>2
<1>7. small \subseteq large
  BY <1>2
<1>8. ASSUME NEW p \in small PROVE f[p] = g[p]
  <2>1. g[p] = IF p[2] = 0 THEN p[1] ELSE g[next(p)]
    BY Zenon, <1>5 DEF IsEuclid
  <2> QED
    BY Zenon, <1>7, <2>1
<1>9. ASSUME NEW p \in large
      PROVE  f[p] = IF p[2] = 0 THEN p[1] ELSE f[next(p)]
  BY Zenon, <1>6, <1>8
<1>10. IsEuclid(f, m)
  BY Zenon, <1>9 DEF IsEuclid
<1> QED
  BY Zenon, <1>2, <1>10

(* So euclid goes round as its definition says.                            *)
LEMMA EuclidIs == IsEuclid(euclid, MaxShards)
<1>1. euclid = CHOOSE f : IsEuclid(f, MaxShards)
  BY Zenon DEF euclid, IsEuclid
<1> QED
  BY Zenon, <1>1, EuclidExists

(* What the loop ends with divides both numbers.                           *)
LEMMA EuclidCommon ==
  ASSUME NEW a \in 1..MaxShards, NEW b \in 0..MaxShards
  PROVE  Common(euclid[<<a, b>>], a, b)
<1> DEFINE T == {n \in 0..MaxShards :
                   ~ \A x \in 1..MaxShards : Common(euclid[<<x, n>>], x, n)}
<1> USE MappingAssumption
<1> SUFFICES ASSUME T # {} PROVE FALSE
  BY Zenon
<1>1. PICK m \in T : \A y \in T : m <= y
  <2>1. T \subseteq Nat
    BY SMT
  <2> HIDE DEF T
  <2> QED
    BY Zenon, <2>1, LeastExists
<1>2. m \in 0..MaxShards
  BY Zenon
<1>3. PICK x \in 1..MaxShards : ~ Common(euclid[<<x, m>>], x, m)
  BY Zenon
<1>4. euclid[<<x, m>>] = IF m = 0 THEN x ELSE euclid[<<m, x % m>>]
  <2>1. <<x, m>> \in (1..MaxShards) \X (0..MaxShards)
    BY Zenon, <1>2
  <2> QED
    BY Zenon, <2>1, EuclidIs DEF IsEuclid
<1>5. CASE m = 0
  <2>1. euclid[<<x, m>>] = x /\ x \in Nat \ {0}
    BY <1>4, <1>5
  <2>2. x = x * 1 /\ 0 = x * 0
    BY <2>1
  <2>3. Common(x, x, 0)
    BY Zenon, <2>1, <2>2 DEF Common, Multiple
  <2> QED
    BY Zenon, <1>3, <1>5, <2>1, <2>3
<1>6. CASE m # 0
  <2>1. /\ x \in Nat /\ m \in Nat \ {0} /\ m \in 1..MaxShards
        /\ x % m \in 0..MaxShards /\ ~ (m <= x % m)
    BY <1>2, <1>6
  <2>2. Common(euclid[<<m, x % m>>], m, x % m)
    BY Zenon, <1>1, <2>1
  <2>3. Common(euclid[<<m, x % m>>], x, m)
    BY Zenon, <2>1, <2>2, CommonStep
  <2> QED
    BY Zenon, <1>3, <1>4, <1>6, <2>3
<1> QED
  BY Zenon, <1>5, <1>6

(* An int32 that is not exceeded is left as it is.                         *)
LEMMA Int32Is == ASSUME NEW x \in Nat, x < Half PROVE Int32(x) = x
<1>1. Half \in Nat \ {0} /\ 2 * Half \in Nat \ {0} /\ x + Half \in Nat /\ x + Half < 2 * Half
  BY MappingAssumption
<1>2. (x + Half) % (2 * Half) = x + Half
  <2>1. (2 * Half) * 0 + (x + Half) = x + Half
    BY <1>1
  <2> QED
    BY Zenon, <1>1, <2>1, ModIs
<1> QED
  BY <1>1, <1>2 DEF Int32

(* LCM is a multiple of both counts, if their product is an int32.         *)
LEMMA LCMMultiple ==
  ASSUME NEW a \in 1..MaxShards, NEW b \in 1..MaxShards, a * b < Half
  PROVE  LCM(a, b) \in Nat \ {0} /\ Multiple(LCM(a, b), a) /\ Multiple(LCM(a, b), b)
<1> DEFINE g == GCD(a, b)
<1>0. a \in Nat \ {0} /\ b \in Nat \ {0} /\ a * b \in Nat \ {0}
      /\ a \in 0..MaxShards /\ b \in 0..MaxShards
  BY MappingAssumption
<1>1. Common(g, a, b)
  <2>1. Common(euclid[<<a, b>>], a, b) /\ Common(euclid[<<b, a>>], b, a)
    BY Zenon, <1>0, EuclidCommon
  <2> QED
    BY Zenon, <2>1 DEF GCD, Common
<1>2. g \in Nat \ {0}
  BY Zenon, <1>1 DEF Common
<1>3. PICK i \in Nat : a = g * i
  BY Zenon, <1>1 DEF Common, Multiple
<1>4. PICK j \in Nat : b = g * j
  BY Zenon, <1>1 DEF Common, Multiple
<1> HIDE DEF g
<1>5. i # 0 /\ j # 0 /\ a * j \in Nat \ {0} /\ a * j = b * i /\ a * b = g * (a * j) + 0
  BY ONLY <1>0, <1>2, <1>3, <1>4
<1>6. (g * (a * j) + 0) \div g = a * j
  <2>1. 0 < g /\ a * j \in Nat /\ 0 \in Nat
    BY <1>2, <1>5
  <2> QED
    BY Zenon, <1>2, <2>1, ModIs
<1>7. LCM(a, b) = a * j
  <2>1. Int32(a * b) = a * b /\ a * b >= 0
    BY <1>0, Int32Is
  <2>2. Quotient(a * b, g) = (a * b) \div g
    BY Zenon, <2>1 DEF Quotient
  <2>3. LCM(a, b) = Quotient(a * b, g)
    BY Zenon, <2>1 DEF LCM, g
  <2> QED
    BY Zenon, <1>5, <1>6, <2>2, <2>3
<1> QED
  BY Zenon, <1>5, <1>7 DEF Multiple
(* A shard of t shards is its remainder, except that the last one has 0.   *)
LEMMA ShardMod ==
  ASSUME NEW t \in Nat \ {0}, NEW w \in 1..t
  PROVE  w % t = IF w = t THEN 0 ELSE w
<1>1. CASE w = t
  <2>1. t * 1 + 0 = w /\ 0 < t
    BY <1>1
  <2>2. (t * 1 + 0) % t = 0
    BY Zenon, <2>1, ModIs
  <2> QED
    BY Zenon, <1>1, <2>1, <2>2
<1>2. CASE w # t
  <2>1. t * 0 + w = w /\ w < t /\ w \in Nat
    BY <1>2
  <2>2. (t * 0 + w) % t = w
    BY Zenon, <2>1, ModIs
  <2> QED
    BY Zenon, <1>2, <2>1, <2>2
<1> QED
  BY Zenon, <1>1, <1>2

(* The shard of t that a shard of a multiple of t is part of: MapShardID   *)
(* has that one only.                                                      *)
LEMMA MapToDivisor ==
  ASSUME NEW t \in Nat \ {0}, NEW L \in Nat \ {0}, Multiple(L, t), NEW i \in Nat
  PROVE  \E w \in 1..t : w % t = i % t /\ MapShardID(L, t, i) = {w}
<1>1. PICK m \in Nat : L = t * m
  BY Zenon DEF Multiple
<1>2. L % t = 0
  <2>1. t * m + 0 = L /\ 0 < t
    BY <1>1
  <2>2. (t * m + 0) % t = 0
    BY Zenon, <2>1, ModIs
  <2> QED
    BY Zenon, <2>1, <2>2
<1>3. ASSUME t % L = 0 PROVE L = t
  <2>1. PICK q \in Nat : \E r \in Nat : r = t % L /\ r < L /\ t = L * q + r
    BY Zenon, DivMod
  <2>2. t = L * q + 0
    BY Zenon, <1>3, <2>1
  <2>3. m >= 1 /\ q >= 1
    BY <1>1, <2>2
  <2>4. L >= t /\ t >= L
    BY ONLY <1>1, <2>2, <2>3, t \in Nat, L \in Nat, m \in Nat, q \in Nat
  <2> QED
    BY <2>4
<1>4. MapShardID(L, t, i) = {k \in 1..t : k % t = i % t}
  <2>1. t > 0 /\ L > 0
    BY SMT
  <2>2. CASE t % L = 0
    BY Zenon, <1>3, <2>1, <2>2 DEF MapShardID, Divides
  <2>3. CASE t % L # 0
    BY Zenon, <1>2, <2>1, <2>3 DEF MapShardID, Divides
  <2> QED
    BY Zenon, <2>2, <2>3
<1>5. i % t \in Nat /\ i % t < t
  BY SMT
<1>6. PICK w \in 1..t : w % t = i % t
  <2>1. CASE i % t = 0
    <3>1. t \in 1..t
      BY SMT
    <3> QED
      BY Zenon, <2>1, <3>1, ShardMod
  <2>2. CASE i % t # 0
    <3>1. i % t \in 1..t /\ i % t # t
      BY <1>5, <2>2
    <3> QED
      BY Zenon, <3>1, ShardMod
  <2> QED
    BY Zenon, <2>1, <2>2
<1>7. ASSUME NEW k \in 1..t, k % t = i % t PROVE k = w
  <2>1. (k % t = IF k = t THEN 0 ELSE k) /\ (w % t = IF w = t THEN 0 ELSE w)
    BY Zenon, ShardMod
  <2>2. k # 0 /\ w # 0
    BY SMT
  <2> QED
    BY Zenon, <1>6, <1>7, <2>1, <2>2
<1> QED
  BY Zenon, <1>4, <1>6, <1>7

(* A workflow in shard i of a multiple of t shards is in the shard of t    *)
(* that i is part of.                                                      *)
LEMMA InThePart ==
  ASSUME NEW x \in Nat, NEW t \in Nat \ {0}, NEW L \in Nat \ {0}, Multiple(L, t),
         NEW w \in 1..t, w % t = ((x % L) + 1) % t
  PROVE  (x % t) + 1 = w
<1>0. x % L \in Nat
  BY SMT
<1>1. PICK p \in Nat : \E u \in Nat : u = (x % L) % t /\ u < t /\ x % L = t * p + u
  BY Zenon, <1>0, DivMod
<1>2. PICK u \in Nat : u = (x % L) % t /\ u < t /\ x % L = t * p + u
  BY Zenon, <1>1
<1>3. u = x % t
  BY Zenon, <1>2, ModMod
<1>4. w % t = (t * p + u + 1) % t
  BY Zenon, <1>2
<1>5. (w % t = IF w = t THEN 0 ELSE w) /\ w # 0
  <2>1. w # 0
    BY SMT
  <2> QED
    BY Zenon, <2>1, ShardMod
<1>6. u + 1 = w
  <2>1. CASE u + 1 = t
    <3>1. t * p + u + 1 = t * (p + 1) + 0 /\ p + 1 \in Nat /\ 0 < t
      BY <2>1
    <3>2. (t * (p + 1) + 0) % t = 0
      BY Zenon, <3>1, ModIs
    <3> QED
      BY Zenon, <1>4, <1>5, <2>1, <3>1, <3>2
  <2>2. CASE u + 1 # t
    <3>1. u < t /\ u \in Nat
      BY Zenon, <1>2
    <3>2. t * p + u + 1 = t * p + (u + 1) /\ u + 1 \in Nat /\ u + 1 < t /\ u + 1 # 0
      BY <2>2, <3>1
    <3>3. (t * p + (u + 1)) % t = u + 1
      BY Zenon, <3>2, ModIs
    <3> QED
      BY Zenon, <1>4, <1>5, <3>2, <3>3
  <2> QED
    BY Zenon, <2>1, <2>2
<1> QED
  BY Zenon, <1>3, <1>6
----------------------------------------------------------------------------
(* What the configuration can be.                                          *)
ShardCountConfigs ==
  [mode : {"default", "lcm", "routing"}, local : 1..MaxShards, remote : 1..MaxShards]

(* The stream was opened on the server, with shards it presented.          *)
OpenedOn(s) ==
  \E server \in 1..presented[s] :
    \E client \in MapShardID(presented[s], CallerCount(s), server) :
      stream = [on |-> s, opened |-> <<client, server>>,
                became |-> Handled(s, client, server)]

(* A caller that got a number of shards got the server's, and a stream is  *)
(* opened only when both have.                                             *)
MappingInv ==
  /\ shardCountConfig \in ShardCountConfigs
  /\ presented = [s \in Servers |-> presented[s]]
  /\ asIs = {} => \A s \in Servers : presented[s] \in {0, HistoryShardCount(s)}
  /\ \/ stream = NoStream
     \/ /\ \A s \in Servers : presented[s] # 0
        /\ \E s \in Servers : OpenedOn(s)

(* The operators follow the configuration.                                 *)
LEMMA SameConfig ==
  ASSUME shardCountConfig' = shardCountConfig
  PROVE  \A s \in Servers : /\ CallerCount(s)' = CallerCount(s)
                            /\ HistoryShardCount(s)' = HistoryShardCount(s)
                            /\ \A client, server :
                                 Handled(s, client, server)' = Handled(s, client, server)
<1>0. LocalShardCount' = LocalShardCount /\ RemoteShardCount' = RemoteShardCount
  BY Zenon DEF LocalShardCount, RemoteShardCount
<1>1. \A s \in Servers : CallerCount(s)' = CallerCount(s)
  BY Zenon, <1>0 DEF CallerCount
<1>2. \A s \in Servers : lcmParameters(s)' = lcmParameters(s)
  BY Zenon, <1>0 DEF lcmParameters, getLCMParameters
<1>3. \A s \in Servers : routingParameters(s)' = routingParameters(s)
  BY Zenon, <1>0 DEF routingParameters, getRoutingParameters
<1>4. \A s \in Servers : \A server : handleLCM(s, server)' = handleLCM(s, server)
  BY Zenon, <1>2 DEF handleLCM
<1>5. \A s \in Servers : HistoryShardCount(s)' = HistoryShardCount(s)
  <2>1. \A s \in Servers : Other(s) \in Servers
    BY Zenon DEF Servers, Other
  <2> QED
    BY Zenon, <1>1, <1>2, <1>3, <2>1 DEF HistoryShardCount, TargetCount
<1>6. \A s \in Servers : \A client, server :
        Handled(s, client, server)' = Handled(s, client, server)
  BY Zenon, <1>3, <1>4 DEF Handled, handleRouting
<1> QED
  BY Zenon, <1>1, <1>5, <1>6

(* MappingInv is inductive.                                                *)
LEMMA MappingInductive == MappingSpec => []MappingInv
<1>1. MappingInit => MappingInv
  <2> SUFFICES ASSUME MappingInit PROVE MappingInv
    OBVIOUS
  <2>1. \A s \in Servers : presented[s] = 0
    BY Zenon DEF MappingInit
  <2> QED
    BY Zenon, <2>1 DEF MappingInit, MappingInv, ShardCountConfigs
<1>2. ASSUME MappingInv, MappingNext PROVE MappingInv'
  <2>0. PICK s \in Servers : DescribeCluster(s) \/ handleStream(s)
    BY Zenon, <1>2 DEF MappingNext
  <2>1. shardCountConfig' = shardCountConfig
    BY Zenon, <2>0 DEF DescribeCluster, handleStream
  <2>2. \A t \in Servers : HistoryShardCount(t)' = HistoryShardCount(t)
    BY Zenon, <2>1, SameConfig
  <2>3. CASE DescribeCluster(s)
    <3>1. stream = NoStream /\ stream' = stream
      BY Zenon, <1>2, <2>3 DEF MappingInv, DescribeCluster
    <3>2. PICK n : presented' = [presented EXCEPT ![s] = n]
      BY Zenon, <2>3 DEF DescribeCluster
    <3>3. /\ presented' = [t \in Servers |-> presented'[t]]
          /\ \A t \in Servers : t # s => presented'[t] = presented[t]
      BY Zenon, <1>2, <3>2 DEF MappingInv
    <3>4. ASSUME asIs' = {} PROVE \A t \in Servers : presented'[t] \in {0, HistoryShardCount(t)'}
      <4>1. /\ asIs = {}
            /\ presented' = [presented EXCEPT ![s] = HistoryShardCount(s)]
        BY Zenon, <2>3, <3>4 DEF DescribeCluster
      <4>2. presented'[s] = HistoryShardCount(s)
        BY Zenon, <1>2, <4>1 DEF MappingInv
      <4> QED
        BY Zenon, <1>2, <2>2, <3>3, <4>1, <4>2 DEF MappingInv
    <3> QED
      BY Zenon, <1>2, <2>1, <3>1, <3>3, <3>4 DEF MappingInv, NoStream, ShardCountConfigs
  <2>4. CASE handleStream(s)
    <3>1. /\ presented' = presented /\ asIs' = asIs
          /\ \A t \in Servers : presented[t] # 0
      BY Zenon, <2>4 DEF handleStream
    <3>2. PICK server \in 1..presented[s] :
            \E client \in MapShardID(presented[s], CallerCount(s), server) :
              stream' = [on |-> s, opened |-> <<client, server>>,
                         became |-> Handled(s, client, server)]
      BY Zenon, <2>4 DEF handleStream
    <3>3. PICK client \in MapShardID(presented[s], CallerCount(s), server) :
              stream' = [on |-> s, opened |-> <<client, server>>,
                         became |-> Handled(s, client, server)]
      BY Zenon, <3>2
    <3>4. CallerCount(s)' = CallerCount(s)
      BY Zenon, <2>1, SameConfig
    <3>5. Handled(s, client, server)' = Handled(s, client, server)
      BY Zenon, <2>1, SameConfig
    <3>6. OpenedOn(s)'
      BY Zenon, <3>1, <3>3, <3>4, <3>5 DEF OpenedOn
    <3> QED
      BY Zenon, <1>2, <2>1, <2>2, <3>1, <3>6 DEF MappingInv, ShardCountConfigs
  <2> QED
    BY Zenon, <2>0, <2>3, <2>4
<1>3. ASSUME MappingInv, UNCHANGED mappingVars PROVE MappingInv'
  <2>1. UNCHANGED <<shardCountConfig, presented, asIs, stream>>
    BY Zenon, <1>3 DEF mappingVars
  <2>2. \A s \in Servers : OpenedOn(s)' = OpenedOn(s)
    BY Zenon, <2>1, SameConfig DEF OpenedOn
  <2> QED
    BY Zenon, <1>3, <2>1, <2>2, SameConfig DEF MappingInv, ShardCountConfigs, NoStream
<1> QED
  BY <1>1, <1>2, <1>3, PTL DEF MappingSpec

(* The counts in the terms of a server, and its parameters.                *)
LEMMA ServerCounts ==
  ASSUME shardCountConfig \in ShardCountConfigs, NEW s \in Servers
  PROVE  /\ Other(s) \in Servers
         /\ CallerCount(s) \in 1..MaxShards
         /\ TargetCount(s) \in 1..MaxShards
         /\ TargetCount(Other(s)) = CallerCount(s)
         /\ lcmParameters(s) = [LCM |-> LCM(LocalShardCount, RemoteShardCount),
                                TargetShardCount |-> TargetCount(s)]
         /\ routingParameters(s) = [OverrideShardCount |-> CallerCount(s),
                                    RoutingLocalShardCount |-> TargetCount(s)]
<1>1. LocalShardCount \in 1..MaxShards /\ RemoteShardCount \in 1..MaxShards
  BY DEF ShardCountConfigs, LocalShardCount, RemoteShardCount
<1>2. "inbound" # "outbound"
  OBVIOUS
<1>3. CASE s = "inbound"
  BY Zenon, <1>1, <1>2, <1>3 DEF Servers, Other, CallerCount, TargetCount, lcmParameters,
     getLCMParameters, routingParameters, getRoutingParameters
<1>4. CASE s = "outbound"
  BY Zenon, <1>1, <1>2, <1>4 DEF Servers, Other, CallerCount, TargetCount, lcmParameters,
     getLCMParameters, routingParameters, getRoutingParameters
<1> QED
  BY Zenon, <1>3, <1>4 DEF Servers

(* What a server presents, in each mode; in "lcm" a multiple of both       *)
(* counts.                                                                 *)
LEMMA Presents ==
  ASSUME shardCountConfig \in ShardCountConfigs, NEW s \in Servers
  PROVE  /\ shardCountConfig.mode = "default" => HistoryShardCount(s) = TargetCount(s)
         /\ shardCountConfig.mode = "routing" => HistoryShardCount(s) = CallerCount(s)
         /\ shardCountConfig.mode = "lcm" /\ Fits =>
              /\ HistoryShardCount(s) = LCM(LocalShardCount, RemoteShardCount)
              /\ HistoryShardCount(s) \in Nat \ {0}
              /\ Multiple(HistoryShardCount(s), CallerCount(s))
              /\ Multiple(HistoryShardCount(s), TargetCount(s))
<1>0. "default" # "lcm" /\ "default" # "routing" /\ "lcm" # "routing"
  OBVIOUS
<1>1. LocalShardCount \in 1..MaxShards /\ RemoteShardCount \in 1..MaxShards
  BY DEF ShardCountConfigs, LocalShardCount, RemoteShardCount
<1>2. shardCountConfig.mode = "default" => HistoryShardCount(s) = TargetCount(s)
  BY Zenon, <1>0 DEF HistoryShardCount
<1>3. shardCountConfig.mode = "routing" => HistoryShardCount(s) = CallerCount(s)
  <2>1. routingParameters(s).OverrideShardCount = CallerCount(s)
    BY ServerCounts
  <2>2. CallerCount(s) > 0
    BY ServerCounts
  <2> QED
    BY Zenon, <1>0, <2>1, <2>2 DEF HistoryShardCount
<1>4. ASSUME shardCountConfig.mode = "lcm", Fits
      PROVE  /\ HistoryShardCount(s) = LCM(LocalShardCount, RemoteShardCount)
             /\ HistoryShardCount(s) \in Nat \ {0}
             /\ Multiple(HistoryShardCount(s), CallerCount(s))
             /\ Multiple(HistoryShardCount(s), TargetCount(s))
  <2>1. lcmParameters(s).LCM = LCM(LocalShardCount, RemoteShardCount)
    BY ServerCounts
  <2>2. HistoryShardCount(s) = LCM(LocalShardCount, RemoteShardCount)
    BY Zenon, <1>0, <1>4, <2>1 DEF HistoryShardCount
  <2>3. \A n \in {LocalShardCount, RemoteShardCount} : Multiple(HistoryShardCount(s), n)
    BY Zenon, <1>1, <1>4, <2>2, LCMMultiple DEF Fits
  <2>4. HistoryShardCount(s) \in Nat \ {0}
    BY Zenon, <1>1, <1>4, <2>2, LCMMultiple DEF Fits
  <2>5. \A t \in Servers : CallerCount(t) \in {LocalShardCount, RemoteShardCount}
    BY Zenon DEF CallerCount
  <2> QED
    BY Zenon, <2>2, <2>3, <2>4, <2>5, ServerCounts DEF TargetCount
<1> QED
  BY Zenon, <1>2, <1>3, <1>4

(* A stream of "lcm" is remapped without a panic, to the workflows it was  *)
(* opened for: both are all of the presented shard.                        *)
LEMMA RemappedRight ==
  ASSUME shardCountConfig \in ShardCountConfigs, shardCountConfig.mode = "lcm", Fits,
         NEW s \in Servers, NEW server \in 1..HistoryShardCount(s),
         NEW client \in MapShardID(HistoryShardCount(s), CallerCount(s), server)
  PROVE  \E w : /\ Handled(s, client, server) = Forward(server, w)
                /\ InBoth(server, HistoryShardCount(s), w, TargetCount(s))
                     = InBoth(client, CallerCount(s), server, HistoryShardCount(s))
<1> DEFINE L == HistoryShardCount(s)
           C == CallerCount(s)
           T == TargetCount(s)
<1>1. L \in Nat \ {0} /\ Multiple(L, C) /\ Multiple(L, T)
  BY Zenon, Presents
<1>2. /\ C \in 1..MaxShards /\ T \in 1..MaxShards
      /\ lcmParameters(s) = [LCM |-> L, TargetShardCount |-> T]
  BY Zenon, ServerCounts, Presents
<1>3. Hashes \subseteq Nat
  <2>1. LocalShardCount * RemoteShardCount \in Nat
    BY DEF ShardCountConfigs, LocalShardCount, RemoteShardCount
  <2> QED
    BY <2>1 DEF Hashes
<1> HIDE DEF L, C, T
<1>4. C \in Nat \ {0} /\ T \in Nat \ {0}
  BY <1>2
<1>5. server \in Nat
  BY <1>1 DEF L
<1>6. \A n \in Nat \ {0} : Multiple(L, n) =>
        \E w \in 1..n : w % n = server % n /\ MapShardID(L, n, server) = {w}
  <2>1. \A n \in Nat \ {0} : \A l \in Nat \ {0} : Multiple(l, n) =>
          \A i \in Nat : \E w \in 1..n : w % n = i % n /\ MapShardID(l, n, i) = {w}
    BY Zenon, MapToDivisor
  <2>2. L \in Nat \ {0}
    BY Zenon, <1>1
  <2>3. \A n \in Nat \ {0} : Multiple(L, n) =>
          \A i \in Nat : \E w \in 1..n : w % n = i % n /\ MapShardID(L, n, i) = {w}
    BY Zenon, <2>1, <2>2
  <2> QED
    BY Zenon, <1>5, <2>3
<1>7. PICK w \in 1..T : w % T = server % T /\ MapShardID(L, T, server) = {w}
  BY Zenon, <1>1, <1>4, <1>6
<1>8. client \in 1..C /\ client % C = server % C
  <2>1. PICK v \in 1..C : v % C = server % C /\ MapShardID(L, C, server) = {v}
    BY Zenon, <1>1, <1>4, <1>6
  <2>2. client = v
    BY Zenon, <2>1 DEF L, C
  <2> QED
    BY Zenon, <2>1, <2>2
<1>9. Handled(s, client, server) = Forward(server, w)
  <2>1. mapShardIDUnique(L, T, server) = w
    <3>1. Cardinality({w}) = 1
      BY Zenon, FS_Singleton
    <3> QED
      BY Zenon, <1>7, <3>1 DEF mapShardIDUnique
  <2>2. w # 0
    BY <1>4
  <2>3. lcmParameters(s).LCM = L /\ lcmParameters(s).TargetShardCount = T
    BY <1>2
  <2>4. handleLCM(s, server) = Forward(server, w)
    BY Zenon, <2>1, <2>2, <2>3 DEF handleLCM
  <2>5. "default" # "lcm" /\ "lcm" # "routing"
    OBVIOUS
  <2> QED
    BY Zenon, <2>4, <2>5 DEF Handled
<1>10. ASSUME NEW x \in Hashes, (x % L) + 1 = server
      PROVE  (x % T) + 1 = w /\ (x % C) + 1 = client
  <2>1. x \in Nat
    BY Zenon, <1>3
  <2>2. (x % T) + 1 = w
    BY Zenon, <1>1, <1>4, <1>7, <1>10, <2>1, InThePart
  <2>3. (x % C) + 1 = client
    BY Zenon, <1>1, <1>4, <1>8, <1>10, <2>1, InThePart
  <2> QED
    BY Zenon, <2>2, <2>3
<1>11. InBoth(server, L, w, T) = InBoth(client, C, server, L)
  BY Zenon, <1>10 DEF InBoth
<1> QED
  BY Zenon, <1>9, <1>11 DEF L, C, T

(* RightWorkflows, for any two shard counts and in every mode: a stream    *)
(* that handleStream forwards carries the workflows it was opened for, its *)
(* remapping finds exactly one shard, a routed task goes to its workflow's *)
(* shard, and what DescribeCluster presents is a multiple of the caller's  *)
(* own count, unless a caller asked for the cluster's own.  It rests on    *)
(* what Euclid's loop computes (LCMMultiple).                              *)
THEOREM WorkflowsAreRight == MappingSpec => []RightWorkflows
<1>1. ASSUME MappingInv PROVE RightWorkflows
  <2> SUFFICES ASSUME Fits, asIs = {} PROVE RightWorkflows
    BY Zenon DEF RightWorkflows
  <2>0. shardCountConfig \in ShardCountConfigs
    BY Zenon, <1>1 DEF MappingInv
  <2>1. shardCountConfig.mode \in {"default", "lcm", "routing"}
    BY <2>0 DEF ShardCountConfigs
  <2> DEFINE Right(s, b, client, server) ==
        CASE b.outcome = "forward" ->
               InBoth(b.client, presented[Other(s)], b.server, TargetCount(s))
                 = InBoth(client, CallerCount(s), server, presented[s])
          [] b.outcome = "route" ->
               \A x \in Hashes : x % b.localShardCount = x % TargetCount(s)
          [] b.outcome = "panic" -> FALSE
  <2>2. ASSUME NEW s \in Servers, OpenedOn(s), \A t \in Servers : presented[t] # 0
        PROVE  Right(s, stream.became, stream.opened[1], stream.opened[2]) /\ stream.on = s
    <3>1. /\ presented[s] = HistoryShardCount(s) /\ Other(s) \in Servers
          /\ presented[Other(s)] = HistoryShardCount(Other(s))
          /\ TargetCount(Other(s)) = CallerCount(s)
      BY Zenon, <1>1, <2>0, <2>2, ServerCounts DEF MappingInv
    <3>2. PICK server \in 1..presented[s] :
            \E client \in MapShardID(presented[s], CallerCount(s), server) :
              stream = [on |-> s, opened |-> <<client, server>>,
                        became |-> Handled(s, client, server)]
      BY Zenon, <2>2 DEF OpenedOn
    <3>3. PICK client \in MapShardID(presented[s], CallerCount(s), server) :
              stream = [on |-> s, opened |-> <<client, server>>,
                        became |-> Handled(s, client, server)]
      BY Zenon, <3>2
    <3>4. /\ stream.on = s /\ stream.became = Handled(s, client, server)
          /\ stream.opened[1] = client /\ stream.opened[2] = server
      BY <3>3
    <3>5. "default" # "lcm" /\ "default" # "routing" /\ "lcm" # "routing"
          /\ "forward" # "route" /\ "forward" # "panic" /\ "route" # "panic"
      OBVIOUS
    <3>6. ASSUME NEW i, NEW j,
                 InBoth(i, presented[Other(s)], j, TargetCount(s))
                   = InBoth(client, CallerCount(s), server, presented[s])
          PROVE  Right(s, Forward(i, j), client, server)
      <4>1. PICK b : b = Forward(i, j)
        BY Zenon
      <4>2. b.outcome = "forward" /\ b.client = i /\ b.server = j
        BY <4>1 DEF Forward
      <4>3. Right(s, b, client, server)
        BY Zenon, <3>5, <3>6, <4>2
      <4> QED
        BY Zenon, <4>1, <4>3
    <3>7. ASSUME NEW b, b.outcome = "route", b.localShardCount = TargetCount(s)
          PROVE  Right(s, b, client, server)
      BY Zenon, <3>5, <3>7
    <3> HIDE DEF Right
    <3>8. CASE shardCountConfig.mode = "default"
      <4>1. Handled(s, client, server) = Forward(client, server)
        BY Zenon, <3>5, <3>8 DEF Handled
      <4>2. presented[s] = TargetCount(s) /\ presented[Other(s)] = CallerCount(s)
        BY Zenon, <2>0, <3>1, <3>8, Presents
      <4>3. Right(s, Handled(s, client, server), client, server)
        BY Zenon, <3>6, <4>1, <4>2
      <4> QED
        BY Zenon, <3>4, <4>3
    <3>9. CASE shardCountConfig.mode = "routing"
      <4>1. Handled(s, client, server) = handleRouting(s, client)
        BY Zenon, <3>5, <3>9 DEF Handled
      <4>2. routingParameters(s).RoutingLocalShardCount = TargetCount(s)
        BY <2>0, ServerCounts
      <4>3. /\ handleRouting(s, client).outcome = "route"
            /\ handleRouting(s, client).localShardCount = TargetCount(s)
        BY <4>2 DEF handleRouting
      <4>4. Right(s, Handled(s, client, server), client, server)
        BY Zenon, <3>7, <4>1, <4>3
      <4> QED
        BY Zenon, <3>4, <4>4
    <3>10. CASE shardCountConfig.mode = "lcm"
      <4>1. presented[Other(s)] = presented[s]
        BY Zenon, <2>0, <3>1, <3>10, Presents
      <4>2. PICK w : /\ Handled(s, client, server) = Forward(server, w)
                     /\ InBoth(server, presented[s], w, TargetCount(s))
                          = InBoth(client, CallerCount(s), server, presented[s])
        BY Zenon, <2>0, <3>1, <3>10, RemappedRight
      <4>3. Right(s, Handled(s, client, server), client, server)
        BY Zenon, <3>6, <4>1, <4>2
      <4> QED
        BY Zenon, <3>4, <4>3
    <3> QED
      BY Zenon, <2>1, <3>8, <3>9, <3>10
  <2>3. ASSUME NEW s \in Servers, shardCountConfig.mode # "default", presented[s] # 0
        PROVE  Divides(CallerCount(s), presented[s])
    <3>1. CallerCount(s) \in Nat \ {0} /\ presented[s] = HistoryShardCount(s)
      <4>1. CallerCount(s) \in 1..MaxShards
        BY Zenon, <2>0, ServerCounts
      <4>2. presented[s] = HistoryShardCount(s)
        BY Zenon, <1>1, <2>3 DEF MappingInv
      <4> QED
        BY <4>1, <4>2
    <3>2. presented[s] \in Nat \ {0} /\ Multiple(presented[s], CallerCount(s))
      <4>1. CASE shardCountConfig.mode = "lcm"
        BY Zenon, <2>0, <3>1, <4>1, Presents
      <4>2. CASE shardCountConfig.mode = "routing"
        <5>1. presented[s] = CallerCount(s)
          BY Zenon, <2>0, <3>1, <4>2, Presents
        <5>2. CallerCount(s) = CallerCount(s) * 1
          BY <3>1
        <5> QED
          BY Zenon, <3>1, <5>1, <5>2 DEF Multiple
      <4> QED
        BY Zenon, <2>1, <2>3, <4>1, <4>2
    <3>3. PICK k \in Nat : presented[s] = CallerCount(s) * k
      BY Zenon, <3>2 DEF Multiple
    <3>4. CallerCount(s) * k + 0 = presented[s] /\ 0 < CallerCount(s) /\ presented[s] > 0
          /\ CallerCount(s) > 0
      BY <3>1, <3>2, <3>3
    <3>5. (CallerCount(s) * k + 0) % CallerCount(s) = 0
      BY Zenon, <3>1, <3>4, ModIs
    <3> QED
      BY Zenon, <3>4, <3>5 DEF Divides
  <2>4. stream # NoStream => Right(stream.on, stream.became, stream.opened[1], stream.opened[2])
    BY Zenon, <1>1, <2>2 DEF MappingInv
  <2> QED
    BY Zenon, <2>3, <2>4 DEF RightWorkflows
<1> QED
  BY <1>1, MappingInductive, PTL
=============================================================================
