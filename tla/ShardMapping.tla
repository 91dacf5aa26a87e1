---------------------------- MODULE ShardMapping ----------------------------
(***************************************************************************)
(* Two clusters with different numbers of history shards.  Each server of  *)
(* a cluster connection (src/proxy/cluster_connection.go) presents its     *)
(* caller a number of shards for the cluster behind it, in                 *)
(* DescribeCluster (src/proxy/adminservice.go).  The caller opens a        *)
(* replication stream for every pair of its shards and the presented ones  *)
(* that can share a workflow, and handleStream                             *)
(* (src/proxy/admin_stream_transfer.go) decides what becomes of it: it is  *)
(* forwarded with its shards as they are, forwarded with them remapped     *)
(* ("lcm"), or ended in this proxy ("routing").                            *)
(*                                                                         *)
(* The "outbound" server is called by the local cluster, the "inbound" one *)
(* by the remote.  A workflow is the hash of its ID: with n shards it is   *)
(* in shard hash % n + 1.  An int32 is an integer of Width bits.           *)
(***************************************************************************)
EXTENDS Integers, FiniteSets

CONSTANTS
  MaxShards,           \* bound: history shards of a cluster
  Width                \* bits of an int32

Half == 2^(Width - 1)  \* one more than the largest int32

ASSUME MappingAssumption ==
  /\ MaxShards \in Nat \ {0}
  /\ Width \in Nat \ {0}
  /\ Half \in Nat
  /\ MaxShards < Half

VARIABLES
  shardCountConfig,    \* the configured mode and shard counts
  presented,           \* server -> HistoryShardCount its caller got, 0 if none
  asIs,                \* servers that gave the response of the cluster as it is
  stream               \* a stream that was opened and what became of it

mappingVars == <<shardCountConfig, presented, asIs, stream>>

Servers  == {"inbound", "outbound"}
Other(s) == IF s = "inbound" THEN "outbound" ELSE "inbound"

LocalShardCount  == shardCountConfig.local
RemoteShardCount == shardCountConfig.remote

(* The shards of a server's caller and of the cluster behind it.           *)
CallerCount(s) == IF s = "outbound" THEN LocalShardCount ELSE RemoteShardCount
TargetCount(s) == CallerCount(Other(s))
----------------------------------------------------------------------------
Int32(x) == ((x + Half) % (2 * Half)) - Half

(* Go's division rounds towards zero; the divisor here is positive.        *)
Quotient(a, b) == IF a >= 0 THEN a \div b ELSE -((-a) \div b)

(* Euclid's algorithm, on positive counts: the loop from a pair <<a, b>>.  *)
euclid[p \in (1..MaxShards) \X (0..MaxShards)] ==
  IF p[2] = 0 THEN p[1] ELSE euclid[<<p[2], p[1] % p[2]>>]

GCD(a, b) == IF a > b THEN euclid[<<b, a>>] ELSE euclid[<<a, b>>]
LCM(a, b) == Quotient(Int32(a * b), GCD(a, b))

(* External: servercommon.MapShardID, the shards of t that share workflows *)
(* with a shard of s.  It panics, here {}, unless one count divides the    *)
(* other.                                                                  *)
Divides(a, b) == a > 0 /\ b > 0 /\ b % a = 0
MapShardID(s, t, id) ==
  CASE Divides(s, t) -> {k \in 1..t : k % s = id % s}
    [] Divides(t, s) -> {k \in 1..t : k % t = id % t}
    [] OTHER         -> {}

(* Mutant: the two servers' target counts are swapped.                     *)
LCMParametersSwapped(inverse) ==
  [LCM |-> LCM(LocalShardCount, RemoteShardCount),
   TargetShardCount |-> IF inverse THEN RemoteShardCount ELSE LocalShardCount]

(* getLCMParameters and getRoutingParameters, "inverse" for the inbound    *)
(* server.                                                                 *)
getLCMParameters(inverse) ==
  [LCM |-> LCM(LocalShardCount, RemoteShardCount),
   TargetShardCount |-> IF inverse THEN LocalShardCount ELSE RemoteShardCount]

getRoutingParameters(inverse) ==
  [OverrideShardCount |-> IF inverse THEN RemoteShardCount ELSE LocalShardCount,
   RoutingLocalShardCount |-> IF inverse THEN LocalShardCount ELSE RemoteShardCount]

lcmParameters(s)     == getLCMParameters(s = "inbound")
routingParameters(s) == getRoutingParameters(s = "inbound")
----------------------------------------------------------------------------
NoStream == [on |-> "none"]

MappingInit ==
  /\ shardCountConfig \in
       [mode : {"default", "lcm", "routing"}, local : 1..MaxShards, remote : 1..MaxShards]
  /\ presented = [s \in Servers |-> 0]
  /\ asIs = {}
  /\ stream = NoStream

(* The number of shards in a response that DescribeCluster rewrites.       *)
HistoryShardCount(s) ==
  CASE shardCountConfig.mode = "default" -> TargetCount(s)
    [] shardCountConfig.mode = "lcm"     -> lcmParameters(s).LCM
    [] shardCountConfig.mode = "routing" ->
         IF routingParameters(s).OverrideShardCount > 0
         THEN routingParameters(s).OverrideShardCount ELSE TargetCount(s)

(* The caller may disable the translation of its request                   *)
(* (IsRequestTranslationDisabled); it then gets the cluster's own count.   *)
DescribeCluster(s) ==
  /\ presented[s] = 0
  /\ \/ /\ presented' = [presented EXCEPT ![s] = HistoryShardCount(s)]
        /\ asIs' = asIs
     \/ /\ presented' = [presented EXCEPT ![s] = TargetCount(s)]
        /\ asIs' = asIs \cup {s}
  /\ UNCHANGED <<shardCountConfig, stream>>

(* What handleStream makes of a stream between the caller's shard client   *)
(* and the presented shard server.                                         *)
Forward(client, server) == [outcome |-> "forward", client |-> client, server |-> server]

(* Its panic is 0.                                                         *)
mapShardIDUnique(sourceShardCount, targetShardCount, sourceShardID) ==
  LET targetShardID == MapShardID(sourceShardCount, targetShardCount, sourceShardID)
  IN  IF Cardinality(targetShardID) # 1 THEN 0 ELSE CHOOSE k \in targetShardID : TRUE

handleLCM(s, server) ==
  LET p == lcmParameters(s)
      newSourceShardID == mapShardIDUnique(p.LCM, p.TargetShardCount, server)
  IN  IF newSourceShardID = 0 THEN [outcome |-> "panic"] ELSE Forward(server, newSourceShardID)

(* In "routing" a receiver reads the tasks of the caller's shard and sends *)
(* each to the shard its workflow has among localShardCount.               *)
handleRouting(s, client) ==
  [outcome |-> "route", source |-> client,
   localShardCount |-> routingParameters(s).RoutingLocalShardCount]

Handled(s, client, server) ==
  CASE shardCountConfig.mode = "default" -> Forward(client, server)
    [] shardCountConfig.mode = "lcm"     -> handleLCM(s, server)
    [] shardCountConfig.mode = "routing" -> handleRouting(s, client)

(* The caller opens a stream.  Both clusters know each other by then.  One *)
(* stream is looked at, any.                                               *)
handleStream(s) ==
  /\ stream = NoStream
  /\ \A t \in Servers : presented[t] # 0
  /\ \E server \in 1..presented[s] :
       \E client \in MapShardID(presented[s], CallerCount(s), server) :
         stream' = [on |-> s, opened |-> <<client, server>>,
                    became |-> Handled(s, client, server)]
  /\ UNCHANGED <<shardCountConfig, presented, asIs>>

MappingNext == \E s \in Servers : DescribeCluster(s) \/ handleStream(s)

MappingSpec == MappingInit /\ [][MappingNext]_mappingVars
----------------------------------------------------------------------------
Fits   == LocalShardCount * RemoteShardCount < Half
Hashes == 0..(LocalShardCount * RemoteShardCount - 1)

(* The workflows in shard i of m and in shard j of n.                      *)
InBoth(i, m, j, n) == {x \in Hashes : (x % m) + 1 = i /\ (x % n) + 1 = j}

(* handleStream's "remapping proxy stream shard ids to the target cluster  *)
(* shard ids": the workflows whose tasks the cluster behind the server     *)
(* sends on a forwarded stream, by the shards it is told and the number of *)
(* shards it was presented for the caller, are the ones the caller opened  *)
(* the stream for; and the remapping never panics.  A routed task goes to  *)
(* the shard its workflow has in the cluster that applies it.  And since   *)
(* "Temporal only supports shard counts where one shard count is an even   *)
(* multiple of the other", every caller is presented such a count, or it   *)
(* would open no stream at all.  All this needs the product of the counts  *)
(* to fit an int32, and clusters that did not ask for the other's own      *)
(* count.                                                                  *)
RightWorkflows ==
  Fits /\ asIs = {} =>
    /\ stream # NoStream =>
         LET s == stream.on
             b == stream.became
         IN  CASE b.outcome = "forward" ->
                    InBoth(b.client, presented[Other(s)], b.server, TargetCount(s))
                      = InBoth(stream.opened[1], CallerCount(s), stream.opened[2], presented[s])
               [] b.outcome = "route" ->
                    \A x \in Hashes : x % b.localShardCount = x % TargetCount(s)
               [] b.outcome = "panic" -> FALSE
    /\ shardCountConfig.mode # "default" =>
         \A s \in Servers : presented[s] # 0 => Divides(CallerCount(s), presented[s])
=============================================================================
