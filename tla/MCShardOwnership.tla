-------------------------- MODULE MCShardOwnership --------------------------
(***************************************************************************)
(* Model checking of ShardOwnership.  Ownership.cfg has two nodes, two     *)
(* shards of which one fits LocalState, and two streams, of one shard or   *)
(* of both; two snapshots from a node to another may overtake each other,  *)
(* and there is one fault.  OwnershipRace.cfg asks for what                *)
(* UnregisterShard's comment says.                                         *)
(***************************************************************************)
EXTENDS ShardOwnership

(* Nodes and shards are interchangeable: the first stream is on one node,  *)
(* of one shard.                                                           *)
KInit ==
  /\ nodeOf \in {f \in [Streams -> Nodes] : f[1] = CHOOSE n \in Nodes : TRUE}
  /\ shardOf \in {f \in [Streams -> Shards] : f[1] = CHOOSE s \in Shards : TRUE}
  /\ Init

KSpec == KInit /\ [][Next]_vars

KFairSpec == KSpec /\ Fairness
=============================================================================
