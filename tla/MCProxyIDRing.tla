--------------------------- MODULE MCProxyIDRing ---------------------------
(* Instances of ProxyIDRing for TLC.  Shards are interchangeable: every    *)
(* operator treats them alike, and no property names one.                  *)
EXTENDS ProxyIDRing, TLC

ShardSymmetry == Permutations(Shards)
=============================================================================
