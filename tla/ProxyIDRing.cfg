SPECIFICATION Spec
CONSTANTS
  Shards = {s1, s2}
  NoShard = NoShard
  Tasks = {1, 2}
  InitialCapacity = 0
  MaxProxyID = 6
SYMMETRY ShardSymmetry
INVARIANTS
  ContiguousIDs
  AcksMatchDiscard
PROPERTY ImplementsWindow
