SPECIFICATION KFairSpec
CONSTANTS
  Nodes = {n1, n2}
  Shards = {s1, s2}
  MetaLimit = 1
  MaxStreams = 2
  MaxSnapshots = 2
  MaxFaults = 1
CHECK_DEADLOCK FALSE
INVARIANTS
  TypeOK
  NewestChannel
  RegistrationHasStream
  TwoOwnersResolved
PROPERTY OwnersKnown
