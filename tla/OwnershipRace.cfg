SPECIFICATION Spec
CONSTANTS
  Nodes = {n1}
  Shards = {s1}
  MetaLimit = 1
  MaxStreams = 2
  MaxSnapshots = 0
  MaxFaults = 0
PROPERTY OldKeepsNew
CHECK_DEADLOCK FALSE
