SPECIFICATION KFairSpec
CONSTANTS
  MaxHandlers = 0
  MaxRefused = 0
  MaxForwarded = 0
  MaxShards = 1
  Width = 4
  MaxLinks = 0
  MaxRouted = 0
  MaxChannels = 0
  Callers = {c1}
  TTL = 1
  Timeout = 1
  MaxTime = 0
  MaxRenames = 1
  name1 = name1
  name2 = name2
  name3 = name3
  Names = {name1, name2, name3}
  MaxMappings = 0
  MaxRestarts = 0
  MaxExtensions = 0
  MaxConnections = 0
  MaxPolicies = 0
  MaxKeys = 0
CHECK_DEADLOCK FALSE
PROPERTY StopCompletes
