SPECIFICATION KFairSpec
CONSTANTS
  MaxHandlers = 2
  MaxRefused = 1
  MaxForwarded = 2
  MaxShards = 8
  Width = 6
  MaxLinks = 2
  MaxRouted = 1
  MaxChannels = 2
  Callers = {c1, c2}
  TTL = 2
  Timeout = 2
  MaxTime = 5
  MaxRenames = 2
  name1 = name1
  name2 = name2
  name3 = name3
  Names = {name1, name2, name3}
  MaxMappings = 2
  MaxRestarts = 1
  MaxExtensions = 1
  MaxConnections = 1
  MaxPolicies = 2
  MaxKeys = 2
CHECK_DEADLOCK FALSE
INVARIANTS
  NoDeadEntries
  NewestGetsAcks
  NothingDropped
  ReasonReturned
  RightWorkflows
  MessagesAccounted
  AcksKeptOrStreamEnds
  TriesToJoin
  NamesReturn
  LocalNamesDecide
  NameFresh
  PeerHoldsSealed
  NothingStranded
  SomebodyCloses
PROPERTIES
  HandlerEnds
  ForwarderEnds
  AbandonedStreamEnds
  RetriesStop
  EverythingClosed
