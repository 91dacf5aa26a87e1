SPECIFICATION FairSpec
CONSTANTS
  MuxCount = 2
  MaxSessions = 4
  MaxBreaks = 2
  MaxFailures = 1
CHECK_DEADLOCK FALSE
INVARIANTS
  PermitsConserved
  ClientListCurrent
PROPERTIES
  ImplementsPool
  PoolFills
  ShutsDown
