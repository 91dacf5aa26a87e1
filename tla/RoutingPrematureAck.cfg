SPECIFICATION Spec
CONSTANTS
  Sources = {s1}
  Targets = {t1, t2}
  ChanCap = 1
  AckCap = 1
  MaxTask = 2
  MaxBatch = 2
  MaxEmpty = 0
  WireCap = 1
  MaxCloses = 0
INVARIANT SourceAckSafe
CHECK_DEADLOCK FALSE
