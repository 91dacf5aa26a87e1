SPECIFICATION Spec
CONSTANTS
  Sources = {s1}
  Targets = {t1}
  ChanCap = 1
  AckCap = 1
  MaxTask = 1
  MaxBatch = 1
  MaxEmpty = 1
  WireCap = 1
  MaxCloses = 1
INVARIANT SourceAckSafe
