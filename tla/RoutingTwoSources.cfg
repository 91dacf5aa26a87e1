SPECIFICATION Spec
CONSTANTS
  Sources = {s1, s2}
  Targets = {t1}
  ChanCap = 2
  AckCap = 1
  MaxTask = 1
  MaxBatch = 1
  MaxEmpty = 1
  WireCap = 1
  MaxCloses = 1
SYMMETRY SourceSymmetry
INVARIANTS
  TypeOK
  TargetAckSafe
PROPERTIES
  DiscardOnlyAcked
