SPECIFICATION Spec
CONSTANTS
  Sources = {s1}
  Targets = {t1, t2}
  ChanCap = 1
  AckCap = 1
  MaxTask = 2
  MaxBatch = 2
  MaxEmpty = 1
  WireCap = 1
  MaxCloses = 0
SYMMETRY TargetSymmetry
PROPERTIES
  ReportedTargetsSafe
  SourceAckMonotone
