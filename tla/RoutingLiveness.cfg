SPECIFICATION KSpec
CONSTANTS
  Sources = {s1}
  Targets = {t1}
  ChanCap = 1
  AckCap = 1
  MaxTask = 2
  MaxBatch = 2
  MaxEmpty = 2
  WireCap = 1
  MaxCloses = 1
PROPERTY WatermarkAcked
