SPECIFICATION KnownSpec
CONSTANTS
  Targets = {t1}
  Sources = {s1}
  MaxStreams = 3
  MaxChanges = 1
  MaxBreaks = 1
INVARIANTS
  NoDeadStream
PROPERTY PairServed
