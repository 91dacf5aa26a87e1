SPECIFICATION FairSpec
CONSTANTS
  Targets = {t1}
  Sources = {s1}
  MaxStreams = 3
  MaxChanges = 0
  MaxBreaks = 1
PROPERTY SenderRegistered
