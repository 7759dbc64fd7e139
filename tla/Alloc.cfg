SPECIFICATION AllocatorSpec
CONSTANTS
  Writers = {w1, w2}
  Migrators = {m1}
  NrZones = 2
  Capacity = 2
  DevMaxOpen = 4
  DevMaxActive = 3
  Word = 32
  FinishThreshold = 100
  Lifetime <- MCLifetime
  Wal = {w1}
  Buffered = {w1}
  MaxAppend = 1
  MaxLost = 1
  MayFail = {"finish","close","reset"}
CHECK_DEADLOCK FALSE
INVARIANTS
  TokensCount
  UsedCountsExtents
  BusyHasOneOwner
  WakeUpComes
