SPECIFICATION MapServerSpec
CONSTANTS
  Key = {1, 2, 3, 4}
  Value = {1, 2}
  NULL = NULL
  Hash <- HashOfKeys
  Shifts = 2
  InitSize = 4
  MaxUse = 6
  Conn = {c1, c2}
  MaxBytes = 3
  SizeMod = 4
  FullReads = FALSE
INVARIANTS GrowsInTime StoredIsFound ReturnsWithRoom TotalIsBacklog WriterRegistered EchoComplete StatsBalance EchoInv
PROPERTIES DeletesReturn BacklogDrains
CHECK_DEADLOCK FALSE
