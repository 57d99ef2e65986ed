SPECIFICATION FairSpec
CONSTANTS
  Timer = {t1, t2, t3}
  NULL = NULL
  Delay = {1, 2}
  InitAll = 1
  MaxSize = 1
  INT32_MAX = 1
  MaxTime = 3
INVARIANTS EarliestRuns NoAliasing PoolBounded IInv
PROPERTIES NoOversleep ImplementsService DueTimersRun
