SPECIFICATION Spec
CONSTANTS
  Timer = {t1, t2, t3, t4, t5, t6}
  NULL = NULL
  Delay = {1, 2}
  InitAll = 8
  MaxSize = 0
  INT32_MAX = 5
  MaxTime = 0
SYMMETRY Symmetry
INVARIANTS IndexInverse HeapOrder
