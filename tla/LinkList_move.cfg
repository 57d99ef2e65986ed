SPECIFICATION ListMoveSpec
CONSTANTS
  NULL = NULL
  WILD = WILD
  ListNode = {n1, n2, n3, n4}
INVARIANTS ListLinked
