SPECIFICATION LibrarySpec
CONSTANTS
  NULL = NULL
  WILD = WILD
  Key = {1, 2, 3}
  Value = {v1, v2}
  MAXLEVEL = 3
  ListNode = {n1, n2, n3, n4}
  BitLengths = {7, 8, 9}
  HeapByte = {{}, {0, 1, 2, 3, 4, 5, 6, 7}}
  Element <- Elements
  HashOf <- Hashes
  Low = 16
  High = 4
  probes = 3
  Capacities = {1, 3}
  Sock = {1, 2, 3}
  MaxAddrs = 3
  Chain = {1, 2}
  Buffer = {b1, b2, b3, b4, b5}
  NoChain = NoChain
  Cap = 2
  SM_MAX_IOV = 2
  MaxSize = 1
  MaxBytes <- LongAndShort
SYMMETRY Symmetry
INVARIANTS SkipInv ListLinked BitsAreOnes CountIsOnes NoFalseNegative SocketsReturned NothingLost StreamOrder ChainShape ShrinkFits OneOwner PoolClean
PROPERTIES SkipIsMap ConnectTriesAll ImplementsChain
CHECK_DEADLOCK FALSE
