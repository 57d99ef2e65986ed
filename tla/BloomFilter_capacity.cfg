SPECIFICATION BloomSpec
CONSTANTS
  BitLengths = {8}
  HeapByte = {{}}
  Element <- Elements
  HashOf <- Hashes
  Low = 16
  High = 4
  probes = 3
  Capacities = {1, 3}
INVARIANTS WithinCapacity
CHECK_DEADLOCK FALSE
