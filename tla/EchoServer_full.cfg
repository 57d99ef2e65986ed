SPECIFICATION EchoSpec
CONSTANTS
  Conn = {c1}
  MaxBytes = 3
  SizeMod = 8
  FullReads = TRUE
INVARIANTS EchoComplete
CHECK_DEADLOCK FALSE
