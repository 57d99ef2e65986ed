SPECIFICATION Spec
CONSTANTS
  Conn = {c1, c2, c3}
  NULL = NULL
  setsize = 3
  Masks <- TwoMask
  UseEpoll = FALSE
  Timeouts <- AnyTimeout
  Arrivals <- WhilePolling
SYMMETRY Symmetry
INVARIANTS MaxFdCovers IInv
