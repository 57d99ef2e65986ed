SPECIFICATION Spec
CONSTANTS
  Conn = {c1, c2}
  NULL = NULL
  setsize = 3
  Masks <- ReadMask
  UseEpoll = TRUE
  Timeouts <- AnyTimeout
  Arrivals <- AnyTime
PROPERTIES FreshDispatch
