SPECIFICATION FairSpec
CONSTANTS
  Conn = {c1, c2}
  NULL = NULL
  setsize = 3
  Masks <- TwoMask
  UseEpoll = TRUE
  Timeouts <- AnyTimeout
  Arrivals <- WhilePolling
INVARIANTS InterestMatchesTable
PROPERTIES DispatchToOwner ReadyServed StopEnds
