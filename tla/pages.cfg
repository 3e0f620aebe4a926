SPECIFICATION Spec
CONSTANTS
  None = None
  MaxBlocks = 3
  BlockConcurrency = 2
  WaitReady = 4
  Backoff = 1
  Timeout = 3
  ColdStart = 2
  LastPage = 5
  Horizon = 40
CHECK_DEADLOCK FALSE
INVARIANTS CallsEndInTime ColdStartFitsWindow RowIsComplete
PROPERTIES PageEnds
