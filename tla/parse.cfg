SPECIFICATION Spec
CONSTANTS
  Pages = 2
  Blocks = 2
  Concurrency = 2
  BlockConcurrency = 1
  Retries = 1
  WaitS = 3
  PollS = 1
  HealthTimeout = 2
  None = None
CHECK_DEADLOCK FALSE
INVARIANTS ExitTells
PROPERTIES ParseEnds
