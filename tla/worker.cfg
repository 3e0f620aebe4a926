SPECIFICATION Spec
CONSTANTS
  N = 2
  Grace = 1
  WriteBy = 1
  ReadFrom = 2
  Horizon = 2
  None = None
CHECK_DEADLOCK FALSE
INVARIANTS EndIsClean HealthIsTrue NoTornConfig
PROPERTIES StopKeepsGrace BrokenWorkerEnds
