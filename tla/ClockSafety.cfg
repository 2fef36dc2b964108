SPECIFICATION MCSpec
CONSTANTS
  LockCountMax = 1
  EventRate = 4
  Nominal = 2
  MaxEdges = 10
INVARIANTS CaptureExact
PROPERTIES StopReturns StoppedMasterUnlocks
CHECK_DEADLOCK FALSE
