SPECIFICATION AlsaSpec
CONSTANTS
  Assume = {"reconnect", "drained"}
  NumChannels = 2
  Period = 3
  Packet = 2
  Total = 9
  Threshold = 3
  ShmPeriods = 2
  Prefill = 1
  SmartX = TRUE
  Hard = TRUE
  Validation = 1
  MaxDump = 1
  MaxDummy = 2
  Young = 4
  MaxTime = 8
  MaxIndex = 12
  Ahead = 3
INVARIANT PacketSizeKept
CHECK_DEADLOCK FALSE
