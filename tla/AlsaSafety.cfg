SPECIFICATION MCSpec
CONSTANTS
  TotalSize = 4
  Sample = {0, 1}
  Silence = 0
  Blocks <- AllBlocks
  Requests = {1, 4}
  Levels = {0, 2}
  Thresholds = {0, 2, 5}
  Layouts <- UniformLayouts
  Word = 16
  Assume = {"reconnect", "drained", "start", "room", "warp"}
  NumChannels = 2
  Period = 3
  Packet = 2
  Total = 9
  Threshold = 4
  ShmPeriods = 1
  Prefill = 1
  SmartX = TRUE
  Hard = TRUE
  Validation = 3
  MaxDump = 1
  MaxDummy = 2
  Young = 4
  MaxTime = 11
  MaxIndex = 18
  Ahead = 2
INVARIANTS ChannelsAligned DescriptorsExact
PROPERTIES ImplementsFifo
CHECK_DEADLOCK FALSE
