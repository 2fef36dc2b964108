SPECIFICATION MCSpec
CONSTANTS
  Period = 4
  NumPeriods = 4
  Startup = 2
  Assume = {"paced"}
  RxPoolSize = 2
  RxMaxPools = 2
  RxBurst = 1
  NoPacket = NoPacket
INVARIANTS AdjustFits ReceiveBuffersKept
PROPERTIES StopReturns ReceiverServes
CHECK_DEADLOCK FALSE
