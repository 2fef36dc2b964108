SPECIFICATION FairVideoSpec
CONSTANTS
  PoolSize = 4
  NumPackets = 6
  RingSize = 3
  MaxTsps = 2
  Sizes <- MCSizes
  Sph = FALSE
  MaxId = 6
  MaxFlight = 1
  Assume = {"disconnect", "service", "dma", "cancel"}
INVARIANTS PacketsConserved InOrder NothingGoneIsKept
PROPERTIES CallsReturn
CHECK_DEADLOCK FALSE
