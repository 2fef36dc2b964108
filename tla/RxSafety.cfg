SPECIFICATION MCSpec
CONSTANTS
  s1 = s1
  s2 = s2
  None = None
  Streams <- TwoStreams
  Locals = {l1}
  Ids = {i0, i1}
  Wildcard = i0
  Kinds = {"audio", "video", "crs"}
  Mode = "once"
  Threshold = 2
  Assume = {"lookup", "callback", "video"}
  Wrap = 6
  MaxTime = 6
  Steps <- MCSteps
  MaxSteps = 2
  Transit <- MCTransit
  EpochThreshold = 1
  UnsettledFactor = 2
  UpdateThreshold = 2
  Grain = 6
  MaxEpoch = 2
  TimeAssume = {"reset", "late"}
  NoTime = NoTime
  Second = 4
  Frequencies = {0, 2, 3}
  Supported = {2}
  PacketRates = {0, 1, 2}
  Pitch = 3
  Width = 3
  ResetAfter = 3
  Retry = 2
  MasterTimeout = 4
  MinUpdates = {0, 3}
  MaxEvents = 2
  MaxStarts = 2
  TimingEnd = 9
  TimingAssume = {"clock", "noticed"}
SYMMETRY Symmetry
INVARIANTS MapExact ValidMeansContinuous ClientConsistent StampExact StampsOnGrid
PROPERTIES EpochBoundsError
CHECK_DEADLOCK FALSE
