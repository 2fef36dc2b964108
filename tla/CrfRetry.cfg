SPECIFICATION TimingSpec
CONSTANTS
  Second = 4
  Frequencies = {0, 2, 3}
  Supported = {2}
  PacketRates = {0, 1, 2}
  Pitch = 3
  Width = 3
  ResetAfter = 3
  Retry = 2
  MasterTimeout = 4
  MinUpdates = {0, 3}
  MaxEvents = 2
  MaxStarts = 2
  TimingEnd = 9
  TimingAssume = {"noticed"}
PROPERTY WriterReturns
CHECK_DEADLOCK FALSE
