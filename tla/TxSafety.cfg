SPECIFICATION FairSpec
CONSTANTS
  s1 = s1
  s2 = s2
  NoStream = NoStream
  Streams <- TwoStreams
  Bandwidth <- UnequalBandwidth
  TxMaxBandwidth = 3
  PoolSize = 1
  XmitResults = {"ok", "again", "fatal", "nospace"}
  MaxErrors = 1
  MaxResetCount = 1
  MaxOutstanding = 1
  AtomicToggle = TRUE
  AtomicFlags = TRUE
INVARIANTS NoDestroyedStream BandwidthExact PacketsConserved
PROPERTIES StopEnds ActiveIsServed
CHECK_DEADLOCK FALSE
