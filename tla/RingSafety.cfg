CONSTANTS
  r1 = r1
  r2 = r2
  NumBuffers = 3
  Readers <- TwoReaders
  MaxReaders = 2
  ReadSizes = {1, 2}
  WriteSizes = {0, 1, 2}
  Word = 16
  Timeout = 0
  SerialEnds = TRUE
SPECIFICATION FairSpec
INVARIANTS NoOverwrite InOrderDelivery
PROPERTIES CatchUpUnlessFull DeadReaderPurged
