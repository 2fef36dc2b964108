SPECIFICATION Spec
CONSTANTS
  n1 = n1
  n2 = n2
  NetIds <- MCNetIds
  MaxLocal = 2
  MaxDomain = 1
  MaxStreams = 3
  Nil = Nil
  Assume = {"startup", "shutdown", "tones"}
SYMMETRY MCSymmetry
INVARIANTS EnginesFollowState ConnectionsMatch StartOwnsNoMutex
