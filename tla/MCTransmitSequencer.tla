------------------------ MODULE MCTransmitSequencer ------------------------
(* Instances of TransmitSequencer for TLC. *)
EXTENDS TransmitSequencer, TLC

CONSTANTS s1, s2

OneStream == {s1}
TwoStreams == {s1, s2}
UnitBandwidth == [s \in Streams |-> 1]
UnequalBandwidth == [s \in Streams |-> IF s = s1 THEN 1 ELSE 2]
Symmetry == Permutations(TwoStreams)
============================================================================
