------------------------- MODULE MCVideoRingBuffer -------------------------
(* Model values for checking VideoRingBuffer with TLC. *)
EXTENDS VideoRingBuffer, TLC

CONSTANTS r1, r2

OneReader == {r1}
TwoReaders == {r1, r2}

Symmetry == Permutations(Readers)
============================================================================
