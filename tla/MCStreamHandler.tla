-------------------------- MODULE MCStreamHandler --------------------------
EXTENDS StreamHandler, TLC

CONSTANTS n1, n2

MCNetIds == {n1, n2}
MCSymmetry == Permutations(MCNetIds)
=============================================================================
