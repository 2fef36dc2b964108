---------------------------- MODULE MCAlsaStream ----------------------------
EXTENDS AlsaStream
=============================================================================
