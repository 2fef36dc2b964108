-------------------------- MODULE MCTransmitTiming --------------------------
EXTENDS TransmitTiming
=============================================================================
