--------------------------- MODULE MCVideoStream ---------------------------
EXTENDS VideoStream

MCSizes == {1, 3}
=============================================================================
