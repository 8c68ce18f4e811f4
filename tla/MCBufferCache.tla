--------------------------- MODULE MCBufferCache ---------------------------
EXTENDS BufferCache

CONSTANTS p1, p2, k1, k2, k3, k4, d0, d1

=============================================================================
