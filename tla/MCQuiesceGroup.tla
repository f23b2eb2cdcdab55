--------------------------- MODULE MCQuiesceGroup ---------------------------
EXTENDS QuiesceGroup

CONSTANTS p1, p2, p3, p4

MCPids == {p1, p2, p3, p4}
=============================================================================
