------------------------- MODULE MCBoundedProcess -------------------------
EXTENDS BoundedProcess

CONSTANTS child, d1, d2

MCOne == {d1}
=============================================================================
