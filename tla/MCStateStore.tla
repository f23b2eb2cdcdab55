---------------------------- MODULE MCStateStore ----------------------------
EXTENDS StateStore

CONSTANTS p1, p2, p3

MCProcs == {p1, p2, p3}
=============================================================================
