---------------------------- MODULE MCViewCount ----------------------------
\* ViewCount on small instances.
EXTENDS ViewCount

CONSTANTS g1, g2, g3

ThreeGets == {g1, g2, g3}
DbFaults == {"database"}
NoFaults == {}
=============================================================================
