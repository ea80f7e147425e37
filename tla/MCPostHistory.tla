--------------------------- MODULE MCPostHistory ---------------------------
\* PostHistory on small instances.
EXTENDS PostHistory, TLC

CONSTANTS r1, r2

TwoReqs == {r1, r2}
Symmetry == Permutations(Reqs)
AllFaults == {"redis", "database", "crash"}
=============================================================================
