--------------------------- MODULE MCPostService ---------------------------
\* PostService on small instances.
EXTENDS PostService, TLC

CONSTANTS r1, r2

TwoReqs == {r1, r2}
Symmetry == Permutations(Reqs)
AllFaults == {"redis", "database", "crash"}
NoFaults == {}
=============================================================================
