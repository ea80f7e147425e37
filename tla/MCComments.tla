---------------------------- MODULE MCComments ----------------------------
\* Comments on small instances.
EXTENDS Comments, TLC

CONSTANTS r1, r2

TwoReqs == {r1, r2}
Symmetry == Permutations(Reqs)
=============================================================================
