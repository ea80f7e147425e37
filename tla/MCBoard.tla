------------------------------ MODULE MCBoard ------------------------------
\* Board on small instances.
EXTENDS Board

CONSTANTS r1, r2

TwoReqs == {r1, r2}
AllFaults == {"redis", "database", "crash"}
=============================================================================
