------------------------------ MODULE MCPages ------------------------------
\* Pages on a small instance.
EXTENDS Pages

CONSTANT c1

OneClient == {c1}
AllFaults == {"redis", "database", "crash"}
=============================================================================
