---------------------------- MODULE MCAccounts ----------------------------
\* Accounts on small instances.
EXTENDS Accounts, TLC

CONSTANTS r1, r2, n1, n2, p1, p2

TwoReqs == {r1, r2}
TwoNames == {n1, n2}
TwoPasswords == {p1, p2}
Symmetry == Permutations(Reqs) \cup Permutations(Names) \cup Permutations(Passwords)
DbFaults == {"database"}
=============================================================================
