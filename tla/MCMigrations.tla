---------------------------- MODULE MCMigrations ----------------------------
\* Migrations on small instances.
EXTENDS Migrations, TLC

CONSTANTS p1, p2, p3

ThreePosts == {p1, p2, p3}
Symmetry == Permutations(PostIds)
=============================================================================
