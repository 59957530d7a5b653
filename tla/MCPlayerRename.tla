--------------------------- MODULE MCPlayerRename ---------------------------
EXTENDS PlayerRename, TLC

CONSTANTS t1, t2, a1, a2, i1, i2

Symmetry == Permutations({t1, t2}) \cup Permutations({a1, a2}) \cup Permutations({i1, i2})
=============================================================================
