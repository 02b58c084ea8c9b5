---------------------------- MODULE MCRunSurface ----------------------------
EXTENDS RunSurface, TLC
CONSTANTS r1, r2, r3, p1
Symmetry == Permutations(Reqs)
=============================================================================
