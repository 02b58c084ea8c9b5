---------------------------- MODULE MCLineDiff ----------------------------
EXTENDS LineDiff
CONSTANTS x, y
Symmetry == Permutations(Lines)
=============================================================================
