---------------------------- MODULE MCEventPage ----------------------------
EXTENDS EventPage, TLC
CONSTANTS a1, a2, a3, c1, c2
Symmetry == Permutations(Ids) \cup Permutations(Calls)
=============================================================================
