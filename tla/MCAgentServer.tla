--------------------------- MODULE MCAgentServer ---------------------------
EXTENDS AgentServer, TLC
CONSTANTS r1, r2, r3
Symmetry == Permutations(Reqs)
=============================================================================
