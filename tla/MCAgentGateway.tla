--------------------------- MODULE MCAgentGateway ---------------------------
EXTENDS AgentGateway, TLC
CONSTANTS r1, r2, r3, r4
Symmetry == Permutations(Requests)
=============================================================================
