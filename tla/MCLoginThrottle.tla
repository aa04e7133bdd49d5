-------------------------- MODULE MCLoginThrottle ---------------------------
EXTENDS LoginThrottle, TLC
Symmetry == Permutations(Ips) \cup Permutations(Names) \cup Permutations(Requests)
=============================================================================
