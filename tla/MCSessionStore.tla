--------------------------- MODULE MCSessionStore ---------------------------
EXTENDS SessionFiles, TLC
Symmetry == Permutations(RunIds) \cup Permutations(Requests)
=============================================================================
