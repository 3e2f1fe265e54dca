---------------------------- MODULE MCRunGateway ----------------------------
EXTENDS RunGatewayOrder, TLC
Symmetry == Permutations(Dispatches)
=============================================================================
