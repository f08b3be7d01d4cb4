-------------------------- MODULE MCGPBConnections --------------------------
EXTENDS GPBConnections, TLC

Symmetry == Permutations(Sock) \cup Permutations(User)
=============================================================================
