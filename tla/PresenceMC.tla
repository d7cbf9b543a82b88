------------------------------ MODULE PresenceMC ------------------------------
EXTENDS Presence, TLC

\* two connections are alike
Symmetry == Permutations(Conns)
=============================================================================
