----------------------------- MODULE MCService ------------------------------
EXTENDS Service, TLC

Symmetry == Permutations(Workers)
=============================================================================
