------------------------------ MODULE MCHandle ------------------------------
EXTENDS Handle, TLC

Symmetry == Permutations(Contexts)
=============================================================================
