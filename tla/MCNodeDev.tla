------------------------------ MODULE MCNodeDev ------------------------------
EXTENDS NodeDev, TLC
HandleSymmetry == Permutations(Handle)
=============================================================================
