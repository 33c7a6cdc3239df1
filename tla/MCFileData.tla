----------------------------- MODULE MCFileData -----------------------------
EXTENDS FileData, TLC
HandleSymmetry == Permutations(Handle)
MCData == {<<1>>, <<1, 2, 2>>}
=============================================================================
