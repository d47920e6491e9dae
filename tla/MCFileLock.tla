------------------------------- MODULE MCFileLock -------------------------------
EXTENDS FileLock, TLC

MCSymmetry == Permutations(Process)
===============================================================================
