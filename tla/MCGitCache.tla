------------------------------ MODULE MCGitCache ------------------------------
EXTENDS GitCache, TLC

Symmetric == Permutations(Readers) \cup Permutations(Keys)
=============================================================================
