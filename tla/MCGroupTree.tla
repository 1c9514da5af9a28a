----------------------------- MODULE MCGroupTree -----------------------------
EXTENDS GroupTree, TLC

Symmetric == Permutations(Groups) \cup Permutations(Changes)
=============================================================================
