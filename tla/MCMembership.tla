---------------------------- MODULE MCMembership -----------------------------
EXTENDS Managers, TLC

Symmetric == Permutations(Users) \cup Permutations(Requests) \cup Permutations(Courses) \cup Permutations(Errands)
=============================================================================
