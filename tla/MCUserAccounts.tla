--------------------------- MODULE MCUserAccounts ---------------------------
EXTENDS UserAccounts, TLC

Symmetry == Permutations(Users) \cup Permutations(Names) \cup Permutations(Requests)
=============================================================================
