---------------------------- MODULE MCProjectKeys ----------------------------
EXTENDS ProjectKeys, TLC

Symmetry == Permutations(Projects) \cup Permutations(Keys) \cup Permutations(Requests)
=============================================================================
