--------------------------- MODULE MCJsonRegistries ---------------------------
EXTENDS JsonRegistries, TLC

Symmetry == Permutations(Requests)
=============================================================================
