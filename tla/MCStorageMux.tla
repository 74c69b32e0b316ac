----------------------------- MODULE MCStorageMux -----------------------------
EXTENDS StorageMux, TLC

CONSTANTS c1, c2

Symmetry == Permutations(Call)
=============================================================================
