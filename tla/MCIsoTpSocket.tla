---------------------------- MODULE MCIsoTpSocket ----------------------------
EXTENDS IsoTpSocket, TLC

CONSTANTS c1, c2, c3

Symmetry == Permutations(Call)
=============================================================================
