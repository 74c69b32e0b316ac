------------------------------- MODULE MCCanBus -------------------------------
EXTENDS CanBus

CONSTANTS c1, c2
=============================================================================
