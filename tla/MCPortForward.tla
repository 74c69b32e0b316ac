---------------------------- MODULE MCPortForward ----------------------------
EXTENDS Adapters
=============================================================================
