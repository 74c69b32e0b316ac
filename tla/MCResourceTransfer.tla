------------------------- MODULE MCResourceTransfer -------------------------
EXTENDS ResourceTransfer
=============================================================================
