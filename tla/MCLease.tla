------------------------------ MODULE MCLease ------------------------------
EXTENDS Lease

CONSTANTS r1, r2
=============================================================================
