------------------------------ MODULE MCTunnel ------------------------------
EXTENDS Tunnel, TLC

CONSTANTS c1, c2, c3

(* The connections are interchangeable when all or none of them is patient. *)
Symmetry == Permutations(Conn)
=============================================================================
