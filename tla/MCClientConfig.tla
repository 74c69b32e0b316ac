--------------------------- MODULE MCClientConfig ---------------------------
EXTENDS Configs

CONSTANTS n1, n2, n3

(* Names without a dot. *)
Plain == [n \in Name |-> n]
=============================================================================
