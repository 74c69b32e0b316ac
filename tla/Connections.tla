---------------------------- MODULE Connections ----------------------------
(***************************************************************************)
(* The names the modules of the client-exporter path share.                *)
(***************************************************************************)
CONSTANT Conn      \* the connections that clients may dial

(* The user of the device tree the exporter builds to register itself. *)
Probe == "probe"
None == "none"
User == Conn \cup {Probe}

ASSUME ConnAssumption == Probe \notin Conn /\ None \notin Conn
=============================================================================
