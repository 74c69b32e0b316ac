------------------------------- MODULE Configs -------------------------------
(***************************************************************************)
(* The commands on the two kinds of configs.  They share no file: a        *)
(* behaviour is about the one or the other.                                *)
(***************************************************************************)
EXTENDS ClientConfig, ExporterConfig

VARIABLE side   \* "client" or "exporter"

configVars == <<vars, exporterConfigVars, side>>

ConfigsInit == Init /\ ConfigInit /\ side \in {"client", "exporter"}

ConfigsNext == /\ \/ side = "client" /\ Next /\ UNCHANGED exporterConfigVars
                  \/ side = "exporter" /\ ConfigNext /\ UNCHANGED vars
               /\ UNCHANGED side

ConfigsSpec == ConfigsInit /\ [][ConfigsNext]_configVars
=============================================================================
