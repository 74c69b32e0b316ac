------------------------------- MODULE Adapters -------------------------------
(***************************************************************************)
(* The two adapters that forward a port: PortforwardAdapter, and           *)
(* NovncAdapter, which overrides its handler.                              *)
(***************************************************************************)
EXTENDS PortForward, Websocket

VARIABLE kind   \* "port" or "novnc"

adapterVars == <<vars, wsVars, kind>>

AdapterInit == Init /\ WsInit /\ kind \in {"port", "novnc"}

AdapterNext == /\ \/ kind = "port" /\ Next /\ UNCHANGED wsVars
                  \/ kind = "novnc" /\ WsNext /\ UNCHANGED vars
               /\ UNCHANGED kind

AdapterSpec == /\ AdapterInit /\ [][AdapterNext]_adapterVars
               /\ kind = "port" => Fairness
               /\ kind = "novnc" => WsFairness
=============================================================================
