------------------------------ MODULE Exporter ------------------------------
(***************************************************************************)
(* The exporter process (exporter.py, session.py): it builds the device    *)
(* tree once to register, then listens for connection tokens and, one      *)
(* token at a time, builds a fresh device tree, serves it on a local gRPC  *)
(* server and joins that server to the client through the router.  Every   *)
(* exception sends it to a back-off and a new Listen; a cancellation       *)
(* unwinds it and unregisters.                                             *)
(*                                                                         *)
(* Device trees and servers are indexed by the user they are made for: the *)
(* registration probe or a connection.                                     *)
(***************************************************************************)
EXTENDS DialQueue, Router

CONSTANTS MaxFaults,   \* bound on the failures of one behaviour
          MayStop      \* whether the process may be told to stop

ASSUME FaultAssumption == MaxFaults \in Nat
ASSUME StopAssumption == MayStop \in BOOLEAN

VARIABLES phase,       \* where the exporter's only task is
          after,       \* where it goes once the open session is closed
          current,     \* the user whose device tree it is working on
          tree,        \* state of each user's device tree
          server,      \* state of each connection's local gRPC server
          registered,  \* the controller believes the exporter is there
          faults,      \* failures so far
          shutdown     \* the process has been told to stop

sessionVars == <<phase, after, current, tree, server>>
exporterVars == <<phase, after, current, tree, server, registered, faults, shutdown>>

Phase == {"building", "entering", "registering", "starting", "forwarding",
          "stopping", "closing", "connecting", "listening", "backoff",
          "unregistering", "dead"}
TreeState == {"none", "partial", "built", "entered", "halfclosed", "closed"}
ServerState == {"none", "running", "orphan", "stopped"}

ExporterTypeOK == /\ phase \in Phase
                  /\ after \in {"connecting", "listening", "backoff", "unregistering", "dead"}
                  /\ current \in User \cup {None}
                  /\ tree \in [User -> TreeState]
                  /\ server \in [Conn -> ServerState]
                  /\ registered \in BOOLEAN
                  /\ faults \in 0..MaxFaults
                  /\ shutdown \in BOOLEAN

(* __aenter__ is about to build the probe's device tree. *)
ExporterInit == /\ phase = "building"
                /\ after = "connecting"
                /\ current = Probe
                /\ tree = [u \in User |-> "none"]
                /\ server = [c \in Conn |-> "none"]
                /\ registered = FALSE
                /\ faults = 0
                /\ shutdown = FALSE

Fault == faults < MaxFaults /\ faults' = faults + 1

Goto(p) == phase' = p

SetTree(state) == tree' = [tree EXCEPT ![current] = state]

(* Mutant of Escape: a failed probe is retried like a failed session. *)
EscapeRetries == /\ Goto("backoff")
                 /\ current' = None
                 /\ DropListen

(* An exception with no session open: out of __aenter__ it ends the         *)
(* process, out of serve it is caught by serve_forever.                     *)
Escape == /\ Goto(IF current = Probe THEN "dead" ELSE "backoff")
          /\ current' = None
          /\ DropListen

-----------------------------------------------------------------------------
(* device_factory() builds the whole tree, children before parents.         *)
BuildTree == /\ phase = "building"
             /\ SetTree("built")
             /\ Goto("entering")
             /\ UNCHANGED <<after, current, server, registered, faults, shutdown>>
             /\ UNCHANGED <<dialVars, routerVars>>

(* A driver's constructor raises: the instances built before it are         *)
(* dropped without close().                                                 *)
BuildFails == /\ phase = "building"
              /\ Fault
              /\ \/ SetTree("partial")
                 \/ UNCHANGED tree
              /\ Escape
              /\ UNCHANGED <<after, server, registered, shutdown, routerVars>>

(* Session.__enter__ resets the devices. *)
EnterSession == /\ phase = "entering"
                /\ SetTree("entered")
                /\ Goto(IF current = Probe THEN "registering" ELSE "starting")
                /\ UNCHANGED <<after, current, server, registered, faults, shutdown>>
                /\ UNCHANGED <<dialVars, routerVars>>

(* reset() raises inside __enter__, so __exit__ is never called. *)
ResetFails == /\ phase = "entering"
              /\ Fault
              /\ Escape
              /\ UNCHANGED <<after, tree, server, registered, shutdown, routerVars>>

(* The probe reports its devices to the controller. *)
Register == /\ phase = "registering"
            /\ registered' = TRUE
            /\ Goto("closing")
            /\ after' = "connecting"
            /\ UNCHANGED <<current, tree, server, faults, shutdown, dialVars, routerVars>>

(* The call fails, before or after the controller has acted on it. *)
RegisterFails == /\ phase = "registering"
                 /\ Fault
                 /\ registered' \in BOOLEAN
                 /\ Goto("closing")
                 /\ after' = "dead"
                 /\ UNCHANGED <<current, tree, server, shutdown, dialVars, routerVars>>

(* The local server is started and a socket to it is joined to a Stream     *)
(* call on the router.                                                      *)
ServeSession == /\ phase = "starting"
                /\ server' = [server EXCEPT ![current] = "running"]
                /\ Attach(current, "exporter")
                /\ Goto("forwarding")
                /\ UNCHANGED <<after, current, tree, registered, faults, shutdown, dialVars>>

(* Mutant of ServeFails: the session is left open. *)
ServeFailsOpen == /\ phase \in {"starting", "forwarding"}
                  /\ Fault
                  /\ server' = [server EXCEPT ![current] = "orphan"]
                  /\ Detach(current, "exporter")
                  /\ Escape
                  /\ UNCHANGED <<after, tree, registered, shutdown>>

(* An exception between the start of the server and the end of the          *)
(* forwarding: serve_unix_async is left without stopping its server.        *)
ServeFails == /\ phase \in {"starting", "forwarding"}
              /\ Fault
              /\ \/ /\ phase = "starting"
                    /\ UNCHANGED server
                 \/ server' = [server EXCEPT ![current] = "orphan"]
              /\ Detach(current, "exporter")
              /\ Goto("closing")
              /\ after' = "backoff"
              /\ UNCHANGED <<current, tree, registered, shutdown, dialVars>>

(* Mutants of ForwardEnds: it does not wait for the end of the stream; it   *)
(* skips the stop of the server.                                            *)
ForwardEndsEarly == /\ phase = "forwarding"
                    /\ Goto("stopping")
                    /\ UNCHANGED <<after, current, tree, server, registered, faults, shutdown>>
                    /\ UNCHANGED <<dialVars, routerVars>>

ForwardEndsServing == /\ phase = "forwarding"
                      /\ "exporter" \notin rpc[current]
                      /\ Goto("closing")
                      /\ after' = "listening"
                      /\ UNCHANGED <<current, tree, server, registered, faults, shutdown>>
                      /\ UNCHANGED <<dialVars, routerVars>>

(* The exporter's Stream call is over, so both copies of the forwarding     *)
(* end, without an error whatever ended it.                                 *)
ForwardEnds == /\ phase = "forwarding"
               /\ "exporter" \notin rpc[current]
               /\ Goto("stopping")
               /\ UNCHANGED <<after, current, tree, server, registered, faults, shutdown>>
               /\ UNCHANGED <<dialVars, routerVars>>

StopServer == /\ phase = "stopping"
              /\ server' = [server EXCEPT ![current] = "stopped"]
              /\ Goto("closing")
              /\ after' = "listening"
              /\ UNCHANGED <<current, tree, registered, faults, shutdown, dialVars, routerVars>>

(* Session.__exit__ closes the devices; an exception on its way out leaves  *)
(* the loop that reads the Listen call.                                     *)
CloseSession == /\ phase = "closing"
                /\ SetTree("closed")
                /\ current' = None
                /\ Goto(after)
                /\ IF after \in {"backoff", "unregistering"}
                     THEN DropListen ELSE UNCHANGED dialVars
                /\ UNCHANGED <<after, server, registered, faults, shutdown, routerVars>>

(* A driver's close() raises: the devices after it in the tree stay open,   *)
(* and the exception replaces the one under way, a cancellation included.   *)
CloseFails == /\ phase = "closing"
              /\ Fault
              /\ SetTree("halfclosed")
              /\ Escape
              /\ UNCHANGED <<after, server, registered, shutdown, routerVars>>

-----------------------------------------------------------------------------
(* serve() opens a Listen call. *)
StartListening == /\ phase = "connecting"
                  /\ OpenListen
                  /\ Goto("listening")
                  /\ UNCHANGED <<after, current, tree, server, registered, faults, shutdown>>
                  /\ UNCHANGED routerVars

(* One token is read and its connection handled before the next is read. *)
Accept(c) == /\ phase = "listening"
             /\ Receive(c)
             /\ current' = c
             /\ Goto("building")
             /\ UNCHANGED <<after, tree, server, registered, faults, shutdown, routerVars>>

(* The Listen call has ended: a clean end is followed by a new call at      *)
(* once, an error by a back-off.                                            *)
ListenOver == /\ phase = "listening"
              /\ SeeListenEnd
              /\ Goto(IF listen = "ended" THEN "connecting" ELSE "backoff")
              /\ UNCHANGED <<after, current, tree, server, registered, faults, shutdown>>
              /\ UNCHANGED routerVars

(* The five seconds of sleep are over. *)
BackoffOver == /\ phase = "backoff"
               /\ Goto("connecting")
               /\ UNCHANGED <<after, current, tree, server, registered, faults, shutdown>>
               /\ UNCHANGED <<dialVars, routerVars>>

(* A server that was never stopped is stopped when it is collected. *)
CollectServer(c) == /\ server[c] = "orphan"
                    /\ server' = [server EXCEPT ![c] = "stopped"]
                    /\ UNCHANGED <<phase, after, current, tree, registered, faults, shutdown>>
                    /\ UNCHANGED <<dialVars, routerVars>>

-----------------------------------------------------------------------------
(* The process is told to stop: the cancellation is delivered where the     *)
(* task is suspended, and never inside a driver's synchronous code.         *)
CancelIdle == /\ phase \in {"connecting", "listening", "backoff"}
              /\ Goto("unregistering")
              /\ DropListen
              /\ UNCHANGED <<after, server, registered, rpc>>

CancelProbe == /\ phase = "registering"
               /\ registered' \in BOOLEAN
               /\ Goto("closing")
               /\ after' = "dead"
               /\ UNCHANGED <<server, rpc, dialVars>>

(* Mutants of CancelSession: serve_forever catches the cancellation; the    *)
(* session is not closed on the way out.                                    *)
CancelCaught == /\ phase \in {"starting", "forwarding", "stopping"}
                /\ server' = [server EXCEPT ![current] = "orphan"]
                /\ rpc' = [rpc EXCEPT ![current] = @ \ {"exporter"}]
                /\ Goto("closing")
                /\ after' = "backoff"
                /\ UNCHANGED <<registered, dialVars>>

CancelSkipsClose == /\ phase \in {"starting", "forwarding", "stopping"}
                    /\ server' = [server EXCEPT ![current] = "orphan"]
                    /\ rpc' = [rpc EXCEPT ![current] = @ \ {"exporter"}]
                    /\ Goto("unregistering")
                    /\ UNCHANGED <<after, registered, dialVars>>

CancelSession == /\ phase \in {"starting", "forwarding", "stopping"}
                 /\ \/ /\ phase = "starting"
                       /\ UNCHANGED server
                    \/ server' = [server EXCEPT ![current] = "orphan"]
                 /\ rpc' = [rpc EXCEPT ![current] = @ \ {"exporter"}]
                 /\ Goto("closing")
                 /\ after' = "unregistering"
                 /\ UNCHANGED <<registered, dialVars>>

Shutdown == /\ MayStop
            /\ ~shutdown
            /\ shutdown' = TRUE
            /\ CancelIdle \/ CancelProbe \/ CancelSession
            /\ UNCHANGED <<current, tree, faults, pending, joined>>

(* __aexit__ *)
Unregister == /\ phase = "unregistering"
              /\ registered' = FALSE
              /\ Goto("dead")
              /\ UNCHANGED <<after, current, tree, server, faults, shutdown, dialVars, routerVars>>

UnregisterFails == /\ phase = "unregistering"
                   /\ Fault
                   /\ registered' \in BOOLEAN
                   /\ Goto("dead")
                   /\ UNCHANGED <<after, current, tree, server, shutdown, dialVars, routerVars>>

ExporterStep == \/ BuildTree \/ EnterSession \/ Register \/ ServeSession
                \/ ForwardEnds \/ StopServer \/ CloseSession
                \/ StartListening \/ ListenOver \/ BackoffOver \/ Unregister
                \/ \E c \in Conn : Accept(c)

ExporterFault == \/ BuildFails \/ ResetFails \/ RegisterFails \/ ServeFails
                 \/ CloseFails \/ UnregisterFails
=============================================================================
