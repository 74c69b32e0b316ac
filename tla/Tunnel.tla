------------------------------- MODULE Tunnel -------------------------------
(***************************************************************************)
(* Clients reaching a device through the controller's queue, the router    *)
(* and the exporter (lease.py together with Exporter.tla).  A client dials *)
(* the exporter, opens its end of the connection on the router, and is     *)
(* ready once the exporter's session has answered it through the joined    *)
(* streams (client_from_channel, the first call it makes).                 *)
(***************************************************************************)
EXTENDS Exporter, FiniteSets

CONSTANT Patient     \* the connections whose client never gives up

ASSUME PatientAssumption == Patient \subseteq Conn

VARIABLE client      \* where the client of each connection is

vars == <<dialVars, routerVars, exporterVars, client>>

ClientState == {"idle", "dialed", "routed", "ready", "closed", "gaveup", "failed"}

TypeOK == /\ DialTypeOK
          /\ RouterTypeOK
          /\ ExporterTypeOK
          /\ client \in [Conn -> ClientState]

Init == /\ DialInit
        /\ RouterInit
        /\ ExporterInit
        /\ client = [c \in Conn |-> "idle"]

Become(c, state) == client' = [client EXCEPT ![c] = state]

-----------------------------------------------------------------------------
(* handle_async asks the controller for a connection to the exporter. *)
Dial(c) == /\ client[c] = "idle"
           /\ Enqueue(c)
           /\ Become(c, "dialed")
           /\ UNCHANGED <<routerVars, exporterVars>>

(* The controller queues the token and its answer never arrives. *)
DialFails(c) == /\ client[c] = "idle"
                /\ Fault
                /\ Enqueue(c)
                /\ Become(c, "failed")
                /\ UNCHANGED <<phase, after, current, tree, server, registered, shutdown>>
                /\ UNCHANGED routerVars

(* connect_router_stream opens the client's end. *)
OpenRouter(c) == /\ client[c] = "dialed"
                 /\ Attach(c, "client")
                 /\ Become(c, "routed")
                 /\ UNCHANGED <<dialVars, exporterVars>>

(* client_from_channel has its answer from the session's server. *)
Ready(c) == /\ client[c] = "routed"
            /\ Intact(c)
            /\ server[c] = "running"
            /\ Become(c, "ready")
            /\ UNCHANGED <<dialVars, routerVars, exporterVars>>

(* The user is done: CancelTask ends the forwarding. *)
Close(c) == /\ client[c] = "ready"
            /\ Detach(c, "client")
            /\ Become(c, "closed")
            /\ UNCHANGED <<dialVars, exporterVars>>

(* The user interrupts a client that is not ready: nothing in the client    *)
(* bounds that wait.                                                        *)
GiveUp(c) == /\ c \notin Patient
             /\ client[c] \in {"dialed", "routed"}
             /\ Detach(c, "client")
             /\ Become(c, "gaveup")
             /\ UNCHANGED <<dialVars, exporterVars>>

(* A call of the client fails because its end of the connection is gone. *)
SeeLoss(c) == /\ client[c] \in {"routed", "ready"}
              /\ "client" \notin rpc[c]
              /\ Become(c, "failed")
              /\ UNCHANGED <<dialVars, routerVars, exporterVars>>

(* The network loses the Stream call of one end. *)
LoseStream(c, e) == /\ e \in rpc[c]
                    /\ Fault
                    /\ Detach(c, e)
                    /\ UNCHANGED <<phase, after, current, tree, server, registered, shutdown>>
                    /\ UNCHANGED <<dialVars, client>>

(* The network or the controller ends the Listen call. *)
LoseListen == /\ Fault
              /\ EndListen
              /\ UNCHANGED <<phase, after, current, tree, server, registered, shutdown>>
              /\ UNCHANGED <<routerVars, client>>

QueueStep == YieldToken \/ YieldToStale \/ ReapStale

RouterStep(c) == Forget(c) \/ Sever(c)

ClientStep(c) == \/ Dial(c) \/ DialFails(c) \/ OpenRouter(c) \/ Ready(c)
                 \/ Close(c) \/ GiveUp(c) \/ SeeLoss(c)

Next == \/ (ExporterStep \/ ExporterFault \/ Shutdown) /\ UNCHANGED client
        \/ \E c \in Conn : CollectServer(c) /\ UNCHANGED client
        \/ QueueStep /\ UNCHANGED <<routerVars, exporterVars, client>>
        \/ \E c \in Conn : RouterStep(c) /\ UNCHANGED <<dialVars, exporterVars, client>>
        \/ \E c \in Conn : ClientStep(c)
        \/ \E c \in Conn : \E e \in End : LoseStream(c, e)
        \/ LoseListen

Spec == Init /\ [][Next]_vars

(* The exporter's task runs, the controller serves its Listen calls, the    *)
(* router notices the end of its calls, and a client that is not kept       *)
(* waiting goes on and eventually closes.                                   *)
Fairness ==
  /\ WF_vars(ExporterStep /\ UNCHANGED client)
  /\ WF_vars(YieldToken /\ UNCHANGED <<routerVars, exporterVars, client>>)
  /\ \A c \in Conn :
       /\ WF_vars(Forget(c) /\ UNCHANGED <<dialVars, exporterVars, client>>)
       /\ WF_vars(Sever(c) /\ UNCHANGED <<dialVars, exporterVars, client>>)
       /\ WF_vars(OpenRouter(c))
       /\ WF_vars(Ready(c))
       /\ WF_vars(Close(c))
       /\ WF_vars(SeeLoss(c))

FairSpec == Spec /\ Fairness
-----------------------------------------------------------------------------
(* At most one session exists at a time, the probe's included: two device   *)
(* trees are never open over the same hardware (serve handles one token     *)
(* after the other and __handle closes what it opened).                     *)
OneLiveSession ==
  \A u, v \in User : tree[u] = "entered" /\ tree[v] = "entered" => u = v

(* Two ends that are both connected to the router were joined, in whatever  *)
(* order they came and whoever else came and went (MockRouter.Stream).      *)
NoMissedRendezvous == \A c \in Conn : rpc[c] = End => c \in joined

(* While nothing failed, the token of every client that still waits is in   *)
(* the queue, in the Listen call, or in the exporter's hands.               *)
DialAccounted ==
  faults = 0 /\ ~shutdown =>
    \A c \in Conn : client[c] \in {"dialed", "routed"} => c \in InTransit \cup {current}

(* A client whose tunnel is intact and ready talks to the session that was  *)
(* opened for it, which is the one the exporter is serving.                 *)
TalksToOwnSession ==
  \A c \in Conn : client[c] = "ready" /\ Intact(c) =>
                    /\ current = c
                    /\ phase = "forwarding"
                    /\ tree[c] = "entered"
                    /\ server[c] = "running"

(* A server that still answers calls has open devices under it, unless an   *)
(* exception or a cancellation skipped server.stop (session.py:55-57).      *)
ServerHasDevices ==
  \A c \in Conn : server[c] \in {"running", "orphan"} =>
                    tree[c] = "entered" \/ faults > 0 \/ shutdown

(* Device trees that will never be closed, in part or as a whole. *)
Leaked ==
  {u \in User : \/ tree[u] \in {"partial", "halfclosed"}
                \/ tree[u] \in {"built", "entered"} /\ (u # current \/ phase = "dead")}

(* Each failure leaks at most one device tree, and nothing else does: a     *)
(* cancellation closes what it interrupts.                                  *)
LeaksNeedFailures == Cardinality(Leaked) <= faults

(* The exporter takes connections only after a registration the controller  *)
(* acknowledged (__aenter__ raises otherwise).                              *)
ServesOnlyRegistered ==
  current \in Conn \/ phase \in {"connecting", "listening", "backoff"} => registered

(* An exporter that was told to stop opens no other session, unless the     *)
(* close() of a driver replaced the cancellation by an exception that       *)
(* serve_forever retries on.                                                *)
StopIsFinal ==
  [][shutdown /\ phase' = "entering" => \E u \in User : tree[u] = "halfclosed"]_vars

(* Every patient client that dials is served. *)
EveryDialServed == \A c \in Patient : client[c] = "dialed" ~> client[c] = "ready"

(* The same, unless some client has given up, something has failed or the   *)
(* exporter is stopped: the exporter then may wait for a client at the      *)
(* router for ever, and nothing else makes a client wait for ever           *)
(* (exporter.py:65, conftest.py:38-41).                                     *)
ServedUnlessAbandoned ==
  \A c \in Patient :
    client[c] = "dialed" ~> \/ client[c] = "ready"
                           \/ \E d \in Conn : client[d] = "gaveup"
                           \/ faults > 0 \/ shutdown

(* A back-off ends in a new Listen call, unless the process is stopped.     *)
Recovers == phase = "backoff" ~> phase \in {"listening", "dead"}

(* A stop that no driver's close() interrupts ends the process.             *)
StopEnds ==
  shutdown ~> (phase = "dead" \/ \E u \in User : tree[u] = "halfclosed")

(* Seen from the hardware, the whole system is DeviceAccess: a session      *)
(* opens when the devices have been reset and ends when close() is called.  *)
Access == INSTANCE DeviceAccess WITH
            Users <- User,
            open <- {u \in User : tree[u] = "entered"},
            served <- {u \in User : tree[u] \in {"entered", "halfclosed", "closed"}}

AccessSpec == Access!AccessSpec
=============================================================================
