---------------------------- MODULE Tunnel_proofs ----------------------------
(***************************************************************************)
(* What holds of Tunnel for any set of connections, any queue size and any *)
(* number of failures.                                                     *)
(***************************************************************************)
EXTENDS Tunnel, SequenceTheorems, FiniteSetTheorems, TLAPS

(* The phases in which a session is open, and those between sessions. *)
OpenPhase == {"registering", "starting", "forwarding", "stopping", "closing"}
IdlePhase == {"connecting", "listening", "backoff", "unregistering", "dead"}

(* Which user the exporter works for in each phase. *)
WorksFor == /\ phase \in {"building", "entering", "closing"} => current \in User
            /\ phase = "registering" => current = Probe
            /\ phase \in {"starting", "forwarding", "stopping"} => current \in Conn
            /\ phase \in IdlePhase => current = None

(* A device tree is entered exactly while its session is open. *)
OpenIsEntered ==
  \A u \in User : tree[u] = "entered" <=> u = current /\ phase \in OpenPhase

SessionInv == TypeOK /\ WorksFor /\ OpenIsEntered

-----------------------------------------------------------------------------
(* The steps that leave the exporter's session alone. *)
Elsewhere ==
  \/ \E c \in Conn : CollectServer(c) /\ UNCHANGED client
  \/ QueueStep /\ UNCHANGED <<routerVars, exporterVars, client>>
  \/ \E c \in Conn : RouterStep(c) /\ UNCHANGED <<dialVars, exporterVars, client>>
  \/ \E c \in Conn : ClientStep(c)
  \/ \E c \in Conn : \E e \in End : LoseStream(c, e)
  \/ LoseListen

(* They do not move the exporter's task or touch a device tree. *)
LEMMA ElsewhereKeepsSession ==
  ASSUME Elsewhere \/ UNCHANGED vars
  PROVE  UNCHANGED <<phase, current, tree>>
BY DEF Elsewhere, vars, exporterVars, CollectServer, QueueStep, RouterStep,
       ClientStep, Dial, DialFails, OpenRouter, Ready, Close, GiveUp, SeeLoss,
       LoseStream, LoseListen

LEMMA EndsAreTwo == End = {"client", "exporter"} /\ Nobody \notin End
BY DEF End, Nobody

LEMMA ProbeIsNoConnection == Probe \notin Conn /\ None \notin Conn /\ None # Probe
BY ConnAssumption DEF Probe, None

(* The names of phases and states are told apart by SMT as they stand. *)
LEMMA InitSession == Init => SessionInv
<1> SUFFICES ASSUME Init PROVE SessionInv
  OBVIOUS
<1>1. DialTypeOK
  BY EmptySeq DEF Init, DialInit, DialTypeOK, ListenState
<1>2. RouterTypeOK
  BY DEF Init, RouterInit, RouterTypeOK, End, Nobody
<1>3. ExporterTypeOK
  <2>1. phase \in Phase /\ after = "connecting" /\ current \in User /\ faults \in 0..MaxFaults
    BY FaultAssumption DEF Init, ExporterInit, Phase, User
  <2>2. tree \in [User -> TreeState]
    BY DEF Init, ExporterInit, TreeState
  <2>3. server \in [Conn -> ServerState]
    BY DEF Init, ExporterInit, ServerState
  <2>4. registered \in BOOLEAN /\ shutdown \in BOOLEAN
    BY DEF Init, ExporterInit
  <2> QED
    BY <2>1, <2>2, <2>3, <2>4 DEF ExporterTypeOK
<1>4. client \in [Conn -> ClientState]
  BY DEF Init, ClientState
<1>5. WorksFor /\ OpenIsEntered
  BY DEF Init, ExporterInit, WorksFor, OpenIsEntered, User, IdlePhase, OpenPhase
<1> QED
  BY <1>1, <1>2, <1>3, <1>4, <1>5 DEF SessionInv, TypeOK

-----------------------------------------------------------------------------
(* What a step may do to the path of the tokens. *)
DialMove == \/ UNCHANGED dialVars
            \/ \E c \in Conn : Enqueue(c) \/ Receive(c)
            \/ OpenListen \/ YieldToken \/ YieldToStale \/ ReapStale
            \/ EndListen \/ SeeListenEnd \/ DropListen

LEMMA DialMoves == [Next]_vars => DialMove
<1> SUFFICES ASSUME [Next]_vars PROVE DialMove
  OBVIOUS
<1>1. CASE ExporterStep
  BY <1>1 DEF ExporterStep, BuildTree, EnterSession, Register, ServeSession, ForwardEnds,
     StopServer, CloseSession, StartListening, ListenOver, BackoffOver, Unregister, Accept, DialMove
<1>2. CASE ExporterFault
  BY <1>2 DEF ExporterFault, BuildFails, ResetFails, RegisterFails, ServeFails, CloseFails,
     UnregisterFails, Escape, DialMove
<1>3. CASE Shutdown
  BY <1>3 DEF Shutdown, CancelIdle, CancelProbe, CancelSession, DialMove
<1>4. CASE Elsewhere
  BY <1>4 DEF Elsewhere, CollectServer, QueueStep, RouterStep, ClientStep, Dial, DialFails,
     OpenRouter, Ready, Close, GiveUp, SeeLoss, LoseStream, LoseListen, DialMove
<1>5. CASE UNCHANGED vars
  BY <1>5 DEF vars, DialMove
<1> QED
  BY <1>1, <1>2, <1>3, <1>4, <1>5 DEF Next, Elsewhere

LEMMA DialType == DialTypeOK /\ DialMove => DialTypeOK'
<1> SUFFICES ASSUME DialTypeOK, DialMove PROVE DialTypeOK'
  OBVIOUS
<1> USE DEF DialTypeOK, ListenState
<1>1. CASE UNCHANGED dialVars
  BY <1>1 DEF dialVars
<1>2. ASSUME NEW c \in Conn, Enqueue(c) PROVE DialTypeOK'
  BY <1>2 DEF Enqueue
<1>3. ASSUME NEW c \in Conn, Receive(c) PROVE DialTypeOK'
  BY <1>3, HeadTailProperties DEF Receive
<1>4. CASE OpenListen
  BY <1>4, EmptySeq DEF OpenListen
<1>5. CASE YieldToken
  <2>1. Head(queue) \in Conn /\ Tail(queue) \in Seq(Conn)
    BY <1>5, HeadTailProperties DEF YieldToken
  <2> QED
    BY <1>5, <2>1 DEF YieldToken
<1>6. CASE YieldToStale
  BY <1>6, HeadTailProperties DEF YieldToStale
<1>7. CASE ReapStale
  BY <1>7 DEF ReapStale
<1>8. CASE EndListen
  <2>1. \A n \in 0..Len(buffer) : SubSeq(buffer, 1, n) \in Seq(Conn)
    BY SubSeqProperties, LenProperties, ElementOfSeq
  <2> QED
    BY <1>8, <2>1 DEF EndListen
<1>9. CASE SeeListenEnd
  BY <1>9 DEF SeeListenEnd
<1>10. CASE DropListen
  BY <1>10, EmptySeq DEF DropListen
<1> QED
  BY <1>1, <1>2, <1>3, <1>4, <1>5, <1>6, <1>7, <1>8, <1>9, <1>10 DEF DialMove

(* What a step may do to the router. *)
RouterMove == \/ UNCHANGED routerVars
              \/ \E c \in Conn, e \in End : Attach(c, e) \/ Detach(c, e)
              \/ \E c \in Conn : Forget(c) \/ Sever(c)

LEMMA RouterMoves == WorksFor /\ [Next]_vars => RouterMove
<1> SUFFICES ASSUME WorksFor, [Next]_vars PROVE RouterMove
  OBVIOUS
<1>1. CASE ExporterStep
  <2>1. CASE ServeSession
    BY <2>1, EndsAreTwo DEF ServeSession, WorksFor, RouterMove
  <2> QED
    BY <1>1, <2>1 DEF ExporterStep, BuildTree, EnterSession, Register, ForwardEnds,
       StopServer, CloseSession, StartListening, ListenOver, BackoffOver, Unregister, Accept, RouterMove
<1>2. CASE ExporterFault
  <2>1. CASE ServeFails
    BY <2>1, EndsAreTwo DEF ServeFails, WorksFor, RouterMove
  <2> QED
    BY <1>2, <2>1 DEF ExporterFault, BuildFails, ResetFails, RegisterFails, CloseFails,
       UnregisterFails, RouterMove
<1>3. CASE Shutdown
  <2>1. CASE CancelSession
    BY <1>3, <2>1, EndsAreTwo DEF Shutdown, CancelSession, WorksFor, Detach, RouterMove
  <2> QED
    BY <1>3, <2>1 DEF Shutdown, CancelIdle, CancelProbe, routerVars, RouterMove
<1>4. CASE Elsewhere
  BY <1>4, EndsAreTwo DEF Elsewhere, CollectServer, QueueStep, RouterStep, ClientStep, Dial, DialFails,
     OpenRouter, Ready, Close, GiveUp, SeeLoss, LoseStream, LoseListen, RouterMove
<1>5. CASE UNCHANGED vars
  BY <1>5 DEF vars, RouterMove
<1> QED
  BY <1>1, <1>2, <1>3, <1>4, <1>5 DEF Next, Elsewhere

LEMMA RouterType == RouterTypeOK /\ RouterMove => RouterTypeOK'
<1> SUFFICES ASSUME RouterTypeOK, RouterMove PROVE RouterTypeOK'
  OBVIOUS
<1> USE DEF RouterTypeOK
<1>1. CASE UNCHANGED routerVars
  BY <1>1 DEF routerVars
<1>2. ASSUME NEW c \in Conn, NEW e \in End, Attach(c, e) PROVE RouterTypeOK'
  BY <1>2 DEF Attach
<1>3. ASSUME NEW c \in Conn, NEW e \in End, Detach(c, e) PROVE RouterTypeOK'
  BY <1>3 DEF Detach
<1>4. ASSUME NEW c \in Conn, Forget(c) PROVE RouterTypeOK'
  BY <1>4 DEF Forget
<1>5. ASSUME NEW c \in Conn, Sever(c) PROVE RouterTypeOK'
  BY <1>5 DEF Sever
<1> QED
  BY <1>1, <1>2, <1>3, <1>4, <1>5 DEF RouterMove

-----------------------------------------------------------------------------
LEMMA FaultCounts == faults \in 0..MaxFaults /\ Fault => faults' \in 0..MaxFaults
BY FaultAssumption DEF Fault

(* The exporter's own steps keep the type of its state, its current user    *)
(* and the open session in step with its phase.                             *)
LEMMA ExporterStepKeeps ==
  ASSUME SessionInv, ExporterStep
  PROVE  ExporterTypeOK' /\ WorksFor' /\ OpenIsEntered'
<1> USE ProbeIsNoConnection
    DEF SessionInv, TypeOK, ExporterTypeOK, WorksFor, OpenIsEntered, User, Phase,
        TreeState, ServerState, OpenPhase, IdlePhase, Goto, SetTree
<1>1. CASE BuildTree
  BY <1>1 DEF BuildTree
<1>2. CASE EnterSession
  BY <1>2 DEF EnterSession
<1>3. CASE Register
  BY <1>3 DEF Register
<1>4. CASE ServeSession
  BY <1>4 DEF ServeSession
<1>5. CASE ForwardEnds
  BY <1>5 DEF ForwardEnds
<1>6. CASE StopServer
  BY <1>6 DEF StopServer
<1>7. CASE CloseSession
  BY <1>7 DEF CloseSession
<1>8. CASE StartListening
  BY <1>8 DEF StartListening
<1>9. CASE ListenOver
  BY <1>9 DEF ListenOver
<1>10. CASE BackoffOver
  BY <1>10 DEF BackoffOver
<1>11. CASE Unregister
  BY <1>11 DEF Unregister
<1>12. ASSUME NEW c \in Conn, Accept(c)
       PROVE  ExporterTypeOK' /\ WorksFor' /\ OpenIsEntered'
  BY <1>12 DEF Accept
<1> QED
  BY <1>1, <1>2, <1>3, <1>4, <1>5, <1>6, <1>7, <1>8, <1>9, <1>10, <1>11, <1>12 DEF ExporterStep

LEMMA ExporterFaultKeeps ==
  ASSUME SessionInv, ExporterFault
  PROVE  ExporterTypeOK' /\ WorksFor' /\ OpenIsEntered'
<1> USE ProbeIsNoConnection, FaultCounts
    DEF SessionInv, TypeOK, ExporterTypeOK, WorksFor, OpenIsEntered, User, Phase,
        TreeState, ServerState, OpenPhase, IdlePhase, Goto, SetTree, Escape
<1>1. CASE BuildFails
  BY <1>1 DEF BuildFails
<1>2. CASE ResetFails
  BY <1>2 DEF ResetFails
<1>3. CASE RegisterFails
  BY <1>3 DEF RegisterFails
<1>4. CASE ServeFails
  BY <1>4 DEF ServeFails
<1>5. CASE CloseFails
  BY <1>5 DEF CloseFails
<1>6. CASE UnregisterFails
  BY <1>6 DEF UnregisterFails
<1> QED
  BY <1>1, <1>2, <1>3, <1>4, <1>5, <1>6 DEF ExporterFault

LEMMA ShutdownKeeps ==
  ASSUME SessionInv, Shutdown
  PROVE  ExporterTypeOK' /\ WorksFor' /\ OpenIsEntered'
<1> USE ProbeIsNoConnection
    DEF SessionInv, TypeOK, ExporterTypeOK, WorksFor, OpenIsEntered, User, Phase,
        TreeState, ServerState, OpenPhase, IdlePhase, Goto, Shutdown
<1>1. CASE CancelIdle
  BY <1>1 DEF CancelIdle
<1>2. CASE CancelProbe
  BY <1>2 DEF CancelProbe
<1>3. CASE CancelSession
  BY <1>3 DEF CancelSession
<1> QED
  BY <1>1, <1>2, <1>3

LEMMA ElsewhereKeepsTypes ==
  ASSUME SessionInv, Elsewhere \/ UNCHANGED vars
  PROVE  ExporterTypeOK'
<1> USE FaultCounts DEF SessionInv, TypeOK, ExporterTypeOK, ServerState
<1>1. CASE \E c \in Conn : CollectServer(c)
  BY <1>1 DEF CollectServer
<1>2. CASE \E c \in Conn : DialFails(c)
  BY <1>2 DEF DialFails
<1>3. CASE \E c \in Conn : \E e \in End : LoseStream(c, e)
  BY <1>3 DEF LoseStream
<1>4. CASE LoseListen
  BY <1>4 DEF LoseListen
<1>5. CASE UNCHANGED exporterVars
  BY <1>5 DEF exporterVars
<1> QED
  BY <1>1, <1>2, <1>3, <1>4, <1>5
     DEF Elsewhere, vars, QueueStep, RouterStep, ClientStep, Dial, OpenRouter, Ready,
         Close, GiveUp, SeeLoss

LEMMA ClientType ==
  ASSUME client \in [Conn -> ClientState], [Next]_vars
  PROVE  client' \in [Conn -> ClientState]
<1>1. CASE UNCHANGED client
  BY <1>1
<1>2. CASE \E c \in Conn : ClientStep(c)
  BY <1>2 DEF ClientStep, Dial, DialFails, OpenRouter, Ready, Close, GiveUp, SeeLoss,
     Become, ClientState
<1> QED
  BY <1>1, <1>2 DEF Next, vars, LoseStream, LoseListen

LEMMA StepSession == SessionInv /\ [Next]_vars => SessionInv'
<1> SUFFICES ASSUME SessionInv, [Next]_vars PROVE SessionInv'
  OBVIOUS
<1>1. DialTypeOK'
  BY DialMoves, DialType DEF SessionInv, TypeOK
<1>2. RouterTypeOK'
  BY RouterMoves, RouterType DEF SessionInv, TypeOK
<1>3. client' \in [Conn -> ClientState]
  BY ClientType DEF SessionInv, TypeOK
<1>4. ExporterTypeOK' /\ WorksFor' /\ OpenIsEntered'
  <2>1. CASE ExporterStep
    BY <2>1, ExporterStepKeeps
  <2>2. CASE ExporterFault
    BY <2>2, ExporterFaultKeeps
  <2>3. CASE Shutdown
    BY <2>3, ShutdownKeeps
  <2>4. CASE Elsewhere \/ UNCHANGED vars
    <3>1. ExporterTypeOK'
      BY <2>4, ElsewhereKeepsTypes
    <3>2. WorksFor' /\ OpenIsEntered'
      BY <2>4, ElsewhereKeepsSession DEF SessionInv, WorksFor, OpenIsEntered
    <3> QED
      BY <3>1, <3>2
  <2> QED
    BY <2>1, <2>2, <2>3, <2>4 DEF Next, Elsewhere
<1> QED
  BY <1>1, <1>2, <1>3, <1>4 DEF SessionInv, TypeOK

(* Every variable keeps its type, and the exporter's phase says which user  *)
(* it works for and whether that user's devices are open (Exporter,         *)
(* Session).                                                                *)
THEOREM SessionCorrect == Spec => []SessionInv
BY InitSession, StepSession, PTL DEF Spec

(* Type correctness of the whole system. *)
THEOREM TypeCorrect == Spec => []TypeOK
<1>1. SessionInv => TypeOK
  BY DEF SessionInv
<1> QED
  BY SessionCorrect, <1>1, PTL

(* Two device trees are never open over the same hardware: __handle opens   *)
(* and closes one session per token and serve takes one token at a time.    *)
THEOREM LiveSessionIsUnique == Spec => []OneLiveSession
<1>1. SessionInv => OneLiveSession
  BY DEF SessionInv, OpenIsEntered, OneLiveSession
<1> QED
  BY SessionCorrect, <1>1, PTL

-----------------------------------------------------------------------------
(* An end is connected and not joined only if it is the pending one. *)
Rendezvous == \A c \in Conn : c \in joined \/ rpc[c] \subseteq {pending[c]}

LEMMA RouterKeepsRendezvous ==
  ASSUME RouterTypeOK, Rendezvous, RouterMove
  PROVE  Rendezvous'
<1> USE EndsAreTwo DEF RouterTypeOK, Rendezvous
<1>1. CASE UNCHANGED routerVars
  BY <1>1 DEF routerVars
<1>2. ASSUME NEW c \in Conn, NEW e \in End, Attach(c, e) PROVE Rendezvous'
  BY <1>2 DEF Attach
<1>3. ASSUME NEW c \in Conn, NEW e \in End, Detach(c, e) PROVE Rendezvous'
  BY <1>3 DEF Detach
<1>4. ASSUME NEW c \in Conn, Forget(c) PROVE Rendezvous'
  BY <1>4 DEF Forget
<1>5. ASSUME NEW c \in Conn, Sever(c) PROVE Rendezvous'
  BY <1>5 DEF Sever
<1> QED
  BY <1>1, <1>2, <1>3, <1>4, <1>5 DEF RouterMove

(* Whatever the order in which the ends of a connection come and go, two    *)
(* that are both there have been joined (MockRouter.Stream).                *)
THEOREM EndsMeet == Spec => []NoMissedRendezvous
<1>1. Init => Rendezvous
  BY DEF Init, RouterInit, Rendezvous
<1>2. SessionInv /\ Rendezvous /\ [Next]_vars => Rendezvous'
  BY RouterMoves, RouterKeepsRendezvous DEF SessionInv, TypeOK
<1>3. SessionInv /\ Rendezvous => NoMissedRendezvous
  BY EndsAreTwo DEF Rendezvous, NoMissedRendezvous
<1> QED
  BY SessionCorrect, <1>1, <1>2, <1>3, PTL DEF Spec

-----------------------------------------------------------------------------
(* The exporter's end of a connection is open only while that connection's  *)
(* session is being forwarded.                                              *)
ExporterEndInv ==
  \A c \in Conn : "exporter" \in rpc[c] => phase = "forwarding" /\ current = c

(* A server runs from its start to its stop, and is orphaned by failures    *)
(* and cancellations only.                                                  *)
ServerInv ==
  \A c \in Conn :
    /\ server[c] = "running" <=> c = current /\ phase \in {"forwarding", "stopping"}
    /\ server[c] = "orphan" => faults > 0 \/ shutdown

(* Past the probe's session the controller knows the exporter. *)
RegisteredInv ==
  (\/ current \in Conn
   \/ phase \in {"connecting", "listening", "backoff"}
   \/ phase = "closing" /\ after # "dead") => registered

ServiceInv == ExporterEndInv /\ ServerInv /\ RegisteredInv

LEMMA InitService == Init => ServiceInv
BY ProbeIsNoConnection
   DEF Init, RouterInit, ExporterInit, ServiceInv, ExporterEndInv, ServerInv, RegisteredInv

LEMMA ExporterStepServes ==
  ASSUME SessionInv, ServiceInv, ExporterStep
  PROVE  ServiceInv'
<1> USE ProbeIsNoConnection, EndsAreTwo
    DEF SessionInv, TypeOK, RouterTypeOK, ExporterTypeOK, WorksFor, User, IdlePhase,
        ServiceInv, ExporterEndInv, ServerInv, RegisteredInv, Goto, SetTree, routerVars
<1>1. CASE BuildTree
  BY <1>1 DEF BuildTree
<1>2. CASE EnterSession
  BY <1>2 DEF EnterSession
<1>3. CASE Register
  BY <1>3 DEF Register
<1>4. CASE ServeSession
  BY <1>4 DEF ServeSession, Attach
<1>5. CASE ForwardEnds
  BY <1>5 DEF ForwardEnds
<1>6. CASE StopServer
  BY <1>6 DEF StopServer
<1>7. CASE CloseSession
  BY <1>7 DEF CloseSession
<1>8. CASE StartListening
  BY <1>8 DEF StartListening
<1>9. CASE ListenOver
  BY <1>9 DEF ListenOver
<1>10. CASE BackoffOver
  BY <1>10 DEF BackoffOver
<1>11. CASE Unregister
  BY <1>11 DEF Unregister
<1>12. ASSUME NEW c \in Conn, Accept(c) PROVE ServiceInv'
  BY <1>12 DEF Accept
<1> QED
  BY <1>1, <1>2, <1>3, <1>4, <1>5, <1>6, <1>7, <1>8, <1>9, <1>10, <1>11, <1>12 DEF ExporterStep

LEMMA ExporterFaultServes ==
  ASSUME SessionInv, ServiceInv, ExporterFault
  PROVE  ServiceInv'
<1> USE ProbeIsNoConnection, EndsAreTwo
    DEF SessionInv, TypeOK, RouterTypeOK, ExporterTypeOK, WorksFor, User, IdlePhase, Fault,
        ServiceInv, ExporterEndInv, ServerInv, RegisteredInv, Goto, SetTree, Escape, routerVars
<1>1. CASE BuildFails
  BY <1>1 DEF BuildFails
<1>2. CASE ResetFails
  BY <1>2 DEF ResetFails
<1>3. CASE RegisterFails
  BY <1>3 DEF RegisterFails
<1>4. CASE ServeFails
  BY <1>4 DEF ServeFails, Detach
<1>5. CASE CloseFails
  BY <1>5 DEF CloseFails
<1>6. CASE UnregisterFails
  BY <1>6 DEF UnregisterFails
<1> QED
  BY <1>1, <1>2, <1>3, <1>4, <1>5, <1>6 DEF ExporterFault

LEMMA ShutdownServes ==
  ASSUME SessionInv, ServiceInv, Shutdown
  PROVE  ServiceInv'
<1> USE ProbeIsNoConnection, EndsAreTwo
    DEF SessionInv, TypeOK, RouterTypeOK, ExporterTypeOK, WorksFor, User, IdlePhase,
        ServiceInv, ExporterEndInv, ServerInv, RegisteredInv, Goto, Shutdown
<1>1. CASE CancelIdle
  BY <1>1 DEF CancelIdle
<1>2. CASE CancelProbe
  BY <1>2 DEF CancelProbe
<1>3. CASE CancelSession
  BY <1>3 DEF CancelSession
<1> QED
  BY <1>1, <1>2, <1>3

LEMMA ElsewhereServes ==
  ASSUME SessionInv, ServiceInv, Elsewhere \/ UNCHANGED vars
  PROVE  ServiceInv'
<1> USE EndsAreTwo
    DEF SessionInv, TypeOK, RouterTypeOK, ExporterTypeOK, ServiceInv, ExporterEndInv,
        ServerInv, RegisteredInv, Fault, routerVars, exporterVars
<1>1. CASE \E c \in Conn : CollectServer(c)
  BY <1>1 DEF CollectServer
<1>2. CASE \E c \in Conn : RouterStep(c) /\ UNCHANGED <<dialVars, exporterVars, client>>
  BY <1>2 DEF RouterStep, Forget, Sever
<1>3. CASE \E c \in Conn : ClientStep(c)
  BY <1>3 DEF ClientStep, Dial, DialFails, OpenRouter, Ready, Close, GiveUp, SeeLoss,
     Attach, Detach
<1>4. CASE \E c \in Conn : \E e \in End : LoseStream(c, e)
  BY <1>4 DEF LoseStream, Detach
<1>5. CASE LoseListen
  BY <1>5 DEF LoseListen
<1>6. CASE UNCHANGED <<routerVars, exporterVars>>
  BY <1>6
<1> QED
  BY <1>1, <1>2, <1>3, <1>4, <1>5, <1>6 DEF Elsewhere, vars, QueueStep

LEMMA ServiceCorrect == Spec => []ServiceInv
<1>1. SessionInv /\ ServiceInv /\ [Next]_vars => ServiceInv'
  BY ExporterStepServes, ExporterFaultServes, ShutdownServes, ElsewhereServes DEF Next, Elsewhere
<1> QED
  BY InitService, SessionCorrect, <1>1, PTL DEF Spec

(* A ready client whose tunnel is intact talks to its own session, and that *)
(* session is open and served: the exporter's end lives exactly as long as  *)
(* the forwarding in __handle.                                              *)
THEOREM OwnSession == Spec => []TalksToOwnSession
<1>1. SessionInv /\ ServiceInv => TalksToOwnSession
  BY EndsAreTwo
     DEF SessionInv, OpenIsEntered, OpenPhase, ServiceInv, ExporterEndInv, ServerInv,
         TalksToOwnSession, Intact, User
<1> QED
  BY SessionCorrect, ServiceCorrect, <1>1, PTL

(* Calls are answered over open devices, unless something failed or the     *)
(* exporter was cancelled (serve_unix_async has no finally).                *)
THEOREM ServersHaveDevices == Spec => []ServerHasDevices
<1>1. SessionInv /\ ServiceInv => ServerHasDevices
  BY DEF SessionInv, OpenIsEntered, OpenPhase, ServiceInv, ServerInv, ServerHasDevices, User
<1> QED
  BY SessionCorrect, ServiceCorrect, <1>1, PTL

(* Connections are taken only by an exporter whose registration was         *)
(* acknowledged (__aenter__ raises otherwise).                              *)
THEOREM ServesRegistered == Spec => []ServesOnlyRegistered
<1>1. ServiceInv => ServesOnlyRegistered
  BY DEF ServiceInv, RegisteredInv, ServesOnlyRegistered
<1> QED
  BY ServiceCorrect, <1>1, PTL

-----------------------------------------------------------------------------
(* A step leaks nothing, or it is a failure and leaks the tree in hand.     *)
LEMMA FaultsLeakOne ==
  ASSUME SessionInv, [Next]_vars
  PROVE  \/ Leaked' \subseteq Leaked /\ (faults' = faults \/ Fault)
         \/ Leaked' \subseteq Leaked \cup {current} /\ Fault
<1> USE ProbeIsNoConnection
    DEF SessionInv, TypeOK, ExporterTypeOK, WorksFor, OpenIsEntered, User, TreeState,
        OpenPhase, IdlePhase, Goto, SetTree, Leaked
<1>1. CASE ExporterStep
  <2>1. faults' = faults
    BY <1>1 DEF ExporterStep, BuildTree, EnterSession, Register, ServeSession, ForwardEnds,
       StopServer, CloseSession, StartListening, ListenOver, BackoffOver, Unregister, Accept
  <2>2. CASE BuildTree \/ EnterSession \/ CloseSession
    <3>1. Leaked' \subseteq Leaked
      BY <2>2 DEF BuildTree, EnterSession, CloseSession
    <3> QED
      BY <2>1, <3>1
  <2>3. CASE Register \/ ServeSession \/ ForwardEnds \/ StopServer
    BY <2>1, <2>3 DEF Register, ServeSession, ForwardEnds, StopServer
  <2>4. CASE StartListening \/ ListenOver \/ BackoffOver \/ Unregister \/ \E c \in Conn : Accept(c)
    BY <2>1, <2>4 DEF StartListening, ListenOver, BackoffOver, Unregister, Accept
  <2> QED
    BY <1>1, <2>2, <2>3, <2>4 DEF ExporterStep
<1>2. CASE ExporterFault
  <2>1. Fault
    BY <1>2 DEF ExporterFault, BuildFails, ResetFails, RegisterFails, ServeFails, CloseFails, UnregisterFails
  <2>2. CASE BuildFails
    BY <2>1, <2>2 DEF BuildFails, Escape
  <2>3. CASE ResetFails
    BY <2>1, <2>3 DEF ResetFails, Escape
  <2>4. CASE CloseFails
    BY <2>1, <2>4 DEF CloseFails, Escape
  <2>5. CASE RegisterFails \/ ServeFails \/ UnregisterFails
    BY <2>1, <2>5 DEF RegisterFails, ServeFails, UnregisterFails
  <2> QED
    BY <1>2, <2>2, <2>3, <2>4, <2>5 DEF ExporterFault
<1>3. CASE Shutdown
  BY <1>3 DEF Shutdown, CancelIdle, CancelProbe, CancelSession
<1>4. CASE Elsewhere \/ UNCHANGED vars
  <2>1. Leaked' = Leaked
    BY <1>4, ElsewhereKeepsSession
  <2>2. faults' = faults \/ Fault
    BY <1>4 DEF Elsewhere, vars, exporterVars, CollectServer, QueueStep, RouterStep,
       ClientStep, Dial, DialFails, OpenRouter, Ready, Close, GiveUp, SeeLoss, LoseStream, LoseListen
  <2> QED
    BY <2>1, <2>2
<1> QED
  BY <1>1, <1>2, <1>3, <1>4 DEF Next, Elsewhere

(* Every failure leaves at most one device tree unclosed, and neither a     *)
(* stop nor anything else leaves any (Session.__exit__, __handle).          *)
THEOREM LeaksAreFaults == Spec => []LeaksNeedFailures
<1> DEFINE LeakInv == IsFiniteSet(Leaked) /\ LeaksNeedFailures
<1>1. Init => LeakInv
  <2>1. Init => Leaked = {} /\ faults = 0
    BY DEF Init, ExporterInit, Leaked
  <2> QED
    BY <2>1, FS_EmptySet DEF LeaksNeedFailures
<1>2. SessionInv /\ LeakInv /\ [Next]_vars => LeakInv'
  <2> SUFFICES ASSUME SessionInv, LeakInv, [Next]_vars PROVE LeakInv'
    OBVIOUS
  <2>1. faults \in Nat /\ Cardinality(Leaked) \in Nat
    BY FS_CardinalityType, FaultAssumption DEF SessionInv, TypeOK, ExporterTypeOK
  <2>2. CASE Leaked' \subseteq Leaked /\ (faults' = faults \/ Fault)
    <3>1. IsFiniteSet(Leaked') /\ Cardinality(Leaked') <= Cardinality(Leaked) /\ Cardinality(Leaked') \in Nat
      BY <2>2, FS_Subset, FS_CardinalityType
    <3> QED
      BY <2>1, <2>2, <3>1 DEF LeaksNeedFailures, Fault
  <2>3. CASE Leaked' \subseteq Leaked \cup {current} /\ Fault
    <3>1. /\ IsFiniteSet(Leaked \cup {current})
          /\ Cardinality(Leaked \cup {current}) <= Cardinality(Leaked) + 1
          /\ Cardinality(Leaked \cup {current}) \in Nat
      BY <2>1, FS_AddElement, FS_CardinalityType
    <3>2. IsFiniteSet(Leaked') /\ Cardinality(Leaked') \in Nat
          /\ Cardinality(Leaked') <= Cardinality(Leaked \cup {current})
      BY <2>3, <3>1, FS_Subset, FS_CardinalityType
    <3> QED
      BY <2>1, <2>3, <3>1, <3>2 DEF LeaksNeedFailures, Fault
  <2> QED
    BY <2>2, <2>3, FaultsLeakOne
<1>3. LeakInv => LeaksNeedFailures
  OBVIOUS
<1> QED
  BY <1>1, <1>2, <1>3, SessionCorrect, PTL DEF Spec

-----------------------------------------------------------------------------
(* The tokens: each is handed to the exporter at most once, so each         *)
(* connection has at most one session and Tunnel implements DeviceAccess.   *)

(* No token is twice on its way. *)
Unique == /\ \A i, j \in 1..Len(queue) : queue[i] = queue[j] => i = j
          /\ \A i, j \in 1..Len(buffer) : buffer[i] = buffer[j] => i = j
          /\ \A i \in 1..Len(queue), j \in 1..Len(buffer) : queue[i] # buffer[j]

LEMMA TransitMembers ==
  ASSUME NEW c
  PROVE  c \in InTransit <=> \/ \E i \in 1..Len(queue) : c = queue[i]
                             \/ \E i \in 1..Len(buffer) : c = buffer[i]
BY DEF InTransit, Elems

LEMMA DequeueFacts ==
  ASSUME NEW s \in Seq(Conn), s # <<>>
  PROVE  /\ Len(s) \in Nat \ {0}
         /\ Head(s) = s[1]
         /\ Head(s) \in Conn
         /\ Tail(s) \in Seq(Conn)
         /\ Len(Tail(s)) = Len(s) - 1
         /\ \A i \in 1..Len(s) - 1 : Tail(s)[i] = s[i + 1]
BY HeadTailProperties, EmptySeq, LenProperties

LEMMA AppendFacts ==
  ASSUME NEW s \in Seq(Conn), NEW c \in Conn
  PROVE  /\ Append(s, c) \in Seq(Conn)
         /\ Len(Append(s, c)) = Len(s) + 1
         /\ Len(s) \in Nat
         /\ \A i \in 1..Len(s) : Append(s, c)[i] = s[i]
         /\ Append(s, c)[Len(s) + 1] = c
BY LenProperties

LEMMA EnqueueUnique ==
  ASSUME DialTypeOK, Unique, NEW c \in Conn, c \notin InTransit, Enqueue(c)
  PROVE  Unique' /\ InTransit' = InTransit \cup {c}
<1>1. /\ queue' = Append(queue, c) /\ buffer' = buffer
      /\ \A i \in 1..Len(queue) : queue[i] # c
      /\ \A i \in 1..Len(buffer) : buffer[i] # c
  BY DEF Enqueue, InTransit, Elems
<1>2. Len(queue) \in Nat /\ Len(buffer) \in Nat
  BY LenProperties DEF DialTypeOK
<1>3. Len(queue') = Len(queue) + 1 /\ queue'[Len(queue) + 1] = c
      /\ \A i \in 1..Len(queue) : queue'[i] = queue[i]
  BY <1>1, AppendFacts DEF DialTypeOK
<1>4. Unique'
  BY <1>1, <1>2, <1>3 DEF Unique
<1>5. InTransit' = InTransit \cup {c}
  BY <1>1, <1>2, <1>3 DEF InTransit, Elems
<1> QED
  BY <1>4, <1>5

LEMMA ReceiveUnique ==
  ASSUME DialTypeOK, Unique, NEW c \in Conn, Receive(c)
  PROVE  Unique' /\ c \in InTransit /\ c \notin InTransit' /\ InTransit' \subseteq InTransit
<1>1. /\ buffer # <<>> /\ c = buffer[1] /\ queue' = queue
      /\ Len(buffer) \in Nat \ {0} /\ Len(queue) \in Nat
      /\ Len(buffer') = Len(buffer) - 1
      /\ \A i \in 1..Len(buffer) - 1 : buffer'[i] = buffer[i + 1]
  BY DequeueFacts, LenProperties DEF Receive, DialTypeOK
<1>2. Unique'
  BY <1>1 DEF Unique
<1>3. c \in InTransit /\ InTransit' \subseteq InTransit
  BY <1>1 DEF InTransit, Elems
<1>4. c \notin InTransit'
  BY <1>1 DEF InTransit, Elems, Unique
<1> QED
  BY <1>2, <1>3, <1>4

LEMMA YieldUnique ==
  ASSUME DialTypeOK, Unique, YieldToken
  PROVE  Unique' /\ InTransit' = InTransit
<1> DEFINE h == Head(queue)
<1>1. /\ queue # <<>> /\ h = queue[1] /\ h \in Conn
      /\ Len(queue) \in Nat \ {0} /\ Len(buffer) \in Nat
      /\ Len(queue') = Len(queue) - 1
      /\ \A i \in 1..Len(queue) - 1 : queue'[i] = queue[i + 1]
  BY DequeueFacts, LenProperties DEF YieldToken, DialTypeOK
<1>2. /\ Len(buffer') = Len(buffer) + 1
      /\ \A i \in 1..Len(buffer) : buffer'[i] = buffer[i]
      /\ buffer'[Len(buffer) + 1] = queue[1]
  BY <1>1, AppendFacts DEF YieldToken, DialTypeOK
<1>3. Unique'
  <2>1. \A i, j \in 1..Len(queue') : queue'[i] = queue'[j] => i = j
    BY <1>1 DEF Unique
  <2>2. \A i \in 1..Len(buffer') :
          \/ i \in 1..Len(buffer) /\ buffer'[i] = buffer[i]
          \/ i = Len(buffer) + 1 /\ buffer'[i] = queue[1]
    BY <1>1, <1>2
  <2>3. 1 \in 1..Len(queue)
    BY <1>1
  <2>4. \A i, j \in 1..Len(buffer') : buffer'[i] = buffer'[j] => i = j
    BY <2>2, <2>3 DEF Unique
  <2>5. \A i \in 1..Len(queue') : i + 1 \in 1..Len(queue) /\ i + 1 # 1 /\ queue'[i] = queue[i + 1]
    BY <1>1
  <2>6. \A i \in 1..Len(queue'), j \in 1..Len(buffer') : queue'[i] # buffer'[j]
    BY <2>2, <2>3, <2>5 DEF Unique
  <2> QED
    BY <2>1, <2>4, <2>6 DEF Unique
<1>4. ASSUME NEW x \in InTransit PROVE x \in InTransit'
  <2>1. CASE \E i \in 1..Len(queue) : x = queue[i]
    <3>1. PICK i \in 1..Len(queue) : x = queue[i]
      BY <2>1
    <3>2. CASE i = 1
      BY <3>1, <3>2, <1>1, <1>2 DEF InTransit, Elems
    <3>3. CASE i # 1
      <4>1. i - 1 \in 1..Len(queue') /\ queue'[i - 1] = x
        BY <3>1, <3>3, <1>1
      <4> QED
        BY <4>1 DEF InTransit, Elems
    <3> QED
      BY <3>2, <3>3
  <2>2. CASE \E i \in 1..Len(buffer) : x = buffer[i]
    BY <2>2, <1>1, <1>2 DEF InTransit, Elems
  <2> QED
    BY <1>4, <2>1, <2>2, TransitMembers
<1>5. ASSUME NEW x \in InTransit' PROVE x \in InTransit
  <2>1. \A i \in 1..Len(queue') : queue'[i] \in InTransit
    BY <1>1 DEF InTransit, Elems
  <2>2. \A i \in 1..Len(buffer') : buffer'[i] \in InTransit
    <3>1. \A i \in 1..Len(buffer') : i \in 1..Len(buffer) \/ i = Len(buffer) + 1
      BY <1>1, <1>2
    <3>2. queue[1] \in InTransit /\ \A i \in 1..Len(buffer) : buffer[i] \in InTransit
      BY <1>1 DEF InTransit, Elems
    <3> QED
      BY <3>1, <3>2, <1>2
  <2>3. (\E i \in 1..Len(queue') : x = queue'[i]) \/ (\E i \in 1..Len(buffer') : x = buffer'[i])
    BY <1>5 DEF InTransit, Elems
  <2> QED
    BY <2>1, <2>2, <2>3
<1> QED
  BY <1>3, <1>4, <1>5

(* Every other step of the queue only loses tokens. *)
LosingMove == \/ UNCHANGED dialVars \/ OpenListen \/ YieldToStale \/ ReapStale
              \/ EndListen \/ SeeListenEnd \/ DropListen

LEMMA LosingUnique ==
  ASSUME DialTypeOK, Unique, LosingMove
  PROVE  Unique' /\ InTransit' \subseteq InTransit
<1>1. Len(queue) \in Nat /\ Len(buffer) \in Nat /\ Len(<<>>) = 0
  BY LenProperties, EmptySeq DEF DialTypeOK
<1>2. CASE UNCHANGED <<queue, buffer>>
  BY <1>2 DEF Unique, InTransit, Elems
<1>3. CASE queue' = queue /\ buffer' = <<>>
  <2>1. Len(buffer') = 0 /\ 1..Len(buffer') = {}
    BY <1>1, <1>3
  <2>2. Unique'
    BY <1>3, <2>1 DEF Unique
  <2>3. InTransit' = Elems(queue)
    BY <1>3, <2>1 DEF InTransit, Elems
  <2> QED
    BY <2>2, <2>3 DEF InTransit
<1>4. CASE YieldToStale
  <2>1. /\ Len(queue) \in Nat \ {0}
        /\ Len(queue') = Len(queue) - 1 /\ buffer' = buffer
        /\ \A i \in 1..Len(queue) - 1 : queue'[i] = queue[i + 1]
    BY <1>4, DequeueFacts DEF YieldToStale, DialTypeOK
  <2>2. \A i \in 1..Len(queue') : i + 1 \in 1..Len(queue) /\ queue'[i] = queue[i + 1]
    BY <2>1
  <2>3. \A i, j \in 1..Len(queue') : queue'[i] = queue'[j] => i = j
    <3>1. TAKE i, j \in 1..Len(queue')
    <3>2. queue'[i] = queue'[j] => i + 1 = j + 1
      BY <2>2 DEF Unique
    <3> QED
      BY <2>1, <3>2
  <2>4. \A i \in 1..Len(queue'), j \in 1..Len(buffer') : queue'[i] # buffer'[j]
    BY <2>1, <2>2 DEF Unique
  <2>5. Unique'
    BY <2>1, <2>3, <2>4 DEF Unique
  <2>6. Elems(queue)' \subseteq Elems(queue)
    BY <2>2 DEF Elems
  <2> QED
    BY <2>1, <2>5, <2>6 DEF InTransit
<1>5. ASSUME NEW n \in 0..Len(buffer), queue' = queue, buffer' = SubSeq(buffer, 1, n)
      PROVE  Unique' /\ InTransit' \subseteq InTransit
  <2>1. /\ Len(buffer') = n
        /\ \A i \in 1..n : buffer'[i] = buffer[i]
    BY <1>1, <1>5, SubSeqProperties, ElementOfSeq DEF DialTypeOK
  <2>2. \A i \in 1..Len(buffer') : i \in 1..Len(buffer) /\ buffer'[i] = buffer[i]
    BY <1>1, <2>1
  <2>3. Unique'
    BY <1>5, <2>2 DEF Unique
  <2>4. Elems(buffer)' \subseteq Elems(buffer)
    BY <2>2 DEF Elems
  <2> QED
    BY <1>5, <2>3, <2>4 DEF InTransit
<1> QED
  BY <1>2, <1>3, <1>4, <1>5
     DEF LosingMove, dialVars, OpenListen, ReapStale, EndListen, SeeListenEnd, DropListen

-----------------------------------------------------------------------------
(* A connection is dialed once, its token is on its way once, and it gets   *)
(* a device tree once.                                                      *)
TokenInv ==
  /\ Unique
  /\ \A c \in InTransit : tree[c] = "none" /\ c # current /\ client[c] # "idle"
  /\ \A c \in Conn : client[c] = "idle" => tree[c] = "none" /\ c # current
  /\ phase = "building" => tree[current] = "none"
  /\ phase = "entering" => tree[current] = "built"

(* The three kinds of steps, as far as tokens are concerned. *)
DialStep(c) == /\ Enqueue(c)
               /\ client[c] = "idle"
               /\ client'[c] # "idle"
               /\ \A d \in Conn \ {c} : client'[d] = client[d]
               /\ UNCHANGED <<phase, current, tree>>

OtherStep == /\ LosingMove \/ YieldToken
             /\ \A c \in Conn : client'[c] = "idle" => client[c] = "idle"
             /\ \A c \in Conn : client[c] = "idle" => client'[c] = "idle"
             /\ current' \in {current, None}
             /\ \A u \in User \ {current} : tree'[u] = tree[u]
             /\ phase' = "building" => phase = "building" /\ UNCHANGED <<current, tree>>
             /\ phase' = "entering" =>
                  \/ phase = "entering" /\ UNCHANGED <<current, tree>>
                  \/ phase = "building" /\ current' = current /\ tree'[current] = "built"

LEMMA StepKinds ==
  ASSUME SessionInv, [Next]_vars
  PROVE  \/ \E c \in Conn : DialStep(c)
         \/ \E c \in Conn : Accept(c) /\ UNCHANGED client
         \/ OtherStep
<1> USE DEF SessionInv, TypeOK, ExporterTypeOK, WorksFor, OtherStep, LosingMove, Goto, SetTree
<1>1. CASE ExporterStep /\ UNCHANGED client
  BY <1>1 DEF ExporterStep, BuildTree, EnterSession, Register, ServeSession, ForwardEnds,
     StopServer, CloseSession, StartListening, ListenOver, BackoffOver, Unregister
<1>2. CASE ExporterFault /\ UNCHANGED client
  BY <1>2 DEF ExporterFault, BuildFails, ResetFails, RegisterFails, ServeFails, CloseFails,
     UnregisterFails, Escape
<1>3. CASE Shutdown /\ UNCHANGED client
  BY <1>3 DEF Shutdown, CancelIdle, CancelProbe, CancelSession
<1>4. CASE Elsewhere
  <2>1. ASSUME NEW c \in Conn, Dial(c) \/ DialFails(c) PROVE DialStep(c)
    BY <2>1 DEF Dial, DialFails, DialStep, Become, ClientState, exporterVars
  <2>2. ASSUME NEW c \in Conn,
               OpenRouter(c) \/ Ready(c) \/ Close(c) \/ GiveUp(c) \/ SeeLoss(c)
        PROVE  OtherStep
    BY <2>2 DEF OpenRouter, Ready, Close, GiveUp, SeeLoss, Become, ClientState, exporterVars
  <2>3. CASE QueueStep /\ UNCHANGED <<routerVars, exporterVars, client>>
    BY <2>3 DEF QueueStep, exporterVars
  <2>4. CASE \E c \in Conn : CollectServer(c) /\ UNCHANGED client
    BY <2>4 DEF CollectServer
  <2>5. CASE \E c \in Conn : RouterStep(c) /\ UNCHANGED <<dialVars, exporterVars, client>>
    BY <2>5 DEF exporterVars
  <2>6. CASE \E c \in Conn : \E e \in End : LoseStream(c, e)
    BY <2>6 DEF LoseStream
  <2>7. CASE LoseListen
    BY <2>7 DEF LoseListen
  <2> QED
    BY <1>4, <2>1, <2>2, <2>3, <2>4, <2>5, <2>6, <2>7 DEF Elsewhere, ClientStep
<1>5. CASE UNCHANGED vars
  BY <1>5 DEF vars, exporterVars
<1> QED
  BY <1>1, <1>2, <1>3, <1>4, <1>5 DEF Next, Elsewhere

LEMMA StepTokens == SessionInv /\ TokenInv /\ [Next]_vars => TokenInv'
<1> SUFFICES ASSUME SessionInv, TokenInv, [Next]_vars PROVE TokenInv'
  OBVIOUS
<1>0. DialTypeOK /\ Unique /\ InTransit \subseteq Conn
  <2>1. DialTypeOK /\ Unique
    BY DEF SessionInv, TypeOK, TokenInv
  <2> QED
    BY <2>1, ElementOfSeq DEF InTransit, Elems, DialTypeOK
<1>1. ASSUME NEW c \in Conn, DialStep(c) PROVE TokenInv'
  <2>1. c \notin InTransit
    BY <1>1 DEF TokenInv, DialStep
  <2>2. Unique' /\ InTransit' = InTransit \cup {c}
    BY <1>0, <1>1, <2>1, EnqueueUnique DEF DialStep
  <2> QED
    BY <1>0, <1>1, <2>2 DEF TokenInv, DialStep
<1>2. ASSUME NEW c \in Conn, Accept(c), UNCHANGED client PROVE TokenInv'
  <2>1. Unique' /\ c \in InTransit /\ c \notin InTransit' /\ InTransit' \subseteq InTransit
    BY <1>0, <1>2, ReceiveUnique DEF Accept
  <2>2. phase' = "building" /\ current' = c /\ tree' = tree
    BY <1>2 DEF Accept, Goto
  <2> QED
    BY <1>0, <1>2, <2>1, <2>2 DEF TokenInv
<1>3. CASE OtherStep
  <2>1. Unique' /\ InTransit' \subseteq InTransit
    BY <1>0, <1>3, LosingUnique, YieldUnique DEF OtherStep
  <2> QED
    BY <1>0, <1>3, <2>1, ProbeIsNoConnection DEF TokenInv, OtherStep, User
<1> QED
  BY <1>1, <1>2, <1>3, StepKinds

LEMMA InitTokens == Init => TokenInv
<1> SUFFICES ASSUME Init PROVE TokenInv
  OBVIOUS
<1>1. Len(queue) = 0 /\ Len(buffer) = 0
  BY EmptySeq DEF Init, DialInit
<1>2. Unique /\ InTransit = {}
  BY <1>1 DEF Unique, InTransit, Elems
<1> QED
  BY <1>2, ProbeIsNoConnection DEF Init, ExporterInit, TokenInv, User

THEOREM TokensOnce == Spec => []TokenInv
BY InitTokens, StepTokens, SessionCorrect, PTL DEF Spec

-----------------------------------------------------------------------------
(* The state of DeviceAccess that Tunnel implements. *)
Opened == {u \in User : tree[u] = "entered"}
Served == {u \in User : tree[u] \in {"entered", "halfclosed", "closed"}}

LEMMA SessionsOpenAndEnd ==
  ASSUME SessionInv, TokenInv, [Next]_vars
  PROVE  [Access!AccessNext]_<<Opened, Served>>
<1> USE DEF SessionInv, OpenIsEntered, OpenPhase, Opened, Served
<1>1. tree \in [User -> TreeState]
  BY DEF TypeOK, ExporterTypeOK
<1>2. CASE EnterSession
  <2>1. /\ current \in User /\ tree[current] = "built"
        /\ \A u \in User : tree[u] # "entered"
        /\ tree' = [tree EXCEPT ![current] = "entered"]
    BY <1>2 DEF EnterSession, SetTree, WorksFor, TokenInv
  <2>2. Opened = {} /\ current \notin Served /\ Opened' = {current} /\ Served' = Served \cup {current}
    BY <1>1, <2>1
  <2> QED
    BY <2>1, <2>2 DEF Access!AccessNext, Access!Begin
<1>3. CASE CloseSession \/ CloseFails
  <2>1. /\ current \in User /\ tree[current] = "entered"
        /\ \A u \in User : tree[u] = "entered" => u = current
        /\ \/ tree' = [tree EXCEPT ![current] = "closed"]
           \/ tree' = [tree EXCEPT ![current] = "halfclosed"]
    BY <1>3 DEF CloseSession, CloseFails, SetTree, WorksFor
  <2>2. Opened = {current} /\ Opened' = {} /\ Served' = Served
    BY <1>1, <2>1
  <2> QED
    BY <2>1, <2>2 DEF Access!AccessNext, Access!End
<1>4. CASE BuildTree \/ BuildFails
  <2>1. /\ tree[current] = "none"
        /\ \/ tree' = [tree EXCEPT ![current] = "built"]
           \/ tree' = [tree EXCEPT ![current] = "partial"]
           \/ tree' = tree
    BY <1>4 DEF BuildTree, BuildFails, SetTree, TokenInv
  <2> QED
    BY <1>1, <2>1
<1>5. CASE tree' = tree
  BY <1>5
<1> QED
  <2>1. CASE ExporterStep
    BY <2>1, <1>2, <1>3, <1>4, <1>5 DEF ExporterStep, Register, ServeSession, ForwardEnds,
       StopServer, StartListening, ListenOver, BackoffOver, Unregister, Accept
  <2>2. CASE ExporterFault
    BY <2>2, <1>3, <1>4, <1>5 DEF ExporterFault, ResetFails, RegisterFails, ServeFails,
       UnregisterFails
  <2>3. CASE Shutdown
    BY <2>3, <1>5 DEF Shutdown
  <2>4. CASE Elsewhere \/ UNCHANGED vars
    BY <2>4, <1>5, ElsewhereKeepsSession
  <2> QED
    BY <2>1, <2>2, <2>3, <2>4 DEF Next, Elsewhere

(* Seen from the hardware, the exporter with its queue, router and clients  *)
(* implements DeviceAccess: one session at a time and one per connection,   *)
(* whatever fails and whenever the process is told to stop.                 *)
THEOREM ImplementsAccess == Spec => AccessSpec
<1>1. Init => Access!AccessInit
  BY DEF Init, ExporterInit, Access!AccessInit
<1>2. SessionInv /\ TokenInv /\ [Next]_vars => [Access!AccessNext]_Access!accessVars
  BY SessionsOpenAndEnd DEF Access!accessVars, Opened, Served
<1> QED
  BY <1>1, <1>2, SessionCorrect, TokensOnce, PTL DEF Spec, AccessSpec, Access!AccessSpec

-----------------------------------------------------------------------------
(* A stopped exporter is on its way out, unless a close() has raised.       *)
StopInv == shutdown => \/ phase \in {"unregistering", "dead"}
                       \/ phase = "closing" /\ after \in {"unregistering", "dead"}
                       \/ \E u \in User : tree[u] = "halfclosed"

LEMMA HalfClosedStays ==
  ASSUME SessionInv, TokenInv, [Next]_vars, NEW u \in User, tree[u] = "halfclosed"
  PROVE  tree'[u] = "halfclosed"
<1> USE DEF SessionInv, TypeOK, ExporterTypeOK, WorksFor, OpenIsEntered, OpenPhase, SetTree
<1>1. CASE ExporterStep
  BY <1>1 DEF ExporterStep, BuildTree, EnterSession, Register, ServeSession, ForwardEnds, TokenInv,
     StopServer, CloseSession, StartListening, ListenOver, BackoffOver, Unregister, Accept
<1>2. CASE ExporterFault
  BY <1>2 DEF ExporterFault, BuildFails, ResetFails, RegisterFails, ServeFails, CloseFails, TokenInv,
     UnregisterFails
<1>3. CASE Shutdown
  BY <1>3 DEF Shutdown
<1>4. CASE Elsewhere \/ UNCHANGED vars
  BY <1>4, ElsewhereKeepsSession
<1> QED
  BY <1>1, <1>2, <1>3, <1>4 DEF Next, Elsewhere

LEMMA StepStop == SessionInv /\ TokenInv /\ StopInv /\ [Next]_vars => StopInv'
<1> SUFFICES ASSUME SessionInv, TokenInv, StopInv, [Next]_vars, shutdown',
                    \A u \in User : tree[u] # "halfclosed"
             PROVE  StopInv'
  BY HalfClosedStays DEF StopInv
<1> USE DEF SessionInv, WorksFor, StopInv, Goto
<1>1. CASE ExporterStep
  BY <1>1 DEF ExporterStep, BuildTree, EnterSession, Register, ServeSession, ForwardEnds,
     StopServer, CloseSession, StartListening, ListenOver, BackoffOver, Unregister, Accept
<1>2. CASE ExporterFault
  <2>1. CASE CloseFails
    <3>1. current \in User /\ tree'[current] = "halfclosed"
      BY <2>1 DEF CloseFails, SetTree, TypeOK, ExporterTypeOK
    <3> QED
      BY <3>1
  <2> QED
    BY <1>2, <2>1 DEF ExporterFault, BuildFails, ResetFails, RegisterFails, ServeFails, UnregisterFails
<1>3. CASE Shutdown
  BY <1>3 DEF Shutdown, CancelIdle, CancelProbe, CancelSession
<1>4. CASE Elsewhere \/ UNCHANGED vars
  <2>1. UNCHANGED <<shutdown, after>>
    BY <1>4 DEF Elsewhere, vars, exporterVars, CollectServer, QueueStep, RouterStep,
       ClientStep, Dial, DialFails, OpenRouter, Ready, Close, GiveUp, SeeLoss, LoseStream, LoseListen
  <2> QED
    BY <1>4, <2>1, ElsewhereKeepsSession
<1> QED
  BY <1>1, <1>2, <1>3, <1>4 DEF Next, Elsewhere

(* An exporter that was told to stop opens no other session, wherever the   *)
(* stop reached it, as long as no driver's close() raises.                  *)
THEOREM StopsForGood == Spec => StopIsFinal
<1>1. Init => StopInv
  BY DEF Init, ExporterInit, StopInv
<1>2. SessionInv /\ StopInv /\ [Next]_vars =>
        [shutdown /\ phase' = "entering" => \E u \in User : tree[u] = "halfclosed"]_vars
  <2> SUFFICES ASSUME SessionInv, StopInv, [Next]_vars, shutdown, phase' = "entering",
                      \A u \in User : tree[u] # "halfclosed"
               PROVE  FALSE
    OBVIOUS
  <2> USE DEF StopInv, Goto
  <2>1. CASE ExporterStep
    BY <2>1 DEF ExporterStep, BuildTree, EnterSession, Register, ServeSession, ForwardEnds,
       StopServer, CloseSession, StartListening, ListenOver, BackoffOver, Unregister, Accept
  <2>2. CASE ExporterFault
    BY <2>2 DEF ExporterFault, BuildFails, ResetFails, RegisterFails, ServeFails, CloseFails,
       UnregisterFails, Escape
  <2>3. CASE Shutdown
    BY <2>3 DEF Shutdown
  <2>4. CASE Elsewhere \/ UNCHANGED vars
    BY <2>4, ElsewhereKeepsSession
  <2> QED
    BY <2>1, <2>2, <2>3, <2>4 DEF Next, Elsewhere
<1> QED
  BY <1>1, <1>2, SessionCorrect, TokensOnce, StepStop, PTL DEF Spec, StopIsFinal
-----------------------------------------------------------------------------
(* Nothing has failed and nobody has asked the exporter to stop. *)
Calm == faults = 0 /\ ~shutdown

(* The clients that have not left. *)
Waiting == {"idle", "dialed", "routed", "ready"}

(* Then the exporter does not back off, and it has one Listen call at most, *)
(* which loses nothing.                                                     *)
CalmExporter == /\ phase \notin {"backoff", "unregistering", "dead"}
                /\ phase = "closing" => after \in {"connecting", "listening"}
                /\ listen \in {"down", "up"} /\ ~stale
                /\ listen = "down" => buffer = <<>>

(* No end leaves the router before the client has left, and the exporter's  *)
(* end comes once.                                                          *)
CalmRouter ==
  \A c \in Conn :
    /\ client[c] \in {"idle", "dialed"} => c \notin joined /\ pending[c] # "client"
    /\ client[c] \in {"routed", "ready"} => "client" \in rpc[c]
    /\ client[c] \in Waiting /\ (c \in joined \/ pending[c] = "exporter") => "exporter" \in rpc[c]
    /\ pending[c] = "exporter" => tree[c] # "none"

(* So a session is forwarded until its client has left. *)
CalmSession ==
  current \in Conn =>
    /\ phase \in {"building", "entering", "starting"} => pending[current] # "exporter"
    /\ phase = "forwarding" /\ client[current] \in Waiting => "exporter" \in rpc[current]
    /\ phase \in {"stopping", "closing"} => client[current] \notin Waiting

CalmInv == Calm => /\ CalmExporter /\ CalmRouter /\ CalmSession
                   /\ \A c \in Conn : client[c] \in {"dialed", "routed"} => c \in InTransit \cup {current}

(* A step after which all is calm is no failure and no stop. *)
CalmStep == \/ ExporterStep /\ UNCHANGED client
            \/ QueueStep /\ UNCHANGED <<routerVars, exporterVars, client>>
            \/ \E c \in Conn : RouterStep(c) /\ UNCHANGED <<dialVars, exporterVars, client>>
            \/ \E c \in Conn : \/ Dial(c) \/ OpenRouter(c) \/ Ready(c)
                               \/ Close(c) \/ GiveUp(c) \/ SeeLoss(c)
            \/ UNCHANGED <<dialVars, routerVars, client, phase, after, current, tree>>

LEMMA CalmSteps ==
  ASSUME SessionInv, [Next]_vars, Calm'
  PROVE  Calm /\ CalmStep
<1>1. ~Fault
  BY FaultAssumption DEF SessionInv, TypeOK, ExporterTypeOK, Calm, Fault
<1>2. ~ExporterFault /\ ~LoseListen /\ \A c \in Conn : ~DialFails(c) /\ \A e \in End : ~LoseStream(c, e)
  BY <1>1 DEF ExporterFault, BuildFails, ResetFails, RegisterFails, ServeFails, CloseFails,
     UnregisterFails, LoseListen, DialFails, LoseStream
<1>3. ~Shutdown
  BY DEF Calm, Shutdown
<1>4. CalmStep
  BY <1>2, <1>3 DEF Next, vars, CollectServer, ClientStep, CalmStep, exporterVars
<1>5. faults' = faults /\ shutdown' = shutdown
  <2>1. CASE ExporterStep
    BY <2>1 DEF ExporterStep, BuildTree, EnterSession, Register, ServeSession, ForwardEnds,
       StopServer, CloseSession, StartListening, ListenOver, BackoffOver, Unregister, Accept
  <2> QED
    BY <1>2, <1>3, <2>1 DEF Next, vars, exporterVars, CollectServer, ClientStep, Dial, OpenRouter,
       Ready, Close, GiveUp, SeeLoss
<1> QED
  BY <1>4, <1>5 DEF Calm

LEMMA TakesOne ==
  ASSUME DialTypeOK, NEW c \in Conn, Receive(c)
  PROVE  InTransit \subseteq InTransit' \cup {c}
<1>1. /\ buffer # <<>> /\ c = buffer[1] /\ queue' = queue
      /\ Len(buffer) \in Nat \ {0}
      /\ Len(buffer') = Len(buffer) - 1
      /\ \A i \in 1..Len(buffer) - 1 : buffer'[i] = buffer[i + 1]
  BY DequeueFacts DEF Receive, DialTypeOK
<1>2. Elems(queue)' = Elems(queue)
  BY <1>1 DEF Elems
<1>3. ASSUME NEW i \in 1..Len(buffer), i # 1 PROVE buffer[i] \in Elems(buffer)'
  <2>1. i - 1 \in 1..Len(buffer') /\ buffer'[i - 1] = buffer[i]
    BY <1>1, <1>3
  <2> QED
    BY <2>1 DEF Elems
<1>4. \A x \in Elems(buffer) : x = c \/ x \in Elems(buffer)'
  <2>1. ASSUME NEW i \in 1..Len(buffer) PROVE buffer[i] = c \/ buffer[i] \in Elems(buffer)'
    BY <1>1, <1>3
  <2> QED
    BY <2>1 DEF Elems
<1> QED
  BY <1>2, <1>4 DEF InTransit

LEMMA CalmExporterKept ==
  ASSUME SessionInv, CalmExporter, CalmStep
  PROVE  CalmExporter'
<1> USE DEF CalmExporter, Goto
<1>1. CASE ExporterStep
  <2>1. CASE CloseSession
    BY <2>1 DEF CloseSession, dialVars
  <2>2. CASE StartListening
    BY <2>2 DEF StartListening, OpenListen
  <2>3. ASSUME NEW c \in Conn, Accept(c) PROVE CalmExporter'
    BY <2>3 DEF Accept, Receive
  <2>4. CASE BuildTree \/ EnterSession \/ Register \/ ServeSession \/ ForwardEnds \/ StopServer
    BY <2>4 DEF BuildTree, EnterSession, Register, ServeSession, ForwardEnds, StopServer, dialVars
  <2> QED
    BY <1>1, <2>1, <2>2, <2>3, <2>4 DEF ExporterStep, ListenOver, SeeListenEnd, BackoffOver, Unregister
<1>2. CASE QueueStep /\ UNCHANGED exporterVars
  BY <1>2 DEF QueueStep, YieldToken, YieldToStale, ReapStale, exporterVars
<1>3. CASE \E c \in Conn : Dial(c)
  BY <1>3 DEF Dial, Enqueue, exporterVars
<1>4. CASE UNCHANGED <<dialVars, phase, after>>
  BY <1>4 DEF dialVars
<1> QED
  BY <1>1, <1>2, <1>3, <1>4 DEF CalmStep, exporterVars, OpenRouter, Ready, Close, GiveUp, SeeLoss

LEMMA CalmRouterKept ==
  ASSUME SessionInv, TokenInv, CalmRouter, CalmSession, CalmStep
  PROVE  CalmRouter' /\ CalmSession'
<1> USE EndsAreTwo, ProbeIsNoConnection
    DEF SessionInv, TypeOK, RouterTypeOK, ExporterTypeOK, CalmRouter, CalmSession, Waiting, Goto, SetTree, routerVars
<1>1. CASE ExporterStep /\ UNCHANGED client
  <2>1. CASE BuildTree \/ EnterSession \/ CloseSession
    BY <1>1, <2>1 DEF BuildTree, EnterSession, CloseSession, WorksFor, User
  <2>2. CASE Register \/ StopServer \/ StartListening \/ ListenOver \/ BackoffOver \/ Unregister
    BY <1>1, <2>2 DEF Register, StopServer, StartListening, ListenOver, BackoffOver, Unregister, WorksFor, IdlePhase
  <2>3. CASE ServeSession
    <3>1. current \in Conn /\ tree[current] = "entered"
      BY <2>3 DEF ServeSession, WorksFor, OpenIsEntered, OpenPhase, User
    <3> QED
      BY <1>1, <2>3, <3>1 DEF ServeSession, Attach
  <2>4. CASE ForwardEnds
    BY <1>1, <2>4 DEF ForwardEnds, WorksFor
  <2>5. ASSUME NEW c \in Conn, Accept(c) PROVE CalmRouter' /\ CalmSession'
    <3>1. c \in InTransit
      BY <2>5, ReceiveUnique DEF Accept, TokenInv
    <3>2. tree[c] = "none"
      BY <3>1 DEF TokenInv
    <3> QED
      BY <1>1, <2>5, <3>2 DEF Accept
  <2> QED
    BY <1>1, <2>1, <2>2, <2>3, <2>4, <2>5 DEF ExporterStep
<1>2. ASSUME NEW c \in Conn, RouterStep(c), UNCHANGED <<exporterVars, client>>
      PROVE  CalmRouter' /\ CalmSession'
  <2>1. CASE Forget(c)
    BY <1>2, <2>1 DEF Forget, exporterVars
  <2>2. CASE Sever(c)
    <3>1. client[c] \notin Waiting
      BY <2>2 DEF Sever
    <3> QED
      BY <1>2, <2>2, <3>1 DEF Sever, exporterVars
  <2> QED
    BY <1>2, <2>1, <2>2 DEF RouterStep
<1>3. ASSUME NEW c \in Conn, Dial(c) PROVE CalmRouter' /\ CalmSession'
  BY <1>3 DEF Dial, Become, exporterVars
<1>4. ASSUME NEW c \in Conn, OpenRouter(c) PROVE CalmRouter' /\ CalmSession'
  BY <1>4 DEF OpenRouter, Become, Attach, exporterVars
<1>5. ASSUME NEW c \in Conn, Ready(c) \/ SeeLoss(c) PROVE CalmRouter' /\ CalmSession'
  BY <1>5 DEF Ready, SeeLoss, Become, exporterVars
<1>6. ASSUME NEW c \in Conn, Close(c) \/ GiveUp(c) PROVE CalmRouter' /\ CalmSession'
  BY <1>6 DEF Close, GiveUp, Become, Detach, exporterVars
<1>7. CASE UNCHANGED <<routerVars, client, phase, current, tree>>
  BY <1>7
<1> QED
  BY <1>1, <1>2, <1>3, <1>4, <1>5, <1>6, <1>7 DEF CalmStep, exporterVars

LEMMA CalmKept == SessionInv /\ TokenInv /\ CalmInv /\ [Next]_vars => CalmInv'
<1> SUFFICES ASSUME SessionInv, TokenInv, CalmInv, [Next]_vars, Calm' PROVE CalmInv'
  BY DEF CalmInv
<1>1. Calm /\ CalmStep
  BY CalmSteps
<1>2. CalmExporter' /\ CalmRouter' /\ CalmSession'
  BY <1>1, CalmExporterKept, CalmRouterKept DEF CalmInv
<1>3. ASSUME NEW c \in Conn, client'[c] \in {"dialed", "routed"} PROVE c \in InTransit' \cup {current'}
  <2> USE DEF SessionInv, TypeOK
  <2>1. DialTypeOK /\ Unique
    BY DEF TokenInv
  <2>2. CASE /\ InTransit \cup {current} \subseteq InTransit' \cup {current'}
             /\ client[c] \in {"dialed", "routed"}
    BY <1>1, <2>2 DEF CalmInv
  <2>3. CASE ExporterStep /\ UNCHANGED client
    <3>1. CASE CloseSession
      <4>1. UNCHANGED <<queue, buffer>> /\ (current \in Conn => c # current)
        BY <1>1, <1>3, <2>3, <3>1 DEF CloseSession, CalmInv, CalmExporter, CalmSession, Waiting, dialVars
      <4>2. InTransit' = InTransit
        BY <4>1 DEF InTransit, Elems
      <4> QED
        BY <1>1, <1>3, <2>3, <4>1, <4>2 DEF CalmInv
    <3>2. ASSUME NEW d \in Conn, Accept(d) PROVE c \in InTransit' \cup {current'}
      <4>1. InTransit \subseteq InTransit' \cup {d} /\ current' = d /\ current = None
        BY <2>1, <3>2, TakesOne DEF Accept, WorksFor, IdlePhase
      <4> QED
        BY <1>1, <1>3, <2>3, <4>1, ProbeIsNoConnection DEF CalmInv
    <3>3. CASE UNCHANGED <<queue, buffer, current>>
      <4>1. InTransit' = InTransit
        BY <3>3 DEF InTransit, Elems
      <4> QED
        BY <1>3, <2>2, <2>3, <3>3, <4>1
    <3> QED
      BY <1>1, <2>3, <3>1, <3>2, <3>3 DEF ExporterStep, BuildTree, EnterSession, Register, ServeSession,
         ForwardEnds, StopServer, StartListening, OpenListen, ListenOver, SeeListenEnd, BackoffOver,
         Unregister, CalmInv, CalmExporter, dialVars
  <2>4. CASE QueueStep /\ UNCHANGED <<exporterVars, client>>
    <3>1. InTransit' = InTransit
      <4>1. CASE YieldToken
        BY <2>1, <4>1, YieldUnique
      <4>2. CASE ReapStale
        BY <4>2 DEF ReapStale, InTransit, Elems
      <4> QED
        BY <1>1, <2>4, <4>1, <4>2 DEF QueueStep, YieldToStale, CalmInv, CalmExporter
    <3> QED
      BY <1>3, <2>2, <2>4, <3>1 DEF exporterVars
  <2>5. ASSUME NEW d \in Conn, Dial(d) PROVE c \in InTransit' \cup {current'}
    <3>1. d \notin InTransit
      BY <2>5 DEF TokenInv, Dial
    <3>2. InTransit' = InTransit \cup {d}
      BY <2>1, <2>5, <3>1, EnqueueUnique DEF Dial
    <3> QED
      BY <1>1, <1>3, <2>5, <3>2 DEF Dial, Become, exporterVars, CalmInv
  <2>6. ASSUME UNCHANGED <<dialVars, current>>, client'[c] # client[c] => client[c] = "dialed"
        PROVE  c \in InTransit' \cup {current'}
    <3>1. InTransit' = InTransit
      BY <2>6 DEF InTransit, Elems, dialVars
    <3> QED
      BY <1>3, <2>2, <2>6, <3>1
  <2>7. CASE \E d \in Conn : OpenRouter(d) \/ Ready(d) \/ Close(d) \/ GiveUp(d) \/ SeeLoss(d)
    <3>1. UNCHANGED <<dialVars, current>>
      BY <2>7 DEF OpenRouter, Ready, Close, GiveUp, SeeLoss, exporterVars
    <3>2. client'[c] # client[c] => client[c] = "dialed"
      BY <1>3, <2>7 DEF OpenRouter, Ready, Close, GiveUp, SeeLoss, Become
    <3> QED
      BY <2>6, <3>1, <3>2
  <2>8. CASE UNCHANGED <<dialVars, current, client>>
    BY <2>6, <2>8
  <2> QED
    BY <1>1, <2>3, <2>4, <2>5, <2>7, <2>8 DEF CalmStep, exporterVars
<1> QED
  BY <1>2, <1>3 DEF CalmInv

LEMMA InitCalm == Init => CalmInv
BY ProbeIsNoConnection, EndsAreTwo
   DEF Init, DialInit, RouterInit, ExporterInit, CalmInv, CalmExporter, CalmRouter, CalmSession, Waiting

(* Nobody who still waits is forgotten, as long as nothing fails and the    *)
(* exporter is not stopped: the token is on its way or in hand until the    *)
(* client itself has left (serve, __handle, MockController.Listen).         *)
THEOREM NobodyIsForgotten == Spec => []DialAccounted
<1>1. CalmInv => DialAccounted
  BY DEF CalmInv, Calm, DialAccounted
<1> QED
  BY <1>1, InitCalm, CalmKept, SessionCorrect, TokensOnce, PTL DEF Spec
=============================================================================
