------------------------- MODULE IsoTpSocket_proofs -------------------------
(***************************************************************************)
(* The socket of IsoTpSocket settles absent or bound, for any number of    *)
(* calls and threads.  A method that leaves sock in between is still       *)
(* running, and it is the one that will put it right.                      *)
(***************************************************************************)
EXTENDS IsoTpSocket, FiniteSetTheorems, TLAPS

StateType == /\ method \in [Call -> Exported \cup Other]
             /\ stage \in [Call -> {"sent", "running", "answered"}]
             /\ sock \in {"none", "open", "bound", "unbound", "closed"}
             /\ next \in [Call -> {"check", "open", "bind", "close", "forget", "transfer"}]
             /\ failed \subseteq Call
             /\ faults \in 0..MaxFaults

(* A socket that is open but not bound has a start at the bind, unless one  *)
(* has failed there; one that is closed has its stop about to forget it.    *)
InHand == /\ sock = "open" => \E c \in Call : At(c, "start", "bind")
          /\ sock = "closed" => \E c \in Call : At(c, "stop", "forget")

Inv == StateType /\ InHand

LEMMA TypeStep == StateType /\ [Next]_vars => StateType'
<1> SUFFICES ASSUME StateType, [Next]_vars PROVE StateType'
    OBVIOUS
<1> USE DEF StateType
<1>1. CASE UNCHANGED vars
      BY <1>1 DEF vars, callVars
<1>2. ASSUME NEW c \in Call, Run(c) \/ Fault(c) PROVE StateType'
      BY <1>2, FaultAssumption DEF Run, Fault, BindFails, TransferFails, StartChecks, StartOpens, StartBinds, StopChecks, StopCloses,
         StopForgets, TransferChecks, Transfers, Unsupported, At, Then, Ends, Return, Answer, callVars
<1>3. ASSUME NEW c \in Call, Elsewhere(c) PROVE StateType'
      BY <1>3 DEF Elsewhere, Send, Refuse, Enter, Cancel, Answer
<1> QED BY <1>1, <1>2, <1>3 DEF Next

LEMMA InHandStep == Inv /\ [Next]_vars => InHand'
<1> SUFFICES ASSUME Inv, [Next]_vars PROVE InHand'
    OBVIOUS
<1> USE DEF Inv, StateType, InHand, At
<1>1. CASE UNCHANGED vars
      BY <1>1 DEF vars, callVars
<1>2. ASSUME NEW c \in Call, Run(c) \/ Fault(c) PROVE InHand'
  <2>1. CASE StartChecks(c) \/ StopChecks(c) \/ TransferChecks(c) \/ Transfers(c) \/ Unsupported(c)
        BY <2>1 DEF StartChecks, StopChecks, TransferChecks, Transfers, Unsupported, Then, Ends, Return, Answer,
           callVars
  <2>2. CASE StartOpens(c)
        BY <2>2 DEF StartOpens, Then, callVars
  <2>3. CASE StartBinds(c)
        BY <2>3 DEF StartBinds, Ends, Return, Answer
  <2>4. CASE StopCloses(c)
        BY <2>4 DEF StopCloses, Then, Ends, Return, Answer, callVars
  <2>5. CASE StopForgets(c)
        BY <2>5 DEF StopForgets, Ends, Return, Answer
  <2>6. CASE BindFails(c)
        BY <2>6 DEF BindFails, Ends, Return, Answer
  <2>7. CASE TransferFails(c)
        BY <2>7 DEF TransferFails, Ends, Return, Answer
  <2> QED BY <1>2, <2>1, <2>2, <2>3, <2>4, <2>5, <2>6, <2>7 DEF Run, Fault
<1>3. ASSUME NEW c \in Call, Elsewhere(c) PROVE InHand'
      BY <1>3 DEF Elsewhere, Send, Refuse, Enter, Cancel, Answer
<1> QED BY <1>1, <1>2, <1>3 DEF Next

(* Whatever the calls and however their methods interleave, the socket      *)
(* settles absent or bound when no method runs.                             *)
THEOREM Settles == Spec => []SettlesUsable
<1>1. Init => Inv
      BY FaultAssumption DEF Init, CallInit, Inv, StateType, InHand
<1>2. Inv /\ [Next]_vars => Inv'
      BY TypeStep, InHandStep DEF Inv
<1>3. Inv => SettlesUsable
      BY DEF Inv, StateType, InHand, SettlesUsable, Running, At
<1> QED BY <1>1, <1>2, <1>3, PTL DEF Spec
-----------------------------------------------------------------------------
(* A method that runs alone finds sock as it left it at its last step. *)
Settled == {"none", "bound", "unbound"}

Expects(c) ==
  /\ next[c] = "check" => sock \in Settled
  /\ next[c] = "open" /\ method[c] = "start" => sock = "none"
  /\ next[c] = "bind" /\ method[c] = "start" => sock = "open"
  /\ next[c] = "close" /\ method[c] = "stop" => sock # "none"
  /\ next[c] = "transfer" /\ method[c] \in {"send", "recv"} => sock \in {"bound", "unbound"}

CallType == /\ raced \in [Call -> BOOLEAN]
            /\ answer \in [Call -> Answers]
            /\ \A c \in Call : stage[c] # "running" => next[c] = "check"

Undisturbed(c) == stage[c] = "running" /\ ~raced[c]

Alone == \A c \in Call : Undisturbed(c) => /\ \A d \in Call : stage[d] = "running" => d = c
                                           /\ Expects(c)

FullInv == Inv /\ CallType /\ Alone /\ UnknownNeedsRace

LEMMA OutcomesRaised ==
  /\ Raised(Status("ok")) = "ok"
  /\ Raised(Status("ValueError")) = "ValueError"
  /\ Raised(Status("NotImplementedError")) = "NotImplementedError"
  /\ Raised(Status("Exception")) = "AioRpcError"
  /\ Raised("NOT_FOUND") = "AioRpcError"
BY DEF Raised, Status

Outcomes == {"ok", "ValueError", "NotImplementedError", "AioRpcError"}

(* What a step of c's method does to the calls: it goes on, or it is over   *)
(* and its client gets the outcome.                                         *)
GoesOn(c) == /\ stage[c] = "running"
             /\ \E step \in {"open", "bind", "close", "forget", "transfer"} : next' = [next EXCEPT ![c] = step]
             /\ UNCHANGED <<stage, method, raced, answer>>

Over(c, outcome) == /\ stage' = [stage EXCEPT ![c] = "answered"]
                    /\ \/ answer' = [answer EXCEPT ![c] = "cancelled"]
                       \/ answer' = [answer EXCEPT ![c] = outcome]
                    /\ next' = [next EXCEPT ![c] = "check"]
                    /\ UNCHANGED <<method, raced>>

LEMMA EndsIsOver ==
  ASSUME NEW c \in Call
  PROVE  /\ Ends(c, "ok") => Over(c, "ok")
         /\ Ends(c, "ValueError") => Over(c, "ValueError")
         /\ Ends(c, "NotImplementedError") => Over(c, "NotImplementedError")
         /\ Ends(c, "Exception") => Over(c, "AioRpcError")
BY OutcomesRaised DEF Ends, Return, Answer, Over

LEMMA RunsOrEnds ==
  ASSUME NEW c \in Call, Run(c) \/ Fault(c)
  PROVE  GoesOn(c) \/ \E outcome \in Outcomes : Over(c, outcome)
<1>1. CASE StartChecks(c) \/ StopChecks(c) \/ TransferChecks(c)
      BY <1>1, EndsIsOver DEF StartChecks, StopChecks, TransferChecks, Then, GoesOn, callVars, At, Outcomes
<1>2. CASE StartOpens(c)
      BY <1>2 DEF StartOpens, Then, GoesOn, callVars, At
<1>3. CASE StartBinds(c) \/ Fault(c) \/ StopForgets(c) \/ Unsupported(c)
      BY <1>3, EndsIsOver DEF StartBinds, Fault, BindFails, TransferFails, StopForgets, Unsupported, Outcomes
<1>4. CASE StopCloses(c)
      BY <1>4, EndsIsOver DEF StopCloses, Then, GoesOn, callVars, At, Outcomes
<1>5. CASE Transfers(c)
      BY <1>5, EndsIsOver DEF Transfers, Outcomes
<1> QED BY <1>1, <1>2, <1>3, <1>4, <1>5 DEF Run

LEMMA CallTypeStep == Inv /\ CallType /\ [Next]_vars => CallType'
<1> SUFFICES ASSUME Inv, CallType, [Next]_vars PROVE CallType'
    OBVIOUS
<1> USE DEF Inv, StateType, CallType
<1>1. CASE UNCHANGED vars
      BY <1>1 DEF vars, callVars
<1>2. ASSUME NEW c \in Call, GoesOn(c) PROVE CallType'
      BY <1>2 DEF GoesOn
<1>3. ASSUME NEW c \in Call, NEW outcome \in Outcomes, Over(c, outcome) PROVE CallType'
  <2>1. outcome \in Answers /\ "cancelled" \in Answers
        BY DEF Outcomes, Answers
  <2> QED BY <1>3, <2>1 DEF Over
<1>4. ASSUME NEW c \in Call, Elsewhere(c) PROVE CallType'
  <2>1. {"none", "cancelled", "AioRpcError"} \subseteq Answers
        BY DEF Answers
  <2>2. CASE Send(c)
        BY <1>4, <2>1, <2>2 DEF Elsewhere, Send
  <2>3. CASE Refuse(c)
        BY <1>4, <2>1, <2>3, OutcomesRaised DEF Elsewhere, Refuse, Answer
  <2>4. CASE Enter(c)
        BY <1>4, <2>4 DEF Elsewhere, Enter
  <2>5. CASE Cancel(c)
        BY <1>4, <2>1, <2>5 DEF Elsewhere, Cancel
  <2> QED BY <1>4, <2>2, <2>3, <2>4, <2>5 DEF Elsewhere
<1> QED BY <1>1, <1>2, <1>3, <1>4, RunsOrEnds DEF Next

(* A step of a method that runs alone leaves sock as its next step expects. *)
LEMMA KeepsExpecting ==
  ASSUME FullInv, NEW c \in Call, Run(c), Undisturbed(c), Undisturbed(c)', GoesOn(c)
  PROVE  Expects(c)'
<1>1. Expects(c) /\ c \in DOMAIN next /\ method' = method
      BY DEF FullInv, Alone, Inv, StateType, GoesOn
<1>2. ~\E outcome \in Outcomes : Over(c, outcome)
      BY DEF Undisturbed, Over, FullInv, Inv, StateType
<1>3. ~\E outcome \in {"ok", "ValueError", "NotImplementedError", "Exception"} : Ends(c, outcome)
      BY <1>2, EndsIsOver DEF Outcomes
<1>4. CASE StartChecks(c)
      BY <1>1, <1>3, <1>4 DEF StartChecks, At, Then, Expects, Settled
<1>5. CASE StartOpens(c)
      BY <1>1, <1>3, <1>5 DEF StartOpens, At, Then, Expects
<1>6. CASE StopChecks(c)
      BY <1>1, <1>3, <1>6 DEF StopChecks, At, Then, Expects, Settled
<1>7. CASE StopCloses(c)
      BY <1>1, <1>3, <1>7 DEF StopCloses, At, Then, Expects
<1>8. CASE TransferChecks(c)
      BY <1>1, <1>3, <1>8 DEF TransferChecks, At, Then, Expects, Settled
<1>9. CASE StartBinds(c) \/ StopForgets(c) \/ Transfers(c) \/ Unsupported(c)
      BY <1>3, <1>9 DEF StartBinds, StopForgets, Transfers, Unsupported
<1> QED BY <1>4, <1>5, <1>6, <1>7, <1>8, <1>9 DEF Run

LEMMA AloneStep == FullInv /\ [Next]_vars => Alone'
<1> SUFFICES ASSUME FullInv, [Next]_vars, NEW d \in Call, Undisturbed(d)'
             PROVE  (\A e \in Call : stage'[e] = "running" => e = d) /\ Expects(d)'
    BY DEF Alone
<1> USE DEF FullInv, Inv, StateType, CallType, Undisturbed
<1>1. CASE UNCHANGED vars
      BY <1>1 DEF vars, callVars, Alone, Expects
<1>2. ASSUME NEW c \in Call, Fault(c) PROVE FALSE
  <2>1. stage[c] = "running"
        BY <1>2 DEF Fault, BindFails, TransferFails, At
  <2>2. \E outcome \in Outcomes : Over(c, outcome)
        BY <1>2, EndsIsOver DEF Fault, BindFails, TransferFails, Outcomes
  <2> QED BY <2>1, <2>2 DEF Alone, Over
<1>3. ASSUME NEW c \in Call, Run(c)
      PROVE  (\A e \in Call : stage'[e] = "running" => e = d) /\ Expects(d)'
  <2>1. stage[c] = "running"
        BY <1>3 DEF Run, StartChecks, StartOpens, StartBinds, StopChecks, StopCloses, StopForgets, TransferChecks,
           Transfers, Unsupported, At
  <2>2. GoesOn(c) \/ \E outcome \in Outcomes : Over(c, outcome)
        BY <1>3, RunsOrEnds
  <2>3. Undisturbed(d) /\ \A e \in Call : stage'[e] = "running" => stage[e] = "running"
        BY <2>1, <2>2 DEF GoesOn, Over
  <2>4. c = d /\ GoesOn(c)
        BY <2>1, <2>2, <2>3 DEF Alone, Over
  <2> QED BY <1>3, <2>3, <2>4, KeepsExpecting DEF Alone
<1>4. ASSUME NEW c \in Call, Elsewhere(c), Send(c) \/ Refuse(c) \/ Cancel(c)
      PROVE  (\A e \in Call : stage'[e] = "running" => e = d) /\ Expects(d)'
  <2>1. \A e \in Call : stage'[e] = "running" => stage[e] = "running" /\ raced'[e] = raced[e] /\ method'[e] = method[e]
        BY <1>4 DEF Send, Refuse, Cancel, Answer
  <2>2. Undisturbed(d)
        BY <1>4, <2>1
  <2> QED BY <1>4, <2>1, <2>2 DEF Alone, Expects, Elsewhere
<1>5. ASSUME NEW c \in Call, Elsewhere(c), Enter(c)
      PROVE  (\A e \in Call : stage'[e] = "running" => e = d) /\ Expects(d)'
  <2>1. d = c /\ Running = {}
        BY <1>5 DEF Enter, Running
  <2>2. \A e \in Call : stage'[e] = "running" => e = d
        BY <1>5, <2>1 DEF Enter, Running
  <2>3. sock' \in Settled
        BY <1>5, <2>1 DEF InHand, At, Running, Settled, Elsewhere
  <2>4. next'[d] = "check"
        BY <1>5, <2>1 DEF Enter, Elsewhere
  <2> QED BY <2>2, <2>3, <2>4 DEF Expects
<1> QED BY <1>1, <1>2, <1>3, <1>4, <1>5 DEF Next, Elsewhere

(* A method whose step fails with an unknown error has found sock changed.  *)
LEMMA UnknownStep == FullInv /\ [Next]_vars => UnknownNeedsRace'
<1> SUFFICES ASSUME FullInv, [Next]_vars PROVE UnknownNeedsRace'
    OBVIOUS
<1> USE DEF FullInv, Inv, StateType, CallType, UnknownNeedsRace
<1>1. CASE UNCHANGED vars
      BY <1>1 DEF vars, callVars
<1>2. ASSUME NEW c \in Call, Run(c) PROVE UnknownNeedsRace'
  <2>1. failed \subseteq failed'
        BY <1>2 DEF Run, StartChecks, StartOpens, StartBinds, StopChecks, StopCloses, StopForgets, TransferChecks,
           Transfers, Unsupported
  <2>2. CASE GoesOn(c)
        BY <2>1, <2>2 DEF GoesOn
  <2>3. ASSUME NEW o \in Outcomes, Over(c, o), o # "AioRpcError" \/ raced[c] \/ c \in failed'
        PROVE  UnknownNeedsRace'
        BY <2>1, <2>3 DEF Over, Outcomes
  <2>4. CASE raced[c] \/ c \in failed'
        BY <1>2, <2>2, <2>3, <2>4, RunsOrEnds
  <2>5. CASE ~raced[c] /\ c \notin failed'
    <3>1. stage[c] = "running" => Expects(c)
          BY <2>5 DEF Alone, Undisturbed
    <3>2. GoesOn(c) \/ \E o \in {"ok", "ValueError", "NotImplementedError"} : Over(c, o)
      <4>1. CASE StartChecks(c) \/ StopChecks(c) \/ TransferChecks(c)
            BY <4>1, EndsIsOver DEF StartChecks, StopChecks, TransferChecks, Then, GoesOn, callVars, At
      <4>2. CASE StartOpens(c)
            BY <4>2 DEF StartOpens, Then, GoesOn, callVars, At
      <4>3. CASE StartBinds(c)
            BY <3>1, <4>3, EndsIsOver DEF StartBinds, At, Expects
      <4>4. CASE StopForgets(c) \/ Unsupported(c)
            BY <4>4, EndsIsOver DEF StopForgets, Unsupported
      <4>5. CASE StopCloses(c)
            BY <3>1, <4>5, EndsIsOver DEF StopCloses, Then, GoesOn, callVars, At, Expects
      <4>6. CASE Transfers(c)
        <5>1. sock = "bound"
              BY <2>5, <3>1, <4>6 DEF Transfers, At, Expects
        <5> QED BY <4>6, <5>1, EndsIsOver DEF Transfers
      <4> QED BY <1>2, <4>1, <4>2, <4>3, <4>4, <4>5, <4>6 DEF Run
    <3> QED BY <2>2, <2>3, <3>2 DEF Outcomes
  <2> QED BY <2>4, <2>5
<1>3. ASSUME NEW c \in Call, Fault(c) PROVE UnknownNeedsRace'
  <2>1. Over(c, "AioRpcError") /\ failed' = failed \cup {c}
        BY <1>3, EndsIsOver DEF Fault, BindFails, TransferFails
  <2> QED BY <2>1 DEF Over
<1>4. ASSUME NEW c \in Call, Elsewhere(c), Send(c) \/ Refuse(c) \/ Cancel(c)
      PROVE UnknownNeedsRace'
  <2>1. CASE Send(c)
        BY <1>4, <2>1 DEF Send, Elsewhere
  <2>2. CASE Refuse(c)
        BY <1>4, <2>2 DEF Refuse, Answer, Elsewhere, Send
  <2>3. CASE Cancel(c)
        BY <1>4, <2>3 DEF Cancel, Elsewhere, Send
  <2> QED BY <1>4, <2>1, <2>2, <2>3
<1>5. ASSUME NEW c \in Call, Elsewhere(c), Enter(c) PROVE UnknownNeedsRace'
      BY <1>5 DEF Enter, Elsewhere, Send
<1> QED BY <1>1, <1>2, <1>3, <1>4, <1>5 DEF Next, Elsewhere

LEMMA FullInit == Init => FullInv
<1>1. Init => Inv
      BY FaultAssumption DEF Init, CallInit, Inv, StateType, InHand
<1>2. Init => CallType /\ Alone /\ UnknownNeedsRace
      BY DEF Init, CallInit, CallType, Alone, Undisturbed, UnknownNeedsRace, Answers
<1> QED BY <1>1, <1>2 DEF FullInv

LEMMA FullStep == FullInv /\ [Next]_vars => FullInv'
BY TypeStep, InHandStep, CallTypeStep, AloneStep, UnknownStep DEF FullInv, Inv

(* A method that ran alone fails with the driver's own error, unless the    *)
(* socket itself has failed: at the bind or at the transfer.                *)
THEOREM UnknownIsARace == Spec => []UnknownNeedsRace
<1>1. FullInv => UnknownNeedsRace
      BY DEF FullInv
<1> QED BY <1>1, FullInit, FullStep, PTL DEF Spec
-----------------------------------------------------------------------------
(* A step makes at most one thread run more, when one is free.              *)
ThreadStep == \/ Threads' \subseteq Threads
              \/ \E c \in Call : Threads' \subseteq Threads \cup {c} /\ Cardinality(Threads) < MaxThreads

LEMMA ThreadsLimited == Cardinality(Threads) <= MaxThreads /\ ThreadStep => Cardinality(Threads') <= MaxThreads
<1> SUFFICES ASSUME Cardinality(Threads) <= MaxThreads, ThreadStep PROVE Cardinality(Threads') <= MaxThreads
    OBVIOUS
<1>1. IsFiniteSet(Threads) /\ Cardinality(Threads) \in Nat /\ MaxThreads \in Nat
      BY CallAssumption, FS_Subset, FS_CardinalityType DEF Threads, Running
<1>2. CASE Threads' \subseteq Threads
      BY <1>1, <1>2, FS_Subset, FS_CardinalityType
<1>3. ASSUME NEW c \in Call, Threads' \subseteq Threads \cup {c}, Cardinality(Threads) < MaxThreads
      PROVE  Cardinality(Threads') <= MaxThreads
  <2>1. /\ IsFiniteSet(Threads \cup {c}) /\ Cardinality(Threads \cup {c}) \in Nat
        /\ Cardinality(Threads \cup {c}) <= Cardinality(Threads) + 1
    <3>1. /\ IsFiniteSet(Threads \cup {c})
          /\ Cardinality(Threads \cup {c}) = IF c \in Threads THEN Cardinality(Threads) ELSE Cardinality(Threads) + 1
          BY <1>1, FS_AddElement
    <3> QED BY <1>1, <3>1
  <2>2. Cardinality(Threads') \in Nat /\ Cardinality(Threads') <= Cardinality(Threads \cup {c})
        BY <1>3, <2>1, FS_Subset, FS_CardinalityType
  <2> QED BY <1>1, <1>3, <2>1, <2>2
<1> QED BY <1>2, <1>3 DEF ThreadStep

Steps == {"open", "bind", "close", "forget", "transfer"}

LEMMA CallStep ==
  ASSUME CallTypeOK, StateType', CallType', [Next]_vars PROVE CallTypeOK'
<1>1. gone' \in [Call -> BOOLEAN] /\ ThreadStep
  <2>1. CASE UNCHANGED vars
        BY <2>1 DEF vars, callVars, CallTypeOK, ThreadStep, Threads, Running
  <2>2. ASSUME NEW c \in Call, Run(c) \/ Fault(c) PROVE gone' \in [Call -> BOOLEAN] /\ ThreadStep
    <3>1. (\E step \in Steps : Then(c, step)) \/ \E outcome : Ends(c, outcome)
      <4>1. CASE StartChecks(c) \/ StartOpens(c) \/ StartBinds(c)
            BY <4>1 DEF StartChecks, StartOpens, StartBinds, Steps
      <4>2. CASE StopChecks(c) \/ StopCloses(c) \/ StopForgets(c)
            BY <4>2 DEF StopChecks, StopCloses, StopForgets, Steps
      <4>3. CASE TransferChecks(c) \/ Transfers(c) \/ Unsupported(c) \/ Fault(c)
            BY <4>3 DEF TransferChecks, Transfers, Unsupported, Fault, BindFails, TransferFails, Steps
      <4> QED BY <2>2, <4>1, <4>2, <4>3 DEF Run
    <3> QED BY <3>1 DEF CallTypeOK, ThreadStep, Threads, Running, Then, Ends, Return, Answer, callVars
  <2>3. ASSUME NEW c \in Call, Elsewhere(c)
        PROVE  gone' \in [Call -> BOOLEAN] /\ ThreadStep
        BY <2>3 DEF CallTypeOK, ThreadStep, Threads, Running, Elsewhere, Send, Refuse, Enter, Cancel, Answer
  <2> QED BY <2>1, <2>2, <2>3 DEF Next
<1> QED BY <1>1, ThreadsLimited DEF CallTypeOK, StateType, CallType

(* The calls, the socket and the methods' steps have their types; no more   *)
(* methods run than there are threads.                                      *)
THEOREM SocketTypeCorrect == Spec => []TypeOK
<1>1. Init => FullInv /\ CallTypeOK
  <2> SUFFICES ASSUME Init PROVE FullInv /\ CallTypeOK
      OBVIOUS
  <2>1. Threads = {} /\ Cardinality(Threads) <= MaxThreads
    <3>1. Threads = {}
          BY DEF Init, CallInit, Threads, Running
    <3> QED BY <3>1, FS_EmptySet, CallAssumption
  <2>2. FullInv
        BY FullInit
  <2> QED BY <2>1, <2>2 DEF Init, CallInit, CallTypeOK, FullInv, Inv, StateType, CallType
<1>2. FullInv /\ CallTypeOK /\ [Next]_vars => (FullInv /\ CallTypeOK)'
      BY FullStep, CallStep DEF FullInv, Inv
<1>3. FullInv /\ CallTypeOK => TypeOK
      BY DEF FullInv, Inv, StateType, TypeOK
<1> QED BY <1>1, <1>2, <1>3, PTL DEF Spec
=============================================================================
