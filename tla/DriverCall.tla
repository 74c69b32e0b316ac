----------------------------- MODULE DriverCall -----------------------------
(***************************************************************************)
(* Calls of a driver's exported methods (Session.DriverCall,               *)
(* Driver.DriverCall and AsyncDriverClient.call_async).  A coroutine runs  *)
(* on the event loop, another method in a worker thread: methods of one    *)
(* driver run next to each other, as many as there are threads.            *)
(***************************************************************************)
EXTENDS Naturals, FiniteSets

CONSTANTS Call,         \* places for calls that are under way
          Exported,     \* methods with the marker of a driver call
          Other,        \* other attributes of the driver
          Coroutines,   \* the methods that run on the event loop
          MaxThreads    \* limit of worker threads

ASSUME CallAssumption == /\ IsFiniteSet(Call)
                         /\ Exported \cap Other = {}
                         /\ Coroutines \subseteq Exported
                         /\ MaxThreads \in Nat \ {0}

VARIABLES method,    \* the method each call asks for
          stage,     \* how far it is
          answer,    \* what its client gets
          gone,      \* its client has cancelled it
          raced      \* its method ran next to another

callVars == <<method, stage, answer, gone, raced>>

Running == {c \in Call : stage[c] = "running"}
Threads == {c \in Running : method[c] \notin Coroutines}

CallInit == /\ method \in [Call -> Exported]
            /\ stage = [c \in Call |-> "answered"]
            /\ answer = [c \in Call |-> "none"]
            /\ gone = [c \in Call |-> FALSE]
            /\ raced = [c \in Call |-> FALSE]

Send(c) == /\ stage[c] = "answered"
           /\ \E m \in Exported \cup Other : method' = [method EXCEPT ![c] = m]
           /\ stage' = [stage EXCEPT ![c] = "sent"]
           /\ answer' = [answer EXCEPT ![c] = "none"]
           /\ gone' = [gone EXCEPT ![c] = FALSE]
           /\ raced' = [raced EXCEPT ![c] = FALSE]

(* The status a method's exception is answered with. *)
Status(outcome) == CASE outcome = "NotImplementedError" -> "UNIMPLEMENTED"
                     [] outcome = "ValueError" -> "INVALID_ARGUMENT"
                     [] outcome = "TimeoutError" -> "DEADLINE_EXCEEDED"
                     [] outcome = "ok" -> "OK"
                     [] OTHER -> "UNKNOWN"

(* And what the client makes of it. *)
Raised(status) == CASE status = "UNIMPLEMENTED" -> "NotImplementedError"
                    [] status = "INVALID_ARGUMENT" -> "ValueError"
                    [] status = "OK" -> "ok"
                    [] OTHER -> "AioRpcError"

Answer(c, status) == /\ stage' = [stage EXCEPT ![c] = "answered"]
                     /\ answer' = [answer EXCEPT ![c] = IF gone[c] THEN "cancelled" ELSE Raised(status)]

(* __lookup_drivercall: the attribute is missing or has no marker. *)
Refuse(c) == /\ stage[c] = "sent"
             /\ method[c] \notin Exported
             /\ Answer(c, "NOT_FOUND")
             /\ UNCHANGED <<method, gone, raced>>

(* The coroutine starts, or to_thread.run_sync gets a thread. *)
Enter(c) == /\ stage[c] = "sent"
            /\ method[c] \in Exported
            /\ method[c] \in Coroutines \/ Cardinality(Threads) < MaxThreads
            /\ stage' = [stage EXCEPT ![c] = "running"]
            /\ raced' = [d \in Call |-> \/ raced[d]
                                        \/ d = c /\ Running # {}
                                        \/ d \in Running]
            /\ UNCHANGED <<method, answer, gone>>

(* The method ends. *)
Return(c, outcome) == /\ stage[c] = "running"
                      /\ Answer(c, Status(outcome))
                      /\ UNCHANGED <<method, gone, raced>>

(* The client cancels the call: one that waits for a thread is dropped, a   *)
(* thread is not interrupted.                                               *)
Cancel(c) == /\ stage[c] \in {"sent", "running"}
             /\ ~gone[c]
             /\ gone' = [gone EXCEPT ![c] = TRUE]
             /\ IF stage[c] = "sent"
                THEN /\ stage' = [stage EXCEPT ![c] = "answered"]
                     /\ answer' = [answer EXCEPT ![c] = "cancelled"]
                ELSE UNCHANGED <<stage, answer>>
             /\ UNCHANGED <<method, raced>>

(* A coroutine is, at its next await. *)
Interrupt(c) == /\ stage[c] = "running"
                /\ method[c] \in Coroutines
                /\ gone[c]
                /\ stage' = [stage EXCEPT ![c] = "answered"]
                /\ answer' = [answer EXCEPT ![c] = "cancelled"]
                /\ UNCHANGED <<method, gone, raced>>

Answers == {"none", "ok", "ValueError", "NotImplementedError", "AioRpcError", "cancelled"}

CallTypeOK == /\ method \in [Call -> Exported \cup Other]
              /\ stage \in [Call -> {"sent", "running", "answered"}]
              /\ answer \in [Call -> Answers]
              /\ gone \in [Call -> BOOLEAN]
              /\ raced \in [Call -> BOOLEAN]
              /\ Cardinality(Threads) <= MaxThreads
=============================================================================
