----------------------------- MODULE IsoTpSocket -----------------------------
(***************************************************************************)
(* The ISO-TP socket driver (contrib/can): start, stop, send and recv run  *)
(* in worker threads and share the attribute sock, which each method reads *)
(* anew at every use.  A socket is its state; one that sock no longer      *)
(* refers to is closed when it is collected.                               *)
(***************************************************************************)
EXTENDS DriverCall

CONSTANT MaxFaults    \* bound on failures

ASSUME FaultAssumption == MaxFaults \in Nat

VARIABLES sock,      \* the driver's socket
          next,      \* what each running method does next
          failed,    \* the calls to which the socket has failed
          faults     \* failures so far

vars == <<callVars, sock, next, failed, faults>>

Methods == {"start", "stop", "send", "recv", "available"}
Attributes == {"sock"}

Init == /\ CallInit
        /\ sock = "none"
        /\ next = [c \in Call |-> "check"]
        /\ failed = {} /\ faults = 0

At(c, m, step) == stage[c] = "running" /\ method[c] = m /\ next[c] = step

Then(c, step) == next' = [next EXCEPT ![c] = step] /\ UNCHANGED callVars

Ends(c, outcome) == Return(c, outcome) /\ next' = [next EXCEPT ![c] = "check"]

-----------------------------------------------------------------------------
StartChecks(c) == /\ At(c, "start", "check")
                  /\ IF sock = "none" THEN Then(c, "open") ELSE Ends(c, "ValueError")
                  /\ UNCHANGED <<sock, failed, faults>>

(* sock is the new socket before the socket is bound. *)
StartOpens(c) == /\ At(c, "start", "open")
                 /\ sock' = "open"
                 /\ Then(c, "bind")
                 /\ UNCHANGED <<failed, faults>>

(* What sock is by now is configured and bound. *)
StartBinds(c) == /\ At(c, "start", "bind")
                 /\ IF sock \in {"open", "unbound"} THEN sock' = "bound" /\ Ends(c, "ok")
                                                   ELSE UNCHANGED sock /\ Ends(c, "Exception")
                 /\ UNCHANGED <<failed, faults>>

(* The CAN interface is down: sock stays, and is not bound. *)
BindFails(c) == /\ At(c, "start", "bind")
                /\ faults < MaxFaults
                /\ faults' = faults + 1 /\ failed' = failed \cup {c}
                /\ Ends(c, "Exception")
                /\ sock' = IF sock = "open" THEN "unbound" ELSE sock

StopChecks(c) == /\ At(c, "stop", "check")
                 /\ IF sock = "none" THEN Ends(c, "ValueError") ELSE Then(c, "close")
                 /\ UNCHANGED <<sock, failed, faults>>

StopCloses(c) == /\ At(c, "stop", "close")
                 /\ IF sock = "none" THEN UNCHANGED sock /\ Ends(c, "Exception")
                                     ELSE sock' = "closed" /\ Then(c, "forget")
                 /\ UNCHANGED <<failed, faults>>

(* Mutant of StopForgets: sock keeps the closed socket.                     *)
StopKeeps(c) == /\ At(c, "stop", "forget")
                /\ Ends(c, "ok")
                /\ UNCHANGED <<sock, failed, faults>>

StopForgets(c) == /\ At(c, "stop", "forget")
                  /\ sock' = "none"
                  /\ Ends(c, "ok")
                  /\ UNCHANGED <<failed, faults>>

(* Mutant of TransferChecks: sock is not looked at.                         *)
TransferUnchecked(c) == /\ \/ At(c, "send", "check")
                           \/ At(c, "recv", "check")
                        /\ Then(c, "transfer")
                        /\ UNCHANGED <<sock, failed, faults>>

(* send and recv: a frame is passed, or the socket's timeout ends a recv. *)
TransferChecks(c) == /\ \/ At(c, "send", "check")
                        \/ At(c, "recv", "check")
                     /\ IF sock = "none" THEN Ends(c, "ValueError") ELSE Then(c, "transfer")
                     /\ UNCHANGED <<sock, failed, faults>>

Transfers(c) == /\ \/ At(c, "send", "transfer")
                   \/ At(c, "recv", "transfer")
                /\ Ends(c, IF sock = "bound" THEN "ok" ELSE "Exception")
                /\ failed' = IF sock = "unbound" THEN failed \cup {c} ELSE failed
                /\ UNCHANGED <<sock, faults>>

(* An OSError of a socket that is bound: no answer comes, the CAN interface *)
(* has gone down.                                                           *)
TransferFails(c) == /\ \/ At(c, "send", "transfer")
                       \/ At(c, "recv", "transfer")
                    /\ sock = "bound" /\ faults < MaxFaults
                    /\ faults' = faults + 1 /\ failed' = failed \cup {c}
                    /\ Ends(c, "Exception")
                    /\ UNCHANGED sock

Unsupported(c) == /\ At(c, "available", "check")
                  /\ Ends(c, "NotImplementedError")
                  /\ UNCHANGED <<sock, failed, faults>>

Run(c) == \/ StartChecks(c) \/ StartOpens(c) \/ StartBinds(c)
          \/ StopChecks(c) \/ StopCloses(c) \/ StopForgets(c)
          \/ TransferChecks(c) \/ Transfers(c) \/ Unsupported(c)

Fault(c) == BindFails(c) \/ TransferFails(c)

Elsewhere(c) == /\ \/ Send(c) /\ failed' = failed \ {c}
                   \/ (Refuse(c) \/ Enter(c) \/ Cancel(c)) /\ UNCHANGED failed
                /\ UNCHANGED <<sock, next, faults>>

Next == \E c \in Call : Run(c) \/ Fault(c) \/ Elsewhere(c)

Spec == Init /\ [][Next]_vars
-----------------------------------------------------------------------------
TypeOK == /\ CallTypeOK
          /\ sock \in {"none", "open", "bound", "unbound", "closed"}
          /\ next \in [Call -> {"check", "open", "bind", "close", "forget", "transfer"}]
          /\ failed \subseteq Call
          /\ faults \in 0..MaxFaults

(* However start and stop interleave, once no method runs the driver has no *)
(* socket, a bound one or one whose bind has failed, which a stop removes:  *)
(* never one that was closed or that nobody has tried to bind.              *)
SettlesUsable == Running = {} => sock \in {"none", "bound", "unbound"}

(* A client whose method ran alone is told what went wrong: it gets the     *)
(* driver's ValueError and no unknown error, unless the socket itself has   *)
(* failed to it: at the bind, now or before, or at the transfer.            *)
UnknownNeedsRace == \A c \in Call : answer[c] = "AioRpcError" /\ method[c] \in Exported =>
                                      raced[c] \/ c \in failed
=============================================================================
