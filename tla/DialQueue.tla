----------------------------- MODULE DialQueue -----------------------------
(***************************************************************************)
(* The path of a connection token from a client's Dial to the exporter.    *)
(* The controller puts the token of every Dial in one bounded memory       *)
(* stream and hands the tokens out, in order, on the Listen call that is   *)
(* reading it (conftest.py, MockController).  The exporter reads the call  *)
(* one token at a time and is away serving a session in between            *)
(* (exporter.py, serve), so tokens pile up on its side of the call.        *)
(*                                                                         *)
(* A token is the name of the connection it stands for: it is a fresh      *)
(* uuid4, so no two Dials share one.                                       *)
(***************************************************************************)
EXTENDS Naturals, Sequences, Connections

CONSTANT QueueSize   \* capacity of the controller's memory stream (32 in the code)

ASSUME QueueAssumption == QueueSize \in Nat \ {0}

VARIABLES queue,    \* tokens dialed and not yet handed to a Listen call
          listen,   \* state of the exporter's current Listen call
          buffer,   \* tokens handed to that call and not yet read from it
          stale     \* the controller still serves a Listen call nobody reads

dialVars == <<queue, listen, buffer, stale>>

ListenState == {"down", "up", "ended", "broken"}

DialTypeOK == /\ queue \in Seq(Conn)
              /\ listen \in ListenState
              /\ buffer \in Seq(Conn)
              /\ stale \in BOOLEAN

DialInit == /\ queue = <<>>
            /\ listen = "down"
            /\ buffer = <<>>
            /\ stale = FALSE

Elems(s) == {s[i] : i \in 1..Len(s)}

(* Tokens on their way to the exporter. *)
InTransit == Elems(queue) \cup Elems(buffer)

-----------------------------------------------------------------------------
(* Dial: the send blocks while the memory stream is full, and the client    *)
(* has its answer once the token is in.                                     *)
Enqueue(c) == /\ Len(queue) < QueueSize
              /\ queue' = Append(queue, c)
              /\ UNCHANGED <<listen, buffer, stale>>

(* The exporter opens a Listen call. *)
OpenListen == /\ listen = "down"
              /\ listen' = "up"
              /\ buffer' = <<>>
              /\ UNCHANGED <<queue, stale>>

(* Listen takes the oldest token out of the memory stream and yields it.    *)
YieldToken == /\ listen = "up"
              /\ queue # <<>>
              /\ buffer' = Append(buffer, Head(queue))
              /\ queue' = Tail(queue)
              /\ UNCHANGED <<listen, stale>>

(* A Listen handler whose caller is gone is still suspended on the memory   *)
(* stream: the token it is given is yielded to nobody.                      *)
YieldToStale == /\ stale
                /\ queue # <<>>
                /\ queue' = Tail(queue)
                /\ UNCHANGED <<listen, buffer, stale>>

(* The controller notices the cancellation of the calls nobody reads.       *)
ReapStale == /\ stale
             /\ stale' = FALSE
             /\ UNCHANGED <<queue, listen, buffer>>

(* The call ends under the exporter: cleanly, with every token delivered,   *)
(* or with an error that loses the tokens still in flight.                  *)
EndListen == /\ listen = "up"
             /\ \/ /\ listen' = "ended"
                   /\ UNCHANGED <<buffer, stale>>
                \/ /\ listen' = "broken"
                   /\ \E n \in 0..Len(buffer) : buffer' = SubSeq(buffer, 1, n)
                   /\ stale' = TRUE
             /\ UNCHANGED queue

(* Mutants of Receive: the tokens that wait behind are thrown away; the     *)
(* token is looked at and not taken.                                        *)
ReceiveDropsRest(c) == /\ listen # "down"
                       /\ buffer # <<>>
                       /\ c = Head(buffer)
                       /\ buffer' = <<>>
                       /\ UNCHANGED <<queue, listen, stale>>

ReceivePeeks(c) == /\ listen # "down"
                   /\ buffer # <<>>
                   /\ c = Head(buffer)
                   /\ UNCHANGED dialVars

(* The exporter reads one token off its call. *)
Receive(c) == /\ listen # "down"
              /\ buffer # <<>>
              /\ c = Head(buffer)
              /\ buffer' = Tail(buffer)
              /\ UNCHANGED <<queue, listen, stale>>

(* Mutant of SeeListenEnd: the finished call is kept. *)
ListenKept == /\ listen \in {"ended", "broken"}
              /\ buffer = <<>>
              /\ UNCHANGED dialVars

(* The exporter has read everything and learns how the call ended. *)
SeeListenEnd == /\ listen \in {"ended", "broken"}
                /\ buffer = <<>>
                /\ listen' = "down"
                /\ UNCHANGED <<queue, buffer, stale>>

(* An exception leaves the loop that reads the call: what was not read is   *)
(* lost, and the call itself lives on until it is collected.                *)
DropListen == /\ listen' = "down"
              /\ buffer' = <<>>
              /\ stale' = (stale \/ listen = "up")
              /\ UNCHANGED queue
=============================================================================
