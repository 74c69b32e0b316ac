------------------------------- MODULE Router -------------------------------
(***************************************************************************)
(* The router that joins the two ends of a connection: each end opens a    *)
(* Stream call with the connection's token (conftest.py, MockRouter).  The *)
(* first to arrive is kept in `pending` until its own call is done; an end *)
(* that finds the token pending forwards between the two streams.          *)
(***************************************************************************)
EXTENDS Connections

VARIABLES rpc,       \* the ends whose Stream call is open, per connection
          pending,   \* whose stream is kept in the table, per connection
          joined     \* connections whose two streams are being forwarded

routerVars == <<rpc, pending, joined>>

End == {"client", "exporter"}
Nobody == "nobody"

RouterTypeOK == /\ rpc \in [Conn -> SUBSET End]
                /\ pending \in [Conn -> End \cup {Nobody}]
                /\ joined \in SUBSET Conn

RouterInit == /\ rpc = [c \in Conn |-> {}]
              /\ pending = [c \in Conn |-> Nobody]
              /\ joined = {}

(* Both ends are connected and their bytes are forwarded. *)
Intact(c) == c \in joined /\ rpc[c] = End

-----------------------------------------------------------------------------
(* Mutant of Attach: the later stream takes the place of the pending one. *)
AttachOverwrites(c, e) == /\ e \notin rpc[c]
                          /\ rpc' = [rpc EXCEPT ![c] = @ \cup {e}]
                          /\ pending' = [pending EXCEPT ![c] = e]
                          /\ UNCHANGED joined

(* An end opens its Stream call. *)
Attach(c, e) ==
  /\ e \notin rpc[c]
  /\ rpc' = [rpc EXCEPT ![c] = @ \cup {e}]
  /\ \/ /\ pending[c] = Nobody
        /\ pending' = [pending EXCEPT ![c] = e]
        /\ UNCHANGED joined
     \/ /\ pending[c] # Nobody
        /\ joined' = joined \cup {c}
        /\ UNCHANGED pending

(* The Stream call of an end is over: closed by the end, or lost. *)
Detach(c, e) == /\ rpc' = [rpc EXCEPT ![c] = @ \ {e}]
                /\ UNCHANGED <<pending, joined>>

(* Mutant of Forget: the table entry goes while its call is still open. *)
ForgetEarly(c) == /\ pending[c] # Nobody
                  /\ pending' = [pending EXCEPT ![c] = Nobody]
                  /\ UNCHANGED <<rpc, joined>>

(* The handler of the end that came first wakes up after its call is done   *)
(* and takes its stream out of the table.                                   *)
Forget(c) == /\ pending[c] # Nobody
             /\ pending[c] \notin rpc[c]
             /\ pending' = [pending EXCEPT ![c] = Nobody]
             /\ UNCHANGED <<rpc, joined>>

(* The forwarder sees one of its two streams at its end: it closes the      *)
(* other, and the server aborts that call.                                  *)
Sever(c) == /\ c \in joined
            /\ rpc[c] # End
            /\ rpc[c] # {}
            /\ rpc' = [rpc EXCEPT ![c] = {}]
            /\ UNCHANGED <<pending, joined>>
=============================================================================
