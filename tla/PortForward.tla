----------------------------- MODULE PortForward -----------------------------
(***************************************************************************)
(* A TCP connection of the user that PortforwardAdapter forwards to a      *)
(* network driver: a pair of copies in the client, the Stream call, a pair *)
(* of copies in the session, and the driver's connection to the device.    *)
(* A copy that ends closes the stream it writes to, in both directions,    *)
(* whether the stream it reads has ended or broken: copy_stream suppresses *)
(* the error of a call that breaks (RouterStream) or of a socket that is   *)
(* reset.                                                                  *)
(*                                                                         *)
(* Every hop keeps the order, so a hop is the count of the chunks in it.   *)
(* The chunks of a stream that is closed are not read any more.            *)
(***************************************************************************)
EXTENDS Naturals

CONSTANTS MaxChunks,   \* bound on the chunks sent in each direction
          WireSize     \* chunks that gRPC flow control lets be under way

ASSUME SizeAssumption == MaxChunks \in Nat /\ WireSize \in Nat \ {0}

VARIABLES sent,        \* chunks the user has sent
          request,     \* those on the wire
          received,    \* those that reached the device
          eof,         \* the user sends no more
          answered,    \* chunks the device has sent
          reply,       \* those on the wire
          delivered,   \* those that reached the user
          deviceEof,   \* the device sends no more
          copies,      \* the state of the four copies
          conn,        \* the user's connection, at the adapter
          device,      \* the driver's connection
          goaway,      \* the client's end of stream is on the wire
          aborted,     \* the session has ended the Stream call
          broken,      \* the call is breaking, somewhere on its way
          adapter      \* the adapter

upVars == <<sent, request, received, eof>>
downVars == <<answered, reply, delivered, deviceEof>>
linkVars == <<conn, device, goaway, aborted, broken>>
vars == <<upVars, downVars, linkVars, copies, adapter>>

Copy == {"clientUp", "clientDown", "sessionUp", "sessionDown"}

TypeOK == /\ sent \in 0..MaxChunks /\ received \in 0..sent
          /\ answered \in 0..MaxChunks /\ delivered \in 0..answered
          /\ request \in 0..WireSize /\ reply \in 0..WireSize
          /\ eof \in BOOLEAN /\ deviceEof \in BOOLEAN
          /\ copies \in [Copy -> {"waiting", "running", "ended"}]
          /\ conn \in {"open", "closed", "reset"}
          /\ device \in {"connecting", "open", "closed", "reset", "refused"}
          /\ goaway \in BOOLEAN /\ aborted \in BOOLEAN /\ broken \in BOOLEAN
          /\ adapter \in {"open", "left"}

(* The connection is accepted and the Stream call is made. *)
Init == /\ sent = 0 /\ request = 0 /\ received = 0 /\ eof = FALSE
        /\ answered = 0 /\ reply = 0 /\ delivered = 0 /\ deviceEof = FALSE
        /\ copies = [c \in Copy |-> "waiting"]
        /\ conn = "open" /\ device = "connecting"
        /\ goaway = FALSE /\ aborted = FALSE /\ broken = FALSE
        /\ adapter = "open"

Runs(c) == copies[c] = "running"
SetCopies(S, state) == copies' = [c \in Copy |-> IF c \in S THEN state ELSE copies[c]]

Client == {"clientUp", "clientDown"}
Session == {"sessionUp", "sessionDown"}

(* The device's connection is over; closing it is nothing anew then.        *)
DeviceIsOver == device \notin {"connecting", "open"}

ClosesDevice == device' = IF DeviceIsOver THEN device ELSE "closed"
ClosesConn == conn' = IF conn = "open" THEN "closed" ELSE conn

-----------------------------------------------------------------------------
(* The user and the device, outside of the program. *)
UserSends == /\ ~eof /\ sent < MaxChunks
             /\ sent' = sent + 1
             /\ UNCHANGED <<request, received, eof, downVars, linkVars, copies, adapter>>

UserEnds == /\ ~eof
            /\ eof' = TRUE
            /\ UNCHANGED <<sent, request, received, downVars, linkVars, copies, adapter>>

DeviceSends == /\ device = "open" /\ ~deviceEof /\ answered < MaxChunks
               /\ answered' = answered + 1
               /\ UNCHANGED <<upVars, reply, delivered, deviceEof, linkVars, copies, adapter>>

DeviceEnds == /\ device = "open" /\ ~deviceEof
              /\ deviceEof' = TRUE
              /\ UNCHANGED <<upVars, answered, reply, delivered, linkVars, copies, adapter>>

(* Either peer resets its connection; what it has sent may still be read.   *)
UserResets == /\ conn = "open"
              /\ conn' = "reset" /\ eof' = TRUE
              /\ UNCHANGED <<sent, request, received, downVars, device, goaway, aborted, broken, copies, adapter>>

DeviceResets == /\ device = "open"
                /\ device' = "reset" /\ deviceEof' = TRUE
                /\ UNCHANGED <<upVars, answered, reply, delivered, conn, goaway, aborted, broken, copies, adapter>>

(* The router, the network or the session's end breaks the call; chunks may *)
(* get through until either end notices.                                    *)
CallBreaks == /\ ~broken /\ ~aborted
              /\ broken' = TRUE
              /\ UNCHANGED <<upVars, downVars, conn, device, goaway, aborted, copies, adapter>>

-----------------------------------------------------------------------------
(* TcpNetwork.connect succeeds or raises; the client's copies start with    *)
(* the call's initial metadata, or its end.                                 *)
DeviceConnects == /\ device = "connecting"
                  /\ device' = "open"
                  /\ SetCopies(Session, "running")
                  /\ UNCHANGED <<upVars, downVars, conn, goaway, aborted, broken, adapter>>

DeviceRefuses == /\ device = "connecting"
                 /\ device' = "refused"
                 /\ aborted' = TRUE
                 /\ SetCopies(Session, "ended")
                 /\ UNCHANGED <<upVars, downVars, conn, goaway, broken, adapter>>

ClientStarts == /\ copies["clientUp"] = "waiting"
                /\ device # "connecting" \/ broken
                /\ SetCopies(Client, "running")
                /\ UNCHANGED <<upVars, downVars, linkVars, adapter>>

(* The client's copy of the connection to the call. *)
SentRead == received + request

ClientUp == /\ Runs("clientUp")
            /\ conn # "closed" /\ SentRead < sent
            /\ request < WireSize /\ ~aborted
            /\ request' = request + 1
            /\ UNCHANGED <<sent, received, eof, downVars, linkVars, copies, adapter>>

ClientUpEnds == /\ Runs("clientUp")
                /\ \/ conn # "open"
                   \/ eof /\ SentRead = sent
                   \/ (aborted \/ broken) /\ SentRead < sent
                /\ goaway' = TRUE
                /\ SetCopies({"clientUp"}, "ended")
                /\ UNCHANGED <<upVars, downVars, conn, device, aborted, broken, adapter>>

(* Its copy of the call to the connection. *)
ClientDown == /\ Runs("clientDown")
              /\ reply > 0 /\ conn = "open"
              /\ reply' = reply - 1
              /\ delivered' = delivered + 1
              /\ UNCHANGED <<upVars, answered, deviceEof, linkVars, copies, adapter>>

(* Mutant of ClientDownEnds: the status of the call overtakes the chunks.   *)
ClientDownAborts == /\ Runs("clientDown")
                    /\ aborted
                    /\ ClosesConn
                    /\ SetCopies({"clientDown"}, "ended")
                    /\ UNCHANGED <<upVars, downVars, device, goaway, aborted, broken, adapter>>

(* Mutant of ClientDownEnds: only one half of the connection is closed.     *)
ClientDownHalfCloses == /\ Runs("clientDown")
                        /\ (aborted /\ reply = 0) \/ broken
                        /\ SetCopies({"clientDown"}, "ended")
                        /\ UNCHANGED <<upVars, downVars, linkVars, adapter>>

ClientDownEnds == /\ Runs("clientDown")
                  /\ \/ aborted /\ reply = 0
                     \/ broken
                     \/ reply > 0 /\ conn # "open"
                  /\ ClosesConn
                  /\ SetCopies({"clientDown"}, "ended")
                  /\ UNCHANGED <<upVars, downVars, device, goaway, aborted, broken, adapter>>

-----------------------------------------------------------------------------
(* The session's copy of the call to the device. *)
SessionUp == /\ Runs("sessionUp")
             /\ request > 0
             /\ device = "open"
             /\ request' = request - 1
             /\ received' = received + 1
             /\ UNCHANGED <<sent, eof, downVars, linkVars, copies, adapter>>

(* Mutant of SessionUpEnds: the end of stream overtakes the chunks.         *)
SessionUpEndsEarly == /\ Runs("sessionUp")
                      /\ goaway
                      /\ ClosesDevice
                      /\ SetCopies({"sessionUp"}, "ended")
                      /\ UNCHANGED <<upVars, downVars, conn, goaway, aborted, broken, adapter>>

SessionUpEnds == /\ Runs("sessionUp")
                 /\ \/ goaway /\ request = 0
                    \/ request > 0 /\ device # "open"
                 /\ ClosesDevice
                 /\ SetCopies({"sessionUp"}, "ended")
                 /\ UNCHANGED <<upVars, downVars, conn, goaway, aborted, broken, adapter>>

(* Its copy of the device to the call. *)
AnswersRead == delivered + reply

SessionDown == /\ Runs("sessionDown")
               /\ device # "closed" /\ AnswersRead < answered
               /\ reply < WireSize
               /\ reply' = reply + 1
               /\ UNCHANGED <<upVars, answered, delivered, deviceEof, linkVars, copies, adapter>>

(* It ends the call, which cancels the other copy and leaves the driver's   *)
(* method.                                                                  *)
SessionDownEnds == /\ Runs("sessionDown")
                   /\ \/ device # "open"
                      \/ deviceEof /\ AnswersRead = answered
                   /\ aborted' = TRUE
                   /\ ClosesDevice
                   /\ SetCopies(Session, "ended")
                   /\ UNCHANGED <<upVars, downVars, conn, goaway, broken, adapter>>

-----------------------------------------------------------------------------
(* The adapter is left: its task group cancels the handler, which cancels   *)
(* the call.                                                                *)
LeaveAdapter == /\ adapter = "open"
                /\ adapter' = "left"
                /\ ClosesConn
                /\ SetCopies(Client, "ended")
                /\ UNCHANGED <<upVars, downVars, device, goaway, aborted, broken>>

(* The session's handler is cancelled with the call.                        *)
CallCancelled == /\ adapter = "left" \/ broken
                 /\ ~aborted
                 /\ aborted' = TRUE
                 /\ ClosesDevice
                 /\ SetCopies(Session, "ended")
                 /\ UNCHANGED <<upVars, downVars, conn, goaway, broken, adapter>>

Peers == \/ UserSends \/ UserEnds \/ UserResets
         \/ DeviceSends \/ DeviceEnds \/ DeviceResets
         \/ CallBreaks \/ LeaveAdapter
Connect == DeviceConnects \/ DeviceRefuses
ClientStep == ClientStarts \/ ClientUp \/ ClientUpEnds \/ ClientDown \/ ClientDownEnds
SessionStep == SessionUp \/ SessionUpEnds \/ SessionDown \/ SessionDownEnds

Next == Peers \/ Connect \/ ClientStep \/ SessionStep \/ CallCancelled

Spec == Init /\ [][Next]_vars

(* The copies run, a connection attempt ends, and a cancellation or a break *)
(* is noticed.                                                              *)
Fairness == /\ WF_vars(Connect) /\ WF_vars(ClientStarts)
            /\ WF_vars(ClientUp \/ ClientUpEnds) /\ WF_vars(ClientDown \/ ClientDownEnds)
            /\ WF_vars(SessionUp \/ SessionUpEnds) /\ WF_vars(SessionDown \/ SessionDownEnds)
            /\ WF_vars(CallCancelled)

FairSpec == Spec /\ Fairness
-----------------------------------------------------------------------------
(* What keeps a half from being whole: the adapter is left, the call breaks *)
(* or the user resets the connection; for the request, the device refuses,  *)
(* resets or ends first; for the answer, the device resets, or the end of   *)
(* the request closes the device before its answer has been read            *)
(* (forward_stream closes both ways).                                       *)
Lost == adapter = "left" \/ broken \/ conn = "reset"

CutShort(half) ==
  \/ Lost \/ device = "reset"
  \/ half = "request" /\ (device = "refused" \/ (aborted /\ deviceEof))
  \/ half = "answer" /\ device = "closed" /\ eof /\ AnswersRead < answered

(* The connection is two streams, of what the user and what the device      *)
(* sends, and each is closed behind its last chunk, unless it was cut short *)
(* in one of these ways.                                                    *)
Halves == INSTANCE WholeStream WITH
            Stream <- {"request", "answer"},
            sent <- [request |-> sent, answer |-> answered],
            read <- [request |-> received, answer |-> delivered],
            finished <- {s \in {"request", "answer"} :
                           IF s = "request" THEN eof ELSE deviceEof \/ DeviceIsOver},
            over <- {s \in {"request", "answer"} :
                       IF s = "request" THEN DeviceIsOver ELSE conn # "open"},
            given <- {s \in {"request", "answer"} : CutShort(s)}

HalvesAreWhole == Halves!StreamSpec

(* Wherever a connection ends or breaks, at the user, the device, the call  *)
(* or the adapter, both of its ends are closed and no copy is left behind.  *)
ClosedBothWays == (eof \/ deviceEof \/ broken \/ adapter = "left") ~>
                    /\ conn # "open" /\ DeviceIsOver
                    /\ \A c \in Copy : copies[c] = "ended"
=============================================================================
