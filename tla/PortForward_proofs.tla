------------------------- MODULE PortForward_proofs -------------------------
(***************************************************************************)
(* What arrives whole over a forwarded connection, for any number of       *)
(* chunks and any size of the wire, and what a browser gets first, for any *)
(* number of messages and any size of the queue.                           *)
(***************************************************************************)
EXTENDS Adapters, SequenceTheorems, TLAPS

(* No hop makes chunks. *)
InOrder == SentRead <= sent /\ AnswersRead <= answered

(* The end of stream is behind the last chunk the user has sent, unless the *)
(* request was cut short; so is the end of the device's connection.         *)
RequestEnds ==
  /\ goaway => copies["clientUp"] = "ended"
  /\ goaway => CutShort("request") \/ (eof /\ SentRead = sent)
  /\ DeviceIsOver => CutShort("request") \/ (eof /\ received = sent)

(* A call that has ended has read all of the device's answer, unless the    *)
(* answer was cut short; the connection is closed behind its last chunk.    *)
AnswerEnds ==
  /\ aborted => DeviceIsOver
  /\ device \in {"connecting", "refused"} => answered = 0
  /\ device = "closed" => Lost \/ eof \/ AnswersRead = answered
  /\ aborted => CutShort("answer") \/ AnswersRead = answered
  /\ conn # "open" => Lost \/ (aborted /\ reply = 0)
  /\ conn = "closed" => copies["clientDown"] = "ended"
  /\ conn = "reset" => eof
  /\ device = "reset" => deviceEof
  /\ device = "connecting" => copies["sessionUp"] = "waiting" /\ copies["sessionDown"] = "waiting"
  /\ aborted => copies["sessionUp"] = "ended" /\ copies["sessionDown"] = "ended"
  /\ copies["clientUp"] = "waiting" => copies["clientDown"] = "waiting"

Inv == TypeOK /\ InOrder /\ RequestEnds /\ AnswerEnds

LEMMA InvStep == Inv /\ [Next]_vars => Inv'
<1> SUFFICES ASSUME Inv, [Next]_vars PROVE Inv'
    OBVIOUS
<1> USE SizeAssumption DEF Inv, TypeOK, InOrder, RequestEnds, AnswerEnds, SentRead, AnswersRead, Copy, Runs, SetCopies,
        Client, Session, upVars, downVars, linkVars, CutShort, Lost, DeviceIsOver, ClosesDevice, ClosesConn
<1>1. CASE UNCHANGED vars
      BY <1>1 DEF vars
<1>2. CASE UserSends
      BY <1>2 DEF UserSends
<1>3. CASE UserEnds
      BY <1>3 DEF UserEnds
<1>4. CASE DeviceSends
      BY <1>4 DEF DeviceSends
<1>5. CASE DeviceEnds
      BY <1>5 DEF DeviceEnds
<1>6. CASE LeaveAdapter
      BY <1>6 DEF LeaveAdapter
<1>7. CASE DeviceConnects
      BY <1>7 DEF DeviceConnects
<1>8. CASE DeviceRefuses
      BY <1>8 DEF DeviceRefuses
<1>9. CASE ClientStarts
      BY <1>9 DEF ClientStarts
<1>10. CASE ClientUp
      BY <1>10 DEF ClientUp
<1>11. CASE ClientUpEnds
      BY <1>11 DEF ClientUpEnds
<1>12. CASE ClientDown
      BY <1>12 DEF ClientDown
<1>13. CASE ClientDownEnds
      BY <1>13 DEF ClientDownEnds
<1>14. CASE SessionUp
      BY <1>14 DEF SessionUp
<1>15. CASE SessionUpEnds
      BY <1>15 DEF SessionUpEnds
<1>16. CASE SessionDown
      BY <1>16 DEF SessionDown
<1>17. CASE SessionDownEnds
      BY <1>17 DEF SessionDownEnds
<1>18. CASE CallCancelled
      BY <1>18 DEF CallCancelled
<1>19. CASE UserResets
      BY <1>19 DEF UserResets
<1>20. CASE DeviceResets
      BY <1>20 DEF DeviceResets
<1>21. CASE CallBreaks
      BY <1>21 DEF CallBreaks
<1> QED BY <1>1, <1>2, <1>3, <1>4, <1>5, <1>6, <1>7, <1>8, <1>9, <1>10, <1>11, <1>12, <1>13, <1>14, <1>15, <1>16,
           <1>17, <1>18, <1>19, <1>20, <1>21 DEF Next, Peers, Connect, ClientStep, SessionStep

LEMMA InitInv == Init => Inv
<1> SUFFICES ASSUME Init PROVE Inv
    OBVIOUS
<1>1. TypeOK
  <2>1. /\ 0 \in 0..MaxChunks /\ 0 \in 0..0 /\ 0 \in 0..WireSize
        BY SizeAssumption
  <2>2. copies \in [Copy -> {"waiting", "running", "ended"}]
        BY DEF Init
  <2> QED BY <2>1, <2>2 DEF Init, TypeOK
<1>2. InOrder /\ RequestEnds /\ AnswerEnds
      BY DEF Init, InOrder, RequestEnds, AnswerEnds, SentRead, AnswersRead, Copy, DeviceIsOver
<1> QED BY <1>1, <1>2 DEF Inv

LEMMA PortRuns == AdapterSpec => Spec
<1>1. AdapterInit => Init
      BY DEF AdapterInit
<1>2. [AdapterNext]_adapterVars => [Next]_vars
      BY DEF AdapterNext, adapterVars
<1> QED BY <1>1, <1>2, PTL DEF AdapterSpec, Spec

LEMMA InvCorrect == Spec => []Inv
BY InitInv, InvStep, PTL DEF Spec

(* The counts, the copies and the two connections have their types. *)
THEOREM PortTypeCorrect == Spec => []TypeOK
<1>1. Inv => TypeOK
      BY DEF Inv
<1> QED BY <1>1, InvCorrect, PTL

-----------------------------------------------------------------------------
(* What a step does to the request and to the answer. *)
RequestMoves ==
  /\ sent' # sent => sent' = sent + 1 /\ ~eof
  /\ received' # received => received' = received + 1 /\ received < sent /\ ~DeviceIsOver
  /\ eof => eof'
  /\ DeviceIsOver => DeviceIsOver'
  /\ CutShort("request") => CutShort("request")'
  /\ ~DeviceIsOver /\ DeviceIsOver' => CutShort("request")' \/ (eof /\ received = sent)

AnswerMoves ==
  /\ answered' # answered => answered' = answered + 1 /\ ~deviceEof /\ ~DeviceIsOver
  /\ delivered' # delivered => delivered' = delivered + 1 /\ delivered < answered /\ conn = "open"
  /\ deviceEof => deviceEof'
  /\ conn # "open" => conn' # "open"
  /\ CutShort("answer") => CutShort("answer")'
  /\ conn = "open" /\ conn' # "open" =>
       CutShort("answer")' \/ (DeviceIsOver /\ delivered = answered)

LEMMA HalvesMove == Inv /\ Inv' /\ [Next]_vars => RequestMoves /\ AnswerMoves
<1> SUFFICES ASSUME Inv, Inv', [Next]_vars PROVE RequestMoves /\ AnswerMoves
    OBVIOUS
<1> USE SizeAssumption DEF Inv, TypeOK, InOrder, RequestEnds, AnswerEnds, SentRead, AnswersRead, Copy, Runs, upVars, downVars, linkVars,
        RequestMoves, AnswerMoves, CutShort, Lost, DeviceIsOver, ClosesDevice, ClosesConn
<1>1. CASE UNCHANGED vars
      BY <1>1 DEF vars
<1>2. CASE Peers
  <2>1. CASE UserSends \/ UserEnds \/ UserResets
        BY <2>1 DEF UserSends, UserEnds, UserResets
  <2>2. CASE DeviceSends \/ DeviceEnds \/ DeviceResets
        BY <2>2 DEF DeviceSends, DeviceEnds, DeviceResets
  <2>3. CASE CallBreaks \/ LeaveAdapter
        BY <2>3 DEF CallBreaks, LeaveAdapter
  <2> QED BY <1>2, <2>1, <2>2, <2>3 DEF Peers
<1>3. CASE Connect
      BY <1>3 DEF Connect, DeviceConnects, DeviceRefuses
<1>4. CASE ClientStep
  <2>1. CASE ClientStarts \/ ClientUp \/ ClientUpEnds
        BY <2>1 DEF ClientStarts, ClientUp, ClientUpEnds
  <2>2. CASE ClientDown
        BY <2>2 DEF ClientDown
  <2>3. CASE ClientDownEnds
        BY <2>3 DEF ClientDownEnds
  <2> QED BY <1>4, <2>1, <2>2, <2>3 DEF ClientStep
<1>5. CASE SessionStep
  <2>1. CASE SessionUp
        BY <2>1 DEF SessionUp
  <2>4. CASE SessionUpEnds
        BY <2>4 DEF SessionUpEnds
  <2>2. CASE SessionDown
        BY <2>2 DEF SessionDown
  <2>3. CASE SessionDownEnds
    <3>1. RequestMoves
          BY <2>3 DEF SessionDownEnds
    <3>2. AnswerMoves
          BY <2>3 DEF SessionDownEnds
    <3> QED BY <3>1, <3>2
  <2> QED BY <1>5, <2>1, <2>2, <2>3, <2>4 DEF SessionStep
<1>6. CASE CallCancelled
      BY <1>6 DEF CallCancelled
<1> QED BY <1>1, <1>2, <1>3, <1>4, <1>5, <1>6 DEF Next

(* Each half of a connection is closed behind its last chunk, unless it was *)
(* cut short: by a break of the call, a reset, an adapter that was left, or *)
(* a device that refused or ended first for the request and an end of the   *)
(* request that closed the device for the answer (forward_stream).          *)
THEOREM HalvesArriveWhole == Spec => HalvesAreWhole
<1>1. Init => Halves!StreamInit
  <2> SUFFICES ASSUME Init PROVE Halves!StreamInit
      OBVIOUS
  <2> QED BY DEF Init, Halves!StreamInit, CutShort, Lost, DeviceIsOver
<1>2. Inv /\ Inv' /\ [Next]_vars => [Halves!StreamNext]_Halves!streamVars
  <2> SUFFICES ASSUME Inv, Inv', [Next]_vars PROVE Halves!StreamNext
      OBVIOUS
  <2>1. RequestMoves /\ AnswerMoves
        BY HalvesMove
  <2>2. /\ [request |-> sent', answer |-> answered'] \in [{"request", "answer"} -> Nat]
        /\ [request |-> received', answer |-> delivered'] \in [{"request", "answer"} -> Nat]
    <3>1. sent' \in Nat /\ received' \in Nat /\ answered' \in Nat /\ delivered' \in Nat
          BY SizeAssumption DEF Inv, TypeOK
    <3> QED BY <3>1
  <2>3. Halves!StreamStep("request")
        BY <2>1 DEF RequestMoves, Halves!StreamStep, Halves!Sends, Halves!Reads, Halves!MayEnd
  <2>4. Halves!StreamStep("answer")
        BY <2>1 DEF AnswerMoves, RequestMoves, Halves!StreamStep, Halves!Sends, Halves!Reads, Halves!MayEnd
  <2> QED BY <2>1, <2>2, <2>3, <2>4 DEF Halves!StreamNext, RequestMoves, AnswerMoves
<1> QED BY <1>1, <1>2, InvCorrect, PTL DEF Spec, HalvesAreWhole, Halves!StreamSpec

(* So the end of a half that was not cut short is the end of all that was   *)
(* sent.                                                                    *)
THEOREM EndsAreWhole == Spec => []Halves!EndIsWhole
<1>1. Inv => Halves!EndIsWhole
  <2> SUFFICES ASSUME Inv PROVE Halves!EndIsWhole
      OBVIOUS
  <2> QED BY SizeAssumption DEF Inv, TypeOK, InOrder, RequestEnds, AnswerEnds, AnswersRead, CutShort, Lost, DeviceIsOver,
             Halves!EndIsWhole
<1> QED BY <1>1, InvCorrect, PTL

-----------------------------------------------------------------------------
(* Until the browser has got something, the copy to it has not looked at    *)
(* the device, the request is all that came, and the acceptance is first in *)
(* the queue or about to enter it.                                          *)
Unanswered ==
  /\ down \in {"start", "queue"}
  /\ browser \in {"silent", "asked", "ended"}
  /\ inbox = <<>> \/ inbox = <<Frame("request")>>
  /\ browser = "silent" => inbox = <<>>
  /\ ws = "CONNECTING" => queue = <<>> /\ held = NoReply
  /\ ws # "CONNECTING" => /\ down = "queue" /\ held \in {NoReply, "accept"}
                          /\ \/ queue = <<>> /\ held = "accept"
                             \/ queue # <<>> /\ Head(queue) = "accept"

Handshake == /\ first \in {Nothing, "accept"}
             /\ queue \in Seq(Replies)
             /\ held \in Replies \cup {NoReply}
             /\ up = "start" => ws = "CONNECTING"
             /\ down = "start" => up = "start"
             /\ first = Nothing => Unanswered

LEMMA HandshakeStep == Handshake /\ [AdapterNext]_adapterVars => Handshake'
<1> SUFFICES ASSUME Handshake, [AdapterNext]_adapterVars PROVE Handshake'
    OBVIOUS
<1>0. CASE UNCHANGED wsVars
      BY <1>0 DEF wsVars, browserVars, proxyVars, taskVars, Handshake, Unanswered
<1>1. /\ \A r \in Replies : Append(queue, r) \in Seq(Replies)
      /\ queue # <<>> => \A r : Head(Append(queue, r)) = Head(queue)
      /\ \A r : Append(queue, r) # <<>> /\ (queue = <<>> => Head(Append(queue, r)) = r)
      /\ queue # <<>> => /\ Head(queue) \in Replies
                         /\ Tail(queue) \in Seq(Replies)
      BY HeadTailProperties DEF Handshake
<1>2. /\ \A frame : Append(<<>>, frame) = <<frame>>
      /\ \A frame : Head(<<frame>>) = frame /\ Tail(<<frame>>) = <<>>
      OBVIOUS
<1> USE DEF Handshake, Unanswered, Replies, Nothing, NoReply, browserVars, deviceVars, proxyVars, taskVars
<1>3. CASE WsPeers
      BY <1>2, <1>3 DEF WsPeers, BrowserAsks, BrowserTalks, BrowserCloses, BrowserEnds, BrowserSends, VncSends, VncEnds
<1>4. CASE TakesReply
      BY <1>1, <1>4 DEF TakesReply, Gets
<1>5. CASE Waits \/ TakesData \/ DownEnds
      BY <1>5 DEF Waits, TakesData, DownEnds, Gets
<1>6. CASE UpStarts \/ PassesMessage \/ UpEnds
      BY <1>2, <1>6 DEF UpStarts, PassesMessage, UpEnds, Reads, Frame
<1>7. CASE Accepts \/ AnswersPing \/ AnswersClose
  <2>1. /\ up = "reading" /\ down # "start" /\ held = NoReply /\ inbox # <<>> /\ inbox' = Tail(inbox)
        /\ UNCHANGED <<messages, browser, first, up, down, queue>>
        BY <1>7 DEF Accepts, AnswersPing, AnswersClose, Reads
  <2>2. CASE first # Nothing
        BY <1>7, <2>1, <2>2 DEF Accepts, AnswersPing, AnswersClose
  <2>3. CASE first = Nothing
    <3>1. inbox = <<Frame("request")>> /\ inbox' = <<>> /\ down = "queue"
          BY <1>2, <2>1, <2>3
    <3>2. ws' = "OPEN" /\ held' = "accept"
          BY <1>2, <1>7, <3>1 DEF Accepts, AnswersPing, AnswersClose, Reads, Frame
    <3> QED BY <2>1, <2>3, <3>1, <3>2
  <2> QED BY <2>2, <2>3
<1>8. CASE Queues
      BY <1>1, <1>8 DEF Queues
<1>9. CASE Ends
      BY <1>9 DEF Ends, HandlerRaises, OtherRaises, LeavePort, Cleans
<1> QED BY <1>0, <1>3, <1>4, <1>5, <1>6, <1>7, <1>8, <1>9 DEF AdapterNext, WsNext, Down, Up, adapterVars

(* The first thing a browser gets is the acceptance of its request, however *)
(* early the VNC server talks (NovncAdapter, WebsocketServerStream).        *)
THEOREM AcceptanceComesFirst == AdapterSpec => []HandshakeFirst
<1>1. AdapterInit => Handshake
      BY DEF AdapterInit, WsInit, Handshake, Unanswered, NoReply, Nothing
<1>2. Handshake => HandshakeFirst
      BY DEF Handshake, HandshakeFirst
<1> QED BY <1>1, <1>2, HandshakeStep, PTL DEF AdapterSpec

-----------------------------------------------------------------------------
(* What is numbered in the inbox follows on what was passed, without a gap. *)
Follows(i) == \/ inbox[i].no = Len(toDevice) + 1
              \/ \E j \in 1..i - 1 : inbox[j] = Message(inbox[i].no - 1)

Pending ==
  /\ \A i \in DOMAIN inbox : inbox[i].kind = "message" =>
       /\ inbox[i].no \in Len(toDevice) + 1..messages
       /\ inbox[i] = Message(inbox[i].no)
       /\ Follows(i)
       /\ \A j \in 1..i - 1 : inbox[j].kind = "message" => inbox[j].no < inbox[i].no
  /\ browser \in {"silent", "asked", "talking"} =>
       \/ messages = Len(toDevice)
       \/ \E i \in DOMAIN inbox : inbox[i] = Message(messages)

(* As long as the call is open the device has had the first messages, and   *)
(* the next ones are on their way.                                          *)
Passing == /\ messages \in Nat
           /\ inbox \in Seq(Frames)
           /\ toDevice \in Seq(Frames)
           /\ browser \in {"silent", "asked"} => messages = 0
           /\ stream = "open" => Pending /\ \A i \in DOMAIN toDevice : toDevice[i] = Message(i) /\ i <= messages
           /\ OnlyMessages

(* Nothing is sent, read or written: the browser may leave, the call end.   *)
Stays == /\ UNCHANGED <<inbox, messages, toDevice>>
         /\ browser' # browser => browser = "asked" \/ browser' = "ended"
         /\ stream' = "open" => stream = "open"
         /\ stream = "closed" => stream' = "closed"

LEMMA PassingStays == Passing /\ Stays => Passing'
<1> SUFFICES ASSUME Passing, Stays PROVE Passing'
    OBVIOUS
<1>1. stream' = "open" => Pending'
      BY DEF Stays, Passing, Pending, Follows
<1>2. OnlyMessages'
      BY DEF Stays, Passing, OnlyMessages
<1> QED BY <1>1, <1>2 DEF Stays, Passing

(* A frame is read and, if it is a message, passed to the device.           *)
LEMMA PassingReads ==
  ASSUME Passing, inbox # <<>>, inbox' = Tail(inbox), UNCHANGED <<messages, browser, stream>>,
         \/ Head(inbox).kind # "message" /\ toDevice' = toDevice
         \/ Head(inbox).kind = "message" /\ stream = "open" /\ toDevice' = Append(toDevice, Head(inbox))
  PROVE  Passing'
<1> DEFINE h == Head(inbox)
           p == Len(toDevice)
<1>1. /\ Len(inbox) \in Nat \ {0} /\ DOMAIN inbox = 1..Len(inbox) /\ h = inbox[1]
      /\ h \in Frames /\ inbox' \in Seq(Frames)
      /\ DOMAIN inbox' = 1..Len(inbox) - 1
      /\ \A i \in 1..Len(inbox) - 1 : inbox'[i] = inbox[i + 1]
  <2>1. inbox \in Seq(Frames)
        BY DEF Passing
  <2> QED BY <2>1, HeadTailProperties, LenProperties, EmptySeq
<1>2. p \in Nat /\ DOMAIN toDevice = 1..p
      BY LenProperties DEF Passing
<1>3. ASSUME stream = "open", h.kind = "message" PROVE h = Message(p + 1) /\ p + 1 <= messages
  <2>1. 1 \in DOMAIN inbox /\ Pending
        BY <1>1, <1>3 DEF Passing
  <2>2. Follows(1) /\ h = Message(h.no) /\ h.no \in p + 1..messages
        BY <1>1, <1>3, <2>1 DEF Pending
  <2> QED BY <1>1, <1>2, <2>2 DEF Follows, Passing
<1>4. /\ toDevice' \in Seq(Frames)
      /\ h.kind = "message" =>
           /\ Len(toDevice') = p + 1 /\ DOMAIN toDevice' = 1..p + 1 /\ toDevice'[p + 1] = h
           /\ \A i \in 1..p : toDevice'[i] = toDevice[i]
      /\ h.kind # "message" => toDevice' = toDevice
  <2>1. toDevice \in Seq(Frames)
        BY DEF Passing
  <2>2. CASE h.kind # "message"
        BY <2>1, <2>2
  <2>3. CASE h.kind = "message"
    <3>1. toDevice' = Append(toDevice, h)
          BY <2>3
    <3>2. /\ Append(toDevice, h) \in Seq(Frames) /\ Len(Append(toDevice, h)) = p + 1
          /\ \A i \in 1..p : Append(toDevice, h)[i] = toDevice[i]
          /\ Append(toDevice, h)[p + 1] = h
          BY <1>1, <2>1, AppendProperties
    <3>3. DOMAIN Append(toDevice, h) = 1..p + 1
          BY <3>2, LenProperties
    <3> QED BY <2>3, <3>1, <3>2, <3>3
  <2> QED BY <2>2, <2>3
<1>5. ASSUME stream = "open" PROVE \A i \in DOMAIN toDevice' : toDevice'[i] = Message(i) /\ i <= messages
  <2>1. \A i \in DOMAIN toDevice : toDevice[i] = Message(i) /\ i <= messages
        BY <1>5 DEF Passing
  <2> QED BY <1>2, <1>3, <1>4, <1>5, <2>1
<1>6. ASSUME stream = "open" PROVE Pending'
  <2> USE DEF Message
  <2>1. ASSUME NEW i \in DOMAIN inbox', inbox'[i].kind = "message"
        PROVE  /\ inbox'[i].no \in Len(toDevice') + 1..messages
               /\ inbox'[i] = Message(inbox'[i].no)
               /\ Follows(i)'
               /\ \A j \in 1..i - 1 : inbox'[j].kind = "message" => inbox'[j].no < inbox'[i].no
    <3>1. /\ i + 1 \in DOMAIN inbox /\ inbox'[i] = inbox[i + 1] /\ inbox[i + 1].kind = "message"
          /\ i \in Nat \ {0}
          BY <1>1, <2>1
    <3>2. /\ inbox[i + 1].no \in p + 1..messages
          /\ inbox[i + 1] = Message(inbox[i + 1].no)
          /\ Follows(i + 1)
          /\ \A j \in 1..i : inbox[j].kind = "message" => inbox[j].no < inbox[i + 1].no
          BY <1>6, <3>1 DEF Passing, Pending
    <3>3. \A j \in 1..i - 1 : inbox'[j] = inbox[j + 1] /\ j + 1 \in 1..i
          BY <1>1, <3>1
    <3>4. \A j \in 1..i - 1 : inbox'[j].kind = "message" => inbox'[j].no < inbox'[i].no
          BY <3>1, <3>2, <3>3
    <3>5. inbox[1].kind = "message" => inbox[1].no < inbox[i + 1].no
          BY <3>1, <3>2
    <3>6. inbox'[i].no \in Len(toDevice') + 1..messages
      <4>1. CASE h.kind = "message"
            BY <1>1, <1>2, <1>3, <1>4, <1>6, <3>1, <3>2, <3>5, <4>1 DEF Passing
      <4>2. CASE h.kind # "message"
            BY <1>2, <1>4, <3>1, <3>2, <4>2
      <4> QED BY <4>1, <4>2
    <3>7. Follows(i)'
      <4>1. CASE inbox[i + 1].no = p + 1
            BY <1>1, <1>2, <1>3, <1>4, <1>6, <3>1, <3>5, <4>1 DEF Follows
      <4>2. ASSUME NEW j \in 1..i, inbox[j] = Message(inbox[i + 1].no - 1) PROVE Follows(i)'
        <5>1. CASE j = 1
          <6>1. h.kind = "message" /\ inbox[i + 1].no - 1 = p + 1
                BY <1>1, <1>3, <1>6, <4>2, <5>1
          <6> QED BY <1>2, <1>4, <3>1, <3>2, <6>1 DEF Follows
        <5>2. CASE j # 1
          <6>1. j - 1 \in 1..i - 1 /\ inbox'[j - 1] = Message(inbox'[i].no - 1)
                BY <3>1, <3>3, <4>2, <5>2
          <6> QED BY <6>1 DEF Follows
        <5> QED BY <5>1, <5>2
      <4>3. inbox[i + 1].no = p + 1 \/ \E j \in 1..i : inbox[j] = Message(inbox[i + 1].no - 1)
            BY <3>1, <3>2 DEF Follows
      <4> QED BY <4>1, <4>2, <4>3
    <3> QED BY <3>1, <3>2, <3>4, <3>6, <3>7
  <2>2. ASSUME browser \in {"silent", "asked", "talking"}
        PROVE  messages = Len(toDevice') \/ \E i \in DOMAIN inbox' : inbox'[i] = Message(messages)
    <3>1. CASE messages = p
          BY <1>3, <1>4, <1>6, <1>2, <3>1
    <3>2. ASSUME NEW i \in DOMAIN inbox, inbox[i] = Message(messages)
          PROVE  messages = Len(toDevice') \/ \E k \in DOMAIN inbox' : inbox'[k] = Message(messages)
      <4>1. CASE i = 1
            BY <1>1, <1>3, <1>4, <1>6, <3>2, <4>1
      <4>2. CASE i # 1
        <5>1. i - 1 \in DOMAIN inbox' /\ inbox'[i - 1] = inbox[i]
              BY <1>1, <4>2
        <5> QED BY <3>2, <5>1
      <4> QED BY <4>1, <4>2
    <3> QED BY <1>6, <2>2, <3>1, <3>2 DEF Passing, Pending
  <2> QED BY <2>1, <2>2 DEF Pending
<1>7. OnlyMessages'
  <2>1. CASE stream = "open"
        BY <1>5, <2>1 DEF OnlyMessages
  <2>2. CASE stream # "open"
        BY <2>2 DEF Passing, OnlyMessages
  <2> QED BY <2>1, <2>2
<1> QED BY <1>1, <1>4, <1>5, <1>6, <1>7 DEF Passing

(* What the browser sends comes behind what it has sent. *)
LEMMA PassingSends ==
  ASSUME Passing, NEW frame \in Frames, inbox' = Append(inbox, frame), UNCHANGED <<toDevice, stream>>,
         \/ /\ frame.kind # "message" /\ UNCHANGED messages
            /\ \/ browser' = browser /\ browser \notin {"silent", "asked"}
               \/ browser = "silent" /\ browser' = "asked"
               \/ browser = "talking" /\ browser' = "closing"
         \/ /\ browser = "talking" /\ UNCHANGED browser
            /\ frame = Message(messages + 1) /\ messages' = messages + 1
  PROVE  Passing'
<1> DEFINE p == Len(toDevice)
<1>1. inbox \in Seq(Frames) /\ toDevice \in Seq(Frames) /\ messages \in Nat /\ messages' \in Nat /\ messages <= messages'
      BY DEF Passing
<1> PICK n \in Nat : Len(inbox) = n
    BY <1>1, LenProperties
<1>2. /\ n \in Nat /\ DOMAIN inbox = 1..n /\ p \in Nat
      /\ Append(inbox, frame) \in Seq(Frames) /\ Len(Append(inbox, frame)) = n + 1
      /\ \A i \in 1..n : Append(inbox, frame)[i] = inbox[i]
      /\ Append(inbox, frame)[n + 1] = frame
      BY <1>1, AppendProperties, LenProperties
<1>3. /\ inbox' \in Seq(Frames) /\ DOMAIN inbox' = 1..n + 1
      /\ \A i \in 1..n : inbox'[i] = inbox[i]
      /\ inbox'[n + 1] = frame
  <2>1. DOMAIN Append(inbox, frame) = 1..n + 1
        BY <1>2, LenProperties
  <2> QED BY <1>2, <2>1
<1>4. ASSUME stream = "open" PROVE Pending'
  <2> USE DEF Message
  <2>1. Pending
        BY <1>4 DEF Passing
  <2>2. ASSUME NEW i \in 1..n, inbox'[i].kind = "message"
        PROVE  /\ inbox'[i].no \in Len(toDevice') + 1..messages'
               /\ inbox'[i] = Message(inbox'[i].no)
               /\ Follows(i)'
               /\ \A j \in 1..i - 1 : inbox'[j].kind = "message" => inbox'[j].no < inbox'[i].no
    <3>1. /\ inbox[i].no \in p + 1..messages
          /\ inbox[i] = Message(inbox[i].no)
          /\ Follows(i)
          /\ \A j \in 1..i - 1 : inbox[j].kind = "message" => inbox[j].no < inbox[i].no
          BY <1>2, <1>3, <2>1, <2>2 DEF Pending
    <3>2. \A j \in 1..i - 1 : inbox'[j] = inbox[j]
          BY <1>2, <1>3
    <3>3. Follows(i)'
          BY <1>3, <3>1, <3>2 DEF Follows
    <3> QED BY <1>1, <1>2, <1>3, <3>1, <3>2, <3>3
  <2>3. CASE frame.kind # "message"
    <3>1. UNCHANGED messages
          BY <2>3
    <3>2. browser' \in {"silent", "asked", "talking"} =>
            messages = p \/ \E i \in 1..n : inbox'[i] = Message(messages)
          BY <1>2, <1>3, <2>1 DEF Pending
    <3> QED BY <1>2, <1>3, <2>2, <2>3, <3>1, <3>2 DEF Pending
  <2>4. CASE frame.kind = "message"
    <3>1. browser = "talking" /\ frame = Message(messages + 1) /\ messages' = messages + 1
          BY <2>4
    <3>2. p <= messages
      <4>1. \A i \in DOMAIN toDevice : i <= messages
            BY <1>4 DEF Passing
      <4> QED BY <1>1, <1>2, <4>1, LenProperties
    <3>3. messages = p \/ \E i \in 1..n : inbox'[i] = Message(messages)
          BY <1>2, <1>3, <2>1, <3>1 DEF Pending
    <3>4. \A j \in 1..n : inbox'[j].kind = "message" => inbox'[j].no < messages + 1
      <4>1. \A j \in 1..n : inbox[j].kind = "message" => inbox[j].no \in p + 1..messages
            BY <1>2, <2>1 DEF Pending
      <4> QED BY <1>1, <1>2, <1>3, <4>1
    <3>5. inbox'[n + 1].no = messages + 1 /\ inbox'[n + 1] = Message(messages') /\ Len(toDevice') = p
          BY <1>3, <3>1
    <3>6. Follows(n + 1)'
      <4>1. CASE messages = p
            BY <1>2, <3>5, <4>1 DEF Follows
      <4>2. ASSUME NEW i \in 1..n, inbox'[i] = Message(messages) PROVE Follows(n + 1)'
        <5>1. i \in 1..(n + 1) - 1 /\ inbox'[i] = Message(inbox'[n + 1].no - 1)
              BY <1>1, <1>2, <3>5, <4>2
        <5> QED BY <5>1 DEF Follows
      <4> QED BY <3>3, <4>1, <4>2
    <3>7. inbox'[n + 1].no \in Len(toDevice') + 1..messages'
          BY <1>1, <1>2, <3>1, <3>2, <3>5
    <3>8. inbox'[n + 1] = Message(inbox'[n + 1].no)
          BY <3>1, <3>5
    <3>9. \A j \in 1..(n + 1) - 1 : inbox'[j].kind = "message" => inbox'[j].no < inbox'[n + 1].no
          BY <1>2, <3>4, <3>5
    <3>10. \A i \in DOMAIN inbox' : i \in 1..n \/ i = n + 1
          BY <1>2, <1>3
    <3>11. n + 1 \in DOMAIN inbox'
          BY <1>2, <1>3
    <3> QED BY <2>2, <3>5, <3>6, <3>7, <3>8, <3>9, <3>10, <3>11 DEF Pending
  <2> QED BY <2>3, <2>4
<1>5. stream = "open" => \A i \in DOMAIN toDevice : toDevice[i] = Message(i) /\ i <= messages'
      BY <1>1, LenProperties DEF Passing
<1>6. OnlyMessages'
      BY <1>1, LenProperties DEF Passing, OnlyMessages
<1>7. browser' \in {"silent", "asked"} => messages' = 0
      BY DEF Passing
<1> QED BY <1>1, <1>3, <1>4, <1>5, <1>6, <1>7 DEF Passing

LEMMA PassingStep == Passing /\ [AdapterNext]_adapterVars => Passing'
<1> SUFFICES ASSUME Passing, [AdapterNext]_adapterVars PROVE Passing'
    OBVIOUS
<1> USE DEF browserVars, deviceVars, proxyVars, taskVars
<1>1. CASE UNCHANGED wsVars
      BY <1>1, PassingStays DEF wsVars, Stays
<1>2. CASE BrowserAsks \/ BrowserTalks \/ BrowserCloses
  <2>1. /\ Message(messages + 1) \in Frames
        /\ \A frame \in {"request", "ping", "close"} : Frame(frame) \in Frames /\ Frame(frame).kind # "message"
        BY DEF Passing, Frames, Frame, Message
  <2>2. CASE BrowserAsks
        BY <2>1, <2>2, PassingSends DEF BrowserAsks, BrowserSends
  <2>3. CASE BrowserTalks
        BY <2>1, <2>3, PassingSends DEF BrowserTalks, BrowserSends
  <2>4. CASE BrowserCloses
        BY <2>1, <2>4, PassingSends DEF BrowserCloses, BrowserSends
  <2> QED BY <1>2, <2>2, <2>3, <2>4
<1>3. CASE BrowserEnds \/ VncSends \/ VncEnds \/ TakesReply \/ Waits \/ TakesData \/ UpStarts \/ Queues \/ Ends
  <2>1. CASE BrowserEnds \/ VncSends \/ VncEnds
        BY <2>1, PassingStays DEF BrowserEnds, VncSends, VncEnds, Stays
  <2>2. CASE TakesReply \/ Waits \/ TakesData
        BY <2>2, PassingStays DEF TakesReply, Waits, TakesData, Gets, Stays
  <2>3. CASE UpStarts \/ Queues \/ Ends
        BY <2>3, PassingStays DEF UpStarts, Queues, Ends, HandlerRaises, OtherRaises, LeavePort, Cleans, Stays
  <2> QED BY <1>3, <2>1, <2>2, <2>3
<1>4. CASE DownEnds
  <2>1. inbox' = <<>> /\ browser' = "ended" /\ UNCHANGED <<messages, toDevice, stream>>
        BY <1>4 DEF DownEnds
  <2>2. Pending'
        BY <2>1 DEF Pending
  <2>3. OnlyMessages'
        BY <2>1 DEF Passing, OnlyMessages
  <2> QED BY <2>1, <2>2, <2>3 DEF Passing
<1>5. CASE Accepts \/ AnswersPing \/ AnswersClose \/ PassesMessage
      BY <1>5, PassingReads DEF Accepts, AnswersPing, AnswersClose, PassesMessage, Reads
<1>6. CASE UpEnds
  <2>1. CASE ws = "OPEN" /\ stream = "open"
    <3>1. /\ toDevice' = Append(toDevice, Frame("close")) /\ stream' = "closed"
          /\ UNCHANGED <<inbox, messages, browser>>
          BY <1>6, <2>1 DEF UpEnds
    <3>2. Frame("close") \in Frames /\ toDevice \in Seq(Frames)
          BY DEF Passing, Frame, Frames
    <3>3. /\ toDevice' \in Seq(Frames) /\ Len(toDevice') = Len(toDevice) + 1
          /\ \A i \in 1..Len(toDevice) : toDevice'[i] = toDevice[i]
          /\ toDevice'[Len(toDevice) + 1] = Frame("close")
          BY <3>1, <3>2, AppendProperties
    <3>4. DOMAIN toDevice' = 1..Len(toDevice) + 1 /\ DOMAIN toDevice = 1..Len(toDevice) /\ Len(toDevice) \in Nat
          BY <3>2, <3>3, LenProperties
    <3>5. OnlyMessages'
          BY <2>1, <3>1, <3>3, <3>4 DEF Passing, OnlyMessages
    <3> QED BY <3>1, <3>3, <3>5 DEF Passing
  <2>2. CASE ~(ws = "OPEN" /\ stream = "open")
        BY <1>6, <2>2, PassingStays DEF UpEnds, Stays
  <2> QED BY <2>1, <2>2
<1> QED BY <1>1, <1>2, <1>3, <1>4, <1>5, <1>6 DEF AdapterNext, WsNext, WsPeers, Down, Up, adapterVars

(* The device gets what the browser says, in order, without gaps and        *)
(* without the websocket's own frames, until its stream is closed           *)
(* (WebsocketServerStream.send and aclose).                                 *)
THEOREM MessagesInOrder == AdapterSpec => []OnlyMessages
<1>1. AdapterInit => Passing
      BY DEF AdapterInit, WsInit, Passing, Pending, OnlyMessages
<1>2. Passing => OnlyMessages
      BY DEF Passing
<1> QED BY <1>1, <1>2, PassingStep, PTL DEF AdapterSpec

-----------------------------------------------------------------------------
(* The buffers keep their bounds, and the states of either side and of the  *)
(* copies are what they may be.                                             *)
Bounded == /\ ws \in {"CONNECTING", "OPEN", "LOCAL_CLOSING", "CLOSED"}
           /\ Len(inbox) <= Buffered /\ Len(queue) <= QueueSize
           /\ messages <= MaxMessages
           /\ browser \in {"silent", "asked", "talking", "closing", "ended"}
           /\ fromDevice \in 0..Buffered
           /\ stream \in {"open", "ended", "closed"}
           /\ up \in {"start", "reading", "ended"}
           /\ down \in {"start", "looking", "queue", "device", "ended"}
           /\ port \in {"serving", "failed", "left"}

LEMMA BoundedStep == Handshake /\ Passing /\ Bounded /\ [AdapterNext]_adapterVars => Bounded'
<1> SUFFICES ASSUME Handshake, Passing, Bounded, [AdapterNext]_adapterVars PROVE Bounded'
    OBVIOUS
<1>1. inbox \in Seq(Frames) /\ queue \in Seq(Replies) /\ messages \in Nat
      BY DEF Handshake, Passing
<1>2. /\ Len(inbox) \in Nat /\ Len(queue) \in Nat
      /\ \A frame \in Frames : Len(Append(inbox, frame)) = Len(inbox) + 1
      /\ inbox # <<>> => Len(Tail(inbox)) = Len(inbox) - 1
      /\ \A r \in Replies : Len(Append(queue, r)) = Len(queue) + 1
      /\ queue # <<>> => Len(Tail(queue)) = Len(queue) - 1
      /\ Len(<<>>) = 0
      BY <1>1, HeadTailProperties, AppendProperties, LenProperties
<1>3. Message(messages + 1) \in Frames /\ \A frame \in {"request", "ping", "close"} : Frame(frame) \in Frames
      BY <1>1 DEF Message, Frame, Frames
<1> USE <1>1, <1>2, <1>3, WebsocketAssumption DEF Bounded, browserVars, deviceVars, proxyVars, taskVars
<1>4. CASE UNCHANGED wsVars
      BY <1>4 DEF wsVars
<1>5. CASE WsPeers
      BY <1>5 DEF WsPeers, BrowserAsks, BrowserTalks, BrowserCloses, BrowserEnds, BrowserSends, VncSends, VncEnds
<1>6. CASE Down
      BY <1>6 DEF Down, TakesReply, Waits, TakesData, DownEnds, Gets
<1>7. CASE UpStarts \/ Accepts \/ AnswersPing \/ AnswersClose \/ PassesMessage
      BY <1>7 DEF UpStarts, Accepts, AnswersPing, AnswersClose, PassesMessage, Reads
<1>8. CASE Queues \/ UpEnds
      BY <1>8 DEF Queues, UpEnds, Handshake
<1>9. CASE Ends
      BY <1>9 DEF Ends, HandlerRaises, OtherRaises, LeavePort, Cleans
<1> QED BY <1>4, <1>5, <1>6, <1>7, <1>8, <1>9 DEF AdapterNext, WsNext, Up, adapterVars

(* The frames, the queue and the states of a websocket have their types,    *)
(* and no buffer holds more than it can.                                    *)
THEOREM WebsocketTypeCorrect == AdapterSpec => []WsTypeOK
<1>1. AdapterInit => Handshake /\ Passing /\ Bounded
      BY WebsocketAssumption DEF AdapterInit, WsInit, Handshake, Unanswered, NoReply, Nothing, Passing, Pending, OnlyMessages, Bounded
<1>2. Handshake /\ Passing /\ Bounded => WsTypeOK
      BY DEF Handshake, Passing, Bounded, WsTypeOK, Replies
<1> QED BY <1>1, <1>2, HandshakeStep, PassingStep, BoundedStep, PTL DEF AdapterSpec
=============================================================================
