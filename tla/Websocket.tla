------------------------------ MODULE Websocket ------------------------------
(***************************************************************************)
(* A connection of NovncAdapter: a browser's websocket, which              *)
(* WebsocketServerStream takes off its messages for a VNC server behind a  *)
(* Stream call.  forward_stream copies both ways: send() feeds the frames  *)
(* of the browser to wsproto and queues the replies, receive() takes a     *)
(* reply or waits for the device.                                          *)
(***************************************************************************)
EXTENDS Naturals, Sequences

CONSTANTS MaxMessages,   \* bound on the browser's messages
          QueueSize,     \* replies in the queue (32 in the code)
          Buffered       \* frames and data the two connections hold

ASSUME WebsocketAssumption == MaxMessages \in Nat /\ QueueSize \in Nat \ {0} /\ Buffered \in Nat \ {0}

VARIABLES ws,         \* wsproto's state
          inbox,      \* frames of the browser that were not read
          messages,   \* messages it has sent
          browser,    \* "silent", "asked", "talking", "closing", "ended"
          first,      \* the first thing it got
          queue,      \* replies
          held,       \* the reply that is being put into the queue
          fromDevice, \* data of the device that was not read
          toDevice,   \* what was written to the device
          stream,     \* the Stream call: "open", "ended" by the device, "closed"
          up, down,   \* the copies to and from the device
          port        \* "serving", "failed", "left"

browserVars == <<inbox, messages, browser, first>>
deviceVars == <<fromDevice, toDevice, stream>>
proxyVars == <<ws, queue, held>>
taskVars == <<up, down, port>>
wsVars == <<browserVars, deviceVars, proxyVars, taskVars>>

(* Messages are numbered as the browser sends them. *)
Frame(frame) == [kind |-> frame, no |-> 0]
Message(n) == [kind |-> "message", no |-> n]

NoReply == "none"
Nothing == "nothing"

WsInit == /\ ws = "CONNECTING"
          /\ inbox = <<>> /\ messages = 0 /\ browser = "silent" /\ first = Nothing
          /\ queue = <<>> /\ held = NoReply
          /\ fromDevice = 0 /\ toDevice = <<>> /\ stream = "open"
          /\ up = "start" /\ down = "start"
          /\ port = "serving"

Live == port = "serving"

-----------------------------------------------------------------------------
(* The browser asks for the websocket and talks when it was accepted.       *)
BrowserSends(frame) == /\ Len(inbox) < Buffered
                       /\ inbox' = Append(inbox, frame)
                       /\ UNCHANGED <<first, deviceVars, proxyVars, taskVars>>

BrowserAsks == /\ browser = "silent" /\ browser' = "asked"
               /\ BrowserSends(Frame("request")) /\ UNCHANGED messages

BrowserTalks == /\ browser = "talking" /\ UNCHANGED browser
                /\ \/ messages < MaxMessages /\ messages' = messages + 1 /\ BrowserSends(Message(messages + 1))
                   \/ BrowserSends(Frame("ping")) /\ UNCHANGED messages

BrowserCloses == /\ browser = "talking" /\ browser' = "closing"
                 /\ BrowserSends(Frame("close")) /\ UNCHANGED messages

BrowserEnds == /\ browser # "ended" /\ browser' = "ended"
               /\ UNCHANGED <<inbox, messages, first, deviceVars, proxyVars, taskVars>>

VncSends == /\ stream = "open" /\ fromDevice < Buffered
            /\ fromDevice' = fromDevice + 1
            /\ UNCHANGED <<browserVars, toDevice, stream, proxyVars, taskVars>>

VncEnds == /\ stream = "open" /\ stream' = "ended"
           /\ UNCHANGED <<browserVars, fromDevice, toDevice, proxyVars, taskVars>>

-----------------------------------------------------------------------------
(* receive(): the copy to the browser is started first.                     *)
Gets(reply) == /\ first' = IF first = Nothing THEN reply ELSE first
               /\ browser' = IF reply = "accept" /\ browser = "asked" THEN "talking" ELSE browser
               /\ UNCHANGED <<inbox, messages>>

TakesReply == /\ Live /\ down \in {"start", "looking", "queue"} /\ queue # <<>>
              /\ Gets(Head(queue)) /\ queue' = Tail(queue)
              /\ down' = "looking"
              /\ UNCHANGED <<ws, held, deviceVars, up, port>>

(* Mutant of Waits: before the handshake, too, the device is waited for.    *)
WaitsForDevice == /\ Live /\ down \in {"start", "looking"} /\ queue = <<>>
                  /\ down' = "device"
                  /\ UNCHANGED <<browserVars, proxyVars, deviceVars, up, port>>

(* Mutant of Waits: the queue is not looked at first.                       *)
WaitsAnyway == /\ Live /\ down \in {"start", "looking"}
               /\ down' = IF ws = "CONNECTING" THEN "queue" ELSE "device"
               /\ UNCHANGED <<browserVars, proxyVars, deviceVars, up, port>>

Waits == /\ Live /\ down \in {"start", "looking"} /\ queue = <<>>
         /\ down' = IF ws = "CONNECTING" THEN "queue" ELSE "device"
         /\ UNCHANGED <<browserVars, proxyVars, deviceVars, up, port>>

TakesData == /\ Live /\ down = "device" /\ fromDevice > 0 /\ ws = "OPEN"
             /\ Gets("data") /\ fromDevice' = fromDevice - 1
             /\ down' = "looking"
             /\ UNCHANGED <<proxyVars, toDevice, stream, up, port>>

(* The device has ended, the stream is closed, or wsproto refuses to send a *)
(* message: the browser's connection is closed.                             *)
DownEnds == /\ Live /\ down = "device"
            /\ \/ fromDevice = 0 /\ stream # "open"
               \/ fromDevice > 0 /\ ws # "OPEN"
            /\ down' = "ended" /\ browser' = "ended" /\ inbox' = <<>>
            /\ UNCHANGED <<messages, first, proxyVars, deviceVars, up, port>>

-----------------------------------------------------------------------------
(* send(): the events of a frame, one after the other.                      *)
UpStarts == /\ Live /\ up = "start" /\ down # "start"
            /\ up' = "reading"
            /\ UNCHANGED <<browserVars, proxyVars, deviceVars, down, port>>

Reads(frame) == /\ Live /\ up = "reading" /\ held = NoReply
                /\ inbox # <<>> /\ Head(inbox).kind = frame
                /\ inbox' = Tail(inbox)
                /\ UNCHANGED <<messages, browser, first, taskVars, queue>>

(* wsproto has made its reply, and changed its state, before it is queued. *)
Accepts == /\ Reads("request")
           /\ ws' = "OPEN" /\ held' = "accept"
           /\ UNCHANGED deviceVars

AnswersPing == /\ Reads("ping")
               /\ held' = "pong"
               /\ UNCHANGED <<ws, deviceVars>>

(* Mutant of AnswersClose: the reply is written to the device.              *)
AnswersCloseBelow == /\ Reads("close")
                     /\ ws' = "CLOSED"
                     /\ toDevice' = Append(toDevice, Frame("close"))
                     /\ UNCHANGED <<held, fromDevice, stream>>

AnswersClose == /\ Reads("close")
                /\ ws' = "CLOSED" /\ held' = "close"
                /\ UNCHANGED deviceVars

PassesMessage == /\ Reads("message") /\ stream = "open"
                 /\ toDevice' = Append(toDevice, Head(inbox))
                 /\ UNCHANGED <<ws, held, fromDevice, stream>>

Queues == /\ Live /\ held # NoReply /\ Len(queue) < QueueSize
          /\ queue' = Append(queue, held) /\ held' = NoReply
          /\ UNCHANGED <<browserVars, ws, deviceVars, taskVars>>

(* Nothing more to read, or nowhere to pass a message: aclose() sends       *)
(* wsproto's close frame to the device and ends the call; when wsproto      *)
(* refuses to make one, it raises.                                          *)
UpEnds == /\ Live /\ up = "reading" /\ held = NoReply
          /\ \/ browser = "ended" /\ inbox = <<>>
             \/ inbox # <<>> /\ Head(inbox).kind = "message" /\ stream # "open"
          /\ up' = "ended"
          /\ IF ws = "OPEN" THEN ws' = "LOCAL_CLOSING" /\ UNCHANGED port
                            ELSE port' = "failed" /\ UNCHANGED ws
          /\ IF ws = "OPEN" /\ stream = "open"
             THEN toDevice' = Append(toDevice, Frame("close")) /\ stream' = "closed"
             ELSE UNCHANGED <<toDevice, stream>>
          /\ UNCHANGED <<browserVars, queue, held, fromDevice, down>>

(* The handler leaves the websocket, which wsproto has closed: the error of *)
(* its second aclose() cancels all connections of the port.                 *)
HandlerRaises == /\ Live /\ up = "ended" /\ down = "ended"
                 /\ port' = "failed"
                 /\ UNCHANGED <<browserVars, deviceVars, proxyVars, up, down>>

OtherRaises == /\ Live /\ port' = "failed"
               /\ UNCHANGED <<browserVars, deviceVars, proxyVars, up, down>>

LeavePort == /\ Live /\ port' = "left"
             /\ UNCHANGED <<browserVars, deviceVars, proxyVars, up, down>>

(* What the cancelled handler leaves: the call and the connection.          *)
Cleans == /\ ~Live /\ (stream # "closed" \/ browser # "ended")
          /\ stream' = "closed" /\ browser' = "ended"
          /\ UNCHANGED <<inbox, messages, first, fromDevice, toDevice, proxyVars, taskVars>>

Down == TakesReply \/ Waits \/ TakesData \/ DownEnds
Up == UpStarts \/ Accepts \/ AnswersPing \/ AnswersClose \/ PassesMessage \/ Queues \/ UpEnds

Ends == HandlerRaises \/ OtherRaises \/ LeavePort \/ Cleans

WsPeers == BrowserAsks \/ BrowserTalks \/ BrowserCloses \/ BrowserEnds \/ VncSends \/ VncEnds

WsNext == WsPeers \/ Down \/ Up \/ Ends

WsFairness == /\ WF_wsVars(Down) /\ WF_wsVars(Up)
              /\ WF_wsVars(HandlerRaises \/ Cleans)
-----------------------------------------------------------------------------
Replies == {"accept", "pong", "close"}
Frames == [kind : {"request", "ping", "close", "message"}, no : Nat]

WsTypeOK == /\ ws \in {"CONNECTING", "OPEN", "LOCAL_CLOSING", "CLOSED"}
            /\ inbox \in Seq(Frames) /\ Len(inbox) <= Buffered
            /\ messages \in 0..MaxMessages
            /\ browser \in {"silent", "asked", "talking", "closing", "ended"}
            /\ first \in Replies \cup {Nothing, "data"}
            /\ queue \in Seq(Replies) /\ Len(queue) <= QueueSize
            /\ held \in Replies \cup {NoReply}
            /\ fromDevice \in 0..Buffered
            /\ toDevice \in Seq(Frames)
            /\ stream \in {"open", "ended", "closed"}
            /\ up \in {"start", "reading", "ended"}
            /\ down \in {"start", "looking", "queue", "device", "ended"}
            /\ port \in {"serving", "failed", "left"}

(* The first thing a browser gets is the acceptance of its request, also    *)
(* from a device that talks first, as a VNC server does.                    *)
HandshakeFirst == first \in {Nothing, "accept"}

(* The device gets the browser's messages, in their order, each once and    *)
(* none left out, and none of its other frames; the close frame of aclose() *)
(* comes behind them, once.                                                 *)
OnlyMessages ==
  \A i \in DOMAIN toDevice :
    \/ toDevice[i] = Message(i) /\ i <= messages
    \/ toDevice[i] = Frame("close") /\ i = Len(toDevice) /\ stream = "closed"

(* The device has nothing to say, and the copy to the browser waits for it. *)
DeviceSilent == down = "device" /\ fromDevice = 0

(* Replies get to the browser as long as the connection lasts, unless the  *)
(* copy that takes it waits for a device that stays silent.                 *)
RepliesArrive == \/ []<>(queue = <<>> /\ held = NoReply)
                 \/ []<><<TakesReply>>_wsVars
                 \/ <>[]DeviceSilent
                 \/ <>(~Live \/ down = "ended")
=============================================================================
