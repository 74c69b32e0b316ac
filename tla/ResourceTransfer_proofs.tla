----------------------- MODULE ResourceTransfer_proofs -----------------------
(***************************************************************************)
(* A write that succeeds is whole, for files and buffers of any size and   *)
(* any number of failures.                                                 *)
(***************************************************************************)
EXTENDS ResourceTransfer, TLAPS

(* No chunk is lost or made on the way. *)
Conserved == position = wire + memory + written

(* The client has not heard of a failure. *)
Succeeding == call \in {"pending", "ok"}

(* The end of stream is behind the last chunk; the session takes it for the *)
(* end only when every chunk before it has come through.                    *)
EndsInOrder ==
  /\ goaway => upload = "ended"
  /\ finished <=> inbound = "ended"
  /\ driver = "writing" <=> resource = "open"
  /\ driver = "called" => resource = "unused"
  /\ call = "ok" => driver = "returned"
  /\ Succeeding =>
       /\ goaway /\ ~misread => position = FileSize
       /\ aborted => resource = "closed"
       /\ finished /\ resource # "closed" => goaway /\ wire = 0
       /\ driver = "returned" /\ ~misread => written = FileSize

Inv == TypeOK /\ Conserved /\ EndsInOrder

LEMMA InvStep == Inv /\ [Next]_vars => Inv'
<1> SUFFICES ASSUME Inv, [Next]_vars PROVE Inv'
    OBVIOUS
<1> USE SizeAssumption DEF Inv, TypeOK, Conserved, EndsInOrder, Succeeding, Copy, Fault, HandlerCancelled, pipeVars,
        sessionVars, driverVars
<1>1. CASE UNCHANGED vars
      BY <1>1 DEF vars
<1>2. CASE UploadChunk
      BY <1>2 DEF UploadChunk
<1>3. CASE UploadEnds
      BY <1>3 DEF UploadEnds
<1>4. CASE UploadBreaks
      BY <1>4 DEF UploadBreaks
<1>5. CASE UploadRefused
      BY <1>5 DEF UploadRefused
<1>6. CASE DownloadEnds
      BY <1>6 DEF DownloadEnds
<1>7. CASE CallReturns
      BY <1>7 DEF CallReturns
<1>8. CASE AdapterFails
      BY <1>8 DEF AdapterFails
<1>9. CASE AdapterEnds
      BY <1>9 DEF AdapterEnds
<1>10. CASE InboundChunk
      BY <1>10 DEF InboundChunk
<1>11. CASE InboundEnds
      BY <1>11 DEF InboundEnds
<1>12. CASE OutboundEnds
      BY <1>12 DEF OutboundEnds
<1>13. CASE CallCancelled
      BY <1>13 DEF CallCancelled
<1>14. CASE ConnectionLost
      BY <1>14 DEF ConnectionLost
<1>15. CASE OpenResource
      BY <1>15 DEF OpenResource
<1>16. CASE DeviceMissing
      BY <1>16 DEF DeviceMissing
<1>17. CASE WriteChunk
      BY <1>17 DEF WriteChunk
<1>18. CASE WriteEnds
  <2>1. TypeOK' /\ Conserved'
        BY <1>18 DEF WriteEnds
  <2>2. Succeeding /\ ~misread => written = FileSize
    <3>1. resource = "open" /\ memory = 0 /\ finished
          BY <1>18 DEF WriteEnds
    <3>2. Succeeding /\ ~misread => wire = 0 /\ position = FileSize
          BY <3>1
    <3> QED BY <3>1, <3>2
  <2>3. EndsInOrder'
        BY <1>18, <2>2 DEF WriteEnds
  <2> QED BY <2>1, <2>3
<1>19. CASE WriteFails
      BY <1>19 DEF WriteFails
<1>20. CASE WriteCancelled
      BY <1>20 DEF WriteCancelled
<1> QED BY <1>1, <1>2, <1>3, <1>4, <1>5, <1>6, <1>7, <1>8, <1>9, <1>10, <1>11, <1>12, <1>13, <1>14, <1>15, <1>16,
           <1>17, <1>18, <1>19, <1>20 DEF Next, ClientStep, SessionStep, DriverStep

LEMMA InvCorrect == Spec => []Inv
<1>1. Init => Inv
  <2> SUFFICES ASSUME Init PROVE Inv
      OBVIOUS
  <2>1. 0 \in 0..FileSize /\ 0 \in 0..WireSize /\ 0 \in 0..MemorySize /\ 0 \in 0..MaxFaults
        BY SizeAssumption
  <2>2. TypeOK
        BY <2>1 DEF Init, TypeOK, Copy
  <2>3. Conserved /\ EndsInOrder
        BY DEF Init, Conserved, EndsInOrder, Succeeding
  <2> QED BY <2>2, <2>3 DEF Inv
<1> QED BY <1>1, InvStep, PTL DEF Spec

(* The counts and the states of all that takes part have their types: no    *)
(* buffer holds more than it can.                                           *)
THEOREM TransferTypeCorrect == Spec => []TypeOK
<1>1. Inv => TypeOK
      BY DEF Inv
<1> QED BY <1>1, InvCorrect, PTL

(* A write that returns without an error has written the whole file, unless *)
(* the file could not be read to its end.                                   *)
THEOREM SuccessIsWhole == Spec => []SuccessIsComplete
<1>1. Inv => SuccessIsComplete
      BY DEF Inv, EndsInOrder, Succeeding, SuccessIsComplete
<1> QED BY <1>1, InvCorrect, PTL

-----------------------------------------------------------------------------
(* What a step does to the stream from the file to the device. *)
FlashMoves ==
  /\ position' # position => position' = position + 1 /\ upload = "running"
  /\ written' # written => written' = written + 1 /\ written < position /\ driver = "writing"
  /\ upload = "ended" => upload' = "ended"
  /\ driver \in {"returned", "raised"} => driver' = driver
  /\ misread => misread'
  /\ call \notin {"pending", "ok"} => call' \notin {"pending", "ok"}
  /\ driver' \in {"returned", "raised"} /\ driver \notin {"returned", "raised"} =>
       \/ misread' \/ driver' = "raised" \/ call' \notin {"pending", "ok"}
       \/ upload = "ended" /\ position = FileSize /\ written = position

LEMMA FlashMove == Inv /\ Inv' /\ [Next]_vars => FlashMoves
<1> SUFFICES ASSUME Inv, Inv', [Next]_vars PROVE FlashMoves
    OBVIOUS
<1> USE SizeAssumption DEF Inv, TypeOK, Conserved, EndsInOrder, Succeeding, Copy, Fault, HandlerCancelled, pipeVars, sessionVars,
        driverVars, FlashMoves
<1>1. CASE UNCHANGED vars
      BY <1>1 DEF vars
<1>2. CASE UploadChunk \/ UploadEnds \/ UploadBreaks \/ UploadRefused \/ DownloadEnds
      BY <1>2 DEF UploadChunk, UploadEnds, UploadBreaks, UploadRefused, DownloadEnds
<1>3. CASE CallReturns \/ AdapterFails \/ AdapterEnds
      BY <1>3 DEF CallReturns, AdapterFails, AdapterEnds
<1>4. CASE SessionStep \/ ConnectionLost
  <2>1. CASE InboundChunk \/ InboundEnds \/ OutboundEnds
        BY <2>1 DEF InboundChunk, InboundEnds, OutboundEnds
  <2>2. CASE CallCancelled
        BY <2>2 DEF CallCancelled
  <2>3. CASE ConnectionLost
        BY <2>3 DEF ConnectionLost
  <2> QED BY <1>4, <2>1, <2>2, <2>3 DEF SessionStep
<1>5. CASE OpenResource \/ DeviceMissing \/ WriteFails \/ WriteCancelled
      BY <1>5 DEF OpenResource, DeviceMissing, WriteFails, WriteCancelled
<1>6. CASE WriteChunk
      BY <1>6 DEF WriteChunk
<1>7. CASE WriteEnds
      BY <1>7 DEF WriteEnds
<1> QED BY <1>1, <1>2, <1>3, <1>4, <1>5, <1>6, <1>7 DEF Next, ClientStep, DriverStep

(* From the client's file to the device it is one stream: the driver gets   *)
(* its end behind its last chunk, unless somebody gave it up.               *)
THEOREM FileArrivesWhole == Spec => FlashIsWhole
<1>1. Init => Flashing!StreamInit
  <2> SUFFICES ASSUME Init PROVE Flashing!StreamInit
      OBVIOUS
  <2> QED BY DEF Init, Flashing!StreamInit
<1>2. Inv /\ Inv' /\ [Next]_vars => [Flashing!StreamNext]_Flashing!streamVars
  <2> SUFFICES ASSUME Inv, Inv', [Next]_vars PROVE Flashing!StreamNext
      OBVIOUS
  <2>1. FlashMoves
        BY FlashMove
  <2>2. /\ [file |-> position'] \in [{"file"} -> Nat]
        /\ [file |-> written'] \in [{"file"} -> Nat]
    <3>1. position' \in Nat /\ written' \in Nat
          BY SizeAssumption DEF Inv, TypeOK
    <3> QED BY <3>1
  <2>3. Flashing!StreamStep("file")
        BY <2>1 DEF FlashMoves, Flashing!StreamStep, Flashing!Sends, Flashing!Reads, Flashing!MayEnd
  <2> QED BY <2>1, <2>2, <2>3 DEF Flashing!StreamNext, FlashMoves
<1> QED BY <1>1, <1>2, InvCorrect, PTL DEF Spec, FlashIsWhole, Flashing!StreamSpec
=============================================================================
