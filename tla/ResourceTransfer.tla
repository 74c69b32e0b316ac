-------------------------- MODULE ResourceTransfer --------------------------
(***************************************************************************)
(* Flashing a local file: the client streams the file to a resource of the *)
(* driver while it calls the driver's write method on it.  The file goes   *)
(* through a copy task of the client (resource_async), the wire, a copy    *)
(* task of the session (Session.Stream), a memory stream of bounded size   *)
(* (Driver.Stream) and the loop of the driver (StorageMux.write).          *)
(*                                                                         *)
(* Every hop keeps the order of the chunks, so a chunk is a number and a   *)
(* hop is the count of the chunks in it.  An end of stream travels behind  *)
(* them.                                                                   *)
(***************************************************************************)
EXTENDS Naturals

CONSTANTS FileSize,    \* chunks in the file
          WireSize,    \* chunks that gRPC flow control lets be under way
          MemorySize,  \* capacity of the memory stream (32 in the code)
          MaxFaults    \* bound on failures

ASSUME SizeAssumption == /\ FileSize \in Nat
                         /\ WireSize \in Nat \ {0}
                         /\ MemorySize \in Nat \ {0}
                         /\ MaxFaults \in Nat

VARIABLES position,    \* chunks the client has read from the file
          upload,      \* the client's copy of the file to the wire
          download,    \* the client's copy of the wire to the file
          wire,        \* chunks on their way to the session
          goaway,      \* an end of stream travels behind them
          inbound,     \* the session's copy of the wire to the memory stream
          outbound,    \* the session's copy of the memory stream to the wire
          aborted,     \* the session has ended the Stream call
          memory,      \* chunks in the memory stream
          finished,    \* the session has closed its end of the memory stream
          resource,    \* the driver's end of the memory stream
          entry,       \* the resource is in the driver's table
          driver,      \* the write method
          written,     \* chunks written to the device
          call,        \* the client's call of write
          misread,     \* the file could not be read to its end
          faults       \* failures so far

pipeVars == <<position, upload, download, wire, goaway>>
sessionVars == <<inbound, outbound, aborted, memory, finished>>
driverVars == <<resource, entry, driver, written>>
vars == <<pipeVars, sessionVars, driverVars, call, misread, faults>>

Copy == {"running", "ended"}

TypeOK == /\ position \in 0..FileSize /\ written \in 0..FileSize
          /\ wire \in 0..WireSize /\ memory \in 0..MemorySize
          /\ upload \in Copy /\ download \in Copy /\ inbound \in Copy /\ outbound \in Copy
          /\ goaway \in BOOLEAN /\ aborted \in BOOLEAN /\ finished \in BOOLEAN
          /\ resource \in {"unused", "open", "closed"}
          /\ entry \in BOOLEAN
          /\ driver \in {"called", "writing", "returned", "raised"}
          /\ call \in {"pending", "ok", "error", "interrupted", "done"}
          /\ misread \in BOOLEAN
          /\ faults \in 0..MaxFaults

(* The Stream call is set up and write has been called with its resource. *)
Init == /\ position = 0 /\ wire = 0 /\ memory = 0 /\ written = 0
        /\ upload = "running" /\ download = "running"
        /\ inbound = "running" /\ outbound = "running"
        /\ goaway = FALSE /\ aborted = FALSE /\ finished = FALSE
        /\ resource = "unused" /\ entry = TRUE
        /\ driver = "called" /\ call = "pending"
        /\ misread = FALSE /\ faults = 0

Fault == faults < MaxFaults /\ faults' = faults + 1

-----------------------------------------------------------------------------
(* The client.  A chunk is read and put on the wire. *)
UploadChunk == /\ upload = "running"
               /\ position < FileSize
               /\ wire < WireSize
               /\ ~aborted
               /\ position' = position + 1
               /\ wire' = wire + 1
               /\ UNCHANGED <<upload, download, goaway, sessionVars, driverVars, call, misread, faults>>

(* The file is at its end: the copy closes the stream it writes to. *)
UploadEnds == /\ upload = "running"
              /\ position = FileSize
              /\ upload' = "ended"
              /\ goaway' = TRUE
              /\ UNCHANGED <<position, download, wire, sessionVars, driverVars, call, misread, faults>>

(* The file cannot be read: the error is suppressed by copy_stream, which   *)
(* closes the stream as at the end of the file.                             *)
UploadBreaks == /\ upload = "running"
                /\ position < FileSize
                /\ Fault
                /\ misread' = TRUE
                /\ upload' = "ended"
                /\ goaway' = TRUE
                /\ UNCHANGED <<position, download, wire, sessionVars, driverVars, call>>

(* The session has ended the Stream call: writing to it fails, reading from *)
(* it ends, and either copy stops without an error.                         *)
UploadRefused == /\ upload = "running"
                 /\ aborted
                 /\ upload' = "ended"
                 /\ UNCHANGED <<position, download, wire, goaway, sessionVars, driverVars, call, misread, faults>>

DownloadEnds == /\ download = "running"
                /\ aborted
                /\ download' = "ended"
                /\ UNCHANGED <<position, upload, wire, goaway, sessionVars, driverVars, call, misread, faults>>

(* The call of write has its answer. *)
CallReturns == /\ call = "pending"
               /\ driver \in {"returned", "raised"}
               /\ call' = IF driver = "returned" THEN "ok" ELSE "error"
               /\ UNCHANGED <<pipeVars, sessionVars, driverVars, misread, faults>>

(* Mutant of AdapterFails: the copies are waited for.                       *)
AdapterWaits == /\ \/ call = "error" /\ call' = "done" /\ UNCHANGED faults
                   \/ call = "pending" /\ call' = "interrupted" /\ Fault
                /\ upload = "ended" /\ download = "ended"
                /\ goaway' = TRUE
                /\ UNCHANGED <<position, upload, download, wire, sessionVars, driverVars, misread>>

(* The adapter is left with an exception, the error of the call or an       *)
(* interrupt of the user: the copies are cancelled and the stream is        *)
(* closed.                                                                  *)
AdapterFails == /\ \/ call = "error" /\ call' = "done" /\ UNCHANGED faults
                   \/ call = "pending" /\ call' = "interrupted" /\ Fault
                /\ upload' = "ended" /\ download' = "ended"
                /\ goaway' = TRUE
                /\ UNCHANGED <<position, wire, sessionVars, driverVars, misread>>

(* The adapter is left after a call that succeeded: both copies are waited for. *)
AdapterEnds == /\ call = "ok"
               /\ upload = "ended" /\ download = "ended"
               /\ call' = "done"
               /\ UNCHANGED <<pipeVars, sessionVars, driverVars, misread, faults>>

-----------------------------------------------------------------------------
(* The session.  A chunk is moved from the wire to the memory stream. *)
InboundChunk == /\ inbound = "running"
                /\ wire > 0
                /\ memory < MemorySize
                /\ resource # "closed"
                /\ ~aborted
                /\ wire' = wire - 1
                /\ memory' = memory + 1
                /\ UNCHANGED <<position, upload, download, goaway, inbound, outbound, aborted>>
                /\ UNCHANGED <<finished, driverVars, call, misread, faults>>

(* Mutant of InboundEnds: an end of stream overtakes the chunks.            *)
InboundEndsEarly == /\ inbound = "running"
                    /\ goaway \/ resource = "closed" \/ aborted
                    /\ inbound' = "ended"
                    /\ finished' = TRUE
                    /\ UNCHANGED <<pipeVars, outbound, aborted, memory, driverVars, call, misread, faults>>

(* End of stream, a driver that no longer reads, or the end of the call:    *)
(* the copy closes the memory stream.                                       *)
InboundEnds == /\ inbound = "running"
               /\ \/ goaway /\ wire = 0
                  \/ resource = "closed" /\ wire > 0
                  \/ aborted
               /\ inbound' = "ended"
               /\ finished' = TRUE
               /\ UNCHANGED <<pipeVars, outbound, aborted, memory, driverVars, call, misread, faults>>

(* Mutant of OutboundEnds: the copy does not close the Stream call.         *)
OutboundKeepsCall == /\ outbound = "running"
                     /\ resource = "closed"
                     /\ outbound' = "ended"
                     /\ UNCHANGED <<pipeVars, inbound, aborted, memory, finished, driverVars, call, misread, faults>>

(* The driver's end is closed: the copy closes the Stream call.  Nothing    *)
(* else wakes this copy, the close of its own end of the memory stream      *)
(* included.                                                                *)
OutboundEnds == /\ outbound = "running"
                /\ resource = "closed"
                /\ outbound' = "ended"
                /\ aborted' = TRUE
                /\ UNCHANGED <<pipeVars, inbound, memory, finished, driverVars, call, misread, faults>>

HandlerCancelled == /\ aborted' = TRUE
                    /\ inbound' = "ended" /\ outbound' = "ended"
                    /\ finished' = TRUE

(* Cancelling a copy that waits in a read of the call cancels the call, and *)
(* with it the session's handler.                                           *)
CallCancelled == /\ call \in {"interrupted", "done"}
                 /\ ~aborted
                 /\ HandlerCancelled
                 /\ UNCHANGED <<pipeVars, memory, driverVars, call, misread, faults>>

(* The connection is lost: both calls fail. *)
ConnectionLost == /\ call = "pending"
                  /\ Fault
                  /\ call' = "error"
                  /\ HandlerCancelled
                  /\ UNCHANGED <<pipeVars, memory, driverVars, misread>>

-----------------------------------------------------------------------------
(* The driver's write method. *)
OpenResource == /\ driver = "called"
                /\ driver' = "writing"
                /\ resource' = "open"
                /\ UNCHANGED <<entry, written, pipeVars, sessionVars, call, misread, faults>>

(* The device does not appear in time (fail_after): the resource is never   *)
(* opened.                                                                  *)
DeviceMissing == /\ driver = "called"
                 /\ Fault
                 /\ driver' = "raised"
                 /\ UNCHANGED <<resource, entry, written, pipeVars, sessionVars, call, misread>>

WriteChunk == /\ driver = "writing"
              /\ memory > 0
              /\ memory' = memory - 1
              /\ written' = written + 1
              /\ UNCHANGED <<pipeVars, inbound, outbound, aborted, finished>>
              /\ UNCHANGED <<resource, entry, driver, call, misread, faults>>

(* The memory stream is closed and empty: the resource is closed and        *)
(* forgotten.                                                               *)
WriteEnds == /\ driver = "writing"
             /\ memory = 0
             /\ finished
             /\ driver' = "returned"
             /\ resource' = "closed"
             /\ entry' = FALSE
             /\ UNCHANGED <<written, pipeVars, sessionVars, call, misread, faults>>

(* Writing to the device raises: the resource is closed and kept in the     *)
(* table.                                                                   *)
WriteFails == /\ driver = "writing"
              /\ Fault
              /\ driver' = "raised"
              /\ resource' = "closed"
              /\ UNCHANGED <<entry, written, pipeVars, sessionVars, call, misread>>

(* The call of write is cancelled with its client. *)
WriteCancelled == /\ call \in {"interrupted", "error"}
                  /\ driver \in {"called", "writing"}
                  /\ driver' = "raised"
                  /\ resource' = IF driver = "writing" THEN "closed" ELSE resource
                  /\ UNCHANGED <<entry, written, pipeVars, sessionVars, call, misread, faults>>

ClientStep == \/ UploadChunk \/ UploadEnds \/ UploadRefused \/ DownloadEnds
              \/ CallReturns \/ (call = "error" /\ AdapterFails) \/ AdapterEnds
SessionStep == InboundChunk \/ InboundEnds \/ OutboundEnds \/ CallCancelled
DriverStep == OpenResource \/ WriteChunk \/ WriteEnds

Next == \/ ClientStep \/ SessionStep \/ DriverStep
        \/ UploadBreaks \/ DeviceMissing \/ WriteFails \/ WriteCancelled
        \/ ConnectionLost \/ (call = "pending" /\ AdapterFails)

Spec == Init /\ [][Next]_vars

(* Each copy task and the write method run, and grpc.aio delivers a         *)
(* cancellation.                                                            *)
Fairness == /\ WF_vars(UploadChunk) /\ WF_vars(UploadEnds) /\ WF_vars(UploadRefused)
            /\ WF_vars(DownloadEnds) /\ WF_vars(CallReturns)
            /\ WF_vars(call = "error" /\ AdapterFails) /\ WF_vars(AdapterEnds)
            /\ WF_vars(InboundChunk) /\ WF_vars(InboundEnds) /\ WF_vars(OutboundEnds)
            /\ WF_vars(CallCancelled) /\ WF_vars(DriverStep)

FairSpec == Spec /\ Fairness
-----------------------------------------------------------------------------
(* A write that succeeds has written the whole file, unless the file could  *)
(* not be read: interrupts, lost connections, device errors and full        *)
(* buffers never pass for success.                                          *)
SuccessIsComplete == call = "ok" /\ ~misread => written = FileSize

(* The file is one stream from the client's disk to the device: write gets  *)
(* its end behind its last chunk, unless the file could not be read, the    *)
(* method raised, or the call of write has failed or been left.             *)
Flashing == INSTANCE WholeStream WITH
              Stream <- {"file"},
              sent <- [file |-> position],
              read <- [file |-> written],
              finished <- {s \in {"file"} : upload = "ended" /\ position = FileSize},
              over <- {s \in {"file"} : driver \in {"returned", "raised"}},
              given <- {s \in {"file"} : misread \/ driver = "raised" \/ call \notin {"pending", "ok"}}

FlashIsWhole == Flashing!StreamSpec

(* A transfer with no failure succeeds, however small the buffers are. *)
Completes == <>(faults > 0 \/ (call = "done" /\ written = FileSize))

(* Whatever fails, the client leaves its adapter and the session's handler  *)
(* ends, although nothing wakes its copy to the wire when the driver never  *)
(* opened the resource (base.py:147).                                       *)
TransferEnds == <>( /\ call \in {"done", "interrupted"}
                    /\ inbound = "ended" /\ outbound = "ended" )

(* "Write a local file to the storage device"                               *)
(* (storage/client.py, write_local_file): a call that returns wrote it.     *)
WritesTheFile == call = "ok" => written = FileSize
=============================================================================
