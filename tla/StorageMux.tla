------------------------------ MODULE StorageMux ------------------------------
(***************************************************************************)
(* The storage of a Dutlink or an SDWire board: a mux connects it to the   *)
(* host or to the device under test, and write() copies a resource to the  *)
(* path the host sees it at.  The methods are driver calls: host, dut and  *)
(* off run in worker threads, write on the event loop.                     *)
(*                                                                         *)
(* The host follows the mux later: a storage that is switched away is      *)
(* still at its path, as "leaving", until the host removes it, and one     *)
(* that is switched back is there without its medium, as "empty", first.   *)
(* Opening an absent path to write creates a file there.                   *)
(***************************************************************************)
EXTENDS DriverCall

CONSTANTS Size,         \* blocks of an image
          MaxFaults     \* bound on failures

ASSUME StorageAssumption == Size \in Nat \ {0} /\ MaxFaults \in Nat

VARIABLES board,       \* "dutlink" or "sdwire"
          mux,         \* what the storage is connected to
          path,        \* what is at its path on the host
          medium,      \* the write each block is from
          next,        \* what each running method does next
          file,        \* what a write has opened
          position,    \* the blocks it has written
          misled,      \* it began with a path that is not the storage's
          faults       \* failures so far

storage == <<board, mux, path, medium>>
writes == <<next, file, position, misled>>
vars == <<callVars, storage, writes, faults>>

Methods == {"host", "dut", "off", "write"}
Writes == {"write"}
Block == 1..Size

Init == /\ CallInit
        /\ board \in {"dutlink", "sdwire"}
        /\ mux \in {"host", "dut"}
        /\ path = IF mux = "host" THEN "device" ELSE "absent"
        /\ medium = [b \in Block |-> "old"]
        /\ next = [c \in Call |-> "select"]
        /\ file = [c \in Call |-> "none"]
        /\ position = [c \in Call |-> 0]
        /\ misled = [c \in Call |-> FALSE]
        /\ faults = 0

At(c, m, step) == stage[c] = "running" /\ method[c] = m /\ next[c] = step

Goes(c, step) == next' = [next EXCEPT ![c] = step] /\ UNCHANGED <<callVars, file, position>>

(* What a write does after it has switched the storage to the host. *)
Looks(c) == /\ Goes(c, IF board = "dutlink" THEN "exists" ELSE "probe")
            /\ misled' = [misled EXCEPT ![c] = path \in {"leaving", "created", "file"}]

(* Whatever a write has opened is closed when it ends. *)
Closes(c) == /\ next' = [next EXCEPT ![c] = "select"]
             /\ file' = [file EXCEPT ![c] = "none"]
             /\ position' = [position EXCEPT ![c] = 0]
             /\ misled' = [misled EXCEPT ![c] = FALSE]

Ends(c, outcome) == Return(c, outcome) /\ Closes(c)

(* A write that is sent anew has written no block. *)
Sends(c) == /\ Send(c)
            /\ medium' = [b \in Block |-> IF medium[b] = c THEN "old" ELSE medium[b]]
            /\ UNCHANGED <<board, mux, path, writes, faults>>

-----------------------------------------------------------------------------
(* The control transfer.  An SDWire is switched off by switching it to the  *)
(* host.                                                                    *)
Switch(to) == /\ mux' = IF board = "sdwire" /\ to = "off" THEN "host" ELSE to
              /\ path' = IF mux' # "host" /\ path \in {"empty", "device"} THEN "leaving" ELSE path
              /\ UNCHANGED <<board, medium>>

Selects(c) == /\ \E to \in {"host", "dut", "off"} : At(c, to, "select") /\ Switch(to)
              /\ Ends(c, "ok")
              /\ UNCHANGED faults

WriteSelects(c) == /\ At(c, "write", "select")
                   /\ Switch("host")
                   /\ Looks(c)
                   /\ UNCHANGED faults

(* The board does not answer. *)
SelectFails(c) == /\ \E m \in Methods : At(c, m, "select")
                  /\ faults < MaxFaults
                  /\ faults' = faults + 1
                  /\ Ends(c, "Exception")
                  /\ UNCHANGED storage

(* Only the Dutlink driver looks for the path before it opens it. *)
Exists(c) == /\ At(c, "write", "exists")
             /\ Goes(c, IF path = "absent" THEN "sleep" ELSE "probe")
             /\ UNCHANGED <<storage, misled, faults>>

(* Mutant of Probe: the size is not looked at, and a missing path is left   *)
(* to the open that follows.                                                *)
ProbeNothing(c) == /\ At(c, "write", "probe")
                   /\ Goes(c, "open")
                   /\ UNCHANGED <<storage, misled, faults>>

(* The path is opened and its size looked at. *)
Probe(c) == /\ At(c, "write", "probe")
            /\ CASE path = "absent" -> Ends(c, "Exception")
                 [] path \in {"empty", "created"} -> Goes(c, "sleep") /\ UNCHANGED misled
                 [] OTHER -> Goes(c, "open") /\ UNCHANGED misled
            /\ UNCHANGED <<storage, faults>>

Wakes(c) == /\ At(c, "write", "sleep")
            /\ Goes(c, IF board = "dutlink" THEN "exists" ELSE "probe")
            /\ UNCHANGED <<storage, misled, faults>>

(* fail_after: the time is up, at the await. *)
TimesOut(c) == /\ At(c, "write", "sleep")
               /\ Ends(c, "TimeoutError")
               /\ UNCHANGED <<storage, faults>>

(* The path is opened again, to write: a file is created or emptied.  A     *)
(* device without its medium cannot be opened.                              *)
Opens(c) == /\ At(c, "write", "open")
            /\ CASE path = "empty" -> Ends(c, "Exception") /\ UNCHANGED path
                 [] path \in {"device", "leaving"} ->
                      /\ file' = [file EXCEPT ![c] = path]
                      /\ next' = [next EXCEPT ![c] = "copy"]
                      /\ UNCHANGED <<path, callVars, position, misled>>
                 [] OTHER ->
                      /\ file' = [file EXCEPT ![c] = "file"]
                      /\ next' = [next EXCEPT ![c] = "copy"]
                      /\ path' = "created"
                      /\ UNCHANGED <<callVars, position, misled>>
            /\ UNCHANGED <<board, mux, medium, faults>>
-----------------------------------------------------------------------------
Reached(c) == file[c] = "device" /\ path = "device" /\ mux = "host"

(* A chunk of the resource is written.  When the storage is not there any   *)
(* more the host may take the chunk nevertheless.                           *)
Copies(c) == /\ At(c, "write", "copy")
             /\ position[c] < Size
             /\ position' = [position EXCEPT ![c] = @ + 1]
             /\ medium' = IF Reached(c) THEN [medium EXCEPT ![position[c] + 1] = c] ELSE medium
             /\ path' = IF file[c] = "file" THEN "file" ELSE path
             /\ UNCHANGED <<callVars, next, file, misled, board, mux, faults>>

CopyFails(c) == /\ At(c, "write", "copy")
                /\ position[c] < Size
                /\ file[c] # "file" /\ ~Reached(c)
                /\ Ends(c, "Exception")
                /\ UNCHANGED <<storage, faults>>

(* The resource is not there, or breaks off with an error. *)
ResourceFails(c) == /\ At(c, "write", "copy")
                    /\ faults < MaxFaults
                    /\ faults' = faults + 1
                    /\ Ends(c, "Exception")
                    /\ UNCHANGED storage

(* Mutant of CopyEnds: the last chunk is not waited for.                    *)
CopyEndsEarly(c) == /\ At(c, "write", "copy")
                    /\ position[c] >= Size - 1
                    /\ Ends(c, "ok")
                    /\ UNCHANGED <<storage, faults>>

CopyEnds(c) == /\ At(c, "write", "copy")
               /\ position[c] = Size
               /\ Ends(c, "ok")
               /\ UNCHANGED <<storage, faults>>

(* A write is cancelled at an await. *)
Cancelled(c) == /\ next[c] \in {"sleep", "open", "copy"}
                /\ Interrupt(c)
                /\ Closes(c)
                /\ UNCHANGED <<storage, faults>>

Write(c) == \/ WriteSelects(c) \/ Exists(c) \/ Probe(c) \/ Wakes(c) \/ Opens(c)
            \/ Copies(c) \/ CopyFails(c) \/ CopyEnds(c) \/ Cancelled(c)

-----------------------------------------------------------------------------
(* The host removes the storage that was switched away: what is open on it  *)
(* reaches nothing any more.                                                *)
Vanishes == /\ path = "leaving"
            /\ path' = "absent"
            /\ file' = [c \in Call |-> IF file[c] \in {"device", "leaving"} THEN "lost" ELSE file[c]]
            /\ UNCHANGED <<callVars, board, mux, medium, next, position, misled, faults>>

(* The host finds the storage, then its medium. *)
Appears == /\ mux = "host"
           /\ path \in {"absent", "empty"}
           /\ path' = IF path = "absent" THEN "empty" ELSE "device"
           /\ UNCHANGED <<callVars, board, mux, medium, writes, faults>>

Next == \/ \E c \in Call : \/ Sends(c)
                           \/ (Enter(c) \/ Cancel(c)) /\ UNCHANGED <<storage, writes, faults>>
                           \/ Selects(c) \/ SelectFails(c)
                           \/ Write(c) \/ TimesOut(c) \/ ResourceFails(c)
        \/ Vanishes \/ Appears

Spec == Init /\ [][Next]_vars
-----------------------------------------------------------------------------
TypeOK == /\ CallTypeOK
          /\ board \in {"dutlink", "sdwire"}
          /\ mux \in {"host", "dut", "off"}
          /\ path \in {"absent", "empty", "device", "leaving", "created", "file"}
          /\ medium \in [Block -> Call \cup {"old"}]
          /\ next \in [Call -> {"select", "exists", "probe", "sleep", "open", "copy"}]
          /\ file \in [Call -> {"none", "device", "leaving", "file", "lost"}]
          /\ position \in [Call -> 0..Size]
          /\ misled \in [Call -> BOOLEAN]
          /\ faults \in 0..MaxFaults

(* A write that returns has put its whole image on the storage, if no other *)
(* method ran next to it and it did not begin while the storage was being   *)
(* removed: then it may have found the old path, and filled a file of that  *)
(* name, which every later write finds.                                     *)
WritesStorage ==
  [][\A c \in Call : At(c, "write", "copy") /\ stage'[c] = "answered" /\ answer'[c] = "ok" =>
       raced[c] \/ misled[c] \/ \A b \in Block : medium'[b] = c]_vars

(* The wait for the storage keeps write() from creating a file at its path: *)
(* only one that the storage was taken from since it looked does.           *)
NoStrayFile ==
  [][path = "absent" /\ path' = "created" =>
       \E c \in Call : At(c, "write", "open") /\ (raced[c] \/ misled[c])]_vars
=============================================================================
