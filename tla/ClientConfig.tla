--------------------------- MODULE ClientConfig ---------------------------
(***************************************************************************)
(* The client configs of a user: a directory with one file per client and  *)
(* a user config that names the current client.  The commands jmp client   *)
(* create, use and delete read and write both a file at a time.            *)
(*                                                                         *)
(* A client is named by its file.  The name a client has once its file is  *)
(* read ends at the first dot of the file's name: Stem.  A listing is read *)
(* in one step, and the last of two writers of a file wins.                *)
(***************************************************************************)
EXTENDS FiniteSets, Naturals

CONSTANTS Name,           \* names of clients
          Stem,           \* the name that from_file gives to each
          Proc,           \* commands that run at a time
          MaxInterrupts   \* bound on interrupted commands

ASSUME NameAssumption == /\ Name \cap {"none", "absent", "empty"} = {}
                         /\ Stem \in [Name -> Name]
                         /\ \A n \in Name : Stem[Stem[n]] = Stem[n]
                         /\ MaxInterrupts \in Nat

VARIABLES clients,     \* state of each client's file
          user,        \* the user config: its current client
          op, target,  \* each command and its argument
          step,        \* what it does next
          chosen,      \* the current client it is about to save
          handle,      \* the file it writes still has its name
          interrupts   \* commands interrupted so far

files == <<clients, user>>
vars == <<files, op, target, step, chosen, handle, interrupts>>

None == "none"
Current == Name \cup {None}

Whole == {n \in Name : clients[n] = "whole"}
Present == {n \in Name : clients[n] # "absent"}

(* UserConfigV1Alpha1.load raises when the file is empty or its current     *)
(* client cannot be loaded.                                                 *)
Loads == user = None \/ user \in Whole

(* ClientConfigV1Alpha1.list raises when a file is empty. *)
Lists == Present = Whole

Ended == {"ok", "failed"}

(* create is two operations: "export" is the one with --out.                *)
Operation == {"create", "export", "use", "delete"}

Init == /\ clients = [n \in Name |-> "absent"]
        /\ user = "absent"
        /\ op \in [Proc -> {"use"}] /\ target \in [Proc -> Name]
        /\ step = [p \in Proc |-> "failed"]
        /\ chosen = [p \in Proc |-> None]
        /\ handle = [p \in Proc |-> FALSE]
        /\ interrupts = 0

Goto(p, s) == step' = [step EXCEPT ![p] = s]
Unlinked(n) == handle' = [q \in Proc |-> handle[q] /\ target[q] # n]
command == <<op, target, interrupts>>

Begin(p) == /\ step[p] \in Ended
            /\ \E o \in Operation, n \in Name :
                 /\ op' = [op EXCEPT ![p] = o]
                 /\ target' = [target EXCEPT ![p] = n]
            /\ Goto(p, CASE op'[p] = "create" -> "check"
                         [] op'[p] = "export" -> "export"
                         [] op'[p] = "use" -> "load"
                         [] op'[p] = "delete" -> "peek")
            /\ UNCHANGED <<files, chosen, handle, interrupts>>

-----------------------------------------------------------------------------
(* create: a client of that name must not exist. *)
CheckNew(p) == /\ step[p] = "check"
               /\ Goto(p, IF target[p] \in Present THEN "failed" ELSE "open")
               /\ UNCHANGED <<files, chosen, handle, command>>

(* create --out: the file is one outside of the directory, written without  *)
(* a look at the clients, and nothing is counted.                           *)
Export(p) == /\ step[p] = "export"
             /\ \E s \in Ended : Goto(p, s)
             /\ UNCHANGED <<files, chosen, handle, command>>

(* Opening the file to write empties it; then the text is written. *)
OpenClient(p) == /\ step[p] = "open"
                 /\ clients' = [clients EXCEPT ![target[p]] = "empty"]
                 /\ handle' = [handle EXCEPT ![p] = TRUE]
                 /\ Goto(p, "fill")
                 /\ UNCHANGED <<user, chosen, command>>

FillClient(p) == /\ step[p] = "fill"
                 /\ clients' = IF handle[p] THEN [clients EXCEPT ![target[p]] = "whole"] ELSE clients
                 /\ handle' = [handle EXCEPT ![p] = FALSE]
                 /\ Goto(p, "count")
                 /\ UNCHANGED <<user, chosen, command>>

(* Mutant of CountClients: the count is off by one.                         *)
CountFromZero(p) == /\ step[p] = "count"
                    /\ Goto(p, CASE ~Lists -> "failed"
                                 [] Lists /\ Cardinality(Present) = 0 -> "load"
                                 [] OTHER -> "ok")
                    /\ UNCHANGED <<files, chosen, handle, command>>

(* The only client becomes the current one. *)
CountClients(p) == /\ step[p] = "count"
                   /\ Goto(p, CASE ~Lists -> "failed"
                                [] Lists /\ Cardinality(Present) = 1 -> "load"
                                [] OTHER -> "ok")
                   /\ UNCHANGED <<files, chosen, handle, command>>

-----------------------------------------------------------------------------
(* load_or_create of the user config. *)
LoadUser(p) == /\ step[p] = "load"
               /\ user # "absent"
               /\ IF ~Loads THEN Goto(p, "failed") /\ UNCHANGED chosen
                  ELSE IF op[p] = "create"
                       THEN Goto(p, "save") /\ chosen' = [chosen EXCEPT ![p] = target[p]]
                       ELSE Goto(p, "choose") /\ UNCHANGED chosen
               /\ UNCHANGED <<files, handle, command>>

CreateUser(p) == /\ step[p] = "load"
                 /\ user = "absent"
                 /\ user' = "empty"
                 /\ Goto(p, "create")
                 /\ UNCHANGED <<clients, chosen, handle, command>>

FillNewUser(p) == /\ step[p] = "create"
                  /\ user' = None
                  /\ IF op[p] = "create"
                     THEN Goto(p, "save") /\ chosen' = [chosen EXCEPT ![p] = target[p]]
                     ELSE Goto(p, "choose") /\ UNCHANGED chosen
                  /\ UNCHANGED <<clients, handle, command>>

(* Mutant of UseClient: the name is saved without a check.                  *)
UseUnchecked(p) == /\ step[p] = "choose"
                   /\ Goto(p, "save")
                   /\ chosen' = [chosen EXCEPT ![p] = Stem[target[p]]]
                   /\ UNCHANGED <<files, handle, command>>

(* use: the client is loaded, which gives it the name that is saved. *)
UseClient(p) == /\ step[p] = "choose"
                /\ IF target[p] \in Whole
                   THEN Goto(p, "save") /\ chosen' = [chosen EXCEPT ![p] = Stem[target[p]]]
                   ELSE Goto(p, "failed") /\ UNCHANGED chosen
                /\ UNCHANGED <<files, handle, command>>

OpenUser(p) == /\ step[p] = "save"
               /\ user' = "empty"
               /\ Goto(p, "write")
               /\ UNCHANGED <<clients, chosen, handle, command>>

WriteUser(p) == /\ step[p] = "write"
                /\ user' = chosen[p]
                /\ Goto(p, IF op[p] = "delete" THEN "unlink" ELSE "ok")
                /\ UNCHANGED <<clients, chosen, handle, command>>

-----------------------------------------------------------------------------
(* delete: when the client is the current one, another one is chosen. *)
PeekUser(p) == /\ step[p] = "peek"
               /\ Goto(p, CASE user = "absent" -> "unlink"
                            [] user # "absent" /\ ~Loads -> "failed"
                            [] user # "absent" /\ Loads ->
                                 IF user # None /\ Stem[user] = target[p] THEN "next" ELSE "unlink")
               /\ UNCHANGED <<files, chosen, handle, command>>

(* The next client is the first of the listing with another name; it is     *)
(* loaded again by its name.                                                *)
Others(n) == {Stem[c] : c \in Present} \ {n}

NextClient(p) == /\ step[p] = "next"
                 /\ Lists
                 /\ \E c \in IF Others(target[p]) = {} THEN {None} ELSE Others(target[p]) :
                      IF c \in Whole \cup {None}
                      THEN Goto(p, "save") /\ chosen' = [chosen EXCEPT ![p] = c]
                      ELSE Goto(p, "failed") /\ UNCHANGED chosen
                 /\ UNCHANGED <<files, handle, command>>

NextFails(p) == /\ step[p] = "next"
                /\ ~Lists
                /\ Goto(p, "failed")
                /\ UNCHANGED <<files, chosen, handle, command>>

DeleteClient(p) == /\ step[p] = "unlink"
                   /\ clients' = [clients EXCEPT ![target[p]] = "absent"]
                   /\ Unlinked(target[p])
                   /\ Goto(p, IF target[p] \in Present THEN "ok" ELSE "failed")
                   /\ UNCHANGED <<user, chosen, command>>

(* The user interrupts a command. *)
Interrupt(p) == /\ step[p] \notin Ended
                /\ interrupts < MaxInterrupts
                /\ interrupts' = interrupts + 1
                /\ handle' = [handle EXCEPT ![p] = FALSE]
                /\ Goto(p, "failed")
                /\ UNCHANGED <<files, op, target, chosen>>

Next == \E p \in Proc : \/ Begin(p)
                        \/ CheckNew(p) \/ Export(p) \/ OpenClient(p) \/ FillClient(p) \/ CountClients(p)
                        \/ LoadUser(p) \/ CreateUser(p) \/ FillNewUser(p)
                        \/ UseClient(p) \/ OpenUser(p) \/ WriteUser(p)
                        \/ PeekUser(p) \/ NextClient(p) \/ NextFails(p) \/ DeleteClient(p)
                        \/ Interrupt(p)

Spec == Init /\ [][Next]_vars
-----------------------------------------------------------------------------
FileState == {"absent", "empty", "whole"}

TypeOK == /\ clients \in [Name -> FileState]
          /\ user \in Current \cup {"absent", "empty"}
          /\ op \in [Proc -> Operation]
          /\ target \in [Proc -> Name]
          /\ step \in [Proc -> Ended \cup {"check", "export", "open", "fill", "count", "load", "create",
                                        "choose", "save", "write", "peek", "next", "unlink"}]
          /\ chosen \in [Proc -> Current]
          /\ handle \in [Proc -> BOOLEAN]
          /\ interrupts \in 0..MaxInterrupts

(* The current client can be loaded at every step of every command, also of *)
(* one that is interrupted: delete chooses another client before it removes *)
(* the file.  A user config that cannot be loaded blocks use, create and    *)
(* delete alike.                                                            *)
CurrentExists == user \in Name => user \in Whole

(* Between commands a current client is set as long as there is a client:   *)
(* what create does for the first and delete for the next one.  An          *)
(* interrupt may leave none.                                                *)
ClientsHaveCurrent == (\A p \in Proc : step[p] \in Ended) /\ interrupts = 0 =>
                        (Present # {} => user \in Name)
=============================================================================
