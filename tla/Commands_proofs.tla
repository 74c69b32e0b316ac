-------------------------- MODULE Commands_proofs ---------------------------
(***************************************************************************)
(* What the commands of a user and an administrator leave behind.          *)
(*                                                                         *)
(* The current client of a user, for any number of clients, when commands  *)
(* run one at a time and the names of the clients have no dot.  Both are   *)
(* needed: two commands can interleave so that one deletes the client the  *)
(* other is about to save, and use of a name with a dot saves another one. *)
(*                                                                         *)
(* Then the configs of exporters, for any number of them, and the leases   *)
(* of scopes and of a release --all, for any number of requests.           *)
(***************************************************************************)
EXTENDS Configs, Lease, FiniteSetTheorems, TLAPS

OneAtATime == \A p, q \in Proc : p = q
NoDots == \A n \in Name : Stem[n] = n

(* What a command has made sure of when it saves the current client or      *)
(* removes a file.                                                          *)
Creates(p) == op[p] = "create" =>
  /\ step[p] \in Ended \cup {"check", "open", "fill", "count", "load", "create", "save", "write"}
  /\ step[p] = "open" => clients[target[p]] = "absent"
  /\ step[p] = "fill" => handle[p] /\ clients[target[p]] = "empty"
  /\ step[p] \in {"count", "load", "create", "save", "write"} => clients[target[p]] = "whole"
  /\ step[p] \in {"save", "write"} => chosen[p] = target[p]

Exports(p) == op[p] = "export" => step[p] \in Ended \cup {"export"}

Uses(p) == op[p] = "use" =>
  /\ step[p] \in Ended \cup {"load", "create", "choose", "save", "write"}
  /\ step[p] \in {"save", "write"} => chosen[p] \in Name /\ clients[chosen[p]] = "whole"

Deletes(p) == op[p] = "delete" =>
  /\ step[p] \in Ended \cup {"peek", "next", "save", "write", "unlink"}
  /\ step[p] \in {"save", "write"} => /\ chosen[p] # target[p]
                                      /\ chosen[p] \in Name => clients[chosen[p]] = "whole"
  /\ step[p] = "unlink" => user # target[p]

Inv == TypeOK /\ CurrentExists /\ \A p \in Proc : Creates(p) /\ Exports(p) /\ Uses(p) /\ Deletes(p)

LEMMA Names == \A n \in Name : n # "none" /\ n # "absent" /\ n # "empty"
BY NameAssumption

LEMMA InvStep == ASSUME OneAtATime, NoDots
                 PROVE  Inv /\ [Next]_vars => Inv'
<1> SUFFICES ASSUME Inv, [Next]_vars PROVE Inv'
    OBVIOUS
<1> USE NameAssumption, Names DEF OneAtATime, NoDots, Inv, TypeOK, CurrentExists, Creates, Exports, Uses, Deletes, Whole,
        Present, Current, None, FileState, Ended, Operation, Goto, command, files
<1>1. CASE UNCHANGED vars
      BY <1>1 DEF vars
<1>2. SUFFICES ASSUME NEW p \in Proc,
                      \/ Begin(p)
                      \/ CheckNew(p) \/ Export(p) \/ OpenClient(p) \/ FillClient(p) \/ CountClients(p)
                      \/ LoadUser(p) \/ CreateUser(p) \/ FillNewUser(p)
                      \/ UseClient(p) \/ OpenUser(p) \/ WriteUser(p)
                      \/ PeekUser(p) \/ NextClient(p) \/ NextFails(p) \/ DeleteClient(p)
                      \/ Interrupt(p)
               PROVE  Inv'
      BY <1>1 DEF Next
<1>3. CASE Begin(p)
      BY <1>3 DEF Begin
<1>4. CASE CheckNew(p) \/ Export(p)
      BY <1>4 DEF CheckNew, Export
<1>5. CASE OpenClient(p)
      BY <1>5 DEF OpenClient
<1>6. CASE FillClient(p)
      BY <1>6 DEF FillClient
<1>7. CASE CountClients(p)
      BY <1>7 DEF CountClients
<1>8. CASE LoadUser(p)
      BY <1>8 DEF LoadUser
<1>9. CASE CreateUser(p)
      BY <1>9 DEF CreateUser
<1>10. CASE FillNewUser(p)
      BY <1>10 DEF FillNewUser
<1>11. CASE UseClient(p)
      BY <1>11 DEF UseClient
<1>12. CASE OpenUser(p)
      BY <1>12 DEF OpenUser
<1>13. CASE WriteUser(p)
      BY <1>13 DEF WriteUser
<1>14. CASE PeekUser(p)
      BY <1>14 DEF PeekUser, Loads
<1>15. CASE NextClient(p)
      BY <1>15 DEF NextClient, Others
<1>16. CASE NextFails(p)
      BY <1>16 DEF NextFails
<1>17. CASE DeleteClient(p)
      BY <1>17 DEF DeleteClient, Unlinked
<1>18. CASE Interrupt(p)
      BY <1>18 DEF Interrupt
<1> QED BY <1>2, <1>3, <1>4, <1>5, <1>6, <1>7, <1>8, <1>9, <1>10, <1>11, <1>12, <1>13, <1>14, <1>15, <1>16, <1>17, <1>18

LEMMA InitInv == Init => Inv
BY NameAssumption, Names DEF Init, Inv, TypeOK, CurrentExists, Creates, Exports, Uses, Deletes, Whole, Current, None,
   FileState, Ended, Operation

(* The current client can be loaded, at every step of every command.        *)
THEOREM CurrentCanBeLoaded == ASSUME OneAtATime, NoDots
                              PROVE  Spec => []CurrentExists
<1>1. Inv /\ [Next]_vars => Inv'
      BY InvStep
<1>2. Inv => CurrentExists
      BY DEF Inv
<1> QED BY <1>1, <1>2, InitInv, PTL DEF Spec
-----------------------------------------------------------------------------
(* Without an interrupt, the clients there are while no current client is   *)
(* set: those that the command at work is about.                            *)
NoneBut(p) == \A n \in Name : clients[n] # "absent" => n = target[p]
NoClients == \A n \in Name : clients[n] = "absent"

WithoutCurrent(p) ==
  /\ op[p] = "create" /\ step[p] \in {"fill", "count", "load", "create", "save"} /\ user \notin Name
       => NoneBut(p)
  /\ op[p] = "delete" /\ step[p] = "unlink" /\ user \notin Name => NoneBut(p)
  /\ op[p] = "delete" /\ step[p] \in {"save", "write"} /\ chosen[p] \notin Name => NoneBut(p)
  /\ op[p] = "delete" /\ step[p] = "next" => user \in Name
  /\ step[p] \in Ended \cup {"check", "export", "open", "peek", "choose"} /\ user \notin Name => NoClients
  /\ op[p] = "use" /\ step[p] # "write" /\ user \notin Name => NoClients

Calm == interrupts = 0 =>
  \A p \in Proc :
    /\ user = "empty" => step[p] \in {"create", "write"}
    /\ step[p] = "create" => user = "empty"
    /\ \A n \in Name : clients[n] = "empty" => step[p] = "fill" /\ n = target[p]
    /\ WithoutCurrent(p)

LEMMA CalmStep == ASSUME OneAtATime, NoDots
                  PROVE  Inv /\ Calm /\ [Next]_vars => Calm'
<1> SUFFICES ASSUME Inv, Calm, [Next]_vars, interrupts' = 0 PROVE Calm'
    BY DEF Calm
<1> USE NameAssumption, Names DEF OneAtATime, NoDots, Inv, TypeOK, CurrentExists, Creates, Exports, Uses, Deletes, Whole,
        Present, Current, None, FileState, Ended, Operation, Goto, command, files, Calm, WithoutCurrent, NoneBut, NoClients
<1>1. CASE UNCHANGED vars
      BY <1>1 DEF vars
<1>2. SUFFICES ASSUME NEW p \in Proc,
                      \/ Begin(p)
                      \/ CheckNew(p) \/ Export(p) \/ OpenClient(p) \/ FillClient(p) \/ CountClients(p)
                      \/ LoadUser(p) \/ CreateUser(p) \/ FillNewUser(p)
                      \/ UseClient(p) \/ OpenUser(p) \/ WriteUser(p)
                      \/ PeekUser(p) \/ NextClient(p) \/ NextFails(p) \/ DeleteClient(p)
                      \/ Interrupt(p)
               PROVE  Calm'
      BY <1>1 DEF Next
<1>3. CASE Begin(p)
      BY <1>3 DEF Begin
<1>4. CASE CheckNew(p) \/ Export(p)
      BY <1>4 DEF CheckNew, Export
<1>5. CASE OpenClient(p)
  <2>1. /\ interrupts = 0 /\ op[p] = "create" /\ step[p] = "open"
        /\ \A n \in Name : n # target[p] => clients'[n] = clients[n]
        /\ user' = user /\ step'[p] = "fill" /\ op' = op /\ target' = target
        BY <1>5 DEF OpenClient
  <2> QED BY <2>1
<1>6. CASE FillClient(p)
      BY <1>6 DEF FillClient
<1>7. CASE CountClients(p)
  <2>1. /\ interrupts = 0 /\ op[p] = "create" /\ step[p] = "count" /\ target[p] \in Present
        /\ UNCHANGED <<clients, user, op, target, chosen>>
        BY <1>7 DEF CountClients
  <2>2. Lists
        BY <2>1 DEF Lists
  <2>3. CASE user \in Name
    <3>1. user \notin {"absent", "empty"} /\ \A n \in Name : clients[n] # "empty"
          BY <2>1, <2>3
    <3>2. \E next \in {"failed", "load", "ok"} : step' = [step EXCEPT ![p] = next]
          BY <1>7 DEF CountClients
    <3> QED BY <2>1, <2>3, <3>1, <3>2
  <2>4. CASE user \notin Name
    <3>1. NoneBut(p)
          BY <2>1, <2>4
    <3>2. Present = {target[p]}
          BY <2>1, <3>1
    <3>3. Cardinality(Present) = 1
      <4>1. Cardinality({target[p]}) = 1
            BY FS_Singleton, Zenon
      <4> HIDE DEF Present
      <4> QED BY <3>2, <4>1, Zenon
    <3>4. step' = [step EXCEPT ![p] = "load"]
          BY <1>7, <2>2, <3>3 DEF CountClients
    <3> QED BY <2>1, <3>1, <3>4
  <2> QED BY <2>3, <2>4
<1>8. CASE LoadUser(p)
      BY <1>8 DEF LoadUser, Loads
<1>9. CASE CreateUser(p)
      BY <1>9 DEF CreateUser
<1>10. CASE FillNewUser(p)
      BY <1>10 DEF FillNewUser
<1>11. CASE UseClient(p)
      BY <1>11 DEF UseClient
<1>12. CASE OpenUser(p)
      BY <1>12 DEF OpenUser
<1>13. CASE WriteUser(p)
      BY <1>13 DEF WriteUser
<1>14. CASE PeekUser(p)
      BY <1>14 DEF PeekUser, Loads
<1>15. CASE NextClient(p)
      BY <1>15 DEF NextClient, Others
<1>16. CASE NextFails(p)
      BY <1>16 DEF NextFails
<1>17. CASE DeleteClient(p)
      BY <1>17 DEF DeleteClient, Unlinked
<1>18. CASE Interrupt(p)
      BY <1>18 DEF Interrupt
<1> QED BY <1>2, <1>3, <1>4, <1>5, <1>6, <1>7, <1>8, <1>9, <1>10, <1>11, <1>12, <1>13, <1>14, <1>15, <1>16, <1>17, <1>18

(* Between commands, none of which was interrupted, one of the clients is   *)
(* the current one if there are any.                                        *)
THEOREM CurrentIsSet == ASSUME OneAtATime, NoDots, Proc # {}
                        PROVE  Spec => []ClientsHaveCurrent
<1>1. Init => Inv /\ Calm
      BY InitInv, Names DEF Init, Calm, WithoutCurrent, NoneBut, NoClients, Ended
<1>2. Inv /\ Calm /\ [Next]_vars => (Inv /\ Calm)'
      BY InvStep, CalmStep
<1>3. Inv /\ Calm => ClientsHaveCurrent
  <2> SUFFICES ASSUME Inv, Calm, interrupts = 0, \A p \in Proc : step[p] \in Ended, user \notin Name
               PROVE  Present = {}
      BY DEF ClientsHaveCurrent
  <2> PICK p \in Proc : TRUE
      OBVIOUS
  <2> QED BY DEF Inv, TypeOK, Creates, Exports, Uses, Deletes, Calm, WithoutCurrent, NoClients, Present
<1> QED BY <1>1, <1>2, <1>3, PTL DEF Spec

(* The files and the commands have their types, also when commands run at   *)
(* the same time and names have dots.                                       *)
THEOREM ClientConfigTypeCorrect == ConfigsSpec => []TypeOK
<1>1. ConfigsInit => TypeOK
      BY NameAssumption DEF ConfigsInit, Init, TypeOK, Current, None, FileState, Ended, Operation
<1>2. TypeOK /\ [Next]_vars => TypeOK'
  <2> SUFFICES ASSUME TypeOK, [Next]_vars PROVE TypeOK'
      OBVIOUS
  <2> USE NameAssumption DEF TypeOK, FileState, Current, None, Ended, Operation, Goto, command, files
  <2>1. CASE UNCHANGED vars
        BY <2>1 DEF vars
  <2>2. ASSUME NEW p \in Proc, Begin(p) PROVE TypeOK'
        BY <2>2 DEF Begin
  <2>3. ASSUME NEW p \in Proc, CheckNew(p) \/ Export(p) \/ CountClients(p) \/ PeekUser(p) \/ NextFails(p) PROVE TypeOK'
    <3>1. CASE CheckNew(p) \/ Export(p)
          BY <3>1 DEF CheckNew, Export
    <3>2. CASE CountClients(p)
          BY <3>2 DEF CountClients
    <3>3. CASE PeekUser(p)
          BY <3>3 DEF PeekUser
    <3>4. CASE NextFails(p)
          BY <3>4 DEF NextFails
    <3> QED BY <2>3, <3>1, <3>2, <3>3, <3>4
  <2>4. ASSUME NEW p \in Proc, OpenClient(p) \/ FillClient(p) \/ DeleteClient(p) \/ Interrupt(p) PROVE TypeOK'
    <3>1. CASE OpenClient(p)
          BY <3>1 DEF OpenClient
    <3>2. CASE FillClient(p)
          BY <3>2 DEF FillClient
    <3>3. CASE DeleteClient(p)
      <4>1. handle' \in [Proc -> BOOLEAN]
            BY <3>3, Zenon DEF DeleteClient, Unlinked
      <4> QED BY <3>3, <4>1 DEF DeleteClient
    <3>4. CASE Interrupt(p)
          BY <3>4 DEF Interrupt
    <3> QED BY <2>4, <3>1, <3>2, <3>3, <3>4
  <2>5. ASSUME NEW p \in Proc, LoadUser(p) \/ CreateUser(p) \/ FillNewUser(p) \/ OpenUser(p) \/ WriteUser(p)
        PROVE  TypeOK'
        BY <2>5 DEF LoadUser, CreateUser, FillNewUser, OpenUser, WriteUser
  <2>6. ASSUME NEW p \in Proc, UseClient(p) PROVE TypeOK'
        BY <2>6 DEF UseClient
  <2>7. ASSUME NEW p \in Proc, NextClient(p) PROVE TypeOK'
    <3>1. \A c \in Others(target[p]) : c \in Name
          BY DEF Others, Present
    <3> QED BY <2>7, <3>1 DEF NextClient
  <2> QED BY <2>1, <2>2, <2>3, <2>4, <2>5, <2>6, <2>7 DEF Next
<1>3. [ConfigsNext]_configVars => [Next]_vars
      BY DEF ConfigsNext, configVars
<1> QED BY <1>1, <1>2, <1>3, PTL DEF ConfigsSpec

-----------------------------------------------------------------------------
(* A command of jmp-exporter goes on only with what it has read: create     *)
(* with a file that is not there, delete and edit with one that is whole.   *)
Knows == /\ config \in [Alias -> {"absent", "empty", "broken", "whole"}]
         /\ doing = "load" => verb \in {"create", "delete", "edit", "run", "shell"}
         /\ doing = "open" => verb = "create" /\ config[alias] = "absent"
         /\ doing = "fill" => verb = "create"
         /\ doing \in {"edit", "unlink"} => config[alias] = "whole"

LEMMA KnowsStep == Knows /\ [ConfigNext]_exporterConfigVars => Knows'
<1> SUFFICES ASSUME Knows, [ConfigNext]_exporterConfigVars PROVE Knows'
    OBVIOUS
<1> USE DEF Knows, Does, Over
<1>1. ASSUME NEW c \in {"create", "delete", "edit", "list", "run", "shell"}, NEW a \in Alias, Issue(c, a) PROVE Knows'
      BY <1>1 DEF Issue
<1>2. CASE Load
  <2>1. /\ Loaded \in {"open", "refused", "unlink", "edit", "serve"}
        /\ Loaded = "open" => verb = "create" /\ config[alias] = "absent"
        /\ Loaded \in {"edit", "unlink"} => config[alias] = "whole"
        BY <1>2 DEF Load, Loaded
  <2> QED BY <1>2, <2>1 DEF Load
<1>3. CASE List \/ Serve \/ Cut
      BY <1>3 DEF List, Serve, Cut
<1>4. CASE Open \/ Fill \/ Edit \/ Unlink
      BY <1>4 DEF Open, Fill, Edit, Unlink
<1>5. CASE UNCHANGED <<config, verb, alias, doing>>
      BY <1>5
<1> QED BY <1>1, <1>2, <1>3, <1>4, <1>5 DEF ConfigNext, Stop, exporterConfigVars

(* No command of jmp-exporter changes a config that it cannot read: what    *)
(* the user's editor or an interrupted create left stays (exporter.py).     *)
THEOREM UnreadableStays == ConfigsSpec => UnreadableIsKept
<1>1. ConfigsInit => Knows
      BY DEF ConfigsInit, ConfigInit, Knows
<1>2. [ConfigsNext]_configVars => [ConfigNext]_exporterConfigVars
      BY DEF ConfigsNext, configVars
<1>3. Knows /\ [ConfigNext]_exporterConfigVars =>
        [\A a \in Alias : config[a] \in {"empty", "broken"} /\ config'[a] # config[a] =>
           verb = "create" /\ doing = "fill" /\ alias = a]_exporterConfigVars
      BY DEF Knows, ConfigNext, Issue, Load, List, Open, Fill, Edit, Unlink, Serve, Stop, Cut
<1> QED BY <1>1, <1>2, <1>3, KnowsStep, PTL DEF ConfigsSpec, UnreadableIsKept

(* The files and the exporters that run have their types.                   *)
THEOREM ExporterConfigTypeCorrect == ConfigsSpec => []ConfigTypeOK
<1>1. ConfigsInit => Knows /\ ConfigTypeOK
      BY DEF ConfigsInit, ConfigInit, Knows, ConfigTypeOK
<1>2. [ConfigsNext]_configVars => [ConfigNext]_exporterConfigVars
      BY DEF ConfigsNext, configVars
<1>3. Knows' /\ ConfigTypeOK /\ [ConfigNext]_exporterConfigVars => ConfigTypeOK'
      BY DEF Knows, ConfigTypeOK, ConfigNext, exporterConfigVars, Issue, Load, List, Open, Fill, Edit, Unlink,
         Serve, Stop, Cut, Does
<1> QED BY <1>1, <1>2, <1>3, KnowsStep, PTL DEF ConfigsSpec

-----------------------------------------------------------------------------
(* The states of a lease that was granted at some time, or was given back.  *)
Granted == {"ready", "expired", "released"}

(* A reply says that the lease is ready only when it is. *)
LEMMA ReadyReport ==
  ASSUME NEW state \in LeaseState, NEW report \in Conditions(state), ConditionTrue(report, "Ready")
  PROVE  state = "ready"
<1>1. PICK i \in DOMAIN report : report[i] = Condition("Ready", "True")
      BY DEF ConditionTrue, PresentAndEqual
<1>2. CASE state = "pending"
  <2>1. report = <<>> \/ report = <<Condition("Pending", "True")>>
        BY <1>2 DEF Conditions
  <2> QED BY <1>1, <2>1 DEF Condition
<1>3. CASE state = "unsatisfiable"
  <2>1. \/ report = <<Condition("Pending", "True"), Condition("Unsatisfiable", "True")>>
        \/ report = <<Condition("Pending", "False"), Condition("Unsatisfiable", "True")>>
        BY <1>3 DEF Conditions
  <2> QED BY <1>1, <2>1 DEF Condition
<1>4. CASE state \in {"none", "expired", "released"}
  <2>1. report = <<Condition("Pending", "False"), Condition("Ready", "False")>>
        BY <1>4 DEF Conditions
  <2> QED BY <1>1, <2>1 DEF Condition
<1> QED BY <1>2, <1>3, <1>4 DEF LeaseState

(* The scope has seen that its lease was granted. *)
Sees(r) == \/ task[r] \in {"holding", "releasing"}
           \/ task[r] = "deciding" /\ ConditionTrue(view[r], "Ready")

LeaseType == /\ task \in [Request -> Task]
             /\ view \in [Request -> Report]
             /\ lease \in [Request -> LeaseState]
             /\ listed \subseteq Request /\ left \subseteq listed

LeaseInv == /\ LeaseType
            /\ \A r \in Request : /\ task[r] = "idle" => lease[r] = "none"
                                  /\ Sees(r) => lease[r] \in Granted
                                  /\ task[r] = "left" => lease[r] \notin Live
            /\ \A r, q \in Request : lease[r] = "ready" /\ lease[q] = "ready" => r = q
            /\ \A r \in listed : lease[r] # "none"
            /\ \A r \in listed \ left : lease[r] \notin Live
            /\ sweep = "idle" => listed = {}
            /\ sweep = "done" => left = {}

LEMMA LeaseInvStep == LeaseInv /\ [LeaseNext]_leaseVars => LeaseInv'
<1> SUFFICES ASSUME LeaseInv, [LeaseNext]_leaseVars PROVE LeaseInv'
    OBVIOUS
<1> USE DEF LeaseInv, LeaseType, Sees, Granted, Live, LeaseState, Task, Move
<1>1. CASE UNCHANGED leaseVars
      BY <1>1 DEF leaseVars
<1>2. ASSUME NEW r \in Request, RequestLease(r) \/ RequestFails(r) PROVE LeaseInv'
  <2>1. PICK state \in {"none", "pending"} : lease' = [lease EXCEPT ![r] = state]
        BY <1>2 DEF RequestLease, RequestFails
  <2>2. /\ UNCHANGED <<view, sweep, listed, left>> /\ task[r] = "idle" /\ r \notin listed
        /\ \E to \in {"polling", "failed"} : task' = [task EXCEPT ![r] = to]
        BY <1>2 DEF RequestLease, RequestFails, sweepVars
  <2> QED BY <2>1, <2>2
<1>3. ASSUME NEW r \in Request, GetLease(r) PROVE LeaseInv'
  <2>1. /\ UNCHANGED <<lease, sweep, listed, left>> /\ task' = [task EXCEPT ![r] = "deciding"]
        /\ view' = [view EXCEPT ![r] = view'[r]] /\ view'[r] \in Conditions(lease[r])
        BY <1>3 DEF GetLease, sweepVars
  <2>2. view'[r] \in Report /\ (ConditionTrue(view'[r], "Ready") => lease[r] = "ready")
        BY <2>1, ReadyReport DEF Report
  <2> QED BY <2>1, <2>2
<1>4. ASSUME NEW r \in Request,
             Acquire(r) \/ Unsatisfiable(r) \/ StillPending(r) \/ PollAgain(r) \/ StopWaiting(r) \/ Leave(r)
      PROVE  LeaseInv'
      BY <1>4 DEF Acquire, Unsatisfiable, StillPending, PollAgain, StopWaiting, Leave, sweepVars
<1>5. ASSUME NEW r \in Request, Release(r) \/ ReleaseFails(r) PROVE LeaseInv'
      BY <1>5 DEF Release, ReleaseFails, Freed, sweepVars
<1>6. ASSUME NEW r \in Request, Grant(r) \/ Refuse(r) \/ Expire(r) PROVE LeaseInv'
      BY <1>6 DEF Grant, Refuse, Expire, clientVars, sweepVars
<1>7. ASSUME NEW r \in Request, ReleaseListed(r) PROVE LeaseInv'
      BY <1>7 DEF ReleaseListed, Freed, clientVars
<1>8. ASSUME NEW r \in Request, ReleaseListedFails(r) PROVE LeaseInv'
      BY <1>8 DEF ReleaseListedFails, clientVars
<1>9. CASE ListLeases
      BY <1>9 DEF ListLeases, clientVars
<1>10. CASE SweepDone
      BY <1>10 DEF SweepDone, clientVars
<1> QED BY <1>1, <1>2, <1>3, <1>4, <1>5, <1>6, <1>7, <1>8, <1>9, <1>10 DEF LeaseNext, ClientStep

LEMMA LeaseInitInv == LeaseInit => LeaseInv
<1>1. <<>> \in Report
      BY DEF Report, Conditions, LeaseState
<1> QED BY <1>1 DEF LeaseInit, LeaseInv, LeaseType, Sees, Granted, Live, LeaseState, Task

(* A client that holds a lease has one that was granted to it, and no two   *)
(* hold leases that are still alive.                                        *)
THEOREM HoldersWereGranted == LeaseSpec => []HolderWasGranted
<1>1. LeaseInv => HolderWasGranted
      BY DEF LeaseInv, Sees, Granted, HolderWasGranted
<1> QED BY <1>1, LeaseInitInv, LeaseInvStep, PTL DEF LeaseSpec

(* A scope that ends without an exception leaves no lease behind.           *)
THEOREM ExitsClean == LeaseSpec => []CleanExit
<1>1. LeaseInv => CleanExit
      BY DEF LeaseInv, CleanExit
<1> QED BY <1>1, LeaseInitInv, LeaseInvStep, PTL DEF LeaseSpec

(* A release --all that succeeds leaves none of the leases it was told of.  *)
THEOREM SweepsAll == LeaseSpec => []SweepComplete
<1>1. LeaseInv => SweepComplete
      BY DEF LeaseInv, SweepComplete
<1> QED BY <1>1, LeaseInitInv, LeaseInvStep, PTL DEF LeaseSpec

(* No reply has two conditions of the same type: one that says ready        *)
(* anywhere says so to the poll, which looks at the first of a type.        *)
LEMMA ReadyIsSeen ==
  ASSUME NEW report \in Report, NEW i \in DOMAIN report, report[i] = Condition("Ready", "True")
  PROVE  ConditionTrue(report, "Ready")
<1>1. PICK state \in LeaseState : report \in Conditions(state)
      BY DEF Report
<1>2. CASE state = "ready"
  <2>1. CASE report = <<Condition("Pending", "False"), Condition("Ready", "True")>>
    <3>1. i = 2
          BY <2>1 DEF Condition
    <3> QED BY <2>1, <3>1 DEF ConditionTrue, PresentAndEqual, Condition
  <2>2. CASE report = <<Condition("Ready", "True")>>
        BY <2>2 DEF ConditionTrue, PresentAndEqual, Condition
  <2> QED BY <1>1, <1>2, <2>1, <2>2 DEF Conditions
<1>3. CASE state = "pending"
      BY <1>1, <1>3 DEF Conditions, Condition
<1>4. CASE state = "unsatisfiable"
  <2>1. \/ report = <<Condition("Pending", "True"), Condition("Unsatisfiable", "True")>>
        \/ report = <<Condition("Pending", "False"), Condition("Unsatisfiable", "True")>>
        BY <1>1, <1>4 DEF Conditions
  <2> QED BY <2>1 DEF Condition
<1>5. CASE state \in {"none", "expired", "released"}
  <2>1. report = <<Condition("Pending", "False"), Condition("Ready", "False")>>
        BY <1>1, <1>5 DEF Conditions
  <2> QED BY <2>1 DEF Condition
<1> QED BY <1>2, <1>3, <1>4, <1>5 DEF LeaseState

(* A scope that is told that its lease is ready takes it: only a reply that *)
(* says nothing of the kind makes the poll give up.                         *)
THEOREM ReadyTaken == LeaseSpec => ReadyIsTaken
<1> DEFINE Takes == \A r \in Request :
              task[r] = "deciding" /\ task'[r] = "failed" =>
                \A i \in DOMAIN view[r] : view[r][i] # Condition("Ready", "True")
<1>1. LeaseInv /\ [LeaseNext]_leaseVars => [Takes]_leaseVars
  <2> SUFFICES ASSUME LeaseInv, LeaseNext, NEW r \in Request, task[r] = "deciding", task'[r] = "failed"
               PROVE  \A i \in DOMAIN view[r] : view[r][i] # Condition("Ready", "True")
      OBVIOUS
  <2>0. task \in [Request -> Task] /\ view[r] \in Report
        BY DEF LeaseInv, LeaseType
  <2>1. PICK q \in Request :
          \/ ClientStep(q) \/ RequestLease(q) \/ RequestFails(q) \/ Leave(q) \/ ReleaseFails(q)
          \/ UNCHANGED task
        BY DEF LeaseNext, Grant, Refuse, Expire, ReleaseListed, ReleaseListedFails, ListLeases, SweepDone,
               clientVars
  <2>2. task' # task
        OBVIOUS
  <2>3. Unsatisfiable(r)
        BY <2>0, <2>1, <2>2 DEF ClientStep, GetLease, Acquire, Unsatisfiable, StillPending, PollAgain,
           StopWaiting, Release, RequestLease, RequestFails, Leave, ReleaseFails, Move
  <2>4. ~ConditionTrue(view[r], "Ready")
        BY <2>3 DEF Unsatisfiable
  <2> QED BY <2>0, <2>4, ReadyIsSeen
<1>2. LeaseSpec => [][Takes]_leaseVars
      BY <1>1, LeaseInitInv, LeaseInvStep, PTL DEF LeaseSpec
<1> QED BY <1>2 DEF ReadyIsTaken

(* The scopes, the leases and the sweep have their types: a sweep has left  *)
(* to release only what it was told of, and never more calls fail than the  *)
(* bound.                                                                   *)
THEOREM LeaseTypeCorrect == LeaseSpec => []LeaseTypeOK
<1>1. LeaseInit => sweep \in SweepState /\ faults \in 0..MaxFaults
      BY FaultAssumption DEF LeaseInit, SweepState
<1>2. sweep \in SweepState /\ faults \in 0..MaxFaults /\ [LeaseNext]_leaseVars =>
        (sweep \in SweepState /\ faults \in 0..MaxFaults)'
      BY FaultAssumption DEF LeaseNext, ClientStep, leaseVars, clientVars, sweepVars, SweepState, Fault, Move,
         RequestLease, RequestFails, GetLease, Acquire, Unsatisfiable, StillPending, PollAgain, StopWaiting, Leave,
         Release, ReleaseFails, Grant, Refuse, Expire, ReleaseListed, ReleaseListedFails, ListLeases, SweepDone
<1>3. LeaseInv /\ sweep \in SweepState /\ faults \in 0..MaxFaults => LeaseTypeOK
      BY DEF LeaseInv, LeaseType, LeaseTypeOK
<1> QED BY <1>1, <1>2, <1>3, LeaseInitInv, LeaseInvStep, PTL DEF LeaseSpec
=============================================================================
