-------------------------------- MODULE CanBus --------------------------------
(***************************************************************************)
(* The Can driver and its CanClient, over several sessions of an exporter. *)
(* Each session has a driver of its own, with a bus on the same channel.   *)
(* A periodic task is a thread of the exporter that sends on the bus, or,  *)
(* on socketcan, an order to the kernel to send: the driver keeps it in a  *)
(* table by uuid, the client keeps the uuid.                               *)
(*                                                                         *)
(* The driver has no close(): what ends a bus is the client's shutdown, or *)
(* that it is collected, when no thread refers to it any more.             *)
(***************************************************************************)
EXTENDS DriverCall

CONSTANTS MaxSessions,     \* bound on the sessions
          MaxTasks,        \* bound on the periodic tasks
          MaxFaults        \* bound on interrupts and lost connections

ASSUME CanAssumption == MaxSessions \in Nat \ {0} /\ MaxTasks \in Nat /\ MaxFaults \in Nat

VARIABLES interface,   \* "exclusive" admits one bus at a time
          session,     \* the number of the session
          phase,       \* "open" or "over"
          bus,         \* the bus of each session
          task,        \* each periodic task, in its thread or the kernel
          owner,       \* the session it was started in
          table,       \* the tasks the drivers have in their tables
          late,        \* those that were started on a bus that was shut
          target,      \* the driver each call is for, by its session
          arg,         \* the task a call is about
          op,          \* what the client's user is doing
          mine,        \* the call that is waited for
          known,       \* the tasks the user has
          listed,      \* those the client stops when it is shut down
          todo,        \* those it has still to stop
          closed,      \* its flag _is_shutdown
          silenced,    \* the sessions whose client returned from shutdown
          faults

driver == <<bus, task, owner, table, late>>
user == <<op, mine, known, listed, todo, closed, silenced>>
vars == <<interface, callVars, session, phase, driver, target, arg, user, faults>>

Session == 1..MaxSessions
Task == 1..MaxTasks
NoTask == 0

(* What python-can's interfaces differ in here: whether a second bus can be *)
(* opened on the channel, and who sends the periodic tasks.                 *)
Interface == {"shared", "exclusive", "socketcan"}
InKernel == interface = "socketcan"

NoCall == "no call"

(* "send" and "recv" stand for all the methods that use the bus. *)
CanMethods == {"send", "recv", "periodic", "stop", "shutdown"}

NewClient == /\ op = "idle" /\ mine = NoCall
             /\ known = {} /\ listed = {} /\ todo = {} /\ closed = FALSE

Init == /\ CallInit /\ method = [c \in Call |-> "send"]
        /\ interface \in Interface
        /\ session = 1 /\ phase = "open"
        /\ bus = [s \in Session |-> IF s = 1 THEN "open" ELSE "none"]
        /\ task = [t \in Task |-> "unused"]
        /\ owner = [t \in Task |-> 1]
        /\ table = {} /\ late = {}
        /\ target = [c \in Call |-> 1]
        /\ arg = [c \in Call |-> NoTask]
        /\ NewClient
        /\ silenced = {}
        /\ faults = 0

-----------------------------------------------------------------------------
(* The user's thread makes one call at a time, in the first place that is   *)
(* free: one that is not holds a call whose answer nobody waited for.       *)
Calls(c, m, t) == /\ phase = "open"
                  /\ c = CHOOSE d \in Call : stage[d] = "answered"
                  /\ Send(c) /\ method'[c] = m
                  /\ target' = [target EXCEPT ![c] = session]
                  /\ arg' = [arg EXCEPT ![c] = t]
                  /\ mine' = c
                  /\ UNCHANGED <<interface, session, phase, driver, faults>>

Waits == op = "idle" /\ op' = "waiting" /\ UNCHANGED <<known, todo, closed, silenced>>

Uses(c) == /\ Waits /\ UNCHANGED listed
           /\ \E m \in {"send", "recv"} : Calls(c, m, NoTask)

Starting == {c \in Call : method[c] = "periodic" /\ stage[c] # "answered"}

(* Without a modifier; with one, the task is a thread of the client's own,  *)
(* which calls send, and is left out here.                                  *)
SendPeriodic(c) == /\ Cardinality({t \in Task : task[t] = "unused"}) > Cardinality(Starting)
                   /\ Waits /\ UNCHANGED listed
                   /\ Calls(c, "periodic", NoTask)

(* Mutant of StopTask: the task stays on the list.                          *)
StopsListed(c) == /\ Waits /\ UNCHANGED listed
                  /\ \E t \in known : Calls(c, "stop", t)

(* stop() of a task takes it off the client's list first. *)
StopTask(c) == /\ Waits
               /\ \E t \in known : Calls(c, "stop", t) /\ listed' = listed \ {t}

(* Mutant of Shutdown: only the client's part of it.                        *)
ShutdownLocally(c) == /\ op = "idle" /\ phase = "open" /\ op' = "draining"
                      /\ closed' = TRUE /\ todo' = listed
                      /\ UNCHANGED <<interface, callVars, session, phase, driver, target, arg,
                                     mine, known, listed, silenced, faults>>

(* shutdown: the driver's bus first, then the tasks on the list. *)
Shutdown(c) == /\ Waits /\ UNCHANGED listed
               /\ Calls(c, "shutdown", NoTask)

Drains(c) == /\ op = "draining" /\ mine = NoCall
             /\ \E t \in todo : Calls(c, "stop", t)
             /\ UNCHANGED <<op, known, listed, todo, closed, silenced>>

Elsewhere == UNCHANGED <<interface, callVars, session, phase, driver, target, arg, faults>>

Answered(m) == mine # NoCall /\ stage[mine] = "answered" /\ method[mine] = m

(* An answer that is an error is raised where the call was made. *)
Raises == /\ op \in {"waiting", "draining"}
          /\ mine # NoCall /\ stage[mine] = "answered" /\ answer[mine] # "ok"
          /\ op' = "idle" /\ mine' = NoCall /\ todo' = {}
          /\ UNCHANGED <<known, listed, closed, silenced>>
          /\ Elsewhere

Resumes == /\ op = "waiting"
           /\ Answered("send") \/ Answered("recv") \/ Answered("stop")
           /\ answer[mine] = "ok"
           /\ op' = "idle" /\ mine' = NoCall
           /\ UNCHANGED <<known, listed, todo, closed, silenced>>
           /\ Elsewhere

TakesTask == /\ op = "waiting" /\ Answered("periodic") /\ answer[mine] = "ok"
             /\ known' = known \cup {arg[mine]}
             /\ listed' = listed \cup {arg[mine]}
             /\ op' = "idle" /\ mine' = NoCall
             /\ UNCHANGED <<todo, closed, silenced>>
             /\ Elsewhere

(* The client's own shutdown does its work once. *)
BusIsShut == /\ op = "waiting" /\ Answered("shutdown") /\ answer[mine] = "ok"
             /\ IF closed THEN op' = "idle" /\ UNCHANGED todo
                          ELSE op' = "draining" /\ todo' = listed
             /\ closed' = TRUE /\ mine' = NoCall
             /\ UNCHANGED <<known, listed, silenced>>
             /\ Elsewhere

TaskIsStopped == /\ op = "draining" /\ Answered("stop") /\ answer[mine] = "ok"
                 /\ todo' = todo \ {arg[mine]}
                 /\ mine' = NoCall
                 /\ UNCHANGED <<op, known, listed, closed, silenced>>
                 /\ Elsewhere

Drained == /\ op = "draining" /\ mine = NoCall /\ todo = {}
           /\ op' = "idle"
           /\ listed' = {}
           /\ silenced' = silenced \cup {session}
           /\ UNCHANGED <<mine, known, todo, closed>>
           /\ Elsewhere

(* The user interrupts the wait for a call: the call goes on, and nobody    *)
(* takes its answer.                                                        *)
Interrupted == /\ op \in {"waiting", "draining"} /\ mine # NoCall
               /\ faults < MaxFaults
               /\ faults' = faults + 1
               /\ op' = "idle" /\ mine' = NoCall /\ todo' = {}
               /\ UNCHANGED <<interface, callVars, session, phase, driver, target, arg,
                              known, listed, closed, silenced>>

-----------------------------------------------------------------------------
(* The driver's methods, each in its thread. *)
At(c, m) == stage[c] = "running" /\ method[c] = m
Open(c) == bus[target[c]] = "open"
Unchanged == UNCHANGED <<interface, session, phase, target, user, faults>>

(* Mutant of SendRuns: a frame is sent until its client takes the answer.   *)
SendWaits(c) == /\ At(c, "send")
                /\ ~gone[c]
                /\ Return(c, IF Open(c) THEN "ok" ELSE "Exception")
                /\ UNCHANGED <<driver, arg>> /\ Unchanged

SendRuns(c) == /\ At(c, "send")
               /\ Return(c, IF Open(c) THEN "ok" ELSE "Exception")
               /\ UNCHANGED <<driver, arg>> /\ Unchanged

(* A receive without a timeout keeps its thread until a frame comes, also   *)
(* when its client is gone.                                                 *)
RecvRuns(c) == /\ At(c, "recv")
               /\ \/ Return(c, "ok")
                  \/ ~Open(c) /\ Return(c, "Exception")
               /\ UNCHANGED <<driver, arg>> /\ Unchanged

(* A task can be started on a bus that was shut down.  In the kernel it     *)
(* sends, through a socket of its own, unless the bus holds on to the one   *)
(* that the shutdown closed.                                                *)
PeriodicRuns(c) == /\ At(c, "periodic")
                   /\ \E t \in Task :
                        /\ task[t] = "unused"
                        /\ \A u \in 1..t - 1 : task[u] # "unused"
                        /\ task' = [task EXCEPT ![t] = "running"]
                        /\ owner' = [owner EXCEPT ![t] = target[c]]
                        /\ table' = table \cup {t}
                        /\ late' = IF Open(c) THEN late ELSE late \cup {t}
                        /\ arg' = [arg EXCEPT ![c] = t]
                   /\ Return(c, "ok")
                   /\ UNCHANGED bus /\ Unchanged

PeriodicFails(c) == /\ At(c, "periodic")
                    /\ InKernel /\ ~Open(c)
                    /\ Return(c, "Exception")
                    /\ UNCHANGED <<driver, arg>> /\ Unchanged

(* pop raises a KeyError for a task that was stopped before.  The kernel's  *)
(* task is ended through its socket: one that shutdown has closed raises.   *)
SocketClosed(t) == InKernel /\ bus[owner[t]] = "shut" /\ task[t] # "running"

StopRuns(c) == /\ At(c, "stop")
               /\ IF arg[c] \in table
                  THEN /\ task' = [task EXCEPT ![arg[c]] = "ended"]
                       /\ table' = table \ {arg[c]}
                       /\ \/ SocketClosed(arg[c]) /\ Return(c, "Exception")
                          \/ /\ ~SocketClosed(arg[c]) \/ arg[c] \in late
                             /\ Return(c, "ok")
                  ELSE UNCHANGED <<task, table>> /\ Return(c, "Exception")
               /\ UNCHANGED <<bus, owner, late, arg>> /\ Unchanged

EndsTasksOf(s) == task' = [t \in Task |-> IF owner[t] = s /\ task[t] = "running" THEN "ended" ELSE task[t]]

(* The bus does not know of the tasks and leaves those in threads running;  *)
(* it closes the sockets of those in the kernel.                            *)
ShutdownRuns(c) == /\ At(c, "shutdown")
                   /\ bus' = [bus EXCEPT ![target[c]] = "shut"]
                   /\ IF InKernel THEN EndsTasksOf(target[c]) ELSE UNCHANGED task
                   /\ Return(c, "ok")
                   /\ UNCHANGED <<owner, table, late, arg>> /\ Unchanged

Enters(c) == /\ Enter(c)
             /\ UNCHANGED <<driver, arg>> /\ Unchanged
-----------------------------------------------------------------------------
(* A task ends with its duration; one in a thread also when its bus is shut *)
(* and refuses to send.                                                     *)
EndsTask(t) == /\ task' = [task EXCEPT ![t] = "ended"]
               /\ UNCHANGED <<callVars, bus, owner, table, late, arg>> /\ Unchanged

DurationOver(t) == task[t] = "running" /\ EndsTask(t)

BusGone(t) == /\ ~InKernel
              /\ task[t] = "running" /\ bus[owner[t]] # "open"
              /\ EndsTask(t)

(* The session is closed: its calls are cancelled, its client is gone; the  *)
(* methods that run in threads go on.                                       *)
SessionEnds == /\ phase = "open"
               /\ phase' = "over"
               /\ stage' = [c \in Call |-> IF stage[c] = "sent" THEN "answered" ELSE stage[c]]
               /\ answer' = [c \in Call |-> IF stage[c] = "sent" THEN "cancelled" ELSE answer[c]]
               /\ gone' = [c \in Call |-> gone[c] \/ stage[c] # "answered"]
               /\ op' = "idle" /\ mine' = NoCall
               /\ known' = {} /\ listed' = {} /\ todo' = {} /\ closed' = FALSE
               /\ UNCHANGED <<interface, method, raced, session, driver, target, arg, silenced>>

Leaves == op = "idle" /\ SessionEnds /\ UNCHANGED faults

ConnectionLost == faults < MaxFaults /\ SessionEnds /\ faults' = faults + 1

Over(s) == s < session \/ phase = "over"

(* No thread refers to the driver and the bus of an ended session any more: *)
(* the bus is shut, and the sockets of its tasks in the kernel are closed.  *)
Collected(s) == /\ Over(s)
                /\ bus[s] = "open" \/ \E t \in Task : task[t] = "running" /\ owner[t] = s
                /\ InKernel \/ \A t \in Task : task[t] = "running" => owner[t] # s
                /\ \A c \in Running : target[c] # s
                /\ bus' = [bus EXCEPT ![s] = "shut"]
                /\ EndsTasksOf(s)
                /\ UNCHANGED <<callVars, owner, table, late, arg>> /\ Unchanged

(* device_factory opens the channel again; on an exclusive interface it     *)
(* fails, and the exporter backs off, as long as an earlier bus is open.    *)
SessionStarts == /\ phase = "over" /\ session < MaxSessions
                 /\ interface = "exclusive" => \A s \in Session : bus[s] # "open"
                 /\ session' = session + 1 /\ phase' = "open"
                 /\ bus' = [bus EXCEPT ![session + 1] = "open"]
                 /\ UNCHANGED <<interface, callVars, task, owner, table, late, target, arg, user, faults>>

Thread(c) == SendRuns(c) \/ PeriodicRuns(c) \/ PeriodicFails(c) \/ StopRuns(c) \/ ShutdownRuns(c)

Client == \/ Raises \/ Resumes \/ TakesTask \/ BusIsShut \/ TaskIsStopped \/ Drained
          \/ \E c \in Call : Drains(c)

Wishes(c) == Uses(c) \/ SendPeriodic(c) \/ StopTask(c) \/ Shutdown(c)

Next == \/ Client \/ Interrupted \/ Leaves \/ ConnectionLost \/ SessionStarts
        \/ \E c \in Call : Wishes(c) \/ Enters(c) \/ RecvRuns(c) \/ Thread(c)
        \/ \E t \in Task : DurationOver(t) \/ BusGone(t)
        \/ \E s \in Session : Collected(s)

Spec == Init /\ [][Next]_vars

(* Threads run, also those that send; what nothing refers to is collected;  *)
(* the exporter tries again to start a session.                             *)
Fairness == /\ \A c \in Call : WF_vars(Thread(c))
            /\ \A t \in Task : WF_vars(BusGone(t))
            /\ \A s \in Session : WF_vars(Collected(s))
            /\ WF_vars(SessionStarts)

FairSpec == Spec /\ Fairness
-----------------------------------------------------------------------------
TypeOK == /\ CallTypeOK
          /\ interface \in Interface
          /\ session \in Session /\ phase \in {"open", "over"}
          /\ bus \in [Session -> {"none", "open", "shut"}]
          /\ task \in [Task -> {"unused", "running", "ended"}]
          /\ owner \in [Task -> Session]
          /\ table \subseteq Task /\ late \subseteq Task
          /\ target \in [Call -> Session] /\ arg \in [Call -> Task \cup {NoTask}]
          /\ op \in {"idle", "waiting", "draining"}
          /\ mine \in Call \cup {NoCall}
          /\ known \subseteq Task /\ listed \subseteq known /\ todo \subseteq listed
          /\ closed \in BOOLEAN /\ silenced \subseteq Session
          /\ faults \in 0..MaxFaults

(* A thread gets nothing onto a bus that was shut; the kernel goes on. *)
Sending(t) == task[t] = "running" /\ (InKernel \/ bus[owner[t]] = "open")

(* Once a client's shutdown has returned, no task of its session sends any  *)
(* more, also none whose start was interrupted; of those a thread starts    *)
(* only afterwards none sends but in the kernel (Can.shutdown).             *)
Silenced == \A t \in Task : Sending(t) /\ owner[t] \in silenced => InKernel /\ t \in late

(* Every task on the client's list is in the driver's table, until a        *)
(* shutdown begins to stop them: its calls of _stop_task find their task,   *)
(* whatever was stopped, has ended or was interrupted before.               *)
ListedAreStopped == ~closed => listed \subseteq table

BlockedIn(s) == \E c \in Running : method[c] = "recv" /\ target[c] = s

SendsIn(s) == \E t \in Task : Sending(t) /\ owner[t] = s

(* When a session is over the channel becomes free for the next one, also   *)
(* on an exclusive interface, unless a client that was not shut down left a *)
(* task behind that sends, or a receive that no frame ends.  What sends in  *)
(* the kernel ends with its session, also after a shutdown, unless a        *)
(* receive is left.                                                         *)
Freed(s) == /\ \/ session > s
               \/ \E e \in 1..s \ silenced : bus[e] = "open" /\ (BlockedIn(e) \/ SendsIn(e))
            /\ InKernel => BlockedIn(s) \/ ~SendsIn(s)

ChannelIsFreed == \A s \in Session \ {MaxSessions} : Over(s) ~> Freed(s)
=============================================================================
