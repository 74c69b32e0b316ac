---------------------------- MODULE CanBus_proofs ----------------------------
(***************************************************************************)
(* What a client's shutdown and its list of tasks guarantee, for any       *)
(* number of calls, sessions, tasks and interrupts.                        *)
(***************************************************************************)
EXTENDS CanBus, FiniteSetTheorems, TLAPS

StateType == /\ method \in [Call -> Exported \cup Other]
             /\ stage \in [Call -> {"sent", "running", "answered"}]
             /\ answer \in [Call -> Answers]
             /\ session \in Session
             /\ bus \in [Session -> {"none", "open", "shut"}]
             /\ task \in [Task -> {"unused", "running", "ended"}]
             /\ owner \in [Task -> Session]
             /\ target \in [Call -> Session] /\ arg \in [Call -> Task \cup {NoTask}]
             /\ mine \in Call \cup {NoCall}
             /\ known \subseteq Task \cup {NoTask} /\ listed \subseteq known /\ todo \subseteq known
             /\ silenced \subseteq Session /\ late \subseteq Task
             /\ interface \in Interface

LEMMA AnswersTyped ==
  /\ Raised(Status("ok")) = "ok"
  /\ Raised(Status("Exception")) = "AioRpcError"
  /\ {"none", "ok", "AioRpcError", "cancelled"} \subseteq Answers
BY DEF Raised, Status, Answers

-----------------------------------------------------------------------------
(* The steps by what they may change. *)

(* The client's user calls a method. *)
Asked(c, m, t) == /\ phase = "open"
                  /\ stage[c] = "answered"
                  /\ \E n \in Exported \cup Other : method' = [method EXCEPT ![c] = n]
                  /\ method'[c] = m
                  /\ stage' = [stage EXCEPT ![c] = "sent"]
                  /\ answer' = [answer EXCEPT ![c] = "none"]
                  /\ target' = [target EXCEPT ![c] = session]
                  /\ arg' = [arg EXCEPT ![c] = t]
                  /\ mine' = c
                  /\ UNCHANGED <<interface, session, phase, bus, task, owner, table, late, known, todo, closed, silenced>>

Asks(c) == \/ /\ \E m \in {"send", "recv", "periodic", "shutdown"} : Asked(c, m, NoTask)
              /\ op = "idle" /\ op' = "waiting" /\ UNCHANGED listed
           \/ /\ \E t \in known : Asked(c, "stop", t) /\ listed' = listed \ {t}
              /\ op = "idle" /\ op' = "waiting"
           \/ /\ \E t \in todo : Asked(c, "stop", t)
              /\ op = "draining" /\ UNCHANGED <<op, listed>>

(* The client goes on, with an answer or without. *)
Outside == <<interface, method, stage, answer, session, phase, bus, task, owner, table, late, target, arg>>

Takes == UNCHANGED Outside /\ (Raises \/ Resumes \/ TakesTask \/ BusIsShut \/ TaskIsStopped \/ Drained \/ Interrupted)

(* A method ends. *)
Answers1(c, status) == /\ stage' = [stage EXCEPT ![c] = "answered"]
                       /\ \/ answer' = [answer EXCEPT ![c] = "cancelled"]
                          \/ answer' = [answer EXCEPT ![c] = status]

(* A bus is shut, with its tasks in the kernel. *)
ShutsBus(s) == /\ bus' = [bus EXCEPT ![s] = "shut"]
               /\ EndsTasksOf(s) \/ (~InKernel /\ UNCHANGED task)

Inside == <<interface, method, session, phase, target, op, mine, known, listed, todo, closed, silenced>>

Runs(c) == /\ UNCHANGED Inside
           /\ \/ /\ stage[c] = "sent"
                 /\ stage' = [stage EXCEPT ![c] = "running"]
                 /\ UNCHANGED <<answer, bus, task, owner, table, late, arg>>
              \/ /\ stage[c] = "running"
                 /\ \E a \in {"ok", "AioRpcError"} :
                      /\ Answers1(c, a)
                      /\ a = "ok" => method[c] \in {"send", "recv", "stop"}
                 /\ UNCHANGED <<bus, task, owner, table, late, arg>>
              \/ /\ stage[c] = "running" /\ method[c] = "stop"
                 /\ \E a \in {"ok", "AioRpcError"} : Answers1(c, a)
                 /\ arg[c] \in table
                 /\ task' = [task EXCEPT ![arg[c]] = "ended"]
                 /\ table' = table \ {arg[c]}
                 /\ UNCHANGED <<bus, owner, late, arg>>
              \/ /\ stage[c] = "running" /\ method[c] = "periodic"
                 /\ Answers1(c, "ok")
                 /\ \E t \in Task : /\ task[t] = "unused"
                                    /\ task' = [task EXCEPT ![t] = "running"]
                                    /\ owner' = [owner EXCEPT ![t] = target[c]]
                                    /\ table' = table \cup {t}
                                    /\ late' = IF Open(c) THEN late ELSE late \cup {t}
                                    /\ arg' = [arg EXCEPT ![c] = t]
                 /\ UNCHANGED bus
              \/ /\ stage[c] = "running" /\ method[c] = "shutdown"
                 /\ Answers1(c, "ok")
                 /\ ShutsBus(target[c])
                 /\ UNCHANGED <<owner, table, late, arg>>

(* A task ends, or a bus. *)
Ends == /\ UNCHANGED Inside /\ UNCHANGED <<stage, answer, owner, table, late, arg>>
        /\ \/ \E t \in Task : /\ task[t] = "running" /\ task' = [task EXCEPT ![t] = "ended"]
                              /\ UNCHANGED bus
           \/ \E s \in Session : ShutsBus(s)

Turns == SessionEnds \/ SessionStarts

LEMMA Steps ==
  StateType /\ [Next]_vars =>
    \/ \E c \in Call : Asks(c) \/ Runs(c)
    \/ Takes \/ Ends \/ Turns \/ UNCHANGED vars
<1> SUFFICES ASSUME StateType, [Next]_vars
    PROVE \/ \E c \in Call : Asks(c) \/ Runs(c)
          \/ Takes \/ Ends \/ Turns \/ UNCHANGED vars
    OBVIOUS
<1>1. CASE Client \/ Interrupted
  <2>1. CASE Raises \/ Resumes \/ TakesTask \/ BusIsShut \/ TaskIsStopped \/ Drained \/ Interrupted
    <3>1. UNCHANGED Outside
          BY <2>1 DEF Raises, Resumes, TakesTask, BusIsShut, TaskIsStopped, Drained, Interrupted, Elsewhere,
             Outside, callVars, driver
    <3> QED BY <2>1, <3>1 DEF Takes
  <2>2. ASSUME NEW c \in Call, Drains(c) PROVE Asks(c)
        BY <2>2 DEF Drains, Calls, Send, Asks, Asked, driver
  <2> QED BY <1>1, <2>1, <2>2 DEF Client
<1>2. ASSUME NEW c \in Call, Wishes(c) PROVE Asks(c)
  <2>1. CASE Uses(c)
        BY <2>1 DEF Uses, Waits, Calls, Send, Asks, Asked, driver
  <2>2. CASE SendPeriodic(c)
        BY <2>2 DEF SendPeriodic, Waits, Calls, Send, Asks, Asked, driver
  <2>3. CASE StopTask(c)
        BY <2>3 DEF StopTask, Waits, Calls, Send, Asks, Asked, driver
  <2>4. CASE Shutdown(c)
        BY <2>4 DEF Shutdown, Waits, Calls, Send, Asks, Asked, driver
  <2> QED BY <1>2, <2>1, <2>2, <2>3, <2>4 DEF Wishes
<1>3. ASSUME NEW c \in Call, Enters(c) \/ RecvRuns(c) \/ Thread(c) PROVE Runs(c)
  <2>1. CASE Enters(c)
        BY <2>1 DEF Enters, Enter, Unchanged, Runs, Inside, user, driver
  <2>2. ASSUME NEW outcome \in {"ok", "Exception"}, Return(c, outcome)
        PROVE  /\ Answers1(c, IF outcome = "ok" THEN "ok" ELSE "AioRpcError")
               /\ stage[c] = "running" /\ UNCHANGED method
        BY <2>2, AnswersTyped DEF Return, Answer, Answers1
  <2>3. CASE SendRuns(c) \/ RecvRuns(c)
    <3>1. PICK outcome \in {"ok", "Exception"} : Return(c, outcome)
          BY <2>3 DEF SendRuns, RecvRuns
    <3>2. UNCHANGED <<bus, task, owner, table, late, arg>> /\ UNCHANGED Inside /\ method[c] \in {"send", "recv"}
          BY <2>3, <3>1, <2>2 DEF SendRuns, RecvRuns, At, Unchanged, Inside, user, driver
    <3> QED BY <2>2, <3>1, <3>2 DEF Runs
  <2>4. CASE PeriodicRuns(c)
    <3>1. Return(c, "ok") /\ UNCHANGED bus /\ method[c] = "periodic"
          BY <2>4 DEF PeriodicRuns, At
    <3>2. UNCHANGED Inside
          BY <2>4, <3>1, <2>2 DEF PeriodicRuns, Unchanged, Inside, user
    <3> QED BY <2>2, <2>4, <3>1, <3>2 DEF PeriodicRuns, Runs
  <2>5. CASE StopRuns(c)
    <3>1. UNCHANGED <<bus, owner, late, arg>> /\ method[c] = "stop"
          BY <2>5 DEF StopRuns, At
    <3>2. CASE arg[c] \in table
      <4>1. /\ \E outcome \in {"ok", "Exception"} : Return(c, outcome)
            /\ task' = [task EXCEPT ![arg[c]] = "ended"]
            /\ table' = table \ {arg[c]}
            BY <2>5, <3>2 DEF StopRuns
      <4>2. UNCHANGED Inside
            BY <2>5, <4>1, <2>2 DEF StopRuns, Unchanged, Inside, user
      <4> QED BY <2>2, <3>1, <3>2, <4>1, <4>2 DEF Runs
    <3>3. CASE arg[c] \notin table
      <4>1. Return(c, "Exception") /\ UNCHANGED <<task, table>>
            BY <2>5, <3>3 DEF StopRuns
      <4>2. UNCHANGED Inside
            BY <2>5, <4>1, <2>2 DEF StopRuns, Unchanged, Inside, user
      <4> QED BY <2>2, <3>1, <4>1, <4>2 DEF Runs
    <3> QED BY <3>2, <3>3
  <2>6. CASE ShutdownRuns(c)
    <3>1. /\ Return(c, "ok") /\ method[c] = "shutdown"
          /\ ShutsBus(target[c])
          /\ UNCHANGED <<owner, table, late, arg>>
          BY <2>6 DEF ShutdownRuns, At, ShutsBus
    <3>2. UNCHANGED Inside
          BY <2>6, <3>1, <2>2 DEF ShutdownRuns, Unchanged, Inside, user
    <3> QED BY <2>2, <3>1, <3>2 DEF Runs
  <2>7. CASE PeriodicFails(c)
    <3>1. Return(c, "Exception") /\ UNCHANGED <<bus, task, owner, table, late, arg>>
          BY <2>7 DEF PeriodicFails, driver
    <3>2. UNCHANGED Inside
          BY <2>7, <3>1, <2>2 DEF PeriodicFails, Unchanged, Inside, user
    <3> QED BY <2>2, <3>1, <3>2 DEF Runs
  <2> QED BY <1>3, <2>1, <2>3, <2>4, <2>5, <2>6, <2>7 DEF Thread
<1>4. ASSUME NEW t \in Task, DurationOver(t) \/ BusGone(t) PROVE Ends
      BY <1>4 DEF DurationOver, BusGone, EndsTask, Unchanged, Ends, Inside, user, callVars
<1>5. ASSUME NEW s \in Session, Collected(s) PROVE Ends
      BY <1>5 DEF Collected, Unchanged, Ends, ShutsBus, Inside, user, callVars
<1>6. CASE Leaves \/ ConnectionLost \/ SessionStarts
      BY <1>6 DEF Leaves, ConnectionLost, Turns
<1> QED BY <1>1, <1>2, <1>3, <1>4, <1>5, <1>6 DEF Next

LEMMA TypeStep == StateType /\ [Next]_vars => StateType'
<1> SUFFICES ASSUME StateType, [Next]_vars PROVE StateType'
    OBVIOUS
<1> USE DEF StateType
<1>1. CASE UNCHANGED vars
      BY <1>1 DEF vars, callVars, driver, user
<1>2. ASSUME NEW c \in Call, Asks(c) PROVE StateType'
  <2>1. ASSUME NEW m, NEW t \in Task \cup {NoTask}, Asked(c, m, t), listed' \subseteq listed PROVE StateType'
        BY <2>1, AnswersTyped DEF Asked
  <2>2. NoTask \in Task \cup {NoTask}
        OBVIOUS
  <2> QED BY <1>2, <2>1, <2>2 DEF Asks
<1>3. ASSUME NEW c \in Call, Runs(c) PROVE StateType'
  <2>1. \A status \in {"ok", "AioRpcError"} : Answers1(c, status) =>
          /\ answer' \in [Call -> Answers]
          /\ stage' \in [Call -> {"sent", "running", "answered"}]
        BY AnswersTyped DEF Answers1
  <2>2. \A s \in Session : ShutsBus(s) => /\ bus' \in [Session -> {"none", "open", "shut"}]
                                        /\ task' \in [Task -> {"unused", "running", "ended"}]
        BY DEF ShutsBus, EndsTasksOf
  <2>3. UNCHANGED Inside /\ answer' \in [Call -> Answers] /\ stage' \in [Call -> {"sent", "running", "answered"}]
        BY <1>3, <2>1 DEF Runs
  <2>4. bus' \in [Session -> {"none", "open", "shut"}] /\ task' \in [Task -> {"unused", "running", "ended"}]
        BY <1>3, <2>2 DEF Runs
  <2>5. owner' \in [Task -> Session] /\ arg' \in [Call -> Task \cup {NoTask}] /\ late' \subseteq Task
        BY <1>3 DEF Runs
  <2> QED BY <2>3, <2>4, <2>5 DEF Inside
<1>4. CASE Takes
  <2>1. CASE Raises \/ Resumes \/ BusIsShut \/ TaskIsStopped \/ Drained \/ Interrupted
        BY <1>4, <2>1 DEF Takes, Outside, Raises, Resumes, BusIsShut, TaskIsStopped, Drained, Interrupted
  <2>2. CASE TakesTask
    <3>1. mine \in Call /\ stage[mine] = "answered" /\ method[mine] = "periodic"
          BY <2>2 DEF TakesTask, Answered
    <3> QED BY <1>4, <2>2, <3>1 DEF Takes, Outside, TakesTask
  <2> QED BY <1>4, <2>1, <2>2 DEF Takes
<1>5. CASE Ends
      BY <1>5 DEF Ends, Inside, ShutsBus, EndsTasksOf
<1>6. CASE SessionEnds
      BY <1>6, AnswersTyped DEF SessionEnds, driver
<1>7. CASE SessionStarts
      BY <1>7, CanAssumption DEF SessionStarts, callVars, user, Session
<1> QED BY <1>1, <1>2, <1>3, <1>4, <1>5, <1>6, <1>7, Steps DEF Turns
-----------------------------------------------------------------------------
(* A bus that was shut stays shut, and the calls that say it is have seen   *)
(* it: a client goes on to its own part of a shutdown only when the         *)
(* driver's bus is shut.                                                    *)
ShutBusses ==
  /\ \A c \in Call : target[c] <= session
  /\ mine # NoCall => target[mine] = session
  /\ phase = "over" => mine = NoCall /\ op = "idle"
  /\ \A c \in Call : stage[c] = "answered" /\ answer[c] = "ok" /\ method[c] = "shutdown"
                       => bus[target[c]] = "shut"
  /\ op = "draining" => bus[session] = "shut"
  /\ \A s \in silenced : s <= session /\ bus[s] = "shut"
  /\ InKernel => \A t \in Task : task[t] = "running" => bus[owner[t]] = "open" \/ t \in late

LEMMA ShutBussesStep == StateType /\ ShutBusses /\ [Next]_vars => ShutBusses'
<1> SUFFICES ASSUME StateType, ShutBusses, [Next]_vars PROVE ShutBusses'
    OBVIOUS
<1> USE DEF StateType, ShutBusses
<1>0. \A s \in Session : s \in Nat
      BY DEF Session
<1>1. CASE UNCHANGED vars
      BY <1>1 DEF vars, callVars, driver, user, InKernel
<1>2. ASSUME NEW c \in Call, Asks(c) PROVE ShutBusses'
  <2>1. ASSUME NEW m, NEW t, Asked(c, m, t), op' = "draining" => op = "draining" PROVE ShutBusses'
        BY <2>1, <1>0 DEF Asked, InKernel
  <2> QED BY <1>2, <2>1 DEF Asks
<1>3. ASSUME NEW c \in Call, Runs(c) PROVE ShutBusses'
  <2>1. UNCHANGED <<method, session, phase, target, op, mine, silenced>>
        BY <1>3 DEF Runs, Inside
  <2>2. \A s \in Session : bus[s] = "shut" => bus'[s] = "shut"
        BY <1>3 DEF Runs, ShutsBus
  <2>3. ASSUME NEW d \in Call, stage'[d] = "answered", answer'[d] = "ok", method[d] = "shutdown"
        PROVE  bus'[target[d]] = "shut"
        BY <1>3, <2>2, <2>3 DEF Runs, Answers1, ShutsBus
  <2>4. ASSUME InKernel, NEW t \in Task, task'[t] = "running" PROVE bus'[owner'[t]] = "open" \/ t \in late'
        BY <1>3, <2>4 DEF Runs, ShutsBus, EndsTasksOf, Open
  <2>5. InKernel' => InKernel
        BY <1>3 DEF Runs, Inside, InKernel
  <2> QED BY <2>1, <2>2, <2>3, <2>4, <2>5
<1>4. CASE Takes
  <2>1. CASE Raises \/ Resumes \/ TakesTask \/ TaskIsStopped \/ Interrupted
        BY <1>4, <2>1 DEF InKernel, Takes, Outside, Raises, Resumes, TakesTask, TaskIsStopped, Interrupted
  <2>2. CASE BusIsShut
        BY <1>4, <2>2 DEF InKernel, Takes, Outside, BusIsShut, Answered
  <2>3. CASE Drained
        BY <1>4, <2>3, <1>0 DEF InKernel, Takes, Outside, Drained
  <2> QED BY <1>4, <2>1, <2>2, <2>3 DEF Takes
<1>5. CASE Ends
      BY <1>5 DEF Ends, Inside, ShutsBus, EndsTasksOf, InKernel
<1>6. CASE SessionEnds
      BY <1>6 DEF SessionEnds, driver, InKernel
<1>7. CASE SessionStarts
  <2>1. session + 1 \in Session /\ session < session + 1
        BY <1>7, CanAssumption DEF SessionStarts, Session
  <2>2. \A s \in Session : s <= session => s # session + 1 /\ s <= session + 1
        BY DEF Session
  <2> QED BY <1>7, <2>1, <2>2 DEF SessionStarts, callVars, user, InKernel
<1> QED BY <1>1, <1>2, <1>3, <1>4, <1>5, <1>6, <1>7, Steps DEF Turns

(* Once a client's shutdown has returned, nothing that was started before   *)
(* it sends in its session, in a thread or in the kernel, also when nobody  *)
(* knows of it; what a thread starts only afterwards sends in the kernel,   *)
(* and nowhere else (Can.shutdown, Can._send_periodic_internal).            *)
THEOREM ShutdownSilences == Spec => []Silenced
<1>1. Init => StateType /\ ShutBusses
      BY CanAssumption, AnswersTyped DEF Init, CallInit, NewClient, StateType, ShutBusses, Session, Task, InKernel
<1>2. StateType /\ ShutBusses /\ [Next]_vars => (StateType /\ ShutBusses)'
      BY TypeStep, ShutBussesStep
<1>3. StateType /\ ShutBusses => Silenced
      BY DEF ShutBusses, Silenced, Sending, StateType
<1> QED BY <1>1, <1>2, <1>3, PTL DEF Spec
-----------------------------------------------------------------------------
(* The tasks the client knows have been started, and no call of _stop_task  *)
(* that is still under way is about a task on the list.                     *)
Pending(c) == stage[c] # "answered" /\ method[c] = "stop"

Fresh == /\ mine # NoCall
         /\ stage[mine] = "answered" /\ answer[mine] = "ok" /\ method[mine] = "periodic"

TaskLists ==
  /\ \A t \in known : t \in Task /\ task[t] # "unused"
  /\ \A c \in Call : Pending(c) => /\ arg[c] \in Task
                                   /\ task[arg[c]] # "unused"
                                   /\ ~closed => arg[c] \notin listed
                                   /\ Fresh => arg[c] # arg[mine]
  /\ Fresh => arg[mine] \in Task \cap table /\ task[arg[mine]] # "unused"
  /\ op = "draining" => closed
  /\ op = "draining" /\ mine # NoCall => method[mine] = "stop"
  /\ ListedAreStopped

LEMMA TaskListsStep == StateType /\ TaskLists /\ [Next]_vars => TaskLists'
<1> SUFFICES ASSUME StateType, TaskLists, [Next]_vars PROVE TaskLists'
    OBVIOUS
<1> USE DEF StateType, TaskLists, ListedAreStopped, Pending, Fresh
<1>1. CASE UNCHANGED vars
      BY <1>1 DEF vars, callVars, driver, user
<1>2. ASSUME NEW c \in Call, Asks(c) PROVE TaskLists'
  <2>1. ASSUME NEW m, NEW t, Asked(c, m, t)
        PROVE  /\ ~Fresh'
               /\ \A d \in Call : Pending(d)' /\ d # c => Pending(d) /\ arg'[d] = arg[d]
               /\ method'[c] = m /\ arg'[c] = t /\ mine' = c
               /\ UNCHANGED <<task, table, known, closed>>
        BY <2>1 DEF Asked
  <2>2. ASSUME NEW m \in {"send", "recv", "periodic", "shutdown"}, Asked(c, m, NoTask), UNCHANGED listed,
               op' = "waiting"
        PROVE  TaskLists'
        BY <2>1, <2>2
  <2>3. ASSUME NEW t \in known, Asked(c, "stop", t), listed' = listed \ {t}, op' = "waiting" PROVE TaskLists'
        BY <2>1, <2>3
  <2>4. ASSUME NEW t \in todo, Asked(c, "stop", t), op = "draining", UNCHANGED <<op, listed>> PROVE TaskLists'
    <3>1. /\ ~Fresh' /\ method'[c] = "stop" /\ arg'[c] = t /\ mine' = c
          /\ \A d \in Call : Pending(d)' /\ d # c => Pending(d) /\ arg'[d] = arg[d]
          /\ UNCHANGED <<task, table, known, closed>>
          BY <2>1, <2>4
    <3>2. closed /\ t \in Task /\ task[t] # "unused"
          BY <2>4
    <3> QED BY <2>4, <3>1, <3>2
  <2> QED BY <1>2, <2>2, <2>3, <2>4 DEF Asks
<1>3. ASSUME NEW c \in Call, Runs(c) PROVE TaskLists'
  <2>1. /\ UNCHANGED <<method, op, mine, known, listed, closed>>
        /\ \A d \in Call : d # c => stage'[d] = stage[d] /\ answer'[d] = answer[d]
        /\ \A d \in Call : Pending(d)' => Pending(d)
        BY <1>3 DEF Runs, Inside, Answers1
  <2>2. CASE /\ UNCHANGED <<table, arg>> /\ \A t \in Task : task[t] # "unused" => task'[t] # "unused"
             /\ \/ stage'[c] = "running" \/ method[c] # "periodic"
                \/ answer'[c] # "ok"
    <3>1. Fresh' => Fresh
          BY <2>1, <2>2
    <3> QED BY <2>1, <2>2, <3>1
  <2>3. CASE /\ method[c] = "stop" /\ stage[c] = "running" /\ arg[c] \in table
             /\ task' = [task EXCEPT ![arg[c]] = "ended"] /\ table' = table \ {arg[c]} /\ UNCHANGED arg
    <3>1. Fresh' => Fresh
          BY <2>1, <2>3
    <3>2. Pending(c) /\ \A t \in Task : task[t] # "unused" => task'[t] # "unused"
          BY <2>3
    <3> QED BY <2>1, <2>3, <3>1, <3>2
  <2>4. ASSUME NEW t \in Task, method[c] = "periodic", stage[c] = "running", task[t] = "unused",
               task' = [task EXCEPT ![t] = "running"], table' = table \cup {t}, arg' = [arg EXCEPT ![c] = t]
        PROVE  TaskLists'
    <3>1. Fresh' => Fresh \/ mine = c
          BY <2>1
    <3>2. \A d \in Call : Pending(d) => d # c /\ arg[d] # t
          BY <2>4
    <3>3. mine # c => arg'[mine] = arg[mine]
          BY <2>4
    <3>4. Fresh' => /\ arg'[mine] \in Task \cap table' /\ task'[arg'[mine]] # "unused"
                    /\ \A d \in Call : Pending(d)' => arg'[d] # arg'[mine]
          BY <2>1, <2>4, <3>1, <3>2, <3>3
    <3> QED BY <2>1, <2>4, <3>2, <3>4
  <2>5. \A s \in Session : ShutsBus(s) => \A t \in Task : task[t] # "unused" => task'[t] # "unused"
        BY DEF ShutsBus, EndsTasksOf
  <2>6. \A a \in {"ok", "AioRpcError"} : Answers1(c, a) => stage'[c] = "answered" /\ answer'[c] \in {a, "cancelled"}
        BY DEF Answers1
  <2> QED BY <1>3, <2>2, <2>3, <2>4, <2>5, <2>6 DEF Runs
<1>4. CASE Takes
  <2>1. CASE Raises \/ Resumes \/ BusIsShut \/ TaskIsStopped \/ Drained \/ Interrupted
        BY <1>4, <2>1 DEF Takes, Outside, Raises, Resumes, BusIsShut, TaskIsStopped, Drained, Interrupted
  <2>2. CASE TakesTask
        BY <1>4, <2>2 DEF Takes, Outside, TakesTask, Answered
  <2> QED BY <1>4, <2>1, <2>2 DEF Takes
<1>5. CASE Ends
      BY <1>5 DEF Ends, Inside, ShutsBus, EndsTasksOf
<1>6. CASE SessionEnds
      BY <1>6 DEF SessionEnds, driver
<1>7. CASE SessionStarts
      BY <1>7 DEF SessionStarts, callVars, user
<1> QED BY <1>1, <1>2, <1>3, <1>4, <1>5, <1>6, <1>7, Steps DEF Turns

(* Until a shutdown begins, what the client has on its list the driver can  *)
(* stop.                                                                    *)
THEOREM ListIsStoppable == Spec => []ListedAreStopped
<1>1. Init => StateType /\ TaskLists
      BY CanAssumption, AnswersTyped DEF Init, CallInit, NewClient, StateType, TaskLists, ListedAreStopped,
         Pending, Fresh, Session, Task
<1>2. StateType /\ TaskLists /\ [Next]_vars => (StateType /\ TaskLists)'
      BY TypeStep, TaskListsStep
<1>3. TaskLists => ListedAreStopped
      BY DEF TaskLists
<1> QED BY <1>1, <1>2, <1>3, PTL DEF Spec

-----------------------------------------------------------------------------
(* A step makes at most one thread run more, when one is free.              *)
ThreadStep == \/ Threads' \subseteq Threads
              \/ \E c \in Call : Threads' \subseteq Threads \cup {c} /\ Cardinality(Threads) < MaxThreads

LEMMA ThreadsLimited == Cardinality(Threads) <= MaxThreads /\ ThreadStep => Cardinality(Threads') <= MaxThreads
<1> SUFFICES ASSUME Cardinality(Threads) <= MaxThreads, ThreadStep PROVE Cardinality(Threads') <= MaxThreads
    OBVIOUS
<1>1. IsFiniteSet(Threads) /\ Cardinality(Threads) \in Nat /\ MaxThreads \in Nat
      BY CallAssumption, FS_Subset, FS_CardinalityType DEF Threads, Running
<1>2. CASE Threads' \subseteq Threads
      BY <1>1, <1>2, FS_Subset, FS_CardinalityType
<1>3. ASSUME NEW c \in Call, Threads' \subseteq Threads \cup {c}, Cardinality(Threads) < MaxThreads
      PROVE  Cardinality(Threads') <= MaxThreads
  <2>1. /\ IsFiniteSet(Threads \cup {c}) /\ Cardinality(Threads \cup {c}) \in Nat
        /\ Cardinality(Threads \cup {c}) <= Cardinality(Threads) + 1
    <3>1. /\ IsFiniteSet(Threads \cup {c})
          /\ Cardinality(Threads \cup {c}) = IF c \in Threads THEN Cardinality(Threads) ELSE Cardinality(Threads) + 1
          BY <1>1, FS_AddElement
    <3> QED BY <1>1, <3>1
  <2>2. Cardinality(Threads') \in Nat /\ Cardinality(Threads') <= Cardinality(Threads \cup {c})
        BY <1>3, <2>1, FS_Subset, FS_CardinalityType
  <2> QED BY <1>1, <1>3, <2>1, <2>2
<1> QED BY <1>2, <1>3 DEF ThreadStep

LEMMA CallStep ==
  ASSUME CallTypeOK, NEW c \in Call, Send(c) \/ Enter(c) \/ \E outcome \in {"ok", "Exception"} : Return(c, outcome)
  PROVE  CallTypeOK'
<1> USE DEF CallTypeOK
<1>1. /\ gone' \in [Call -> BOOLEAN] /\ raced' \in [Call -> BOOLEAN]
      BY DEF Send, Enter, Return
<1>2. /\ method' \in [Call -> Exported \cup Other]
      /\ stage' \in [Call -> {"sent", "running", "answered"}]
      /\ answer' \in [Call -> Answers]
  <2>1. \A outcome \in {"ok", "Exception"} : Raised(Status(outcome)) \in Answers
        BY AnswersTyped DEF Answers
  <2>2. "cancelled" \in Answers /\ "none" \in Answers
        BY DEF Answers
  <2> QED BY <2>1, <2>2 DEF Send, Enter, Return, Answer
<1>3. ThreadStep
      BY DEF ThreadStep, Threads, Running, Send, Enter, Return, Answer
<1> QED BY <1>1, <1>2, <1>3, ThreadsLimited

(* What the steps abstracted above leave out. *)
Rest == /\ CallTypeOK
        /\ phase \in {"open", "over"}
        /\ table \subseteq Task
        /\ op \in {"idle", "waiting", "draining"}
        /\ todo \subseteq listed /\ (op # "draining" => todo = {})
        /\ closed \in BOOLEAN /\ faults \in 0..MaxFaults

LEMMA RestStep == Rest /\ TaskLists /\ StateType /\ [Next]_vars => Rest'
<1> SUFFICES ASSUME Rest, TaskLists, StateType, [Next]_vars PROVE Rest'
    OBVIOUS
<1> USE CanAssumption DEF Rest
<1>0. UNCHANGED callVars => CallTypeOK'
      BY DEF callVars, CallTypeOK, Threads, Running
<1>1. CASE UNCHANGED vars
      BY <1>0, <1>1 DEF vars, driver, user
<1>2. CASE Raises \/ Resumes \/ TakesTask \/ BusIsShut \/ TaskIsStopped \/ Drained
      BY <1>0, <1>2 DEF Raises, Resumes, TakesTask, BusIsShut, TaskIsStopped, Drained, Elsewhere, driver
<1>3. CASE Interrupted \/ SessionStarts
      BY <1>0, <1>3 DEF Interrupted, SessionStarts, driver, user
<1>4. ASSUME NEW c \in Call, Drains(c) \/ Wishes(c) PROVE Rest'
  <2>1. CallTypeOK'
        BY <1>4, CallStep DEF Drains, Wishes, Uses, SendPeriodic, StopTask, Shutdown, Calls
  <2>2. CASE Drains(c)
        BY <2>1, <2>2 DEF Drains, Calls, driver
  <2>3. CASE Wishes(c)
        BY <2>1, <2>3 DEF Wishes, Uses, SendPeriodic, StopTask, Shutdown, Waits, Calls, driver
  <2> QED BY <1>4, <2>2, <2>3
<1>5. ASSUME NEW c \in Call, Enters(c) \/ RecvRuns(c) \/ Thread(c) PROVE Rest'
  <2>1. Enter(c) \/ \E outcome \in {"ok", "Exception"} : Return(c, outcome)
        BY <1>5 DEF Enters, RecvRuns, Thread, SendRuns, PeriodicRuns, PeriodicFails, StopRuns, ShutdownRuns
  <2>2. CallTypeOK'
        BY <2>1, CallStep
  <2>3. Unchanged /\ table' \subseteq Task
        BY <1>5 DEF Enters, RecvRuns, Thread, SendRuns, PeriodicRuns, PeriodicFails, StopRuns, ShutdownRuns, driver
  <2> QED BY <2>2, <2>3 DEF Unchanged, user
<1>6. ASSUME NEW t \in Task, DurationOver(t) \/ BusGone(t) PROVE Rest'
      BY <1>0, <1>6 DEF DurationOver, BusGone, EndsTask, Unchanged, user
<1>7. ASSUME NEW s \in Session, Collected(s) PROVE Rest'
      BY <1>0, <1>7 DEF Collected, Unchanged, user
<1>8. CASE Leaves \/ ConnectionLost
  <2>1. SessionEnds
        BY <1>8 DEF Leaves, ConnectionLost
  <2>2. ThreadStep
        BY <2>1 DEF SessionEnds, ThreadStep, Threads, Running, StateType
  <2>3. CallTypeOK'
        BY <2>1, <2>2, ThreadsLimited, AnswersTyped DEF SessionEnds, CallTypeOK
  <2>4. /\ phase' = "over" /\ op' = "idle" /\ todo' = {} /\ listed' = {} /\ closed' = FALSE
        /\ UNCHANGED table
        BY <2>1 DEF SessionEnds, driver
  <2>5. faults' \in 0..MaxFaults
        BY <1>8 DEF Leaves, ConnectionLost
  <2> QED BY <2>3, <2>4, <2>5
<1> QED BY <1>1, <1>2, <1>3, <1>4, <1>5, <1>6, <1>7, <1>8 DEF Next, Client

(* The calls, the busses, the tasks and the client have their types; no     *)
(* more methods run in threads than there are.                              *)
THEOREM CanTypeCorrect == Spec => []TypeOK
<1>1. Init => Rest /\ StateType /\ TaskLists
  <2> SUFFICES ASSUME Init PROVE Rest /\ StateType /\ TaskLists
      OBVIOUS
  <2>1. Threads = {} /\ Cardinality(Threads) <= MaxThreads
    <3>1. Threads = {}
          BY DEF Init, CallInit, Threads, Running
    <3> QED BY <3>1, FS_EmptySet, CallAssumption
  <2>2. CallTypeOK
        BY <2>1, AnswersTyped DEF Init, CallInit, CallTypeOK
  <2>3. Rest
    <3>1. /\ phase = "open" /\ table = {} /\ op = "idle" /\ todo = {} /\ listed = {}
          /\ closed = FALSE /\ faults = 0
          BY DEF Init, NewClient
    <3>2. 0 \in 0..MaxFaults
          BY CanAssumption
    <3> QED BY <2>2, <3>1, <3>2 DEF Rest
  <2>4. StateType /\ TaskLists
        BY CanAssumption, AnswersTyped DEF Init, CallInit, NewClient, StateType, TaskLists, ListedAreStopped,
           Pending, Fresh, Session, Task
  <2> QED BY <2>3, <2>4
<1>2. Rest /\ StateType /\ TaskLists /\ [Next]_vars => (Rest /\ StateType /\ TaskLists)'
      BY RestStep, TypeStep, TaskListsStep
<1>3. Rest /\ StateType /\ TaskLists => TypeOK
      BY DEF Rest, StateType, TaskLists, TypeOK
<1> QED BY <1>1, <1>2, <1>3, PTL DEF Spec
=============================================================================
