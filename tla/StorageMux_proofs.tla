-------------------------- MODULE StorageMux_proofs --------------------------
(***************************************************************************)
(* What a write that runs alone finds and leaves, for any size of image,   *)
(* number of calls and of threads, and however late the host follows.      *)
(***************************************************************************)
EXTENDS StorageMux, FiniteSetTheorems, TLAPS

StateType == /\ method \in [Call -> Exported \cup Other]
             /\ stage \in [Call -> {"sent", "running", "answered"}]
             /\ answer \in [Call -> Answers]
             /\ gone \in [Call -> BOOLEAN] /\ raced \in [Call -> BOOLEAN]
             /\ path \in {"absent", "empty", "device", "leaving", "created", "file"}
             /\ medium \in [Block -> Call \cup {"old"}]
             /\ next \in [Call -> {"select", "exists", "probe", "sleep", "open", "copy"}]
             /\ file \in [Call -> {"none", "device", "leaving", "file", "lost"}]
             /\ position \in [Call -> 0..Size]
             /\ misled \in [Call -> BOOLEAN]

(* A method that did not race is the only one that runs. *)
Alone == \A c, d \in Call : stage[c] = "running" /\ stage[d] = "running" /\ ~raced[c] => c = d

(* Every method begins anew. *)
Fresh == \A c \in Call : /\ stage[c] # "running" => next[c] = "select"
                         /\ next[c] # "copy" => position[c] = 0

(* The storage stays with the host from the switch on, what is opened is    *)
(* the storage, and what was written is on it.                              *)
Keeps(c) == /\ next[c] # "select" => mux = "host" /\ path \in {"absent", "empty", "device"}
            /\ next[c] \in {"open", "copy"} => path = "device"
            /\ next[c] = "copy" => /\ file[c] = "device"
                                   /\ \A b \in Block : b <= position[c] => medium[b] = c

Undisturbed(c) == stage[c] = "running" /\ ~raced[c] /\ ~misled[c]

Inv == /\ StateType /\ Alone /\ Fresh
       /\ \A c \in Call : Undisturbed(c) => Keeps(c)

LEMMA AnswersTyped == \A status : Raised(status) \in Answers
BY DEF Raised, Answers

LEMMA InitInv == Init => Inv
<1> SUFFICES ASSUME Init PROVE Inv
    OBVIOUS
<1>1. StateType
      BY StorageAssumption DEF Init, CallInit, StateType, Answers
<1>2. Alone /\ Fresh /\ \A c \in Call : ~Undisturbed(c)
      BY DEF Init, CallInit, Alone, Fresh, Undisturbed
<1> QED BY <1>1, <1>2 DEF Inv

(* The steps of a method, by what they do to its call. *)
Leaves(c) == /\ stage[c] = "running"
             /\ stage' = [stage EXCEPT ![c] = "answered"]
             /\ \E a \in Answers : answer' = [answer EXCEPT ![c] = a]
             /\ UNCHANGED <<method, gone, raced>>
             /\ Closes(c)
             /\ UNCHANGED medium /\ (UNCHANGED path \/ path' = "leaving")

LEMMA EndsLeaves ==
  ASSUME NEW c \in Call, NEW outcome, Ends(c, outcome), UNCHANGED medium, UNCHANGED path \/ path' = "leaving"
  PROVE  Leaves(c)
BY AnswersTyped DEF Ends, Return, Answer, Leaves, Answers

LEMMA LeavesKeeps == ASSUME Inv, NEW c \in Call, Leaves(c) PROVE Inv'
<1> USE DEF Inv, Leaves, Closes
<1>1. StateType'
      BY StorageAssumption DEF StateType
<1>2. Alone' /\ Fresh'
      BY DEF StateType, Alone, Fresh
<1>3. \A d \in Call : ~Undisturbed(d)'
      BY DEF StateType, Alone, Undisturbed
<1> QED BY <1>1, <1>2, <1>3

LEMMA MarkTyped ==
  ASSUME NEW marks \in [Call -> BOOLEAN], NEW c \in Call, NEW x, NEW S,
         NEW marks2, marks2 = [marks EXCEPT ![c] = x \in S]
  PROVE  marks2 \in [Call -> BOOLEAN]
OBVIOUS

LEMMA MarkSet ==
  ASSUME NEW marks \in [Call -> BOOLEAN], NEW c \in Call, NEW x, NEW S,
         NEW marks2, marks2 = [marks EXCEPT ![c] = x \in S]
  PROVE  marks2[c] = (x \in S)
OBVIOUS

LEMMA InvStep == Inv /\ [Next]_vars => Inv'
<1> SUFFICES ASSUME Inv, [Next]_vars PROVE Inv'
    OBVIOUS
<1> USE DEF Inv, StateType, Alone, Fresh, Keeps, Undisturbed
<1>1. ASSUME NEW c \in Call, Sends(c) PROVE Inv'
  <2>1. /\ stage[c] = "answered" /\ stage' = [stage EXCEPT ![c] = "sent"]
        /\ method' \in [Call -> Exported \cup Other]
        /\ answer' = [answer EXCEPT ![c] = "none"]
        /\ gone' = [gone EXCEPT ![c] = FALSE] /\ raced' = [raced EXCEPT ![c] = FALSE]
        /\ UNCHANGED <<mux, path, next, file, position, misled>>
        BY <1>1 DEF Sends, Send, writes
  <2>2. /\ medium' \in [Block -> Call \cup {"old"}]
        /\ \A b \in Block : medium[b] # c => medium'[b] = medium[b]
        BY <1>1 DEF Sends
  <2>3. StateType' /\ Alone' /\ Fresh'
        BY <2>1, <2>2 DEF Answers
  <2>4. ASSUME NEW d \in Call, Undisturbed(d)' PROVE Keeps(d)'
        BY <2>1, <2>2, <2>4
  <2> QED BY <2>3, <2>4
<1>2. ASSUME NEW c \in Call, Enter(c), UNCHANGED <<storage, writes>> PROVE Inv'
  <2>1. /\ stage[c] = "sent" /\ stage' = [stage EXCEPT ![c] = "running"]
        /\ \A d \in Call : raced'[d] <=> raced[d] \/ (d = c /\ Running # {}) \/ d \in Running
        /\ raced' \in [Call -> BOOLEAN]
        /\ UNCHANGED <<method, answer, gone, mux, path, medium, next, file, position, misled>>
        BY <1>2 DEF Enter, storage, writes
  <2>2. Alone'
        BY <2>1 DEF Running
  <2> QED BY <2>1, <2>2 DEF Running
<1>3. ASSUME NEW c \in Call, Cancel(c), UNCHANGED <<storage, writes>> PROVE Inv'
      BY <1>3 DEF Cancel, storage, writes, Answers
<1>4. ASSUME NEW c \in Call, Selects(c) \/ SelectFails(c) \/ TimesOut(c) \/ ResourceFails(c)
                             \/ CopyFails(c) \/ CopyEnds(c) \/ Cancelled(c)
      PROVE  Inv'
  <2>1. CASE Cancelled(c)
        BY <1>4, <2>1, LeavesKeeps DEF Cancelled, Interrupt, Leaves, Answers, storage
  <2>2. CASE ~Cancelled(c)
        BY <1>4, <2>2, EndsLeaves, LeavesKeeps DEF Selects, Switch, SelectFails, TimesOut, ResourceFails,
           CopyFails, CopyEnds, storage
  <2> QED BY <2>1, <2>2
<1>5. ASSUME NEW c \in Call, WriteSelects(c) PROVE Inv'
  <2>1. /\ stage[c] = "running" /\ next[c] = "select"
        /\ mux' = "host"
        /\ path' = path
        /\ \E step \in {"exists", "probe"} : next' = [next EXCEPT ![c] = step]
        /\ misled' = [misled EXCEPT ![c] = path \in {"leaving", "created", "file"}]
        /\ UNCHANGED <<callVars, medium, file, position>>
        BY <1>5 DEF WriteSelects, At, Switch, Looks, Goes
  <2>2. misled' \in [Call -> BOOLEAN] /\ (~misled'[c] => path \in {"absent", "empty", "device"})
    <3>1. misled' \in [Call -> BOOLEAN] /\ misled'[c] = (path \in {"leaving", "created", "file"})
          BY <2>1, MarkTyped, MarkSet
    <3> QED BY <3>1
  <2>3. \A d \in Call : d # c => misled'[d] = misled[d] /\ next'[d] = next[d]
        BY <2>1
  <2>4. StateType' /\ Alone' /\ Fresh'
        BY <2>1, <2>2 DEF callVars
  <2>5. ASSUME NEW d \in Call, Undisturbed(d)' PROVE Keeps(d)'
    <3>1. d = c
          BY <2>1, <2>5 DEF callVars
    <3>2. next'[c] \in {"exists", "probe"}
          BY <2>1
    <3> QED BY <2>1, <2>2, <2>5, <3>1, <3>2
  <2> QED BY <2>4, <2>5
<1>6. ASSUME NEW c \in Call, Exists(c) \/ Probe(c) \/ Wakes(c) PROVE Inv'
  <2>1. CASE Probe(c) /\ path = "absent"
    <3>1. Ends(c, "Exception") /\ UNCHANGED <<medium, path>>
          BY <2>1 DEF Probe, storage
    <3> QED BY <3>1, EndsLeaves, LeavesKeeps
  <2>2. CASE ~(Probe(c) /\ path = "absent")
    <3>1. /\ stage[c] = "running" /\ next[c] \notin {"select", "open", "copy"}
          /\ \E step \in {"exists", "probe", "sleep", "open"} :
               /\ next' = [next EXCEPT ![c] = step]
               /\ step = "open" => path \notin {"absent", "empty", "created"}
          /\ UNCHANGED <<callVars, mux, path, medium, file, position, misled>>
          BY <1>6, <2>2 DEF Exists, Probe, Wakes, At, Goes, storage
    <3> QED BY <3>1 DEF callVars
  <2> QED BY <2>1, <2>2
<1>7. ASSUME NEW c \in Call, Opens(c) PROVE Inv'
  <2>1. CASE path = "empty"
    <3>1. Ends(c, "Exception") /\ UNCHANGED <<medium, path>>
          BY <1>7, <2>1 DEF Opens
    <3> QED BY <3>1, EndsLeaves, LeavesKeeps
  <2>2. CASE path # "empty"
    <3>1. /\ stage[c] = "running" /\ next[c] = "open"
          /\ next' = [next EXCEPT ![c] = "copy"]
          /\ \/ path \in {"device", "leaving"} /\ file' = [file EXCEPT ![c] = path] /\ path' = path
             \/ path \notin {"device", "leaving"} /\ file' = [file EXCEPT ![c] = "file"] /\ path' = "created"
          /\ UNCHANGED <<callVars, mux, medium, position, misled>>
          BY <1>7, <2>2 DEF Opens, At
    <3>2. position[c] = 0 /\ \A b \in Block : ~(b <= 0)
          BY <3>1, StorageAssumption DEF Block
    <3> QED BY <3>1, <3>2 DEF callVars
  <2> QED BY <2>1, <2>2
<1>8. ASSUME NEW c \in Call, Copies(c) PROVE Inv'
  <2>1. /\ stage[c] = "running" /\ next[c] = "copy"
        /\ position[c] \in Nat /\ position[c] < Size /\ position[c] + 1 \in Block
        /\ position' = [position EXCEPT ![c] = position[c] + 1]
        /\ medium' = IF Reached(c) THEN [medium EXCEPT ![position[c] + 1] = c] ELSE medium
        /\ path' = IF file[c] = "file" THEN "file" ELSE path
        /\ UNCHANGED <<callVars, next, file, misled, mux>>
        BY <1>8, StorageAssumption DEF Copies, At, Block
  <2>2. StateType' /\ Alone' /\ Fresh'
        BY <2>1, StorageAssumption DEF callVars
  <2>3. ASSUME NEW d \in Call, Undisturbed(d)' PROVE Keeps(d)'
    <3>1. d = c /\ Undisturbed(c)
          BY <2>1, <2>3 DEF callVars
    <3>2. Reached(c) /\ file[c] = "device"
          BY <2>1, <3>1 DEF Reached
    <3>3. \A b \in Block : b <= position[c] + 1 => b <= position[c] \/ b = position[c] + 1
          BY <2>1 DEF Block
    <3>4. \A b \in Block : b <= position'[c] => medium'[b] = c
          BY <2>1, <3>1, <3>2, <3>3
    <3> QED BY <2>1, <3>1, <3>2, <3>4
  <2> QED BY <2>2, <2>3
<1>9. CASE Vanishes
      BY <1>9 DEF Vanishes, callVars
<1>10. CASE Appears
      BY <1>10 DEF Appears, callVars, writes
<1>11. CASE UNCHANGED vars
      BY <1>11 DEF vars, callVars, storage, writes
<1> QED BY <1>1, <1>2, <1>3, <1>4, <1>5, <1>6, <1>7, <1>8, <1>9, <1>10, <1>11 DEF Next, Write

(* A write that runs alone and finds nothing else at the storage's path     *)
(* has its whole image on the storage when it returns without an error.     *)
THEOREM WritesAreWhole == Spec => WritesStorage
<1>1. Inv /\ [Next]_vars =>
        [\A c \in Call : At(c, "write", "copy") /\ stage'[c] = "answered" /\ answer'[c] = "ok" =>
           raced[c] \/ misled[c] \/ \A b \in Block : medium'[b] = c]_vars
  <2> SUFFICES ASSUME Inv, Next, NEW c \in Call, At(c, "write", "copy"), ~raced[c], ~misled[c],
                      stage'[c] = "answered", answer'[c] = "ok", NEW b \in Block
               PROVE  medium'[b] = c
      OBVIOUS
  <2> USE DEF Inv, StateType, At
  <2>1. stage[c] = "running" /\ \A d \in Call : stage[d] = "running" => d = c
        BY DEF Alone
  <2>2. CopyEnds(c)
    <3>1. \A d \in Call : ~Sends(d) /\ ~Enter(d) /\ ~Cancel(d)
          BY DEF Sends, Send, Enter, Cancel
    <3>2. ASSUME NEW d \in Call, NEW outcome \in {"Exception", "TimeoutError"}, Ends(d, outcome) PROVE FALSE
          BY <2>1, <3>2 DEF Ends, Return, Answer, Status, Raised
    <3>3. \A d \in Call : ~Cancelled(d)
          BY <2>1 DEF Cancelled, Interrupt
    <3>4. \A d \in Call : /\ ~SelectFails(d) /\ ~TimesOut(d) /\ ~ResourceFails(d) /\ ~CopyFails(d)
                          /\ ~Selects(d) /\ ~WriteSelects(d) /\ ~Exists(d) /\ ~Probe(d) /\ ~Wakes(d) /\ ~Opens(d)
          BY <2>1, <3>2 DEF SelectFails, TimesOut, ResourceFails, CopyFails, Selects, WriteSelects, Exists, Probe, Wakes, Opens
    <3>5. /\ ~Vanishes /\ ~Appears /\ \A d \in Call : ~Copies(d)
          BY <2>1 DEF Vanishes, Appears, Copies, callVars
    <3> QED BY <2>1, <3>1, <3>3, <3>4, <3>5 DEF Next, Write, CopyEnds
  <2>3. position[c] = Size /\ medium' = medium
        BY <2>2 DEF CopyEnds, storage
  <2> QED BY <2>1, <2>3, StorageAssumption DEF Block, Undisturbed, Keeps
<1> QED BY <1>1, InitInv, InvStep, PTL DEF Spec, WritesStorage

(* A write creates a file in the storage's place only if another method ran *)
(* next to it or it found something else there.                             *)
THEOREM NoFileInItsPlace == Spec => NoStrayFile
<1>1. Inv /\ [Next]_vars =>
        [path = "absent" /\ path' = "created" =>
           \E c \in Call : At(c, "write", "open") /\ (raced[c] \/ misled[c])]_vars
  <2> SUFFICES ASSUME Inv, Next, path = "absent", path' = "created"
               PROVE  \E c \in Call : At(c, "write", "open") /\ (raced[c] \/ misled[c])
      OBVIOUS
  <2>1. PICK c \in Call : Opens(c)
        BY DEF Next, Sends, Selects, Switch, SelectFails, Write, WriteSelects, Exists, Probe, Wakes, Opens, Copies,
           CopyFails, CopyEnds, Cancelled, TimesOut, ResourceFails, Vanishes, Appears, storage
  <2> QED BY <2>1 DEF Opens, At, Inv, StateType, Undisturbed, Keeps
<1> QED BY <1>1, InitInv, InvStep, PTL DEF Spec, NoStrayFile
-----------------------------------------------------------------------------
(* A step makes at most one thread run more, when one is free.              *)
ThreadStep == \/ Threads' \subseteq Threads
              \/ \E c \in Call : Threads' \subseteq Threads \cup {c} /\ Cardinality(Threads) < MaxThreads

LEMMA ThreadsLimited == Cardinality(Threads) <= MaxThreads /\ ThreadStep => Cardinality(Threads') <= MaxThreads
<1> SUFFICES ASSUME Cardinality(Threads) <= MaxThreads, ThreadStep PROVE Cardinality(Threads') <= MaxThreads
    OBVIOUS
<1>1. IsFiniteSet(Threads) /\ Cardinality(Threads) \in Nat /\ MaxThreads \in Nat
      BY CallAssumption, FS_Subset, FS_CardinalityType DEF Threads, Running
<1>2. CASE Threads' \subseteq Threads
      BY <1>1, <1>2, FS_Subset, FS_CardinalityType
<1>3. ASSUME NEW c \in Call, Threads' \subseteq Threads \cup {c}, Cardinality(Threads) < MaxThreads
      PROVE  Cardinality(Threads') <= MaxThreads
  <2>1. /\ IsFiniteSet(Threads \cup {c}) /\ Cardinality(Threads \cup {c}) \in Nat
        /\ Cardinality(Threads \cup {c}) <= Cardinality(Threads) + 1
    <3>1. /\ IsFiniteSet(Threads \cup {c})
          /\ Cardinality(Threads \cup {c}) = IF c \in Threads THEN Cardinality(Threads) ELSE Cardinality(Threads) + 1
          BY <1>1, FS_AddElement
    <3> QED BY <1>1, <3>1
  <2>2. Cardinality(Threads') \in Nat /\ Cardinality(Threads') <= Cardinality(Threads \cup {c})
        BY <1>3, <2>1, FS_Subset, FS_CardinalityType
  <2> QED BY <1>1, <1>3, <2>1, <2>2
<1> QED BY <1>2, <1>3 DEF ThreadStep

(* What Inv leaves out. *)
Rest == /\ Cardinality(Threads) <= MaxThreads
        /\ board \in {"dutlink", "sdwire"} /\ mux \in {"host", "dut", "off"}
        /\ faults \in 0..MaxFaults

LEMMA RestStep == StateType /\ Rest /\ [Next]_vars => Rest'
<1> SUFFICES ASSUME StateType, Rest, [Next]_vars PROVE Rest'
    OBVIOUS
<1>1. ThreadStep
  <2> USE DEF ThreadStep, Threads, Running, StateType
  <2>1. CASE UNCHANGED callVars
        BY <2>1 DEF callVars
  <2>2. ASSUME NEW c \in Call, Sends(c) \/ Enter(c) \/ Cancel(c) PROVE ThreadStep
    <3>1. CASE Sends(c)
      <4>1. Threads' \subseteq Threads
            BY <3>1 DEF Sends, Send
      <4> QED BY <4>1
    <3>2. CASE Enter(c)
      <4>1. CASE method[c] \in Coroutines
        <5>1. Threads' \subseteq Threads
              BY <3>2, <4>1 DEF Enter
        <5> QED BY <5>1
      <4>2. CASE method[c] \notin Coroutines
            BY <3>2, <4>2 DEF Enter
      <4> QED BY <4>1, <4>2
    <3>3. CASE Cancel(c)
      <4>1. Threads' \subseteq Threads
            BY <3>3 DEF Cancel
      <4> QED BY <4>1
    <3> QED BY <2>2, <3>1, <3>2, <3>3
  <2>3. ASSUME NEW c \in Call, NEW outcome, Return(c, outcome) PROVE ThreadStep
        BY <2>3 DEF Return, Answer
  <2>4. ASSUME NEW c \in Call, Interrupt(c) PROVE ThreadStep
        BY <2>4 DEF Interrupt
  <2>5. ASSUME NEW c \in Call,
               Selects(c) \/ SelectFails(c) \/ Write(c) \/ TimesOut(c) \/ ResourceFails(c)
        PROVE  UNCHANGED callVars \/ Interrupt(c) \/ \E outcome \in {"ok", "Exception", "TimeoutError"} : Return(c, outcome)
        BY <2>5 DEF Selects, SelectFails, Write, WriteSelects, Looks, Exists, Probe, Wakes, Opens, Copies, CopyFails,
           CopyEnds, Cancelled, TimesOut, ResourceFails, Ends, Goes
  <2> QED BY <2>1, <2>2, <2>3, <2>4, <2>5 DEF Next, vars, Vanishes, Appears
<1>2. /\ board' \in {"dutlink", "sdwire"} /\ mux' \in {"host", "dut", "off"}
      /\ faults' \in 0..MaxFaults
      BY StorageAssumption DEF Rest, Next, vars, storage, Sends, Selects, Switch, SelectFails, Write, WriteSelects,
         Exists, Probe, Wakes, Opens, Copies, CopyFails, CopyEnds, Cancelled, TimesOut, ResourceFails, Vanishes, Appears
<1> QED BY <1>1, <1>2, ThreadsLimited DEF Rest

(* The calls, the board and the writes have their types; no more methods    *)
(* run in threads than there are.                                           *)
THEOREM StorageTypeCorrect == Spec => []TypeOK
<1>1. Init => Rest
  <2> SUFFICES ASSUME Init PROVE Rest
      OBVIOUS
  <2>1. Threads = {}
        BY DEF Init, CallInit, Threads, Running
  <2>2. Cardinality(Threads) <= MaxThreads
        BY <2>1, FS_EmptySet, CallAssumption
  <2> QED BY <2>2, StorageAssumption DEF Init, Rest
<1>2. Inv /\ Rest /\ [Next]_vars => (Inv /\ Rest)'
      BY InvStep, RestStep DEF Inv
<1>3. Inv /\ Rest => TypeOK
      BY DEF Inv, StateType, Rest, TypeOK, CallTypeOK
<1> QED BY <1>1, <1>2, <1>3, InitInv, PTL DEF Spec
=============================================================================
