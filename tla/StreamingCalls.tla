---------------------------- MODULE StreamingCalls ----------------------------
(***************************************************************************)
(* Streaming calls through a client's tree: the user reaches the client of *)
(* a driver by the names on its path and iterates over a method's results. *)
(* AsyncDriverClient.streamingcall_async sends the driver's uuid, Session  *)
(* and Driver.StreamingDriverCall iterate over the driver's generator.     *)
(*                                                                         *)
(* An asynchronous generator waits off the event loop of the session; a    *)
(* plain one runs on it and holds it while it computes a result.           *)
(***************************************************************************)
EXTENDS ReportTree

CONSTANTS Call,         \* the loops of the user
          MaxResults,   \* bound on the results of a generator
          Window        \* results under way, by the flow control of gRPC

ASSUME StreamAssumption == MaxResults \in Nat /\ Window \in Nat \ {0}

VARIABLES held,      \* the client the user has, by its driver's uuid
          place,     \* history: the driver at the same place in the exporter's tree
          serving,   \* the driver the session serves it with
          gen,       \* its generator: see Generators
          yielded,   \* its results so far
          pipe,      \* those on their way to the client
          rpc,       \* the call as its client sees it
          user,      \* "idle", "asking", "holding", "left", "ended", "raised"
          got,       \* the results the user got
          lost       \* __anext__ runs on after an interrupt

server == <<serving, gen, yielded>>
wire == <<pipe, rpc>>
client == <<user, got, lost>>
spot == <<held, place>>
streaming == <<spot, server, wire, client>>

NoDriver == Nobody

(* Two kinds that wait to be resumed, a plain one that computes on the      *)
(* loop, and two ways to end: by itself, or by an error or a cancellation.  *)
Generators == {"none", "async", "plain", "busy", "done", "closed"}
Ended == {"done", "closed"}

StreamInit == /\ held = NoDriver /\ place = NoDriver
              /\ serving = [c \in Call |-> NoDriver]
              /\ gen = [c \in Call |-> "none"]
              /\ yielded = [c \in Call |-> 0]
              /\ pipe = [c \in Call |-> 0]
              /\ rpc = [c \in Call |-> "none"]
              /\ user = [c \in Call |-> "idle"]
              /\ got = [c \in Call |-> 0]
              /\ lost = [c \in Call |-> FALSE]

-----------------------------------------------------------------------------
(* client_from_channel returns the client that was built last. *)
Connects == /\ Built = Node /\ held = NoDriver
            /\ held' = last /\ place' = Root
            /\ UNCHANGED <<server, wire, client>>

(* client.children[label], before any call is made with it. *)
Follows(label) == /\ held # NoDriver /\ label \in DOMAIN clients[held]
                  /\ \A c \in Call : user[c] = "idle"
                  /\ held' = clients[held][label]
                  /\ place' = ByName(Children(place))[label]
                  /\ UNCHANGED <<server, wire, client>>

(* The user's loop: nothing is sent before its first result is asked for. *)
Iterate(c) == /\ held # NoDriver
              /\ user[c] = "idle"
              /\ user' = [user EXCEPT ![c] = "asking"]
              /\ rpc' = [rpc EXCEPT ![c] = "open"]
              /\ UNCHANGED <<spot, server, pipe, got, lost>>

Asks(c) == /\ user[c] = "holding"
           /\ user' = [user EXCEPT ![c] = "asking"]
           /\ UNCHANGED <<spot, server, wire, got, lost>>

Takes(c) == /\ user[c] = "asking" /\ pipe[c] > 0
            /\ pipe' = [pipe EXCEPT ![c] = @ - 1]
            /\ got' = [got EXCEPT ![c] = @ + 1]
            /\ user' = [user EXCEPT ![c] = "holding"]
            /\ UNCHANGED <<spot, server, rpc, lost>>

Over(c) == user[c] = "asking" /\ pipe[c] = 0 /\ rpc[c] \notin {"none", "open"}

(* Mutant of LoopEnds: every end of the call ends the loop quietly.         *)
LoopEndsQuietly(c) == /\ Over(c)
                      /\ user' = [user EXCEPT ![c] = "ended"]
                      /\ UNCHANGED <<spot, server, wire, got, lost>>

(* StopAsyncIteration ends the loop, another status is raised in it. *)
LoopEnds(c) == /\ Over(c)
               /\ user' = [user EXCEPT ![c] = IF rpc[c] = "OK" THEN "ended" ELSE "raised"]
               /\ UNCHANGED <<spot, server, wire, got, lost>>

(* The user breaks out of the loop, or is interrupted while portal.call     *)
(* waits: then __anext__ keeps the generator until it has a result.         *)
Leaves(c) == /\ user[c] \in {"holding", "asking"}
             /\ user' = [user EXCEPT ![c] = "left"]
             /\ lost' = [lost EXCEPT ![c] = user[c] = "asking"]
             /\ UNCHANGED <<spot, server, wire, got>>

LostResult(c) == /\ lost[c] /\ (pipe[c] > 0 \/ rpc[c] # "open")
                 /\ lost' = [lost EXCEPT ![c] = FALSE]
                 /\ pipe' = [pipe EXCEPT ![c] = IF @ > 0 THEN @ - 1 ELSE @]
                 /\ UNCHANGED <<spot, server, rpc, user, got>>

(* The generator is collected, and its call cancelled with it. *)
Dropped(c) == /\ user[c] = "left" /\ ~lost[c] /\ rpc[c] = "open"
              /\ rpc' = [rpc EXCEPT ![c] = "CANCELLED"]
              /\ UNCHANGED <<spot, server, pipe, client>>

-----------------------------------------------------------------------------
LoopFree == \A c \in Call : gen[c] # "busy"

Ends(c, outcome) == /\ gen' = [gen EXCEPT ![c] = outcome]
                    /\ rpc' = [rpc EXCEPT ![c] = IF @ # "open" THEN @
                                             ELSE IF outcome = "done" THEN "OK" ELSE "error"]

(* The method is a generator of either or has no marker of one. *)
Finds(c) == \/ Ends(c, "closed")
            \/ \E g \in {"async", "plain"} : gen' = [gen EXCEPT ![c] = g] /\ UNCHANGED rpc

(* Mutant of Looks: the driver is looked up by its name.                    *)
LooksByName(c) == /\ rpc[c] = "open" /\ gen[c] = "none" /\ LoopFree
                  /\ \E d \in Node : /\ \/ d = held
                                        \/ Root \notin {d, held} /\ name[d] = name[held]
                                     /\ serving' = [serving EXCEPT ![c] = d]
                  /\ Finds(c)
                  /\ UNCHANGED <<spot, yielded, pipe, client>>

(* Session's mapping by uuid, then the look-up of the method and its marker. *)
Looks(c) == /\ rpc[c] = "open" /\ gen[c] = "none" /\ LoopFree
            /\ serving' = [serving EXCEPT ![c] = held]
            /\ Finds(c)
            /\ UNCHANGED <<spot, yielded, pipe, client>>

(* A plain generator starts to compute, on the loop. *)
Computes(c) == /\ gen[c] = "plain" /\ LoopFree /\ pipe[c] < Window
               /\ gen' = [gen EXCEPT ![c] = "busy"]
               /\ UNCHANGED <<spot, serving, yielded, wire, client>>

Resumed(c) == \/ gen[c] = "busy"
              \/ gen[c] = "async" /\ LoopFree /\ pipe[c] < Window

Yields(c) == /\ Resumed(c) /\ yielded[c] < MaxResults
             /\ yielded' = [yielded EXCEPT ![c] = @ + 1]
             /\ pipe' = [pipe EXCEPT ![c] = IF rpc[c] = "open" THEN @ + 1 ELSE @]
             /\ gen' = [gen EXCEPT ![c] = IF @ = "busy" THEN "plain" ELSE @]
             /\ UNCHANGED <<spot, serving, rpc, client>>

(* It has no more results, or raises. *)
Stops(c) == /\ Resumed(c)
            /\ \E outcome \in Ended : Ends(c, outcome)
            /\ UNCHANGED <<spot, serving, yielded, pipe, client>>

(* Mutant of Closed: the handler of a plain generator is not cancelled.     *)
ClosedIfAsync(c) == /\ rpc[c] # "open" /\ gen[c] = "async" /\ LoopFree
                    /\ gen' = [gen EXCEPT ![c] = "closed"]
                    /\ UNCHANGED <<spot, serving, yielded, wire, client>>

(* The handler is cancelled where it waits, and the generators it iterates  *)
(* over are closed, or collected.                                           *)
Closed(c) == /\ rpc[c] # "open" /\ gen[c] \in {"async", "plain"} /\ LoopFree
             /\ gen' = [gen EXCEPT ![c] = "closed"]
             /\ UNCHANGED <<spot, serving, yielded, wire, client>>

(* The connection breaks: results under way may be lost with it. *)
Breaks(c) == /\ rpc[c] = "open"
             /\ rpc' = [rpc EXCEPT ![c] = "error"]
             /\ \E n \in 0..pipe[c] : pipe' = [pipe EXCEPT ![c] = n]
             /\ UNCHANGED <<spot, server, client>>

Loop(c) == Iterate(c) \/ Asks(c) \/ Takes(c) \/ LoopEnds(c) \/ Leaves(c) \/ LostResult(c) \/ Dropped(c)

Generator(c) == Looks(c) \/ Computes(c) \/ Yields(c) \/ Stops(c) \/ Closed(c)

StreamNext == \/ Connects \/ \E label \in Name : Follows(label)
              \/ \E c \in Call : Loop(c) \/ Generator(c) \/ Breaks(c)

sessionVars == <<vars, streaming>>

SessionInit == Init /\ StreamInit

SessionNext == \/ Next /\ UNCHANGED streaming
               \/ StreamNext /\ UNCHANGED vars

(* The two event loops run and collect what nothing refers to.  A user need *)
(* not go on with a loop, nor a generator give a result.                    *)
Fairness == \A c \in Call : /\ WF_sessionVars((LostResult(c) \/ Dropped(c)) /\ UNCHANGED vars)
                            /\ WF_sessionVars((Looks(c) \/ Closed(c)) /\ UNCHANGED vars)

SessionSpec == SessionInit /\ [][SessionNext]_sessionVars /\ Fairness
-----------------------------------------------------------------------------
Calls == {"none", "open", "OK", "error", "CANCELLED"}
Loops == {"idle", "asking", "holding", "left", "ended", "raised"}

StreamTypeOK == /\ held \in Node \cup {NoDriver} /\ place \in Node \cup {NoDriver}
                /\ serving \in [Call -> Node \cup {NoDriver}]
                /\ gen \in [Call -> Generators]
                /\ yielded \in [Call -> 0..MaxResults]
                /\ pipe \in [Call -> 0..Window]
                /\ got \in [Call -> 0..MaxResults]
                /\ rpc \in [Call -> Calls] /\ user \in [Call -> Loops]
                /\ lost \in [Call -> BOOLEAN]

(* A call is served by the driver that has its client's place in the tree   *)
(* of the exporter: through the enumeration, the reports, the client's graph   *)
(* and the session's mapping.                                               *)
ItsDriver == \A c \in Call : serving[c] # NoDriver => serving[c] = place

(* A loop is a stream of the generator's results: in the user's hands no    *)
(* result comes before it was yielded or after the end, and a loop that     *)
(* ends without an error has had every result of a generator that came to   *)
(* its own end, whatever broke or failed meanwhile.                         *)
Results == INSTANCE WholeStream WITH
             Stream <- Call,
             sent <- yielded,
             read <- got,
             finished <- {c \in Call : gen[c] = "done"},
             over <- {c \in Call : user[c] \in {"ended", "left", "raised"}},
             given <- {c \in Call : user[c] \in {"left", "raised"}}

ResultsAreWhole == Results!StreamSpec

Settled(c) == \/ gen[c] \in Ended
              \/ gen[c] = "none" /\ rpc[c] # "open"

(* A loop that was left has its generator closed in the exporter.  Not so   *)
(* as long as an interrupted __anext__ waits for a result, nor while any    *)
(* plain generator of the session holds the event loop.                     *)
LeftIsClosed == \A c \in Call : \/ <>[]lost[c]
                               \/ <>[]~LoopFree
                               \/ (user[c] = "left" ~> Settled(c))
=============================================================================
