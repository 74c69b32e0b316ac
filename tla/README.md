# Models of Jumpstarter

Jumpstarter gives a client exclusive use of remote hardware. An *exporter* runs
next to the hardware, with a tree of *drivers*. A *client* leases the exporter
from a *controller*, dials it, and talks to the drivers through a *router* that
joins the two ends of a connection. This directory has TLA+ modules for the
parts of the program whose steps interleave, fail or wait, the configurations
that check them with TLC, and theorems about the most important ones, proved
with TLAPS.

Each definition is translated from the source; `PROJECT.json` ("map") names the
lines of every definition. Code outside this repository (the controller's leases,
the network, the host's handling of USB devices) is modelled from how the code
uses it and is marked external there.

## 1. The system

| Component | Source | State it keeps | Operations |
|---|---|---|---|
| Exporter | `exporter/exporter.py` | its registration, the Listen call, the current session | register, listen, handle a token, back off, unregister |
| Session | `exporter/session.py` | the driver tree, a map from uuid to driver, a local gRPC server | reset, serve, GetReport, DriverCall, StreamingDriverCall, Stream, close |
| Driver base | `driver/base.py`, `driver/decorators.py` | children, resources | look-up and call of an exported method, stream, resource, enumerate, reset, close |
| Controller | `conftest.py` (its test double) | a queue of tokens; leases | Register, Dial, Listen, RequestLease, GetLease, ReleaseLease |
| Router | `conftest.py` (its test double), `streams/router.py` | the ends that wait for their peer, by token | Stream |
| Client lease | `client/lease.py` | the name of its lease | request, poll, release, connect |
| Client core | `client/core.py`, `client/base.py`, `client/client.py` | the tree of driver clients | build the tree, call, stream, resource |
| Stream copying | `streams/common.py`, `common/streams.py` | two copying tasks, memory buffers | copy, forward |
| Adapters | `client/adapters/*` | a listener or an upload task | OpenDAL, port forward, noVNC, pexpect, Fabric |
| Configs | `config/*`, `cli/client.py`, `cli/exporter.py` | a directory of client configs, the user config, exporter configs | create, use, delete, list, shell, run |
| Drivers | `drivers/*`, `contrib/*` | a mux, a socket, a bus, a child process | host/dut/off/write, start/stop/send/recv, ... |

**How they interact.** `Lease.handle_async` calls Dial; the controller queues a
token and answers with it. The exporter's Listen call delivers tokens one at a
time; for each the exporter builds a fresh driver tree, serves it on a local
socket, and opens its end of the token at the router, as the client does. The
router copies between the two ends. Over that connection the client asks for the
report of the tree, builds one client object per driver, and makes driver calls,
streaming calls and streams. Synchronous driver methods run in worker threads,
coroutines and generators on the event loop. A resource is a stream the client
opens so that a driver method can read it while the method's own call is under way.
A port that an adapter forwards turns each local connection into a Stream call; the
noVNC adapter puts a websocket between the browser and that call. A driver object
lives as long as its session, the hardware and the threads that use it may outlive
it: the next session meets what the last one left.

**What is hard in it.**

- *Ordering and overlap*: the two ends of a connection arrive in any order and
  leave at any time; tokens wait in the queue and in the Listen call while a
  session is served; sessions follow each other on the same hardware.
- *Failure in between*: an exception in `device_factory`, `reset`, `serve` or
  `close` leaves some of the cleaning up undone and the loop starts over.
- *Cancellation*: a stop reaches the exporter at any await; a worker thread is
  not reached by it, nor a plain generator while it computes.
- *Two directions on one resource*: each copying task closes what the other still
  uses, and replies one direction makes are taken by the other.
- *What outlives its owner*: periodic tasks, receives without a timeout, streaming
  calls whose loop was left.
- *Suppressed errors*: `copy_stream` turns a broken source, a call that breaks and a
  socket that is reset into an ordinary end.
- *Time limits and expiry*: leases are awaited with a time limit and run out
  unnoticed.
- *Files*: configs are emptied, then written; commands are interrupted between
  two files.
- *Hardware that follows late*: a mux is switched in one call and the host
  notices afterwards.

What makes each part correct is stated by the properties in section 4; the
hazards behind them are listed one by one in `PROJECT.json`.

## 2. Modules

| Module | Models |
|---|---|
| `Connections` | the names shared by the modules of the client-exporter path |
| `DialQueue` | a token's way from Dial to the exporter: the controller's bounded queue, live and stale Listen calls |
| `Router` | the ends of each connection at the router, which waits for which, which are joined |
| `Exporter` | the exporter's task phase by phase, its driver trees and servers; extends `DialQueue` and `Router` |
| `Tunnel` | the clients and the whole path; extends `Exporter` |
| `DeviceAccess` | abstract: users get the devices one at a time, at most once each |
| `WholeStream` | abstract: what is read of a stream was sent before, nothing after the end, and the end comes behind the last chunk unless the stream was given up |
| `Lease` | LeaseRequest scopes, the controller's lease states, `release --all` |
| `ResourceTransfer` | `write_local_file`: file, client copy, wire, session copy, memory stream, driver loop; implements `WholeStream` |
| `PortForward` | one forwarded connection: two copies in the client, two in the session, the device; its two halves implement `WholeStream` |
| `Websocket` | a connection of the noVNC adapter: wsproto's state, the queue of replies, two copies, the port |
| `Adapters` | the two adapters that forward a port: extends `PortForward` and `Websocket`, `kind` says which |
| `ReportTree` | enumerate and client_from_channel |
| `StreamingCalls` | streaming calls through the client's tree to its driver, the exporter's generators and the user's loops; extends `ReportTree`, implements `WholeStream` |
| `DriverCall` | calls of exported methods: threads, cancellation, exceptions and what the client gets |
| `IsoTpSocket` | the ISO-TP socket driver's methods; extends `DriverCall` |
| `CanBus` | the Can driver and its CanClient over several sessions on one channel; extends `DriverCall` |
| `StorageMux` | host, dut, off and write of the SDWire and Dutlink boards; extends `DriverCall` |
| `ClientConfig` | the client and user configs and the commands that change them, one file operation at a time |
| `ExporterConfig` | the exporter configs and the commands of `jmp-exporter`, one file operation at a time |
| `Configs` | the two together: extends both, `side` says which |
| `*_proofs` | theorems, see section 5 |
| `MC*` | constants for TLC |

How state corresponds to the code, where it is not obvious:

- `Exporter.phase` is the await at which the exporter's single task is, and
  `after` where it goes once `__exit__` has closed the session. `tree[u]` is
  the life of the driver tree made for `u`: `built` by `device_factory`,
  `entered` by `reset`, `halfclosed` when a `close` raised, `closed`. `server[c]`
  is `orphan` when `server.stop` was skipped.
- `DialQueue` keeps tokens in three places: the controller's queue, the Listen
  call being read, and stale Listen handlers that the controller has not seen end.
- `Router.rpc[c]` is the set of ends whose Stream call is open; `joined` those for
  which `forward_stream` was entered.
- In `ResourceTransfer` and `PortForward` all hops keep the order of chunks, so a
  hop is a number and "the data is whole" is an equation between numbers.
- In `PortForward`, `broken` says that the router, the network or the session is breaking
  the call: chunks may still get through until an end notices. A copy whose source
  breaks or is reset closes its destination like one whose source has ended, and `conn`
  and `device` keep whether a connection was closed by its copy or reset by its peer.
- In `Websocket`, `ws` is the state wsproto keeps, `queue` the memory stream between
  `send` and `receive`, `held` the reply that `send` has got from wsproto and waits to
  put there: wsproto has changed its state by then. `port` is the task group of the
  whole port, which fails with any of its connections.
- In `StreamingCalls` a generator is `async`, which waits off the event loop, `plain`,
  which waits to be resumed, or `busy`, a plain one that computes and so holds the
  event loop of its session. `lost` is the `__anext__` that goes on in the client's
  portal after the user's thread was interrupted. `held` is the client the user has come to from
  the root of the client's tree, child by child, and `place` a history variable: the driver
  at the same place of the exporter's tree. `serving` is what the session's mapping finds.
- In `CanBus` a driver's `table` is `_send_tasks` by uuid and `listed` the client's
  `_periodic_tasks`; `known` are the tasks the user holds. There is one bus per
  session, `open` until `shutdown` or until nothing refers to it. `interface` is what
  python-can's interfaces differ in: whether a second bus can be opened on the channel
  (`shared`, `exclusive`), and whether periodic tasks are threads or, on `socketcan`, orders
  to the kernel (`InKernel`). This is external code, modelled as python-can 4 does it: a
  thread's task ends when its bus refuses to send; the kernel's tasks end when their
  sockets are closed, which `shutdown` and the collection of a bus do. A task started on
  a bus that was shut is `late`: in the kernel it opens a socket of its own and sends, or
  fails (`PeriodicFails`). A call takes the first free place of `Call`; its user makes one
  at a time.
- In `StorageMux` the host's view of the storage (`path`) follows the mux later:
  `leaving` until it is removed, `empty` until its medium is found. A write that
  opens an absent path has `created` a regular file.
- In `ClientConfig` a file is `absent`, `empty` (opened for writing) or `whole`; `step`
  is the next file operation of a command. `create --out` writes a file outside of the
  directory, without a check or a count (`Export`); a path given by hand that is a
  client's own file is left out. In `ExporterConfig` it can also be `broken`,
  by the user's editor.
- In `IsoTpSocket`, `sock` is `unbound` after a bind that failed: no method but `stop`
  is of use then. `failed` is a history variable: the calls to which the socket itself has
  failed.
- `DriverCall.raced` is a history variable: the method ran next to another one.
  `StorageMux.misled` is one too: the write began when something other than the
  storage was at its path. So is `CanBus.silenced`: the sessions whose client's
  `shutdown` has returned.
- Definitions commented "Mutant of ..." are not used by the specifications: each
  is a plausible bug, and substituting it makes the property it belongs to fail.

## 3. Bounds

Every bound is a constant of the configuration: `MaxFaults`, `MaxInterrupts` and
`MaxCommandCuts` limit failures, `QueueSize`, `WireSize`, `MemorySize`, `Buffered` and
`Window` the buffers, `MaxChunks`, `MaxMessages`, `MaxResults`, `FileSize` and `Size` the
data, `MaxThreads` the worker threads, `MaxSessions` and `MaxTasks` what `CanBus` starts,
and `Conn`, `Call`, `Request`, `Node`, `Name`, `Alias` are small sets.

- *tunnel*: three connections let one be served, one wait in the Listen call and
  one block on the queue of size one; one failure at any of about fifteen places,
  and a stop at any await. The theorems cover every number of each. The liveness
  run has two connections, one patient and one not, because it takes one client
  to block another.
- *lease*: two requests for one exporter are needed for a lease to be granted
  while another scope still holds an expired one; two failed calls cover one in a
  scope and one in the sweep.
- *transfer*: buffers of two and a file of four, so that every hop is at its limit and
  is empty in some state; two failures, so that one can hit the cleaning up after
  another.
- *forward*: three chunks each way through a wire of two, with a reset of either peer and a
  break of the call at any step; for a browser a queue of two
  replies and any number of pings, so that the queue fills, and two messages, so that
  one can follow another and a close.
- *calltree*: all trees of four drivers under two names, in every order of children:
  chains and siblings of both names are among them, and a name that occurs at two
  places. Then two calls through a client of it with one result each and a flow control
  window of one: a result under way, one that waits for the window, and one call that
  holds the event loop while the other is left. `MCInit` numbers parents before their
  children and fixes one name: every other tree differs from one of these in the
  names of things only.
- *config*: three clients, so that delete has a choice of the next one, and two
  exporters, so that a command can meet what another left; one command at a time, with
  two interrupts.
- *calls*: three calls on two threads: one place for a stop, one for a start and
  one that waits, with two failures: a bind and a transfer on a bound socket, or two binds.
- *storage*: two calls, images of two blocks and one failure; both boards.
- *can*: all three kinds of interface; two sessions, so that one can find the channel taken by the other; two calls,
  so that an interrupted one goes on next to another, and two tasks; one interrupt or
  lost connection.

`CHECK_DEADLOCK FALSE` is set where the system really comes to rest: all clients are
done or the exporter's process has ended, the leases are over, a transfer or connection
is, the calls of a tree were made, the last session has ended. What must not be waited
for for ever there is stated by liveness properties. `config`, `calls` and `storage`
check for deadlock: a next command or call is always possible.

## 4. Runs

| Run | Specification | Shows |
|---|---|---|
| `tunnel` | `Tunnel!Spec` | sessions never overlap; ends that are both there are joined; no token is lost without a failure; a ready client talks to its own session; reachable servers have their devices; each failure leaks at most one tree; only a registered exporter serves; a stop is final unless `close` raises; all of it implements `DeviceAccess` |
| `tunnel_live` | `FairSpec` | a patient client that dials is served unless a failure, a stop or a client that gave up intervened; a back-off ends in a new Listen; a stop ends the process |
| `tunnel_abandoned` | `FairSpec` | *violation*: one client that gives up between Dial and the exporter's arrival blocks all later sessions |
| `lease` | `LeaseFairSpec` | a holder was granted its lease and no two hold live ones; a scope that ends cleanly leaves no live lease; a successful `release --all` leaves none of those it listed; a Ready reply is taken; waits end |
| `transfer` | `FairSpec` | a write that returns is whole unless the file could not be read; the way from the file to the driver implements `WholeStream`; without failures it returns; client and handler always end |
| `transfer_whole` | `Spec` | *violation*: a file that cannot be read to its end is written in part and the call succeeds |
| `forward` | `AdapterSpec` | request and answer implement `WholeStream`: each is closed behind its last chunk unless it was cut short (`CutShort`, below); every end and every break closes everything; a browser gets the acceptance first, the device gets its messages in order, none lost or twice, and behind them only the close frame of `aclose`; replies are stuck only behind a device that stays silent |
| `calltree` | `MCSpec` | the client's tree equals the exporter's; a call reaches the driver at its client's place in the tree; loops implement `WholeStream`, so one that ends without an error had every result; the generator of a loop that was left is closed |
| `config` | `ConfigsSpec` | the current client can be loaded at every step; between commands there is one if there are clients and no command was interrupted; no `jmp-exporter` command touches a config it cannot read |
| `calls` | `Spec` | the ISO-TP socket settles absent, bound, or as a failed bind left it; a method that ran alone gets no unknown error unless the socket itself failed to it |
| `storage` | `Spec` | a write that ran alone, and did not begin while the storage was being removed, is whole on the storage when it returns, and leaves no file in its place |
| `can` | `FairSpec` | after a client's `shutdown` no task sends that its session started before it, also one whose start was interrupted; of those a thread starts only afterwards none sends but in the kernel; the tasks on its list can be stopped; the channel becomes free unless something was left on it |

The two violations are findings about the code; `PROJECT.json` quotes the sentences of
the documentation they disagree with. More observations come from preconditions the
properties need:

- A lease may run out while its scope goes on, and another scope may then be granted
  the exporter: both hold, one lease is alive (`HolderWasGranted`). The client never asks
  again.
- `WritesStorage` and `NoStrayFile` except writes that began while the storage was
  being removed (`misled`). In those, the size check can pass on the old device
  and the second open create a regular file at the path; the write then succeeds,
  and later writes find that file. `dut()` followed directly by `write()` is enough.
- `config` keeps to names without a dot. `from_file` cuts a name at its first dot
  (`Stem`), so after `jmp client use a.b` the current client is `a`.
- An interrupted `jmp-exporter create` leaves an empty file on which `list`, `edit`,
  `delete` and a second `create` fail; only removing it by hand helps
  (`UnreadableIsKept` says that this loses nothing, too).
- The noVNC handler leaves a websocket that `forward_stream` has closed already; the
  second close raises, and with it the whole port ends (`HandlerRaises`). So a port
  serves until its first connection is over.
- A forwarded half is cut short (`CutShort`) when the adapter is left, the call breaks or
  a peer resets; the request also when the device refuses or ends first; the answer also
  when the end of the request has closed the device before its answer was read, because
  `forward_stream` closes both ways: a user who sends an end of stream and waits for the
  answer may not get all of it. In none of these cases are the user and the device told:
  the suppressed error makes the end look ordinary (`ClientDownEnds`, `SessionUpEnds`).
- `aclose` of the websocket writes its close frame to the device, not to the browser.
- Replies to a browser's pings wait in the queue while the copy that takes them waits
  for the device; with the queue full the other direction waits too
  (`RepliesArrive`, its case `DeviceSilent`).
- `Can` has no `close`. On an interface that admits one bus, a periodic task whose
  client never called `shutdown`, or a `recv` without a timeout, keeps the channel, and
  the exporter cannot build the next session's drivers (`ChannelIsFreed`).
- On socketcan, a periodic task that a left call starts after the client's `shutdown`
  goes on sending from the kernel, and nobody knows its uuid: it ends with its session
  (`Silenced`, its case `late`; `ChannelIsFreed`, its second half).
- On socketcan, `bus.shutdown` closes the sockets of the periodic tasks, and the client's
  `shutdown`, which stops the tasks on its list afterwards, is raised out of half-way
  (`SocketClosed`).
- A plain generator that computes for ever holds the event loop of the exporter;
  nothing of any session of it is closed meanwhile (`LeftIsClosed`, its case
  `~LoopFree`).

**Fairness.** The exporter's task, the copying tasks, the controller's Listen handler
and the router's handlers are asyncio tasks: one that can run is eventually run,
hence weak fairness of each task's steps. The same goes for the two copies of a
websocket and for the clean-up of its handler. The client's steps `OpenRouter`, `Ready`,
`Close` and `SeeLoss` are weakly fair: code between two awaits continues, and a user
eventually leaves a session. A client's Dial is not fair: nobody has to dial.
`Lease.StopWaiting` is strongly fair: `fail_after(300)` fires at one of the sleeps of a
loop that goes in and out of them, however often the poll is repeated. In `PortForward` a connection attempt ends and a break or a cancellation is noticed
by the copies and by the session's handler: connections that are lost without anybody noticing
are left out. In `CanBus` the
methods that do not wait for a frame end, a task notices that its bus is shut, what
nothing refers to is collected, and the exporter tries a session again. In
`StreamingCalls` the two event loops run and collect. Nothing is assumed of failures, of
a stop, of a client's patience, of the network, of a user who may stop asking for
results, of a generator that may never have one, of a frame that may never come, or of
the device and the browser.

## 5. Proofs

| Theorem | States |
|---|---|
| `Tunnel_proofs!TypeCorrect` | `TypeOK` |
| `Tunnel_proofs!LiveSessionIsUnique` | `OneLiveSession` |
| `Tunnel_proofs!EndsMeet` | `NoMissedRendezvous` |
| `Tunnel_proofs!OwnSession` | `TalksToOwnSession` |
| `Tunnel_proofs!ServersHaveDevices` | `ServerHasDevices` |
| `Tunnel_proofs!ServesRegistered` | `ServesOnlyRegistered` |
| `Tunnel_proofs!LeaksAreFaults` | `LeaksNeedFailures` |
| `Tunnel_proofs!StopsForGood` | `StopIsFinal` |
| `Tunnel_proofs!NobodyIsForgotten` | `DialAccounted` |
| `Tunnel_proofs!TokensOnce` | a token is in one place at a time |
| `Tunnel_proofs!ImplementsAccess` | `Tunnel` implements `DeviceAccess` |
| `Commands_proofs!HoldersWereGranted`, `ExitsClean`, `SweepsAll`, `ReadyTaken` | `HolderWasGranted`, `CleanExit`, `SweepComplete`, `ReadyIsTaken` |
| `Commands_proofs!CurrentCanBeLoaded`, `CurrentIsSet`, `UnreadableStays` | `CurrentExists`, `ClientsHaveCurrent`, `UnreadableIsKept` |
| `Commands_proofs!LeaseTypeCorrect`, `ClientConfigTypeCorrect`, `ExporterConfigTypeCorrect` | the three type invariants |
| `ResourceTransfer_proofs!SuccessIsWhole` | `SuccessIsComplete` |
| `ResourceTransfer_proofs!FileArrivesWhole` | `ResourceTransfer` implements `WholeStream` (`FlashIsWhole`) |
| `PortForward_proofs!HalvesArriveWhole`, `EndsAreWhole` | `PortForward` implements `WholeStream` (`HalvesAreWhole`), and `EndIsWhole` of its halves at every moment |
| `PortForward_proofs!AcceptanceComesFirst`, `MessagesInOrder` | `HandshakeFirst`, `OnlyMessages` |
| `StreamingCalls_proofs!TreeIsTheSame`, `CallsReachTheirDriver` | `SameTree`, `ItsDriver` |
| `StreamingCalls_proofs!LoopsAreWhole` | `StreamingCalls` implements `WholeStream` (`ResultsAreWhole`) |
| `IsoTpSocket_proofs!Settles`, `UnknownIsARace` | `SettlesUsable`, `UnknownNeedsRace` |
| `CanBus_proofs!ShutdownSilences`, `ListIsStoppable` | `Silenced`, `ListedAreStopped` |
| `StorageMux_proofs!WritesAreWhole`, `NoFileInItsPlace` | `WritesStorage`, `NoStrayFile` |
| `TransferTypeCorrect`, `PortTypeCorrect`, `WebsocketTypeCorrect`, `TreeTypeCorrect`, `StreamTypeCorrect`, `SocketTypeCorrect`, `CanTypeCorrect`, `StorageTypeCorrect` | the type invariants of the modules they are about, with the limits of buffers, queues and worker threads |

The theorems hold for every set of connections, calls, requests, names and aliases,
every size of a buffer and every number of failures that the constants' assumptions
admit; those assumptions are stated next to the constants and evaluated by TLC on every
run. `CurrentCanBeLoaded` and `CurrentIsSet` assume two things more, which are
true of the run: one command at a time (`OneAtATime`) and no name with a dot (`NoDots`);
without the one two commands undo each other's work, without the other the current
client is not the one that was chosen.

*Tunnel.* Mutual exclusion is not inductive by itself: it says nothing about the
exporter's phase. `SessionInv` adds for whom the exporter works in each phase
(`WorksFor`) and that a tree is entered exactly while its session is open
(`OpenIsEntered`); then two entered trees are both the current one's.
`EndsMeet` needs an invariant of the router alone: who is pending, who is joined and
which calls are open. `TalksToOwnSession` and the two theorems after it add that the
exporter's end exists only while forwarding (`ExporterEndInv`), when a server runs
(`ServerInv`), and when the controller knows the exporter (`RegisteredInv`). The steps
that leave the exporter's session alone are treated together, as `Elsewhere`.

*Refinement.* A step of `DeviceAccess` opens a session only for a user without one.
So no token may be handled twice: `TokenInv` says that the tokens on their way are
distinct, that none of them has a tree yet and that nobody has an undialed one. Each
kind of step is then mapped to opening, closing or a stutter.

*Failures and stops.* `LeaksAreFaults` is a count: a step adds at most one tree to
`Leaked`, and only a failure adds one. For `StopIsFinal`, `StopInv` says where a stopped
exporter can be (unregistering, closing on the way there, or gone, unless a tree is
`halfclosed`), and a half-closed tree stays so. `DialAccounted` needs to know all that
cannot happen while nothing fails: the exporter does not back off and has one Listen
call that loses nothing (`CalmExporter`), no end leaves the router before its client has
(`CalmRouter`), so a session is forwarded until its client leaves (`CalmSession`).

*Leases.* A poll decides on a reply that may be old: what stays true of a reply that
said ready is that the lease was granted, though it may be over (`Granted`, `Sees`).
`ReadyTaken` needs that no reply has two conditions of one type.

*Transfers and ports.* What was read equals what was written plus what is under way
(`Conserved`, `InOrder`); what is hard is what an end means. `EndsInOrder`, `RequestEnds`
and `AnswerEnds` say that the end of a stream is behind its last chunk at every hop,
unless the hop was ended for another reason, and list those. With that each step maps to a
step of `WholeStream` or a stutter: a chunk is sent, is read, or an end arrives.

*Websocket.* `Handshake` follows the
acceptance from wsproto to the queue to the browser and says that it is the first of
everything on that way (`Unanswered`). For `MessagesInOrder`, `Passing` says that
while the call is open the device has had the first messages, and that those in the inbox
follow on them without a gap (`Pending`, `Follows`); the close frame of `aclose` ends that
for good.

*Driver tree and streaming calls.* The tree is any finite set of drivers in which every
branch comes to the root (`IsTree`). While `enumerate` runs, the drivers listed and the
children of listed drivers that wait on the stack are apart, and no driver is listed after
its child (`Enumerating`, `Listed`); while the reports are collected, the graph has the
children whose reports were read, and what is left contains the children of what it
contains (`Collecting`), so that a report that starts its driver's list anew forgets
nothing; every client that is built has its children's (`Building`). That the root's client
then has every driver below it (`WholeTree`) is where it matters that a set of drivers
without a way to the root is empty. `WalkInv` says that the client the user holds is that
of the driver at `place`, and that the calls are served by that one. For the loops, what a
generator has yielded is what is in the user's hands, in the pipe or lost to a break, and
a call whose status is OK has lost nothing.

*Configs.* Each command is followed by what it has made sure of at each step (`Creates`,
`Uses`, `Deletes`), and while nothing was interrupted, by what is missing and why
(`Calm`). `Knows` says the same of a command of `jmp-exporter` and its file.

*ISO-TP socket.* `InHand` says that a socket which is neither absent, bound nor left by a failed bind has
the method that will put it right about to do so. The second theorem needs to know
what a method that runs alone finds: `Alone` says that it is the only one running and
that `sock` is what its last step left (`Expects`).

*Threads.* `Cardinality(Threads) <= MaxThreads` needs that each step adds at most one
thread, and only when one is free (`ThreadStep`, `ThreadsLimited`), in each of the three
modules that extend `DriverCall`.

*CAN bus.* A client that has returned from `shutdown` has had the answer of the driver's
`shutdown`, and a bus that is shut stays shut (`ShutBusses`): a task that runs there was
started later, and only the kernel sends for it. For the list, `TaskLists` says that no call of `stop` that is under way, also one
nobody waits for any more, is about a task on the list or one that is just coming back
from its start (`Fresh`).

*Storage.* An invariant of the writes that are `Undisturbed`: since they selected the host
the mux has stayed there and the path can only become the storage, what they opened is the
storage, and the blocks up to their position are theirs (`Keeps`).

Only model-checked: the liveness properties (`ServedUnlessAbandoned`, `Recovers`,
`StopEnds`, `WaitEnds`, `Completes`, `TransferEnds`, `ClosedBothWays`, `RepliesArrive`,
`LeftIsClosed`, `ChannelIsFreed`), because fairness and ENABLED are beyond the prover, and
`EveryDialServed` and `WritesTheFile`, which the code violates. Every safety property and
every refinement of the passing runs is a theorem.

## 6. Not modelled

- Presigned resources, which aiohttp transfers without the session.
- `IsoTpPython`, which hands every call to a third-party stack.
- How the driver of a board finds it at start, and Dutlink's power readings: searches
  and conversions over what the host lists, without steps that interleave.
- The shell's task group and the exporter's own process management: `tunnel` has their
  effect, a client that leaves and an exporter that is stopped at any await.
- Frames of a browser that are no websocket frames, and TLS.
- Periodic CAN tasks with a modifier: a thread of the client that calls `send`.
- The pexpect and Fabric adapters, a port forward each with a third-party client on top.
- Serial, video and GPIO drivers, conversion of values, output and argument parsing,
  generated protocol code, documentation and packaging: input and output without
  decisions of their own.

## 7. Plan

1. Done: the client-exporter path (`Tunnel` and below) with its abstract specification;
   leases; transfers; forwarded ports and the websocket; the tree and streaming calls
   through it, with `WholeStream` above all that carries a stream; calls and three stateful
   drivers; both kinds of configs. All type invariants and safety properties and all
   refinements are proved.
2. Next in the model: the search for a board at start, as a function checked against
   what it should find; several connections of one port with their shared task group; an
   abstract CAN channel that `CanBus` implements.
3. Next in the proofs: that channel's refinement; the configs without `OneAtATime`, as far
   as they hold; the websocket's messages as a stream of `WholeStream`.
